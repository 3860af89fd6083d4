----------------------- MODULE LinuxConfiguratorProofs -----------------------
(****************************************************************************)
(* Proofs about LinuxConfigurator: the types of its variables; that a call  *)
(* which returns an error has left backends and panels untouched; that one  *)
(* which fails leaves the link as it found it.  Then that the address calls *)
(* implement AddressBook, and what follows from the same invariant: what is *)
(* persisted runs, the primary is protected, panels are told the truth.     *)
(* That invariant says, for each label of a call, how the interface and the *)
(* call's locals differ from the interface it found.                        *)
(****************************************************************************)
EXTENDS LinuxConfigurator, TLAPS

-----------------------------------------------------------------------------
(* Address lists *)

\* The index of an address that is in the list points at it.
LEMMA IndexOfType ==
    ASSUME NEW s \in Seq(Addr), NEW ip, Has(s, ip)
    PROVE  IndexOf(s, ip) \in DOMAIN s /\ s[IndexOf(s, ip)].ip = ip
  BY DEF Has, IndexOf

\* Removing an address leaves a list of addresses.
LEMMA WithoutType ==
    ASSUME NEW s \in Seq(Addr), NEW ip
    PROVE  Without(s, ip) \in Seq(Addr)
  <1>1. CASE ~Has(s, ip)
    BY <1>1 DEF Without
  <1>2. CASE Has(s, ip)
    <2> DEFINE i == IndexOf(s, ip)
    <2>1. i \in 1..Len(s)
      BY <1>2, IndexOfType
    <2>2. SubSeq(s, 1, i - 1) \in Seq(Addr) /\ SubSeq(s, i + 1, Len(s)) \in Seq(Addr)
      BY <2>1
    <2> QED
      BY <1>2, <2>2 DEF Without, RemoveAt
  <1> QED
    BY <1>1, <1>2

\* The code's own list, with an address written into it, is a list of addresses.
LEMMA ExtendedType ==
    ASSUME NEW s \in Seq(Addr), NEW a \in Addr
    PROVE  Extended(s, a) \in Seq(Addr)
  <1>1. CASE Has(s, a.ip)
    <2>1. IndexOf(s, a.ip) \in DOMAIN s
      BY <1>1, IndexOfType
    <2> QED
      BY <1>1, <2>1 DEF Extended
  <1>2. CASE ~Has(s, a.ip)
    BY <1>2 DEF Extended
  <1> QED
    BY <1>1, <1>2

\* A family has a place for one more address.
LEMMA PlacesType ==
    ASSUME NEW f, NEW s \in Seq(Addr)
    PROVE  Places(f, s) \subseteq 1 .. Len(s) + 1 /\ Places(f, s) # {}
  <1>1. Len(s) \in Nat
    OBVIOUS
  <1>2. CASE s = <<>>
    BY <1>2 DEF Places
  <1>3. CASE s # <<>>
    <2>1. Len(s) > 0
      BY <1>3
    <2>2. 2 \in 2 .. Len(s) + 1
      BY <1>1, <2>1
    <2> QED
      BY <1>1, <1>3, <2>1, <2>2 DEF Places
  <1> QED
    BY <1>2, <1>3

\* An inserted address is where it was put, and the others follow one another as before.
LEMMA InsertAtFacts ==
    ASSUME NEW s \in Seq(Addr), NEW a \in Addr, NEW k \in 1 .. Len(s) + 1
    PROVE  /\ InsertAt(s, k, a) \in Seq(Addr)
           /\ Len(InsertAt(s, k, a)) = Len(s) + 1
           /\ \A i \in 1 .. Len(s) + 1 :
                 InsertAt(s, k, a)[i] = IF i < k THEN s[i] ELSE IF i = k THEN a ELSE s[i - 1]
  <1> DEFINE before == SubSeq(s, 1, k - 1)
             after == SubSeq(s, k, Len(s))
  <1>1. Len(s) \in Nat /\ k \in Int /\ k >= 1 /\ k <= Len(s) + 1
    OBVIOUS
  <1>2. before \in Seq(Addr) /\ Len(before) = k - 1 /\ \A i \in 1..(k - 1) : before[i] = s[i]
    BY <1>1
  <1>3. /\ after \in Seq(Addr) /\ Len(after) = Len(s) - k + 1
        /\ \A i \in 1..(Len(s) - k + 1) : after[i] = s[k + i - 1]
    BY <1>1
  <1>4. /\ before \o <<a>> \in Seq(Addr) /\ Len(before \o <<a>>) = k
        /\ \A i \in 1..k : (before \o <<a>>)[i] = IF i < k THEN s[i] ELSE a
    <2> HIDE DEF before, after
    <2> QED
      BY <1>1, <1>2
  <1>5. InsertAt(s, k, a) = (before \o <<a>>) \o after
    BY DEF InsertAt
  <1> DEFINE upto == before \o <<a>>
  <1> HIDE DEF before, after, upto
  <1>6. upto \o after \in Seq(Addr) /\ Len(upto \o after) = Len(s) + 1
    BY <1>1, <1>3, <1>4 DEF upto
  <1>7. ASSUME NEW i \in 1 .. Len(s) + 1
        PROVE  (upto \o after)[i] = IF i < k THEN s[i] ELSE IF i = k THEN a ELSE s[i - 1]
    <2>1. CASE i <= k
      BY <1>1, <1>3, <1>4, <2>1 DEF upto
    <2>2. CASE i > k
      <3>1. (upto \o after)[i] = after[i - k] /\ i - k \in 1..(Len(s) - k + 1)
        BY <1>1, <1>3, <1>4, <2>2 DEF upto
      <3> QED
        BY <1>1, <1>3, <2>2, <3>1
    <2>3. i <= k \/ i > k
      BY <1>1
    <2> QED
      BY <2>1, <2>2, <2>3
  <1> QED
    BY <1>5, <1>6, <1>7 DEF upto

\* Writing an address, new or held, leaves a list of addresses.
LEMMA ReplacedType ==
    ASSUME NEW s \in Seq(Addr), NEW a \in Addr
    PROVE  \A list \in Replaced(s, a) : list \in Seq(Addr)
  <1>1. CASE Has(s, a.ip)
    <2>1. IndexOf(s, a.ip) \in DOMAIN s
      BY <1>1, IndexOfType
    <2> QED
      BY <1>1, <2>1 DEF Replaced
  <1>2. CASE ~Has(s, a.ip)
    <2>1. \A k \in Places(FamOf(a.ip), s) : InsertAt(s, k, a) \in Seq(Addr)
      BY PlacesType, InsertAtFacts
    <2> QED
      BY <1>2, <2>1 DEF Replaced
  <1> QED
    BY <1>1, <1>2

\* So does moving an address to the front.
LEMMA ReorderedType ==
    ASSUME NEW s \in Seq(Addr), NEW a \in Addr
    PROVE  Reordered(s, a) \in Seq(Addr)
  BY WithoutType DEF Reordered

\* A list's addresses are IPs.
LEMMA IPsOfType ==
    ASSUME NEW s \in Seq(Addr)
    PROVE  IPsOf(s) \subseteq IP
  <1>1. \A i \in DOMAIN s : s[i] \in Addr
    OBVIOUS
  <1>2. \A a \in Addr : a.ip \in IP
    BY DEF Addr
  <1> QED
    BY <1>1, <1>2 DEF IPsOf

-----------------------------------------------------------------------------
(* Type correctness *)

\* The restoring calls of RemoveAddress hold the address they took away.
TypeInv ==
    /\ TypeOK
    /\ pc \in {"remove", "testRemove", "putBack"} => Len(l.orig) = 1

\* Every address has one of the two families.
LEMMA FamOfType == \A ip : FamOf(ip) \in Fam
  BY DEF FamOf, Fam

\* Each netlink call leaves the kernel's state well typed.
LEMMA KernelCalls ==
    ASSUME KernelOK
    PROVE  /\ \A a \in Addr : AddrReplace(a) => KernelOK'
           /\ \A ip \in IP : AddrDel(ip) => KernelOK'
           /\ \A f \in Fam, g \in Gw \cup {Nil} : RouteSet(f, g) => KernelOK'
           /\ \A f \in Fam : RouteDel(f) => KernelOK'
           /\ LinkSetUp \/ LinkSetDown \/ UNCHANGED kernel => KernelOK'
  <1>1. ASSUME NEW a \in Addr, AddrReplace(a) PROVE KernelOK'
    <2>1. PICK list \in Replaced(addrs[FamOf(a.ip)], a) :
             addrs' = [addrs EXCEPT ![FamOf(a.ip)] = list]
      BY <1>1 DEF AddrReplace
    <2>2. list \in Seq(Addr)
      BY FamOfType, ReplacedType DEF KernelOK
    <2> QED
      BY <1>1, <2>1, <2>2, FamOfType DEF AddrReplace, KernelOK
  <1>2. ASSUME NEW ip \in IP, AddrDel(ip) PROVE KernelOK'
    <2>1. Without(addrs[FamOf(ip)], ip) \in Seq(Addr)
      BY FamOfType, WithoutType DEF KernelOK
    <2> QED
      BY <1>2, <2>1, FamOfType DEF AddrDel, KernelOK
  <1>3. ASSUME NEW f \in Fam, NEW g \in Gw \cup {Nil}, RouteSet(f, g) PROVE KernelOK'
    BY <1>3 DEF RouteSet, KernelOK
  <1>4. ASSUME NEW f \in Fam, RouteDel(f) PROVE KernelOK'
    BY <1>4 DEF RouteDel, KernelOK
  <1>5. LinkSetUp \/ LinkSetDown \/ UNCHANGED kernel => KernelOK'
    BY DEF LinkSetUp, LinkSetDown, kernel, KernelOK
  <1> QED
    BY <1>1, <1>2, <1>3, <1>4, <1>5

\* The variables of a call as they are before its first step.
LEMMA L0Type == L0 \in Locals
  BY DEF L0, Locals

\* The program starts well typed on every host.
LEMMA InitType == Init => TypeInv
  <1> SUFFICES ASSUME Init PROVE TypeInv
    OBVIOUS
  <1>1. KernelOK
    BY ConfiguratorAssumption DEF Init, KernelOK
  <1>2. Live \in Confs
    BY <1>1 DEF Live, Confs, KernelOK
  <1>3. RuntimeIPs \subseteq IP
    BY <1>1, IPsOfType DEF RuntimeIPs, KernelOK
  <1>4. disk \in [Backends -> Confs]
    BY <1>2 DEF Init
  <1>5. panel \in [Panels -> Beliefs]
    BY <1>3 DEF Init, Beliefs
  <1>6. (CHOOSE a \in Addr : TRUE) \in Addr
    <2>1. PICK ip \in IP, pfx \in Prefix : TRUE
      BY ConfiguratorAssumption
    <2>2. [ip |-> ip, pfx |-> pfx] \in Addr
      BY <2>1 DEF Addr
    <2>3. \E a \in Addr : TRUE
      BY <2>2
    <2> QED
      BY <2>3
  <1>7. req \in [op : {"none"}, addr : Addr, gw : {Nil}]
    BY <1>6 DEF Init
  <1>8. pre \in Pre
    BY <1>1, <1>4, <1>5 DEF Init, Pre, KernelOK
  <1>9. CallOK
    BY <1>7, <1>8, L0Type DEF Init, CallOK, Labels, Results
  <1> QED
    BY <1>1, <1>4, <1>5, <1>9 DEF TypeInv, TypeOK, StoresOK, Init

\* Every way a call returns early leaves its records well typed.
LEMMA ReturnType ==
    ASSUME TypeOK, NEW r \in Results, Return(r)
    PROVE  StoresOK' /\ CallOK' /\ pc' \in {"idle", "linkDown"}
  BY L0Type DEF TypeOK, Return, Frame, StoresOK, CallOK, Labels

\* So does every step inside a call that keeps its result open.
LEMMA RunType ==
    ASSUME TypeOK, Run, pc' \in Labels, l' \in Locals
    PROVE  StoresOK' /\ CallOK'
  BY DEF TypeOK, Run, Frame, StoresOK, CallOK

\* A call begins with the world recorded in pre.
LEMMA BeginType ==
    ASSUME TypeOK, NEW op, Begin(op), pc' \in Labels, l' \in Locals, ret' \in Results
    PROVE  TypeOK' /\ req'.op = op /\ req' \in Requests
  <1>1. KernelOK' /\ StoresOK'
    BY DEF TypeOK, Begin, KernelOK, StoresOK
  <1>2. pre' \in Pre
    BY DEF TypeOK, Begin, KernelOK, StoresOK, Pre
  <1>3. req' \in Requests /\ req'.op = op
    BY DEF Begin
  <1>4. CallOK'
    BY <1>2, <1>3 DEF TypeOK, Begin, CallOK
  <1> QED
    BY <1>1, <1>3, <1>4 DEF TypeOK

\* Each action keeps the types: the calls that begin.
LEMMA BeginsType ==
    ASSUME TypeInv, AddAddress \/ SetPrimaryAddress \/ RemoveAddress
    PROVE  TypeInv'
  <1>1. CASE AddAddress
    <2>1. pc' \in {"idle", "linkUp"} /\ l' \in Locals /\ ret' \in Results
      BY <1>1, L0Type DEF AddAddress, Refuse, Proceed, Results
    <2>2. TypeOK'
      BY <1>1, <2>1, BeginType DEF AddAddress, TypeInv, Labels
    <2> QED
      BY <2>1, <2>2 DEF TypeInv
  <1>2. CASE SetPrimaryAddress
    <2> DEFINE s == addrs[FamOf(req'.addr.ip)]
               ip == req'.addr.ip
    <2>1. req' \in Requests
      BY <1>2 DEF SetPrimaryAddress, Begin
    <2>2. req'.addr \in Addr
      BY <2>1 DEF Requests
    <2>3. s \in Seq(Addr) /\ gw \in [Fam -> Gw \cup {Nil}] /\ addrs \in [Fam -> Seq(Addr)]
      BY FamOfType DEF TypeInv, TypeOK, KernelOK
    <2>4. Has(s, ip) => Promoted \in Locals
      <3> SUFFICES ASSUME Has(s, ip) PROVE Promoted \in Locals
        OBVIOUS
      <3>1. s[IndexOf(s, ip)] \in Addr
        BY <2>3, IndexOfType
      <3>2. Reordered(s, req'.addr) \in Seq(Addr) /\ Reordered(s, s[IndexOf(s, ip)]) \in Seq(Addr)
        BY <2>2, <2>3, <3>1, ReorderedType
      <3>3. [addrs EXCEPT ![FamOf(ip)] = Reordered(s, req'.addr)] \in [Fam -> Seq(Addr)]
        BY <2>3, <3>2
      <3>4. gw[FamOf(ip)] \in Gw \cup {Nil}
        BY <2>3, FamOfType
      <3> QED
        BY <2>3, <3>2, <3>3, <3>4, L0Type DEF Promoted, Captured, Locals
    <2>5. l' \in Locals /\ pc' \in {"idle", "persist", "delete"} /\ ret' \in Results
      BY <1>2, <2>4, L0Type DEF SetPrimaryAddress, Refuse, Proceed, Results
    <2>6. TypeOK'
      BY <1>2, <2>5, BeginType DEF SetPrimaryAddress, TypeInv, Labels
    <2> QED
      BY <2>5, <2>6 DEF TypeInv
  <1>3. CASE RemoveAddress
    <2> DEFINE ip == req'.addr.ip
               f == FamOf(ip)
               s == addrs[f]
               begun == [L0 EXCEPT
                          !.list = [addrs EXCEPT ![f] = Without(s, ip)],
                          !.gws = Captured,
                          !.orig = IF Has(s, ip) THEN <<s[IndexOf(s, ip)]>> ELSE <<>>]
    <2>1. s \in Seq(Addr) /\ gw \in [Fam -> Gw \cup {Nil}] /\ addrs \in [Fam -> Seq(Addr)]
      BY FamOfType DEF TypeInv, TypeOK, KernelOK
    <2>2. [addrs EXCEPT ![f] = Without(s, ip)] \in [Fam -> Seq(Addr)]
      BY <2>1, WithoutType
    <2>3. (IF Has(s, ip) THEN <<s[IndexOf(s, ip)]>> ELSE <<>>) \in Seq(Addr)
      BY <2>1, IndexOfType
    <2>4. begun \in Locals /\ (Has(s, ip) => Len(begun.orig) = 1)
      BY <2>1, <2>2, <2>3, L0Type DEF L0, Captured, Locals
    <2>5. \/ l' = L0 /\ pc' = "idle" /\ ret' = "refused"
          \/ /\ l' = begun /\ ret' = "running"
             /\ pc' = IF Has(s, ip) THEN "remove" ELSE "release"
      BY <1>3 DEF RemoveAddress, Refuse, Proceed
    <2>6. l' \in Locals /\ pc' \in Labels /\ ret' \in Results
      BY <2>4, <2>5, L0Type DEF Labels, Results
    <2>7. TypeOK'
      BY <1>3, <2>6, BeginType DEF RemoveAddress, TypeInv
    <2> QED
      BY <2>4, <2>5, <2>7 DEF TypeInv
  <1> QED
    BY <1>1, <1>2, <1>3

\* The loops only move their index on.
LEMMA LoopIndexType ==
    ASSUME TypeOK
    PROVE  /\ l.i \in Nat \ {0} /\ l.orig \in Seq(Addr)
           /\ l.fam \in Seq(Addr) /\ l.order \in Seq(Addr)
           /\ [l EXCEPT !.i = @ + 1] \in Locals /\ [l EXCEPT !.i = 1] \in Locals
  <1>1. l \in Locals
    BY DEF TypeOK, CallOK
  <1>2. l.i \in Nat \ {0}
    BY <1>1 DEF Locals
  <1>3. l.i + 1 \in Nat \ {0} /\ 1 \in Nat \ {0}
    BY <1>2
  <1>4. \A k \in Nat \ {0} : [l EXCEPT !.i = k] \in Locals
    BY <1>1 DEF Locals
  <1> QED
    BY <1>1, <1>2, <1>3, <1>4 DEF Locals

\* The steps of AddAddress.
LEMMA AddStepsType ==
    ASSUME TypeInv,
           LinkDown \/ EnsureLinkUp \/ WriteAddress \/ ScanRoutes \/ ScanFails
             \/ AddGateway \/ TestAdd \/ UndoAdd \/ RestoreAddress \/ RestoreRoute
    PROVE  TypeInv'
  <1> USE DEF Goto
  <1>0. /\ TypeOK /\ KernelOK /\ l \in Locals /\ F \in Fam /\ "error" \in Results
        /\ addrs \in [Fam -> Seq(Addr)] /\ gw \in [Fam -> Gw \cup {Nil}]
        /\ req.addr \in Addr /\ req.addr.ip \in IP
        /\ req.gw \in Gw \cup {Nil, Zero}
    <2>1. req.addr \in Addr /\ req.gw \in Gw \cup {Nil, Zero}
      BY DEF TypeInv, TypeOK, CallOK, Requests
    <2> QED
      BY <2>1, FamOfType DEF TypeInv, TypeOK, KernelOK, CallOK, F, Addr, Results
  <1>00. ASSUME Fails PROVE TypeInv'
    BY <1>0, <1>00, ReturnType, KernelCalls DEF Fails, TypeInv, TypeOK
  <1>1. CASE LinkDown
    BY <1>0, <1>1, RunType, L0Type, KernelCalls DEF LinkDown, TypeInv, TypeOK, Labels
  <1>2. CASE EnsureLinkUp
    <2>1. CASE Fails
      BY <1>00, <2>1
    <2>2. CASE Run /\ pc' = "write" /\ l' \in {l, [l EXCEPT !.raised = TRUE]}
               /\ (LinkSetUp \/ UNCHANGED kernel)
      <3>1. l' \in Locals
        BY <1>0, <2>2 DEF Locals
      <3> QED
        BY <1>0, <2>2, <3>1, RunType, KernelCalls DEF TypeInv, TypeOK, Labels
    <2> QED
      BY <1>2, <2>1, <2>2 DEF EnsureLinkUp
  <1>3. CASE WriteAddress
    <2>1. CASE Fails
      BY <1>00, <2>1
    <2>2. CASE Return("refused") /\ UNCHANGED kernel
      BY <1>0, <2>2, ReturnType, KernelCalls DEF TypeInv, TypeOK, Results
    <2>3. CASE /\ AddrReplace(req.addr)
               /\ l' = [l EXCEPT !.exists = Has(addrs[F], req.addr.ip),
                                 !.orig = Snapshot,
                                 !.list = [addrs EXCEPT ![F] = Extended(@, req.addr)]]
               /\ pc' = "routes" /\ Run
      <3>1. Snapshot \in Seq(Addr)
        BY <1>0 DEF Snapshot, Fam
      <3>2. [addrs EXCEPT ![F] = Extended(@, req.addr)] \in [Fam -> Seq(Addr)]
        BY <1>0, ExtendedType
      <3>3. Has(addrs[F], req.addr.ip) \in BOOLEAN
        BY DEF Has
      <3>4. l' \in Locals
        BY <1>0, <2>3, <3>1, <3>2, <3>3 DEF Locals
      <3> QED
        BY <1>0, <2>3, <3>4, RunType, KernelCalls DEF TypeInv, TypeOK, Labels
    <2> QED
      BY <1>3, <2>1, <2>2, <2>3 DEF WriteAddress
  <1>4. CASE ScanRoutes
    <2>1. KernelOK'
      BY <1>0, <1>4, KernelCalls DEF ScanRoutes
    <2>2. Wanted \in Gw \cup {Nil}
      BY <1>0 DEF Wanted
    <2>3. [Captured EXCEPT ![F] = Wanted] \in [Fam -> Gw \cup {Nil}] /\ gw[F] \in Gw \cup {Nil}
      BY <1>0, <2>2 DEF Captured
    <2>4. l' \in Locals /\ pc' \in {"persist", "gateway"} /\ Run
      BY <1>0, <1>4, <2>2, <2>3 DEF ScanRoutes, Locals, Captured
    <2> QED
      BY <1>0, <2>1, <2>4, RunType DEF TypeInv, TypeOK, Labels
  <1>5. CASE ScanFails
    BY <1>00, <1>5 DEF ScanFails
  <1>6. CASE AddGateway
    <2>1. CASE Fails
      BY <1>00, <2>1
    <2>2. l.gateway \in Gw \cup {Nil}
      BY <1>0 DEF Locals
    <2>3. CASE /\ l' \in {l, [l EXCEPT !.added = TRUE, !.gws[F] = l.gateway]}
               /\ RouteSet(F, l.gateway) \/ UNCHANGED kernel
               /\ pc' \in {"test", "persist"} /\ Run
      <3>1. l' \in Locals
        <4>1. l.gws \in [Fam -> Gw \cup {Nil}]
          BY <1>0 DEF Locals
        <4>2. [l.gws EXCEPT ![F] = l.gateway] \in [Fam -> Gw \cup {Nil}]
          BY <1>0, <2>2, <4>1
        <4> QED
          BY <1>0, <2>3, <4>2 DEF Locals
      <3>2. KernelOK'
        BY <1>0, <2>2, <2>3, KernelCalls
      <3> QED
        BY <1>0, <2>3, <3>1, <3>2, RunType DEF TypeInv, TypeOK, Labels
    <2> QED
      BY <1>6, <2>1, <2>3 DEF AddGateway
  <1>7. CASE TestAdd
    <2>1. l' \in Locals /\ pc' \in {"persist", "restore", "undoAdd"}
      BY <1>0, <1>7, LoopIndexType DEF TestAdd
    <2> QED
      BY <1>0, <1>7, <2>1, RunType, KernelCalls DEF TestAdd, TypeInv, TypeOK, Labels
  <1>8. CASE UndoAdd
    <2>1. CASE Fails
      BY <1>00, <2>1
    <2> QED
      BY <1>0, <1>8, <2>1, RunType, KernelCalls DEF UndoAdd, TypeInv, TypeOK, Labels
  <1>9. CASE RestoreAddress
    <2>1. CASE Fails
      BY <1>00, <2>1
    <2>2. CASE /\ l.i <= Len(l.orig) /\ AddrReplace(l.orig[l.i])
               /\ l' = [l EXCEPT !.i = @ + 1] /\ UNCHANGED pc /\ Run /\ pc = "restore"
      <3>1. l.orig[l.i] \in Addr /\ l' \in Locals
        <4>1. l.i \in 1..Len(l.orig)
          BY <1>0, <2>2, LoopIndexType
        <4> QED
          BY <1>0, <2>2, <4>1, LoopIndexType
      <3> QED
        BY <1>0, <2>2, <3>1, RunType, KernelCalls DEF TypeInv, TypeOK, Labels
    <2>3. CASE l.i > Len(l.orig) /\ pc' = "restoreRoute" /\ UNCHANGED <<l, kernel>> /\ Run
      BY <1>0, <2>3, RunType, KernelCalls DEF TypeInv, TypeOK, Labels
    <2> QED
      BY <1>9, <2>1, <2>2, <2>3 DEF RestoreAddress
  <1>10. CASE RestoreRoute
    <2>1. CASE Fails
      BY <1>00, <2>1
    <2>2. CASE Return("aborted") /\ (RouteSet(F, l.origGw) \/ RouteDel(F))
      <3>1. l.origGw \in Gw \cup {Nil}
        BY <1>0 DEF Locals
      <3> QED
        BY <1>0, <2>2, <3>1, ReturnType, KernelCalls DEF TypeInv, TypeOK, Results
    <2> QED
      BY <1>10, <2>1, <2>2 DEF RestoreRoute
  <1> QED
    BY <1>1, <1>2, <1>3, <1>4, <1>5, <1>6, <1>7, <1>8, <1>9, <1>10

\* The steps of SetPrimaryAddress.
LEMMA PrimaryStepsType ==
    ASSUME TypeInv, DeleteNext \/ InsertNext \/ Reroute \/ RerouteFails \/ TestPrimary
    PROVE  TypeInv'
  <1> USE DEF Goto
  <1>0. /\ TypeOK /\ KernelOK /\ l \in Locals /\ F \in Fam
        /\ "error" \in Results /\ "aborted" \in Results
        /\ l.i \in Nat /\ l.i # 0
    BY FamOfType, LoopIndexType DEF TypeInv, TypeOK, CallOK, F, Results
  <1>00. ASSUME Fails PROVE TypeInv'
    BY <1>0, <1>00, ReturnType, KernelCalls DEF Fails, TypeInv, TypeOK
  <1>1. CASE DeleteNext
    <2>1. CASE Fails
      BY <1>00, <2>1
    <2>2. CASE /\ l.i <= Len(l.fam) /\ AddrDel(l.fam[l.i].ip)
               /\ l' = [l EXCEPT !.i = @ + 1] /\ pc = "delete" /\ UNCHANGED pc /\ Run
      <3>1. l.fam[l.i] \in Addr
        BY <1>0, <2>2, LoopIndexType
      <3>2. l.fam[l.i].ip \in IP
        BY <3>1 DEF Addr
      <3> QED
        BY <1>0, <2>2, <3>2, LoopIndexType, RunType, KernelCalls DEF TypeInv, TypeOK, Labels
    <2>3. CASE l' = [l EXCEPT !.i = 1] /\ pc' = "insert" /\ UNCHANGED kernel /\ Run
      BY <1>0, <2>3, LoopIndexType, RunType, KernelCalls DEF TypeInv, TypeOK, Labels
    <2> QED
      BY <1>1, <2>1, <2>2, <2>3 DEF DeleteNext
  <1>2. CASE InsertNext
    <2>1. CASE Fails
      BY <1>00, <2>1
    <2>2. CASE /\ l.i <= Len(l.order) /\ AddrReplace(l.order[l.i])
               /\ l' = [l EXCEPT !.i = @ + 1] /\ pc = "insert" /\ UNCHANGED pc /\ Run
      <3>1. l.order[l.i] \in Addr
        BY <1>0, <2>2, LoopIndexType
      <3> QED
        BY <1>0, <2>2, <3>1, LoopIndexType, RunType, KernelCalls DEF TypeInv, TypeOK, Labels
    <2>3. CASE l' = [l EXCEPT !.i = 1] /\ pc' = "reroute" /\ UNCHANGED kernel /\ Run
      BY <1>0, <2>3, LoopIndexType, RunType, KernelCalls DEF TypeInv, TypeOK, Labels
    <2> QED
      BY <1>2, <2>1, <2>2, <2>3 DEF InsertNext
  <1>3. CASE Reroute
    <2>1. l.origGw \in Gw \cup {Nil}
      BY <1>0 DEF Locals
    <2>2. KernelOK'
      BY <1>0, <1>3, <2>1, KernelCalls DEF Reroute
    <2>3. CASE Return("aborted")
      BY <1>0, <2>2, <2>3, ReturnType DEF TypeInv, TypeOK
    <2>4. CASE pc' \in {"testPrimary", "persist"} /\ UNCHANGED l /\ Run
      BY <1>0, <2>2, <2>4, RunType DEF TypeInv, TypeOK, Labels
    <2> QED
      BY <1>3, <2>3, <2>4 DEF Reroute
  <1>4. CASE RerouteFails
    BY <1>00, <1>4 DEF RerouteFails
  <1>5. CASE TestPrimary
    <2>1. [l EXCEPT !.undo = TRUE, !.order = l.fam, !.i = 1] \in Locals
      <3>1. \A m \in Locals, fam \in Seq(Addr) : [m EXCEPT !.undo = TRUE, !.order = fam] \in Locals
        BY DEF Locals
      <3>2. [l EXCEPT !.undo = TRUE, !.order = l.fam] \in Locals
        BY <1>0, <3>1, LoopIndexType
      <3>3. \A m \in Locals, k \in Nat \ {0} : [m EXCEPT !.i = k] \in Locals
        BY DEF Locals
      <3> DEFINE m == [l EXCEPT !.undo = TRUE, !.order = l.fam]
      <3>4. 1 \in Nat \ {0} /\ m \in Locals
        BY <3>2
      <3> HIDE DEF m
      <3>5. [m EXCEPT !.i = 1] \in Locals
        BY <3>3, <3>4
      <3> QED
        BY <3>5 DEF m
    <2>2. l' \in Locals /\ pc' \in {"persist", "delete"}
      BY <1>0, <1>5, <2>1 DEF TestPrimary
    <2> QED
      BY <1>0, <1>5, <2>2, RunType, KernelCalls DEF TestPrimary, TypeInv, TypeOK, Labels
  <1> QED
    BY <1>1, <1>2, <1>3, <1>4, <1>5

\* The steps of RemoveAddress, and those that end every call.
LEMMA RemoveStepsType ==
    ASSUME TypeInv,
           DeleteAddress \/ TestRemove \/ PutBack \/ ReleaseOnPanels
             \/ PersistNext \/ Finish \/ Crash
    PROVE  TypeInv'
  <1> USE DEF Goto
  <1>0. /\ TypeOK /\ KernelOK /\ StoresOK /\ CallOK /\ l \in Locals
        /\ "error" \in Results /\ "aborted" \in Results
        /\ req.addr \in Addr /\ req.addr.ip \in IP
    <2>1. req.addr \in Addr
      BY DEF TypeInv, TypeOK, CallOK, Requests
    <2> QED
      BY <2>1 DEF TypeInv, TypeOK, CallOK, Addr, Results
  <1>00. ASSUME Fails PROVE TypeInv'
    BY <1>0, <1>00, ReturnType, KernelCalls DEF Fails, TypeInv, TypeOK
  <1>1. CASE DeleteAddress
    <2>1. CASE Fails
      BY <1>00, <2>1
    <2> QED
      BY <1>0, <1>1, <2>1, RunType, KernelCalls DEF DeleteAddress, TypeInv, TypeOK, Labels
  <1>2. CASE TestRemove
    BY <1>0, <1>2, RunType, KernelCalls DEF TestRemove, TypeInv, TypeOK, Labels
  <1>3. CASE PutBack
    <2>1. CASE Fails
      BY <1>00, <2>1
    <2>2. CASE AddrReplace(l.orig[1]) /\ Return("aborted") /\ pc = "putBack"
      <3>1. l.orig \in Seq(Addr) /\ Len(l.orig) = 1
        BY <1>0, <2>2, LoopIndexType DEF TypeInv
      <3>2. l.orig[1] \in Addr
        BY <3>1
      <3> QED
        BY <1>0, <2>2, <3>2, ReturnType, KernelCalls DEF TypeInv, TypeOK
    <2> QED
      BY <1>3, <2>1, <2>2 DEF PutBack
  <1>4. CASE ReleaseOnPanels
    <2>1. \A ok \in SUBSET Panels : Released(ok) \in [Panels -> Beliefs]
      BY <1>0 DEF Released, StoresOK, Beliefs
    <2>2. StoresOK'
      BY <1>0, <1>4, <2>1 DEF ReleaseOnPanels, StoresOK
    <2>3. KernelOK' /\ CallOK'
      BY <1>0, <1>4 DEF ReleaseOnPanels, KernelOK, CallOK, Labels
    <2> QED
      BY <1>4, <2>2, <2>3 DEF ReleaseOnPanels, TypeInv, TypeOK
  <1>5. CASE PersistNext
    <2>1. Conf \in Confs
      BY <1>0 DEF Conf, Confs, Locals
    <2>2. StoresOK'
      BY <1>0, <1>5, <2>1 DEF PersistNext, StoresOK
    <2>3. l' \in Locals
      BY <1>0, <1>5, LoopIndexType DEF PersistNext
    <2>4. KernelOK' /\ CallOK'
      BY <1>0, <1>5, <2>3 DEF PersistNext, KernelOK, CallOK
    <2> QED
      BY <1>5, <2>2, <2>4 DEF PersistNext, TypeInv, TypeOK
  <1>6. CASE Finish
    <2>1. RuntimeIPs \subseteq IP
      BY <1>0, IPsOfType DEF RuntimeIPs, KernelOK
    <2>2. StoresOK'
      <3>1. panel' \in [Panels -> Beliefs]
        BY <1>0, <1>6, <2>1 DEF Finish, StoresOK, Beliefs
      <3> QED
        BY <1>0, <1>6, <3>1 DEF Finish, StoresOK
    <2>3. KernelOK' /\ CallOK'
      BY <1>0, <1>6, L0Type DEF Finish, KernelOK, CallOK, Labels, Results
    <2> QED
      BY <1>6, <2>2, <2>3 DEF Finish, TypeInv, TypeOK
  <1>7. CASE Crash
    <2>1. KernelOK'
      BY <1>0, <1>7, KernelCalls DEF Crash
    <2>2. StoresOK' /\ CallOK'
      BY <1>0, <1>7, L0Type DEF Crash, Frame, StoresOK, CallOK, Labels, Results
    <2> QED
      BY <1>7, <2>1, <2>2 DEF Crash, TypeInv, TypeOK
  <1> QED
    BY <1>1, <1>2, <1>3, <1>4, <1>5, <1>6, <1>7

\* Every action keeps the types, and removes only addresses it can put back.
LEMMA TypeStep == TypeInv /\ [Next]_vars => TypeInv'
  <1>1. ASSUME TypeInv, UNCHANGED vars PROVE TypeInv'
    BY <1>1 DEF vars, TypeInv, TypeOK, KernelOK, StoresOK, CallOK
  <1>2. ASSUME TypeInv, Next PROVE TypeInv'
    BY <1>2, BeginsType, AddStepsType, PrimaryStepsType, RemoveStepsType DEF Next, Step
  <1> QED
    BY <1>1, <1>2

\* Every variable of the configurator has its type in every reachable state: no loop of
\* a call indexes a list outside its bounds, and the address RemoveAddress puts back exists.
THEOREM TypeCorrect == Spec => []TypeOK
  <1>1. Spec => []TypeInv
    BY InitType, TypeStep, PTL DEF Spec
  <1>2. TypeInv => TypeOK
    BY DEF TypeInv
  <1> QED
    BY <1>1, <1>2, PTL

-----------------------------------------------------------------------------
(* What a call that fails leaves behind *)

\* Inside a call the result is open, and until the backends are reached nothing has been
\* written; only then does the result say that the call succeeded.
FailInv ==
    /\ pc \notin {"idle", "linkDown"} => ret = "running"
    /\ pc \notin {"idle", "persist"} => disk = pre.disk /\ panel = pre.panel
    /\ FailurePersistsNothing

\* Unless the call raised the link itself, the link is as the call found it.
RaisedInv == pc \notin {"idle", "linkDown"} /\ ~l.raised => up = pre.up

\* Before the backends no step of a call but the panels' touches a store, and whether it
\* returns or goes on, what pre records stays.
Early ==
    \/ LinkDown \/ EnsureLinkUp \/ WriteAddress \/ ScanRoutes \/ ScanFails \/ AddGateway
    \/ TestAdd \/ UndoAdd \/ RestoreAddress \/ RestoreRoute
    \/ DeleteNext \/ InsertNext \/ Reroute \/ RerouteFails \/ TestPrimary
    \/ DeleteAddress \/ TestRemove \/ PutBack

Failure == {"refused", "error", "aborted"}

\* The steps before a call has raised or changed anything.
LEMMA EarlySteps ==
    ASSUME Early
    PROVE  /\ Frame
           /\ pc \notin {"idle", "persist"}
           /\ \/ pc = "linkDown" /\ pc' = "idle" /\ ret' = ret
              \/ pc # "linkDown" /\ pc' \notin {"idle", "linkDown"} /\ ret' = ret
              \/ pc # "linkDown" /\ \E r \in Failure : Return(r)
  <1> USE DEF Fails, Run, Goto, Failure
  <1>1. CASE LinkDown \/ EnsureLinkUp \/ WriteAddress \/ ScanRoutes \/ ScanFails \/ AddGateway
    <2>1. \A r : Return(r) => Frame
      BY DEF Return
    <2> QED
      BY <1>1, <2>1 DEF LinkDown, EnsureLinkUp, WriteAddress, ScanRoutes, ScanFails, AddGateway
  <1>2. CASE TestAdd \/ UndoAdd \/ RestoreAddress \/ RestoreRoute
    <2>1. \A r : Return(r) => Frame
      BY DEF Return
    <2> QED
      BY <1>2, <2>1 DEF TestAdd, UndoAdd, RestoreAddress, RestoreRoute
  <1>3. CASE DeleteNext \/ InsertNext \/ Reroute \/ RerouteFails \/ TestPrimary
    <2>1. \A r : Return(r) => Frame
      BY DEF Return
    <2> QED
      BY <1>3, <2>1 DEF DeleteNext, InsertNext, Reroute, RerouteFails, TestPrimary
  <1>4. CASE DeleteAddress \/ TestRemove \/ PutBack
    <2>1. \A r : Return(r) => Frame
      BY DEF Return
    <2> QED
      BY <1>4, <2>1 DEF DeleteAddress, TestRemove, PutBack
  <1> QED
    BY <1>1, <1>2, <1>3, <1>4 DEF Early

\* No call has failed at first.
LEMMA FailInit == Init => FailInv
  BY DEF Init, FailInv, FailurePersistsNothing

\* Every action keeps a failing call away from the persistence layers.
LEMMA FailStep == FailInv /\ [Next]_vars => FailInv'
  <1> SUFFICES ASSUME FailInv, [Next]_vars PROVE FailInv'
    OBVIOUS
  <1>1. CASE AddAddress \/ SetPrimaryAddress \/ RemoveAddress
    <2>1. /\ disk' = disk /\ panel' = panel
          /\ pre'.disk = disk /\ pre'.panel = panel
      BY <1>1 DEF AddAddress, SetPrimaryAddress, RemoveAddress, Begin
    <2>2. pc' # "linkDown" /\ (pc' # "idle" => ret' = "running")
      BY <1>1 DEF AddAddress, SetPrimaryAddress, RemoveAddress, Refuse, Proceed
    <2> QED
      BY <2>1, <2>2 DEF FailInv, FailurePersistsNothing
  <1>2. CASE Early
    <2>1. disk' = disk /\ panel' = panel /\ pre' = pre /\ pc # "persist" /\ pc # "idle"
      BY <1>2, EarlySteps DEF Frame
    <2>2. disk' = pre'.disk /\ panel' = pre'.panel
      BY <2>1 DEF FailInv
    <2>3. pc' \notin {"idle", "linkDown"} => ret' = "running"
      BY <1>2, EarlySteps DEF Return, FailInv
    <2> QED
      BY <2>2, <2>3 DEF FailInv, FailurePersistsNothing
  <1>3. CASE ReleaseOnPanels
    BY <1>3 DEF ReleaseOnPanels, Goto, FailInv, FailurePersistsNothing
  <1>4. CASE PersistNext
    BY <1>4 DEF PersistNext, FailInv, FailurePersistsNothing
  <1>5. CASE Finish
    BY <1>5 DEF Finish, FailInv, FailurePersistsNothing
  <1>6. CASE Crash
    BY <1>6 DEF Crash, FailInv, FailurePersistsNothing
  <1>7. CASE UNCHANGED vars
    BY <1>7 DEF vars, FailInv, FailurePersistsNothing
  <1> QED
    BY <1>1, <1>2, <1>3, <1>4, <1>5, <1>6, <1>7 DEF Next, Step, Early

\* A call that returns any error has written to no backend and told no panel anything,
\* whatever netlink call failed, whether or not there was a rollback.
THEOREM FailureIsSilent == Spec => []FailurePersistsNothing
  <1>1. Spec => []FailInv
    BY FailInit, FailStep, PTL DEF Spec
  <1>2. FailInv => FailurePersistsNothing
    BY DEF FailInv
  <1> QED
    BY <1>1, <1>2, PTL

\* No call is in progress at first, so none has raised a link.
LEMMA RaisedInit == Init => RaisedInv
  BY DEF Init, RaisedInv

\* Every action keeps track of the links a call has raised.
LEMMA RaisedStep == TypeInv /\ RaisedInv /\ [Next]_vars => RaisedInv'
  <1> SUFFICES ASSUME TypeInv, RaisedInv, [Next]_vars PROVE RaisedInv'
    OBVIOUS
  <1> USE DEF RaisedInv
  <1>1. CASE AddAddress \/ SetPrimaryAddress \/ RemoveAddress
    BY <1>1 DEF AddAddress, SetPrimaryAddress, RemoveAddress, Begin
  <1>2. CASE Early
    <2>1. pre' = pre
      BY <1>2, EarlySteps DEF Frame
    <2>2. ASSUME pc' \notin {"idle", "linkDown"}
          PROVE  \/ up' = up /\ l'.raised = l.raised
                 \/ l'.raised
      <3>1. l \in Locals
        BY DEF TypeInv, TypeOK, CallOK
      <3> USE DEF Fails, Return, AddrReplace, AddrDel, RouteSet, RouteDel, kernel, Locals
      <3>2. CASE LinkDown \/ EnsureLinkUp \/ WriteAddress
        BY <2>2, <3>1, <3>2 DEF LinkDown, EnsureLinkUp, WriteAddress
      <3>3. CASE ScanRoutes \/ ScanFails \/ AddGateway
        BY <2>2, <3>1, <3>3 DEF ScanRoutes, ScanFails, AddGateway
      <3>4. CASE TestAdd \/ UndoAdd \/ RestoreAddress \/ RestoreRoute
        BY <2>2, <3>1, <3>4 DEF TestAdd, UndoAdd, RestoreAddress, RestoreRoute
      <3>5. CASE DeleteNext \/ InsertNext \/ Reroute \/ RerouteFails \/ TestPrimary
        BY <2>2, <3>1, <3>5 DEF DeleteNext, InsertNext, Reroute, RerouteFails, TestPrimary
      <3>6. CASE DeleteAddress \/ TestRemove \/ PutBack
        BY <2>2, <3>1, <3>6 DEF DeleteAddress, TestRemove, PutBack
      <3> QED
        BY <1>2, <3>2, <3>3, <3>4, <3>5, <3>6 DEF Early
    <2> QED
      BY <1>2, <2>1, <2>2, EarlySteps
  <1>3. CASE ReleaseOnPanels
    BY <1>3 DEF ReleaseOnPanels, Goto
  <1>4. CASE PersistNext
    <2>1. l'.raised = l.raised
      BY <1>4 DEF PersistNext, TypeInv, TypeOK, CallOK, Locals
    <2> QED
      BY <1>4, <2>1 DEF PersistNext
  <1>5. CASE Finish \/ Crash
    BY <1>5 DEF Finish, Crash
  <1>6. CASE UNCHANGED vars
    BY <1>6 DEF vars
  <1> QED
    BY <1>1, <1>2, <1>3, <1>4, <1>5, <1>6 DEF Next, Step, Early

\* A call that fails on a link it had to raise passes through the deferred LinkSetDown,
\* at whichever step it fails.
THEOREM LinkIsPutBack == Spec => LinkReturnedDown
  <1>1. TypeInv /\ RaisedInv /\ [Next]_vars
        => [pc # "idle" /\ pc' = "idle" /\ ret' \in Failure /\ up' # pre.up
              => pc = "linkDown"]_vars
    <2> SUFFICES ASSUME TypeInv, RaisedInv, Next, pc # "idle", pc' = "idle",
                        ret' \in Failure, up' # pre.up, pc # "linkDown"
                 PROVE  FALSE
      OBVIOUS
    <2>1. CASE Early
      <3>1. \E r \in Failure : Return(r)
        BY <2>1, EarlySteps
      <3>2. ~l.raised
        BY <3>1 DEF Return
      <3>3. up' = up
        BY <2>1 DEF Early, LinkDown, EnsureLinkUp, WriteAddress, ScanRoutes, ScanFails,
             AddGateway, TestAdd, UndoAdd, RestoreAddress, RestoreRoute, DeleteNext,
             InsertNext, Reroute, RerouteFails, TestPrimary, DeleteAddress, TestRemove,
             PutBack, Fails, Goto, AddrReplace, AddrDel, RouteSet, RouteDel, kernel
      <3> QED
        BY <3>2, <3>3 DEF RaisedInv
    <2>2. CASE ~Early
      BY <2>2 DEF Next, Step, Early, AddAddress, SetPrimaryAddress, RemoveAddress, Begin,
                  ReleaseOnPanels, PersistNext, Finish, Crash, Goto, Failure
    <2> QED
      BY <2>1, <2>2
  <1>2. Spec => [](TypeInv /\ RaisedInv)
    BY InitType, TypeStep, RaisedInit, RaisedStep, PTL DEF Spec
  <1> QED
    BY <1>1, <1>2, PTL DEF Spec, LinkReturnedDown, Failure

-----------------------------------------------------------------------------
(* Address lists *)

\* What removing an element leaves, place by place.
LEMMA RemoveAtFacts ==
    ASSUME NEW s \in Seq(Addr), NEW k \in DOMAIN s
    PROVE  /\ RemoveAt(s, k) \in Seq(Addr) /\ Len(RemoveAt(s, k)) = Len(s) - 1
           /\ \A j \in 1 .. Len(s) - 1 : RemoveAt(s, k)[j] = IF j < k THEN s[j] ELSE s[j + 1]
  <1> DEFINE left == SubSeq(s, 1, k - 1)
             right == SubSeq(s, k + 1, Len(s))
  <1>1. k \in 1..Len(s) /\ Len(s) \in Nat
    OBVIOUS
  <1>2. left \in Seq(Addr) /\ Len(left) = k - 1 /\ \A j \in 1 .. k - 1 : left[j] = s[j]
    BY <1>1
  <1>3. /\ right \in Seq(Addr) /\ Len(right) = Len(s) - k
        /\ \A j \in 1 .. Len(s) - k : right[j] = s[j + k]
    BY <1>1
  <1>4. RemoveAt(s, k) = left \o right
    BY DEF RemoveAt
  <1> HIDE DEF left, right
  <1>5. Len(left \o right) = Len(s) - 1 /\ left \o right \in Seq(Addr)
    BY <1>1, <1>2, <1>3
  <1>6. ASSUME NEW j \in 1 .. Len(s) - 1
        PROVE  (left \o right)[j] = IF j < k THEN s[j] ELSE s[j + 1]
    <2>1. CASE j < k
      BY <1>1, <1>2, <1>3, <2>1
    <2>2. CASE j >= k
      <3>1. (left \o right)[j] = right[j - (k - 1)]
        BY <1>1, <1>2, <1>3, <2>2
      <3>2. j - (k - 1) \in 1 .. Len(s) - k
        BY <1>1, <2>2
      <3>3. right[j - (k - 1)] = s[(j - (k - 1)) + k]
        BY <1>3, <3>2
      <3>4. (j - (k - 1)) + k = j + 1
        BY <1>1
      <3> QED
        BY <1>1, <2>2, <3>1, <3>3, <3>4
    <2>3. j < k \/ j >= k
      BY <1>1
    <2> QED
      BY <2>1, <2>2, <2>3
  <1> QED
    BY <1>4, <1>5, <1>6

\* In a list without doubles the index of an address is its place.
LEMMA IndexIsPlace ==
    ASSUME NEW s \in Seq(Addr), Distinct(s), NEW j \in DOMAIN s
    PROVE  Has(s, s[j].ip) /\ IndexOf(s, s[j].ip) = j
  <1>1. Has(s, s[j].ip)
    BY DEF Has
  <1> QED
    BY <1>1, IndexOfType DEF Distinct

\* An address that is removed is gone, and no other is.
LEMMA WithoutFacts ==
    ASSUME NEW s \in Seq(Addr), Distinct(s), NEW ip
    PROVE  /\ Distinct(Without(s, ip)) /\ ~Has(Without(s, ip), ip)
           /\ ToSet(Without(s, ip)) \subseteq ToSet(s)
           /\ Has(s, ip) => /\ Len(Without(s, ip)) = Len(s) - 1
                            /\ ToSet(s) = ToSet(Without(s, ip)) \cup {s[IndexOf(s, ip)]}
           /\ s # <<>> /\ s[1].ip # ip => Without(s, ip) # <<>> /\ Without(s, ip)[1] = s[1]
  <1>1. CASE ~Has(s, ip)
    BY <1>1 DEF Without
  <1>2. CASE Has(s, ip)
    <2> DEFINE k == IndexOf(s, ip)
               r == RemoveAt(s, k)
    <2>1. k \in 1..Len(s) /\ s[k].ip = ip /\ k \in DOMAIN s
      BY <1>2, IndexOfType
    <2>2. /\ r \in Seq(Addr) /\ Len(r) = Len(s) - 1
          /\ \A j \in 1 .. Len(s) - 1 : r[j] = IF j < k THEN s[j] ELSE s[j + 1]
      BY <2>1, RemoveAtFacts
    <2>3. Without(s, ip) = r
      BY <1>2 DEF Without
    <2> HIDE DEF k, r
    <2>4. DOMAIN r = 1 .. Len(s) - 1 /\ DOMAIN s = 1..Len(s) /\ Len(s) \in Nat
      BY <2>2
    <2>5. \A j \in DOMAIN r : \E m \in DOMAIN s : r[j] = s[m] /\ m # k /\ m \in {j, j + 1} /\ (m = j <=> j < k)
      <3> TAKE j \in DOMAIN r
      <3>1. CASE j < k
        BY <2>1, <2>2, <2>4, <3>1
      <3>2. CASE j >= k
        <4>1. j + 1 \in DOMAIN s /\ j + 1 # k /\ r[j] = s[j + 1]
          BY <2>1, <2>2, <2>4, <3>2
        <4> QED
          BY <2>1, <2>4, <3>2, <4>1
      <3> QED
        BY <2>1, <2>4, <3>1, <3>2
    <2>6. Distinct(r)
      BY <2>1, <2>4, <2>5 DEF Distinct
    <2>7. ~Has(r, ip)
      BY <2>1, <2>5 DEF Distinct, Has
    <2>8. ToSet(r) \subseteq ToSet(s)
      BY <2>5 DEF ToSet
    <2>9. s[1].ip # ip => r # <<>> /\ r[1] = s[1]
      BY <2>1, <2>2, <2>4
    <2>10. ASSUME NEW m \in DOMAIN s, m # k PROVE \E j \in DOMAIN r : r[j] = s[m]
      <3>1. CASE m < k
        BY <2>1, <2>2, <2>4, <3>1
      <3>2. CASE m > k
        <4>1. m - 1 \in DOMAIN r /\ ~(m - 1 < k) /\ (m - 1) + 1 = m
          BY <2>1, <2>4, <3>2
        <4>2. r[m - 1] = s[(m - 1) + 1]
          BY <2>2, <2>4, <4>1
        <4> QED
          BY <4>1, <4>2
      <3>3. m < k \/ m > k
        BY <2>1, <2>4, <2>10
      <3> QED
        BY <3>1, <3>2, <3>3
    <2>11. ToSet(s) = ToSet(r) \cup {s[k]}
      <3>1. \A x \in ToSet(s) : x \in ToSet(r) \cup {s[k]}
        BY <2>10 DEF ToSet
      <3>2. s[k] \in ToSet(s)
        BY <2>1 DEF ToSet
      <3> QED
        BY <2>8, <3>1, <3>2
    <2> QED
      BY <1>2, <2>2, <2>3, <2>6, <2>7, <2>8, <2>9, <2>11 DEF k
  <1> QED
    BY <1>1, <1>2

\* Writing an address changes its own place only; an address that is new enters the list
\* where its family has it enter, and taking it off again gives the list there was.
LEMMA ReplacedFacts ==
    ASSUME NEW s \in Seq(Addr), Distinct(s), NEW a \in Addr, NEW r \in Replaced(s, a)
    PROVE  /\ r \in Seq(Addr) /\ Distinct(r)
           /\ ToSet(r) \subseteq ToSet(s) \cup {a}
           /\ Has(s, a.ip) => /\ DOMAIN r = DOMAIN s
                              /\ \A j \in DOMAIN s :
                                    r[j] = IF s[j].ip = a.ip THEN a ELSE s[j]
           /\ ~Has(s, a.ip) =>
                 /\ Len(r) = Len(s) + 1 /\ ToSet(r) = ToSet(s) \cup {a}
                 /\ Without(r, a.ip) = s
                 /\ s = <<>> => r[1] = a
                 /\ s # <<>> => IF FamOf(a.ip) \in NewestFirst
                                THEN r[1] = a /\ r[Len(r)] = s[Len(s)]
                                ELSE r[1] = s[1]
  <1>1. CASE Has(s, a.ip)
    <2> DEFINE k == IndexOf(s, a.ip)
    <2>1. k \in DOMAIN s /\ s[k].ip = a.ip
      BY <1>1, IndexOfType
    <2>2. r = [s EXCEPT ![k] = a]
      BY <1>1 DEF Replaced
    <2> HIDE DEF k
    <2>3. /\ r \in Seq(Addr) /\ DOMAIN r = DOMAIN s
          /\ \A j \in DOMAIN s : r[j] = IF j = k THEN a ELSE s[j]
      BY <2>1, <2>2
    <2>4. \A j \in DOMAIN s : s[j].ip = a.ip <=> j = k
      BY <2>1 DEF Distinct
    <2>5. \A j \in DOMAIN s : r[j].ip = s[j].ip
      BY <2>3, <2>4
    <2>6. Distinct(r)
      BY <2>3, <2>5 DEF Distinct
    <2>7. ToSet(r) \subseteq ToSet(s) \cup {a}
      BY <2>3 DEF ToSet
    <2> QED
      BY <1>1, <2>3, <2>4, <2>6, <2>7
  <1>2. CASE ~Has(s, a.ip)
    <2>1. PICK k \in Places(FamOf(a.ip), s) : r = InsertAt(s, k, a)
      BY <1>2 DEF Replaced
    <2>2. k \in 1 .. Len(s) + 1 /\ Len(s) \in Nat
      BY PlacesType
    <2>3. /\ r \in Seq(Addr) /\ Len(r) = Len(s) + 1
          /\ \A j \in 1 .. Len(s) + 1 :
                r[j] = IF j < k THEN s[j] ELSE IF j = k THEN a ELSE s[j - 1]
      <3> DEFINE t == InsertAt(s, k, a)
      <3>1. /\ t \in Seq(Addr) /\ Len(t) = Len(s) + 1
            /\ \A j \in 1 .. Len(s) + 1 :
                  t[j] = IF j < k THEN s[j] ELSE IF j = k THEN a ELSE s[j - 1]
        BY <2>2, InsertAtFacts
      <3>2. r = t
        BY <2>1
      <3> HIDE DEF t
      <3> QED
        BY ONLY <3>1, <3>2
    <2>4. DOMAIN r = 1 .. Len(s) + 1 /\ DOMAIN s = 1..Len(s)
      BY <2>3
    <2>5. \A j \in DOMAIN s : s[j].ip # a.ip
      BY <1>2 DEF Has
    <2>6. r[k] = a /\ k \in DOMAIN r
      BY <2>2, <2>3, <2>4
    <2>7. ASSUME NEW j \in DOMAIN r, j # k
          PROVE  \E m \in DOMAIN s : r[j] = s[m] /\ m = IF j < k THEN j ELSE j - 1
      <3>1. CASE j < k
        BY <2>2, <2>3, <2>4, <3>1
      <3>2. CASE j > k
        <4>1. j - 1 \in DOMAIN s /\ r[j] = s[j - 1] /\ ~(j < k)
          BY <2>2, <2>3, <2>4, <3>2
        <4> QED
          BY <4>1
      <3> QED
        BY <2>2, <2>4, <2>7, <3>1, <3>2
    <2>8. \A j \in DOMAIN r : r[j].ip = a.ip <=> j = k
      BY <2>5, <2>6, <2>7
    <2>9. Distinct(r)
      <3> SUFFICES ASSUME NEW i \in DOMAIN r, NEW j \in DOMAIN r, r[i].ip = r[j].ip
                   PROVE  i = j
        BY DEF Distinct
      <3>1. CASE i = k \/ j = k
        BY <2>6, <2>8, <3>1
      <3>2. CASE i # k /\ j # k
        <4>1. PICK m \in DOMAIN s : r[i] = s[m] /\ m = IF i < k THEN i ELSE i - 1
          BY <2>7, <3>2
        <4>2. PICK n \in DOMAIN s : r[j] = s[n] /\ n = IF j < k THEN j ELSE j - 1
          BY <2>7, <3>2
        <4>3. m = n
          BY <4>1, <4>2 DEF Distinct
        <4> QED
          BY <2>2, <2>4, <3>2, <4>1, <4>2, <4>3
      <3> QED
        BY <3>1, <3>2
    <2>10. ToSet(r) = ToSet(s) \cup {a}
      <3>1. \A j \in DOMAIN r : r[j] \in ToSet(s) \cup {a}
        BY <2>6, <2>7 DEF ToSet
      <3>2. ASSUME NEW m \in DOMAIN s PROVE \E j \in DOMAIN r : r[j] = s[m]
        <4>1. CASE m < k
          BY <2>2, <2>3, <2>4, <4>1
        <4>2. CASE m >= k
          <5>1. m + 1 \in DOMAIN r /\ r[m + 1] = s[(m + 1) - 1] /\ (m + 1) - 1 = m
            BY <2>2, <2>3, <2>4, <4>2
          <5> QED
            BY <5>1
        <4> QED
          BY <2>2, <2>4, <4>1, <4>2
      <3> QED
        BY <2>6, <3>1, <3>2 DEF ToSet
    <2>11. Without(r, a.ip) = s
      <3>1. Has(r, a.ip) /\ IndexOf(r, a.ip) = k
        BY <2>3, <2>6, <2>9, IndexIsPlace
      <3> DEFINE t == RemoveAt(r, k)
      <3>2. Without(r, a.ip) = t
        BY <3>1 DEF Without
      <3>3. t \in Seq(Addr) /\ Len(t) = Len(r) - 1
            /\ \A j \in 1 .. Len(r) - 1 : t[j] = IF j < k THEN r[j] ELSE r[j + 1]
        BY <2>3, <2>6, RemoveAtFacts
      <3> HIDE DEF t
      <3>4. \A j \in 1..Len(s) : t[j] = s[j]
        <4> TAKE j \in 1..Len(s)
        <4>1. j \in 1 .. Len(r) - 1 /\ j \in 1 .. Len(s) + 1 /\ j + 1 \in 1 .. Len(s) + 1
              /\ (j + 1) - 1 = j
          BY <2>2, <2>3
        <4>2. CASE j < k
          BY <2>3, <3>3, <4>1, <4>2
        <4>3. CASE j >= k
          <5>1. ~(j < k) /\ ~(j + 1 < k) /\ j + 1 # k
            BY <2>2, <4>3
          <5> QED
            BY <2>3, <3>3, <4>1, <5>1
        <4> QED
          BY <2>2, <4>2, <4>3
      <3>5. Len(t) = Len(s)
        BY <2>2, <2>3, <3>3
      <3>6. t = s
        BY <3>3, <3>4, <3>5
      <3> QED
        BY <3>2, <3>6
    <2>12. s = <<>> => r[1] = a
      BY <2>1, <2>6 DEF Places
    <2>13. ASSUME s # <<>>
           PROVE  IF FamOf(a.ip) \in NewestFirst
                  THEN r[1] = a /\ r[Len(r)] = s[Len(s)]
                  ELSE r[1] = s[1]
      <3>1. Len(s) \in Nat \ {0}
        BY <2>2, <2>13
      <3>2. CASE FamOf(a.ip) \in NewestFirst
        <4>1. k = 1
          BY <2>1, <3>2 DEF Places
        <4>2. r[Len(s) + 1] = s[(Len(s) + 1) - 1] /\ (Len(s) + 1) - 1 = Len(s)
          BY <2>3, <3>1, <4>1
        <4> QED
          BY <2>3, <2>6, <3>2, <4>1, <4>2
      <3>3. CASE FamOf(a.ip) \notin NewestFirst
        <4>1. k \in 2 .. Len(s) + 1
          BY <2>13, <3>3 DEF Places
        <4> QED
          BY <2>3, <3>1, <3>3, <4>1
      <3> QED
        BY <3>2, <3>3
    <2> QED
      BY <1>2, <2>3, <2>9, <2>10, <2>11, <2>12, <2>13
  <1> QED
    BY <1>1, <1>2

\* The list of addresses the code hands on is the kernel's, order aside, and the two begin
\* alike unless the family lists a new address first.
LEMMA ExtendedFacts ==
    ASSUME NEW s \in Seq(Addr), Distinct(s), NEW a \in Addr, NEW r \in Replaced(s, a)
    PROVE  /\ Extended(s, a) \in Seq(Addr) /\ Len(Extended(s, a)) = Len(r)
           /\ ToSet(Extended(s, a)) = ToSet(r)
           /\ FamOf(a.ip) \notin NewestFirst => Extended(s, a)[1] = r[1]
  <1>1. CASE Has(s, a.ip)
    <2>1. Extended(s, a) = r
      BY <1>1 DEF Extended, Replaced
    <2> QED
      BY <2>1, ExtendedType
  <1>2. CASE ~Has(s, a.ip)
    <2> DEFINE e == Append(s, a)
    <2>1. Extended(s, a) = e
      BY <1>2 DEF Extended
    <2>2. /\ e \in Seq(Addr) /\ Len(e) = Len(s) + 1 /\ e[Len(s) + 1] = a
          /\ \A j \in 1..Len(s) : e[j] = s[j]
      OBVIOUS
    <2> HIDE DEF e
    <2>3. DOMAIN e = 1 .. Len(s) + 1 /\ DOMAIN s = 1..Len(s) /\ Len(s) \in Nat
      BY <2>2
    <2>4. \A j \in DOMAIN e : j \in DOMAIN s \/ j = Len(s) + 1
      BY <2>3
    <2>5. \A j \in DOMAIN s : j \in DOMAIN e
      BY <2>3
    <2>6. Len(s) + 1 \in DOMAIN e
      BY <2>3
    <2>7. ToSet(e) = ToSet(s) \cup {a}
      BY <2>2, <2>3, <2>4, <2>5, <2>6 DEF ToSet
    <2>8. /\ Len(r) = Len(s) + 1 /\ ToSet(r) = ToSet(s) \cup {a}
          /\ s = <<>> => r[1] = a
          /\ s # <<>> /\ FamOf(a.ip) \notin NewestFirst => r[1] = s[1]
      BY <1>2, ReplacedFacts
    <2>9. FamOf(a.ip) \notin NewestFirst => e[1] = r[1]
      BY <2>2, <2>3, <2>8
    <2> QED
      BY <2>1, <2>2, <2>7, <2>8, <2>9
  <1> QED
    BY <1>1, <1>2

\* Moving an address to the front keeps the others, and an address in front stays there.
LEMMA ReorderedFacts ==
    ASSUME NEW s \in Seq(Addr), Distinct(s), NEW a \in Addr, Has(s, a.ip)
    PROVE  /\ Reordered(s, a) \in Seq(Addr) /\ Len(Reordered(s, a)) = Len(s)
           /\ Distinct(Reordered(s, a)) /\ Reordered(s, a)[1] = a
           /\ ToSet(Reordered(s, a)) = ToSet(Without(s, a.ip)) \cup {a}
           /\ \A j \in 2..Len(s) : Reordered(s, a)[j] = Without(s, a.ip)[j - 1]
  <1> DEFINE w == Without(s, a.ip)
             r == <<a>> \o w
  <1>1. /\ w \in Seq(Addr) /\ Len(w) = Len(s) - 1 /\ Distinct(w) /\ ~Has(w, a.ip)
        /\ ToSet(w) \subseteq ToSet(s)
    BY WithoutType, WithoutFacts
  <1>2. Reordered(s, a) = r
    BY DEF Reordered
  <1> HIDE DEF w
  <1>4. /\ r \in Seq(Addr) /\ Len(r) = Len(w) + 1 /\ r[1] = a
        /\ \A j \in 2 .. Len(w) + 1 : r[j] = w[j - 1]
    BY <1>1
  <1> HIDE DEF r
  <1>5. DOMAIN r = 1..Len(s) /\ DOMAIN w = 1 .. Len(s) - 1 /\ Len(s) \in Nat \ {0}
    BY <1>1, <1>4 DEF Has
  <1>6. \A j \in DOMAIN w : w[j].ip # a.ip
    BY <1>1 DEF Has
  <1>7. \A j \in DOMAIN r : j = 1 \/ (j - 1 \in DOMAIN w /\ r[j] = w[j - 1])
    BY <1>1, <1>4, <1>5
  <1>8. Distinct(r)
    <2> SUFFICES ASSUME NEW i \in DOMAIN r, NEW j \in DOMAIN r, r[i].ip = r[j].ip
                 PROVE  i = j
      BY DEF Distinct
    <2>1. CASE i = 1 \/ j = 1
      BY <1>4, <1>6, <1>7, <2>1
    <2>2. CASE i # 1 /\ j # 1
      <3>1. i - 1 \in DOMAIN w /\ j - 1 \in DOMAIN w /\ w[i - 1].ip = w[j - 1].ip
        BY <1>7, <2>2
      <3>2. i - 1 = j - 1
        BY <1>1, <3>1 DEF Distinct
      <3> QED
        BY <1>5, <3>2
    <2> QED
      BY <2>1, <2>2
  <1>9. ToSet(r) = ToSet(w) \cup {a}
    <2>1. \A j \in DOMAIN r : r[j] = a \/ r[j] \in ToSet(w)
      BY <1>4, <1>7 DEF ToSet
    <2>2. 1 \in DOMAIN r /\ r[1] = a
      BY <1>4, <1>5
    <2>3. ASSUME NEW j \in DOMAIN w PROVE \E m \in DOMAIN r : r[m] = w[j]
      <3>1. j + 1 \in DOMAIN r /\ j + 1 \in 2 .. Len(w) + 1 /\ (j + 1) - 1 = j
        BY <1>1, <1>5
      <3> QED
        BY <1>4, <3>1
    <2> QED
      BY <2>1, <2>2, <2>3 DEF ToSet
  <1> QED
    BY <1>1, <1>2, <1>4, <1>5, <1>8, <1>9 DEF w

\* The first n addresses of an order have been written to an empty list of the family: the
\* one that was first is where the family lists what is written first.
Arranged(f, s, order, n) ==
    /\ Len(s) = n /\ ToSet(s) = {order[j] : j \in 1..n}
    /\ n > 0 => s[IF f \in NewestFirst THEN n ELSE 1] = order[1]

\* Writing the addresses of an order in turn keeps the list so arranged.
LEMMA ArrangedGrows ==
    ASSUME NEW f, NEW s \in Seq(Addr), Distinct(s), NEW order \in Seq(Addr), Distinct(order),
           NEW i \in 1..Len(order), Arranged(f, s, order, i - 1), FamOf(order[i].ip) = f,
           NEW r \in Replaced(s, order[i])
    PROVE  Arranged(f, r, order, i)
  <1> DEFINE a == order[i]
  <1>1. a \in Addr /\ i \in Nat \ {0} /\ i <= Len(order) /\ DOMAIN order = 1..Len(order)
    OBVIOUS
  <1>2. ~Has(s, a.ip)
    <2> SUFFICES ASSUME NEW j \in DOMAIN s, s[j].ip = a.ip PROVE FALSE
      BY DEF Has
    <2>1. s[j] \in {order[m] : m \in 1 .. i - 1}
      BY DEF Arranged, ToSet
    <2>2. PICK m \in 1 .. i - 1 : s[j] = order[m]
      BY <2>1
    <2>3. m \in DOMAIN order /\ i \in DOMAIN order /\ m # i /\ order[m].ip = order[i].ip
      BY <1>1, <2>2
    <2> QED
      BY <2>3 DEF Distinct
  <1>3. /\ Len(r) = Len(s) + 1 /\ ToSet(r) = ToSet(s) \cup {a}
        /\ s = <<>> => r[1] = a
        /\ s # <<>> => IF f \in NewestFirst THEN r[Len(r)] = s[Len(s)] ELSE r[1] = s[1]
    BY <1>1, <1>2, ReplacedFacts
  <1>4. Len(s) = i - 1 /\ ToSet(s) = {order[j] : j \in 1 .. i - 1} /\ Len(r) = i
    BY <1>1, <1>3 DEF Arranged
  <1>5. ToSet(r) = {order[j] : j \in 1..i}
    <2>1. 1..i = (1 .. i - 1) \cup {i}
      BY <1>1
    <2> QED
      BY <1>3, <1>4, <2>1
  <1>6. r[IF f \in NewestFirst THEN i ELSE 1] = order[1]
    <2>1. CASE i = 1
      <3>1. s = <<>>
        BY <1>4, <2>1
      <3> QED
        BY <1>3, <2>1, <3>1
    <2>2. CASE i # 1
      <3>1. s # <<>> /\ i - 1 > 0
        BY <1>1, <1>4, <2>2
      <3>2. s[IF f \in NewestFirst THEN i - 1 ELSE 1] = order[1]
        BY <3>1 DEF Arranged
      <3> QED
        BY <1>3, <1>4, <3>1, <3>2
    <2> QED
      BY <2>1, <2>2
  <1> QED
    BY <1>4, <1>5, <1>6 DEF Arranged

\* A list arranged after a whole order has its addresses.
LEMMA ArrangedWhole ==
    ASSUME NEW f, NEW s \in Seq(Addr), NEW order \in Seq(Addr),
           Arranged(f, s, order, Len(order))
    PROVE  Len(s) = Len(order) /\ ToSet(s) = ToSet(order)
  <1>1. DOMAIN order = 1..Len(order)
    OBVIOUS
  <1> QED
    BY <1>1 DEF Arranged, ToSet

-----------------------------------------------------------------------------
(* The interface at each label of a call *)

Given == req.addr.ip
Found == pre.addrs[F]

\* RemoveAddress is about the first address of the family.
IsPrimaryOf(s) == s # <<>> /\ s[1].ip = Given

\* The gateway AddAddress is to end with.
Aim == IF req.gw = Nil THEN pre.gw[F] ELSE IF req.gw = Zero THEN Nil ELSE req.gw

\* The order SetPrimaryAddress is to end with, and the list it hands to the backends.
Target == Reordered(Found, Found[IndexOf(Found, Given)])
Listed == [pre.addrs EXCEPT ![F] = Reordered(Found, req.addr)]

\* The lists AddAddress may end with, the one it hands to the backends, and the lists with
\* which RemoveAddress may undo a removal.
Enlarged == Replaced(Found, req.addr)
Handed == [pre.addrs EXCEPT ![F] = Extended(Found, req.addr)]
Reentered == Replaced(Without(Found, Given), Found[IndexOf(Found, Given)])

Holds(list) == addrs = [pre.addrs EXCEPT ![F] = list]
Routes(g) == gw = [pre.gw EXCEPT ![F] = g]
AsFound == addrs = pre.addrs /\ gw = pre.gw

\* The snapshot of AddAddress, and where the j-th address of a family is in it.
Taken == pre.addrs["v4"] \o pre.addrs["v6"]
Place(f, j) == IF f = "v4" THEN j ELSE Len(pre.addrs["v4"]) + j

\* What a call may have done to the interface at any label, and what it has not.
Torn ==
    /\ \A f \in Fam : f # F => addrs[f] = pre.addrs[f] /\ gw[f] = pre.gw[f]
    /\ ToSet(addrs[F]) \subseteq ToSet(Found) \cup {req.addr}
    /\ gw[F] \in {pre.gw[F], req.gw, Nil}

\* The interface is one the kernel can show, and was when the call began.
World ==
    /\ req.gw \in GwOf(F) \cup {Nil, Zero}
    /\ Torn
    /\ Sound(pre) /\ Distinct(addrs[F])
    /\ ~up => \A f \in Fam : gw[f] = Nil
    /\ l.raised => ~pre.up

\* The rollback of AddAddress: what it has come to is as it was.
Restoring ==
    /\ DOMAIN addrs[F] = DOMAIN Found
    /\ \A j \in DOMAIN Found :
          /\ addrs[F][j].ip = Found[j].ip
          /\ Place(F, j) < l.i => addrs[F][j] = Found[j]

Adding ==
    pc \in {"linkUp", "write", "routes", "gateway", "test", "undoAdd", "restore",
            "restoreRoute"} =>
        /\ req.op = "AddAddress"
        /\ pc \in {"linkUp", "write"} => AsFound
        /\ pc \in {"routes", "gateway", "test", "undoAdd"} =>
              addrs[F] \in Enlarged /\ l.exists = Has(Found, Given)
        /\ pc \in {"routes", "gateway", "test"} => l.list = Handed
        /\ pc \in {"routes", "gateway", "test", "undoAdd", "restore"} => l.orig = Taken
        /\ pc = "routes" => gw = pre.gw
        /\ pc \in {"gateway", "test", "undoAdd", "restore", "restoreRoute"} =>
              l.origGw = pre.gw[F]
        /\ pc \in {"gateway", "test"} => l.gws = gw
        /\ pc = "gateway" => Aim # Nil /\ l.gateway = Aim /\ gw[F] \in {Nil, Aim}
        /\ pc = "test" => gw[F] = Aim
        /\ pc = "undoAdd" => ~l.exists /\ l.i = 1
        /\ pc = "restore" => Restoring
        /\ pc = "restoreRoute" => addrs = pre.addrs

Promoting ==
    pc \in {"delete", "insert", "reroute", "testPrimary"} =>
        /\ req.op = "SetPrimaryAddress" /\ Has(Found, Given) /\ Found[1].ip # Given
        /\ l.list = Listed /\ l.gws = pre.gw /\ ~l.raised
        /\ l.origGw = pre.gw[F] /\ l.fam = Found
        /\ l.order = IF l.undo THEN Found ELSE Target
        /\ gw[F] \in {pre.gw[F], Nil}
        /\ l.i <= Len(Found) + 1
        /\ pc = "delete" => Len(addrs[F]) = Len(Found) + 1 - l.i
        /\ pc = "insert" => Arranged(F, addrs[F], l.order, l.i - 1)
        /\ pc \in {"reroute", "testPrimary"} =>
              Arranged(F, addrs[F], l.order, Len(Found)) /\ l.i = 1
        /\ pc = "testPrimary" => gw = pre.gw /\ ~l.undo

Removing ==
    pc \in {"remove", "testRemove", "putBack", "release"} =>
        /\ req.op = "RemoveAddress" /\ ~l.raised
        /\ IsPrimaryOf(Found) => opts.allowPrimary
        /\ l.list = [pre.addrs EXCEPT ![F] = Without(Found, Given)]
        /\ l.gws = pre.gw /\ gw = pre.gw
        /\ pc \in {"remove", "testRemove", "putBack"} =>
              Has(Found, Given) /\ l.orig = <<Found[IndexOf(Found, Given)]>>
        /\ pc = "remove" =>
              /\ addrs = pre.addrs
              /\ gw[F] = Nil \/ Reaches(Without(Found, Given), gw[F])
        /\ pc \in {"testRemove", "putBack", "release"} => addrs = l.list

\* What a call that succeeds has made of the interface.
Achieved ==
    \/ /\ req.op = "AddAddress"
       /\ addrs[F] \in Enlarged /\ Routes(Aim)
    \/ /\ req.op = "SetPrimaryAddress" /\ Has(Found, Given) /\ gw = pre.gw
       /\ IF Found[1].ip = Given THEN addrs = pre.addrs
          ELSE Arranged(F, addrs[F], Target, Len(Found))
    \/ /\ req.op = "RemoveAddress"
       /\ IsPrimaryOf(Found) => opts.allowPrimary
       /\ Holds(Without(Found, Given)) /\ gw = pre.gw

\* Once the backends are reached that is so, and this is what they are handed.
Done ==
    /\ Achieved
    /\ l.gws = gw
    /\ req.op = "AddAddress" => l.list = Handed
    /\ req.op = "SetPrimaryAddress" => l.list = Listed
    /\ req.op = "RemoveAddress" => l.list = addrs

\* What a call that is refused or rolled back leaves: a removed address is back as a new
\* one, and a family that was reordered has been written again in the order it had.
Undone ==
    \/ AsFound /\ (ret = "aborted" => req.op = "AddAddress")
    \/ /\ req.op = "SetPrimaryAddress" /\ ret = "aborted"
       /\ Has(Found, Given) /\ Found[1].ip # Given
       /\ Arranged(F, addrs[F], Found, Len(Found)) /\ gw = pre.gw
    \/ /\ req.op = "RemoveAddress" /\ ret = "aborted" /\ Has(Found, Given)
       /\ IsPrimaryOf(Found) => opts.allowPrimary
       /\ addrs[F] \in Reentered /\ gw = pre.gw

\* A call on its way out has failed; unless that was an error, all is as it was.
Leaving ==
    /\ req.op = "AddAddress" /\ l.raised
    /\ ret \in Failure
    /\ ret # "error" => AsFound

CallInv ==
    /\ Adding /\ Promoting /\ Removing
    /\ pc = "persist" => Done
    /\ pc = "linkDown" => Leaving
    /\ pc = "idle" /\ ret = "ok" => Achieved
    /\ pc = "idle" /\ ret \in {"refused", "aborted"} => Undone
    /\ pc # "idle" => req \in Requests
    /\ pc \notin {"idle", "linkDown"} <=> ret = "running"

BookInv == TypeInv /\ RaisedInv /\ World /\ CallInv

-----------------------------------------------------------------------------
(* The world: what every step keeps *)

\* What the types say of the interface and of the call's locals.
LEMMA Types ==
    ASSUME TypeInv, World
    PROVE  /\ F \in Fam /\ req.addr \in Addr /\ Given \in IP /\ FamOf(Given) = F
           /\ addrs \in [Fam -> Seq(Addr)] /\ gw \in [Fam -> Gw \cup {Nil}]
           /\ pre.addrs \in [Fam -> Seq(Addr)] /\ pre.gw \in [Fam -> Gw \cup {Nil}]
           /\ addrs[F] \in Seq(Addr) /\ Found \in Seq(Addr) /\ Distinct(Found)
           /\ l \in Locals /\ l.i \in Nat \ {0}
  <1>1. req.addr \in Addr
    BY DEF TypeInv, TypeOK, CallOK, Requests
  <1>2. F \in Fam /\ Given \in IP /\ FamOf(Given) = F
    BY <1>1, FamOfType DEF F, Given, Addr
  <1>3. addrs \in [Fam -> Seq(Addr)] /\ gw \in [Fam -> Gw \cup {Nil}]
    BY DEF TypeInv, TypeOK, KernelOK
  <1>4. pre.addrs \in [Fam -> Seq(Addr)] /\ pre.gw \in [Fam -> Gw \cup {Nil}]
    BY DEF TypeInv, TypeOK, CallOK, Pre
  <1>5. addrs[F] \in Seq(Addr) /\ Found \in Seq(Addr) /\ Distinct(Found)
    BY <1>2, <1>3, <1>4 DEF Found, World, Sound
  <1>6. l \in Locals /\ l.i \in Nat \ {0}
    BY DEF TypeInv, TypeOK, CallOK, Locals
  <1> QED
    BY <1>1, <1>2, <1>3, <1>4, <1>5, <1>6

\* While the request and the world it found stay, so does all that is said of them.
LEMMA SameCall ==
    ASSUME UNCHANGED <<req, pre>>
    PROVE  /\ F' = F /\ Given' = Given /\ Found' = Found /\ Aim' = Aim /\ Target' = Target
           /\ Listed' = Listed /\ Taken' = Taken
           /\ Enlarged' = Enlarged /\ Handed' = Handed /\ Reentered' = Reentered
           /\ \A s : IsPrimaryOf(s)' <=> IsPrimaryOf(s)
           /\ \A f, j : Place(f, j)' = Place(f, j)
  <1>1. F' = F /\ Given' = Given
    BY DEF F, Given
  <1>2. Found' = Found
    BY <1>1 DEF Found
  <1>3. Aim' = Aim
    BY <1>1 DEF Aim
  <1>4. Target' = Target /\ Listed' = Listed
    BY <1>1, <1>2 DEF Target, Listed
  <1>5. Enlarged' = Enlarged /\ Handed' = Handed /\ Reentered' = Reentered
    BY <1>1, <1>2 DEF Enlarged, Handed, Reentered
  <1> QED
    BY <1>1, <1>2, <1>3, <1>4, <1>5 DEF Taken, IsPrimaryOf, Place

\* An interface that a call has left anywhere is one the kernel can show.
LEMMA WorldIsSound ==
    ASSUME TypeInv, World
    PROVE  Sound([up |-> up, addrs |-> addrs, gw |-> gw])
  <1>1. \A f \in Fam : Distinct(addrs[f])
    BY DEF World, Torn, Sound
  <1>2. ASSUME NEW f \in Fam, NEW i \in DOMAIN addrs[f]
        PROVE  FamOf(addrs[f][i].ip) = f
    <2>1. CASE f # F
      BY <2>1 DEF World, Torn, Sound
    <2>2. CASE f = F
      <3>1. addrs[F][i] \in ToSet(Found) \cup {req.addr}
        BY <1>2, <2>2 DEF World, Torn, ToSet
      <3>2. CASE addrs[F][i] \in ToSet(Found)
        BY <2>2, <3>2, Types DEF ToSet, Found, World, Sound
      <3>3. CASE addrs[F][i] = req.addr
        BY <2>2, <3>3 DEF F
      <3> QED
        BY <3>1, <3>2, <3>3
    <2> QED
      BY <2>1, <2>2
  <1>3. ASSUME NEW f \in Fam PROVE gw[f] \in GwOf(f) \cup {Nil}
    <2>1. gw[f] \in Gw \cup {Nil} /\ Zero \notin Gw /\ Zero # Nil
      BY Types, ConfiguratorAssumption
    <2>2. CASE f # F
      BY <2>2 DEF World, Torn, Sound
    <2>3. CASE f = F
      BY <2>1, <2>3 DEF World, Torn, Sound
    <2> QED
      BY <2>2, <2>3
  <1> QED
    BY <1>1, <1>2, <1>3 DEF World, Sound

\* The world after a step that keeps the request and what it found.
LEMMA WorldKept ==
    ASSUME World, UNCHANGED <<req, pre>>, Torn', Distinct(addrs'[F]),
           ~up' => \A f \in Fam : gw'[f] = Nil, l'.raised => ~pre.up
    PROVE  World'
  <1>1. F' = F
    BY SameCall
  <1>2. req'.gw \in GwOf(F) \cup {Nil, Zero} /\ Sound(pre')
    BY DEF World
  <1> QED
    BY <1>1, <1>2 DEF World

\* Writing the address asked for, or one the interface held, keeps the world.
LEMMA WriteKeeps ==
    ASSUME TypeInv, World, UNCHANGED <<req, pre>>, l'.raised => ~pre.up,
           NEW a \in Addr, AddrReplace(a), a = req.addr \/ a \in ToSet(Found)
    PROVE  World' /\ addrs'[F] \in Replaced(addrs[F], a)
  <1>1. FamOf(a.ip) = F
    <2>1. CASE a = req.addr
      BY <2>1 DEF F
    <2>2. CASE a \in ToSet(Found)
      BY <2>2, Types DEF ToSet, Found, World, Sound
    <2> QED
      BY <2>1, <2>2
  <1>2. PICK list \in Replaced(addrs[F], a) :
           addrs' = [addrs EXCEPT ![F] = list] /\ gw' = gw /\ up' = up
    BY <1>1 DEF AddrReplace
  <1>3. addrs'[F] = list /\ \A f \in Fam : f # F => addrs'[f] = addrs[f]
    BY <1>2, Types
  <1>4. Distinct(addrs'[F]) /\ ToSet(addrs'[F]) \subseteq ToSet(addrs[F]) \cup {a}
    BY <1>3, Types, ReplacedFacts DEF World
  <1>5. Torn'
    BY <1>2, <1>3, <1>4, SameCall DEF World, Torn
  <1> QED
    BY <1>2, <1>3, <1>4, <1>5, WorldKept DEF World

\* So does writing an address of the other family over itself.
LEMMA RewriteKeeps ==
    ASSUME TypeInv, World, UNCHANGED <<req, pre>>, l'.raised => ~pre.up,
           NEW f \in Fam, f # F, NEW j \in DOMAIN pre.addrs[f], AddrReplace(pre.addrs[f][j])
    PROVE  World' /\ addrs' = addrs
  <1> DEFINE a == pre.addrs[f][j]
  <1>1. FamOf(a.ip) = f /\ Distinct(pre.addrs[f]) /\ addrs[f] = pre.addrs[f]
    BY DEF World, Sound, Torn
  <1>2. pre.addrs[f] \in Seq(Addr)
    BY Types
  <1>3. Has(addrs[f], a.ip) /\ IndexOf(addrs[f], a.ip) = j
    BY <1>1, <1>2, IndexIsPlace
  <1>4. Replaced(addrs[f], a) = {addrs[f]}
    BY <1>1, <1>2, <1>3 DEF Replaced
  <1>5. addrs' = addrs /\ gw' = gw /\ up' = up
    BY <1>1, <1>4, Types DEF AddrReplace
  <1>6. Torn'
    BY <1>5, SameCall DEF World, Torn
  <1> QED
    BY <1>5, <1>6, WorldKept DEF World

\* Deleting an address of the family may take the family's route along, and no other.
LEMMA DeleteKeeps ==
    ASSUME TypeInv, World, UNCHANGED <<req, pre>>, l'.raised => ~pre.up,
           NEW ip \in IP, FamOf(ip) = F, AddrDel(ip)
    PROVE  /\ World' /\ Has(addrs[F], ip)
           /\ addrs' = [addrs EXCEPT ![F] = Without(@, ip)]
           /\ \A f \in Fam : f # F => gw'[f] = gw[f]
           /\ gw'[F] \in {gw[F], Nil}
           /\ gw[F] = Nil \/ Reaches(Without(addrs[F], ip), gw[F]) => gw' = gw
  <1>1. /\ addrs' = [addrs EXCEPT ![F] = Without(@, ip)] /\ up' = up /\ Has(addrs[F], ip)
        /\ \/ gw' = gw
           \/ /\ gw[F] # Nil /\ ~Reaches(Without(addrs[F], ip), gw[F])
              /\ gw' = [gw EXCEPT ![F] = Nil]
    BY DEF AddrDel
  <1>2. addrs'[F] = Without(addrs[F], ip) /\ \A f \in Fam : f # F => addrs'[f] = addrs[f]
    BY <1>1, Types
  <1>3. Distinct(addrs'[F]) /\ ToSet(addrs'[F]) \subseteq ToSet(addrs[F])
    BY <1>2, Types, WithoutFacts DEF World
  <1>4. gw'[F] \in {gw[F], Nil} /\ \A f \in Fam : f # F => gw'[f] = gw[f]
    BY <1>1, Types
  <1>5. Torn'
    BY <1>2, <1>3, <1>4, SameCall DEF World, Torn
  <1>6. ~up' => \A f \in Fam : gw'[f] = Nil
    BY <1>1, <1>4 DEF World
  <1> QED
    BY <1>1, <1>3, <1>4, <1>5, <1>6, WorldKept DEF World

\* The family's route is set to a gateway the call may end with, or goes.
LEMMA RouteKeeps ==
    ASSUME TypeInv, World, UNCHANGED <<req, pre>>, l'.raised => ~pre.up,
           NEW g \in {pre.gw[F], req.gw, Nil},
           RouteSet(F, g) \/ (RouteDel(F) /\ g = Nil)
    PROVE  World' /\ addrs' = addrs /\ gw' = [gw EXCEPT ![F] = g]
  <1>1. addrs' = addrs /\ up' = up /\ gw' = [gw EXCEPT ![F] = g] /\ (~up => g = Nil)
    BY DEF RouteSet, RouteDel
  <1>2. gw'[F] = g /\ \A f \in Fam : f # F => gw'[f] = gw[f]
    BY <1>1, Types
  <1>3. Torn'
    BY <1>1, <1>2, SameCall DEF World, Torn
  <1> QED
    BY <1>1, <1>2, <1>3, WorldKept DEF World

\* Neither a step that leaves the kernel alone nor the raising of the link changes the world.
LEMMA StillKeeps ==
    ASSUME TypeInv, World, UNCHANGED <<req, pre>>, l'.raised => ~pre.up,
           UNCHANGED kernel \/ LinkSetUp
    PROVE  World' /\ addrs' = addrs /\ gw' = gw
  <1>1. addrs' = addrs /\ gw' = gw /\ (up' = up \/ up')
    BY DEF kernel, LinkSetUp
  <1>2. Torn'
    BY <1>1, SameCall DEF World, Torn
  <1> QED
    BY <1>1, <1>2, WorldKept DEF World

-----------------------------------------------------------------------------
(* The labels: AddAddress *)

\* A call that returns says so, and one that goes through linkDown has undone the rest.
LEMMA ReturnKeeps ==
    ASSUME CallInv, pc # "idle", NEW r \in Failure, Return(r),
           l.raised => req.op = "AddAddress",
           r # "error" => Undone'
    PROVE  CallInv'
  <1>1. req' = req /\ pre' = pre /\ ret' = r /\ r \in {"refused", "error", "aborted"}
    BY DEF Return, Frame, Failure
  <1>2. \/ pc' = "linkDown" /\ l' = l /\ l.raised
        \/ pc' = "idle"
    BY DEF Return
  <1>3. pc' = "linkDown" => Leaving'
    <2> SUFFICES ASSUME pc' = "linkDown" PROVE Leaving'
      OBVIOUS
    <2>1. l'.raised /\ req'.op = "AddAddress"
      BY <1>1, <1>2
    <2>2. r # "error" => AsFound'
      BY <2>1 DEF Undone
    <2> QED
      BY <1>1, <2>1, <2>2 DEF Leaving
  <1> QED
    BY <1>1, <1>2, <1>3 DEF CallInv, Adding, Promoting, Removing, Failure

\* A return leaves the locals, or puts them as before the call.
LEMMA ReturnLocals ==
    ASSUME World, NEW r, Return(r)
    PROVE  UNCHANGED <<req, pre>> /\ (l'.raised => ~pre.up)
  BY DEF World, Return, Frame, L0

\* A netlink call that fails keeps the invariant at every label.
LEMMA FailsKeeps ==
    ASSUME TypeInv, World, CallInv, pc # "idle", Fails,
           l.raised => req.op = "AddAddress"
    PROVE  World' /\ CallInv'
  <1>1. World'
    BY ReturnLocals, StillKeeps DEF Fails
  <1>2. CallInv'
    BY ReturnKeeps DEF Fails, Failure
  <1> QED
    BY <1>1, <1>2

\* The link goes up and down with the world it found.
LEMMA LinkSteps ==
    ASSUME BookInv, EnsureLinkUp \/ LinkDown
    PROVE  World' /\ CallInv'
  <1> USE DEF Goto, Run, Frame
  <1>0. TypeInv /\ World /\ CallInv /\ RaisedInv
    BY DEF BookInv
  <1>1. CASE EnsureLinkUp
    <2>0. pc = "linkUp" /\ AsFound /\ req.op = "AddAddress" /\ ret = "running" /\ req \in Requests
      BY <1>0, <1>1 DEF EnsureLinkUp, CallInv, Adding
    <2>1. CASE Fails
      BY <1>0, <2>0, <2>1, FailsKeeps
    <2>2. CASE /\ UNCHANGED <<req, pre, ret>> /\ pc' = "write"
               /\ \/ up /\ UNCHANGED <<l, kernel>>
                  \/ ~up /\ LinkSetUp /\ l' = [l EXCEPT !.raised = TRUE]
      <3>1. l'.raised => ~pre.up
        BY <1>0, <2>0, <2>2 DEF RaisedInv, World
      <3>2. World' /\ addrs' = addrs /\ gw' = gw
        BY <1>0, <2>2, <3>1, StillKeeps
      <3>3. AsFound'
        BY <2>0, <2>2, <3>2 DEF AsFound
      <3>4. CallInv'
        BY <2>0, <2>2, <3>3 DEF CallInv, Adding, Promoting, Removing
      <3> QED
        BY <3>2, <3>4
    <2> QED
      BY <1>1, <2>1, <2>2 DEF EnsureLinkUp
  <1>2. CASE LinkDown
    <2>0. /\ UNCHANGED <<req, pre, ret>> /\ pc = "linkDown" /\ pc' = "idle" /\ ret # "running"
          /\ l.raised /\ ~l'.raised /\ addrs' = addrs
          /\ \/ gw' = gw /\ up' = up
             \/ \A f \in Fam : gw'[f] = Nil
      BY <1>0, <1>2 DEF LinkDown, LinkSetDown, CallInv, Leaving, Failure, kernel, L0
    <2>1. \A f \in Fam : pre.gw[f] = Nil
      BY <1>0, <2>0 DEF World, Sound
    <2>2. Torn'
      BY <1>0, <2>0, <2>1, SameCall, Types DEF World, Torn
    <2>3. World'
      BY <1>0, <2>0, <2>2, WorldKept DEF World
    <2>4. AsFound => AsFound'
      <3>1. gw' \in [Fam -> Gw \cup {Nil}] /\ pre.gw \in [Fam -> Gw \cup {Nil}]
        BY <1>0, <1>2, <2>0, Types DEF LinkDown, LinkSetDown, kernel
      <3>2. gw' = gw \/ gw' = pre.gw
        BY <2>0, <2>1, <3>1
      <3> QED
        BY <2>0, <3>2 DEF AsFound
    <2>5. ret # "error" => AsFound
      BY <1>0, <2>0 DEF CallInv, Leaving
    <2>6. CallInv'
      BY <1>0, <2>0, <2>4, <2>5 DEF CallInv, Adding, Promoting, Removing, Undone, Leaving, Failure
    <2> QED
      BY <2>3, <2>6
  <1> QED
    BY <1>1, <1>2

\* The address is written, the snapshot taken and the routes scanned.
LEMMA WriteSteps ==
    ASSUME BookInv, WriteAddress \/ ScanRoutes \/ ScanFails
    PROVE  World' /\ CallInv'
  <1> USE DEF Goto, Run, Frame
  <1>0. TypeInv /\ World /\ CallInv
    BY DEF BookInv
  <1>1. CASE WriteAddress
    <2>0. /\ pc = "write" /\ AsFound /\ req.op = "AddAddress" /\ ret = "running"
          /\ req \in Requests
      BY <1>0, <1>1 DEF WriteAddress, CallInv, Adding
    <2>1. CASE Fails
      BY <1>0, <2>0, <2>1, FailsKeeps
    <2>2. CASE Return("refused") /\ UNCHANGED kernel
      <3>1. World' /\ addrs' = addrs /\ gw' = gw
        BY <1>0, <2>2, ReturnLocals, StillKeeps
      <3>2. AsFound'
        BY <2>0, <2>2, <3>1 DEF AsFound, Return, Frame
      <3>3. Undone'
        BY <2>2, <3>2 DEF Undone, Return
      <3>4. CallInv'
        BY <1>0, <2>0, <2>2, <3>3, ReturnKeeps DEF Failure
      <3> QED
        BY <3>1, <3>4
    <2>3. CASE /\ AddrReplace(req.addr)
               /\ l' = [l EXCEPT !.exists = Has(addrs[F], req.addr.ip),
                                 !.orig = Snapshot,
                                 !.list = [addrs EXCEPT ![F] = Extended(@, req.addr)]]
               /\ pc' = "routes" /\ UNCHANGED <<req, pre, ret>>
      <3>1. /\ l'.raised = l.raised /\ l'.exists = Has(addrs[F], Given)
            /\ l'.orig = Snapshot
            /\ l'.list = [addrs EXCEPT ![F] = Extended(@, req.addr)]
        BY <1>0, <2>3, Types DEF Locals, Given
      <3>2. World' /\ addrs'[F] \in Replaced(addrs[F], req.addr) /\ gw' = gw
        <4>1. l'.raised => ~pre.up
          BY <1>0, <3>1 DEF World
        <4>2. gw' = gw
          BY <2>3 DEF AddrReplace
        <4> QED
          BY <1>0, <2>3, <4>1, <4>2, Types, WriteKeeps
      <3>3. addrs'[F'] \in Enlarged' /\ l'.exists = Has(Found, Given)
        BY <2>0, <2>3, <3>1, <3>2, SameCall DEF AsFound, Enlarged, Found
      <3>4. l'.orig = Taken /\ gw' = pre.gw /\ l'.list = Handed
        BY <2>0, <3>1, <3>2 DEF AsFound, Taken, Snapshot, Handed, Found
      <3>5. Adding'
        BY <2>0, <2>3, <3>3, <3>4, SameCall DEF Adding
      <3> QED
        BY <2>0, <2>3, <3>2, <3>5 DEF CallInv, Promoting, Removing
    <2> QED
      BY <1>1, <2>1, <2>2, <2>3 DEF WriteAddress
  <1>2. CASE ScanRoutes
    <2>0. /\ pc = "routes" /\ req.op = "AddAddress" /\ ret = "running" /\ req \in Requests
          /\ addrs[F] \in Enlarged /\ l.exists = Has(Found, Given)
          /\ l.list = Handed /\ l.orig = Taken /\ gw = pre.gw
      BY <1>0, <1>2 DEF ScanRoutes, CallInv, Adding
    <2>1. Wanted = Aim /\ Aim \in {pre.gw[F], req.gw, Nil} /\ Captured = gw
      BY <2>0 DEF Wanted, Aim, Captured
    <2>2. /\ l'.raised = l.raised /\ l'.exists = l.exists /\ l'.orig = l.orig
          /\ l'.list = l.list /\ l'.origGw = pre.gw[F] /\ l'.gateway = Aim
          /\ l'.gws = IF gw[F] = Nil THEN gw ELSE [gw EXCEPT ![F] = Aim]
      BY <1>0, <1>2, <2>0, <2>1, Types DEF ScanRoutes, Locals
    <2>3. /\ UNCHANGED <<req, pre, ret>> /\ pc' = IF Aim = Nil THEN "persist" ELSE "gateway"
          /\ \/ gw[F] = Nil /\ UNCHANGED kernel
             \/ gw[F] # Nil /\ Aim = gw[F] /\ UNCHANGED kernel
             \/ gw[F] # Nil /\ RouteDel(F) /\ Aim = Nil
             \/ gw[F] # Nil /\ RouteSet(F, req.gw) /\ Aim = req.gw
      <3>1. Zero # Nil /\ Zero \notin Gw /\ Nil \notin Gw
        BY ConfiguratorAssumption
      <3> QED
        BY <1>2, <2>0, <2>1, <3>1 DEF ScanRoutes, Wanted
    <2>4. l'.raised => ~pre.up
      BY <1>0, <2>2 DEF World
    <2>5. World' /\ addrs' = addrs /\ gw' = IF gw[F] = Nil THEN gw ELSE [gw EXCEPT ![F] = Aim]
      <3>1. CASE UNCHANGED kernel
        <4>1. World' /\ addrs' = addrs /\ gw' = gw
          BY <1>0, <2>3, <2>4, <3>1, StillKeeps
        <4>2. gw = [gw EXCEPT ![F] = gw[F]]
          BY <1>0, Types
        <4>3. \/ gw[F] = Nil
              \/ Aim = gw[F]
              \/ Aim = Nil /\ gw' = [gw EXCEPT ![F] = Nil]
              \/ Aim = req.gw /\ gw' = [gw EXCEPT ![F] = req.gw]
          BY <2>3 DEF RouteDel, RouteSet
        <4>4. gw[F] # Nil => gw' = [gw EXCEPT ![F] = Aim]
          BY <4>1, <4>2, <4>3
        <4> QED
          BY <4>1, <4>4
      <3>2. CASE gw[F] # Nil /\ (RouteSet(F, Aim) \/ (RouteDel(F) /\ Aim = Nil))
        <4>1. World' /\ addrs' = addrs /\ gw' = [gw EXCEPT ![F] = Aim]
          BY <1>0, <2>1, <2>3, <2>4, <3>2, RouteKeeps
        <4> QED
          BY <3>2, <4>1
      <3> QED
        BY <2>3, <3>1, <3>2
    <2>6. addrs'[F'] \in Enlarged' /\ gw'[F] \in {Nil, Aim}
      BY <1>0, <2>0, <2>3, <2>5, SameCall, Types
    <2>7. pc' = "persist" => Done'
      <3> SUFFICES ASSUME pc' = "persist" PROVE Done'
        OBVIOUS
      <3>1. Aim = Nil /\ gw' = [pre.gw EXCEPT ![F] = Aim]
        <4>1. gw[F] = Nil => gw = [gw EXCEPT ![F] = Nil]
          BY <1>0, Types
        <4> QED
          BY <2>0, <2>3, <2>5, <4>1
      <3>2. Routes(Aim)'
        BY <2>3, <3>1, SameCall DEF Routes
      <3> QED
        BY <2>0, <2>2, <2>3, <2>5, <2>6, <3>1, <3>2, SameCall DEF Done, Achieved
    <2>8. Adding'
      BY <2>0, <2>2, <2>3, <2>5, <2>6, SameCall DEF Adding
    <2> QED
      BY <2>0, <2>3, <2>5, <2>7, <2>8 DEF CallInv, Promoting, Removing
  <1>3. CASE ScanFails
    BY <1>0, <1>3, FailsKeeps DEF ScanFails, CallInv, Adding
  <1> QED
    BY <1>1, <1>2, <1>3

\* The gateway is added and the new state tested.
LEMMA GatewaySteps ==
    ASSUME BookInv, AddGateway \/ TestAdd
    PROVE  World' /\ CallInv'
  <1> USE DEF Goto, Run, Frame
  <1>0. TypeInv /\ World /\ CallInv
    BY DEF BookInv
  <1>1. CASE AddGateway
    <2>0. /\ pc = "gateway" /\ req.op = "AddAddress" /\ ret = "running" /\ req \in Requests
          /\ addrs[F] \in Enlarged /\ l.exists = Has(Found, Given)
          /\ l.list = Handed /\ l.orig = Taken /\ l.origGw = pre.gw[F] /\ l.gws = gw
          /\ Aim # Nil /\ l.gateway = Aim /\ gw[F] \in {Nil, Aim}
      BY <1>0, <1>1 DEF AddGateway, CallInv, Adding
    <2>1. CASE Fails
      BY <1>0, <2>0, <2>1, FailsKeeps
    <2>2. CASE /\ UNCHANGED <<req, pre, ret>> /\ pc' \in {"test", "persist"}
               /\ \/ gw[F] # Nil /\ UNCHANGED <<l, kernel>>
                  \/ RouteSet(F, Aim) /\ l' = [l EXCEPT !.added = TRUE, !.gws[F] = Aim]
      <3>1. /\ l'.raised = l.raised /\ l'.exists = l.exists /\ l'.orig = l.orig
            /\ l'.list = l.list /\ l'.origGw = l.origGw
            /\ \/ gw[F] # Nil /\ UNCHANGED kernel /\ l'.gws = gw
               \/ RouteSet(F, Aim) /\ l'.gws = [gw EXCEPT ![F] = Aim]
        BY <1>0, <2>0, <2>2, Types DEF Locals
      <3>2. l'.raised => ~pre.up
        BY <1>0, <3>1 DEF World
      <3>3. Aim \in {pre.gw[F], req.gw, Nil}
        BY DEF Aim
      <3>4. World' /\ addrs' = addrs /\ gw' = [gw EXCEPT ![F] = Aim] /\ l'.gws = gw'
        <4>1. CASE gw[F] # Nil /\ UNCHANGED kernel /\ l'.gws = gw
          <5>1. World' /\ addrs' = addrs /\ gw' = gw
            BY <1>0, <2>2, <3>2, <4>1, StillKeeps
          <5>2. gw = [gw EXCEPT ![F] = Aim]
            BY <1>0, <2>0, <4>1, Types
          <5> QED
            BY <4>1, <5>1, <5>2
        <4>2. CASE RouteSet(F, Aim) /\ l'.gws = [gw EXCEPT ![F] = Aim]
          BY <1>0, <2>2, <3>2, <3>3, <4>2, RouteKeeps
        <4> QED
          BY <3>1, <4>1, <4>2
      <3>5. gw'[F] = Aim /\ gw' = [pre.gw EXCEPT ![F] = Aim]
        <4>1. \A f \in Fam : f # F => gw[f] = pre.gw[f]
          BY <1>0 DEF World, Torn
        <4> QED
          BY <1>0, <3>4, <4>1, Types
      <3>6. addrs'[F'] \in Enlarged' /\ Routes(Aim)'
        BY <2>0, <2>2, <3>4, <3>5, SameCall DEF Routes
      <3>7. Done'
        BY <2>0, <2>2, <3>1, <3>4, <3>6, SameCall DEF Done, Achieved
      <3>8. Adding'
        BY <2>0, <2>2, <3>1, <3>4, <3>5, <3>6, SameCall DEF Adding
      <3> QED
        BY <2>0, <2>2, <3>4, <3>7, <3>8 DEF CallInv, Promoting, Removing
    <2> QED
      BY <1>1, <2>0, <2>1, <2>2 DEF AddGateway
  <1>2. CASE TestAdd
    <2>0. /\ pc = "test" /\ req.op = "AddAddress" /\ ret = "running" /\ req \in Requests
          /\ addrs[F] \in Enlarged /\ l.exists = Has(Found, Given)
          /\ l.list = Handed /\ l.orig = Taken /\ l.origGw = pre.gw[F] /\ l.gws = gw
          /\ gw[F] = Aim
      BY <1>0, <1>2 DEF TestAdd, CallInv, Adding
    <2>1. /\ UNCHANGED <<req, pre, ret, kernel>>
          /\ \/ pc' = "persist" /\ l' = l
             \/ pc' = "restore" /\ l.exists /\ l' = [l EXCEPT !.i = 1]
             \/ pc' = "undoAdd" /\ ~l.exists /\ l' = [l EXCEPT !.i = 1]
      BY <1>2 DEF TestAdd
    <2>2. /\ l'.raised = l.raised /\ l'.exists = l.exists /\ l'.orig = l.orig
          /\ l'.list = l.list /\ l'.origGw = l.origGw /\ l'.gws = l.gws
          /\ (pc' # "persist" => l'.i = 1)
      BY <1>0, <2>1, Types DEF Locals
    <2>3. World' /\ addrs' = addrs /\ gw' = gw
      <3>1. l'.raised => ~pre.up
        BY <1>0, <2>2 DEF World
      <3> QED
        BY <1>0, <2>1, <3>1, StillKeeps
    <2>4. addrs'[F'] \in Enlarged' /\ Routes(Aim)'
      <3>1. gw = [pre.gw EXCEPT ![F] = Aim]
        BY <1>0, <2>0, Types DEF World, Torn
      <3> QED
        BY <2>0, <2>1, <2>3, <3>1, SameCall DEF Routes
    <2>5. Done'
      BY <2>0, <2>1, <2>2, <2>3, <2>4, SameCall DEF Done, Achieved
    <2>6. pc' = "restore" => Restoring'
      <3> SUFFICES ASSUME pc' = "restore" PROVE Restoring'
        OBVIOUS
      <3>1. addrs[F] \in Replaced(Found, req.addr) /\ Has(Found, Given)
        BY <2>0, <2>1 DEF Enlarged
      <3>2. /\ DOMAIN addrs[F] = DOMAIN Found
            /\ \A j \in DOMAIN Found : addrs[F][j].ip = Found[j].ip
        <4>1. Found \in Seq(Addr) /\ Distinct(Found) /\ req.addr \in Addr
          BY <1>0, Types
        <4>2. Has(Found, req.addr.ip)
          BY <3>1 DEF Given
        <4>3. /\ DOMAIN addrs[F] = DOMAIN Found
              /\ \A j \in DOMAIN Found : addrs[F][j] =
                     IF Found[j].ip = req.addr.ip THEN req.addr ELSE Found[j]
          BY <3>1, <4>1, <4>2, ReplacedFacts
        <4> QED
          BY <4>3
      <3>3. \A j \in DOMAIN Found : ~(Place(F, j) < 1)
        <4>1. Len(pre.addrs["v4"]) \in Nat /\ DOMAIN Found = 1..Len(Found)
          BY <1>0, Types DEF Fam
        <4> QED
          BY <4>1 DEF Place
      <3> QED
        BY <2>1, <2>2, <2>3, <3>2, <3>3, SameCall DEF Restoring
    <2>7. Adding'
      BY <2>0, <2>1, <2>2, <2>3, <2>4, <2>6, SameCall DEF Adding
    <2> QED
      BY <2>0, <2>1, <2>3, <2>5, <2>7 DEF CallInv, Promoting, Removing
  <1> QED
    BY <1>1, <1>2

\* The snapshot, element by element.
LEMMA TakenFacts ==
    ASSUME TypeInv, World, NEW i \in 1..Len(Taken)
    PROVE  \E f \in Fam : \E j \in DOMAIN pre.addrs[f] :
              Taken[i] = pre.addrs[f][j] /\ Place(f, j) = i
  <1> DEFINE s4 == pre.addrs["v4"]
             s6 == pre.addrs["v6"]
  <1>1. s4 \in Seq(Addr) /\ s6 \in Seq(Addr) /\ "v4" \in Fam /\ "v6" \in Fam
    BY Types DEF Fam
  <1>2. Taken = s4 \o s6
    BY DEF Taken
  <1> HIDE DEF s4, s6
  <1>6. Len(Taken) = Len(s4) + Len(s6) /\ Len(s4) \in Nat /\ Len(s6) \in Nat /\ i \in Nat \ {0}
    BY <1>1, <1>2
  <1>3. CASE i <= Len(s4)
    <2>1. i \in DOMAIN s4 /\ Taken[i] = s4[i]
      BY <1>1, <1>2, <1>3, <1>6
    <2> QED
      BY <1>1, <2>1 DEF Place, s4
  <1>4. CASE i > Len(s4)
    <2>1. i - Len(s4) \in DOMAIN s6 /\ Taken[i] = s6[i - Len(s4)]
      BY <1>1, <1>2, <1>4, <1>6
    <2>2. Place("v6", i - Len(s4)) = i
      BY <1>6 DEF Place, s4
    <2> QED
      BY <1>1, <2>1, <2>2 DEF s6
  <1>5. i <= Len(s4) \/ i > Len(s4)
    BY <1>6
  <1> QED
    BY <1>3, <1>4, <1>5

\* The rollback of AddAddress: the addresses.
LEMMA RestoreSteps ==
    ASSUME BookInv, UndoAdd \/ RestoreAddress
    PROVE  World' /\ CallInv'
  <1> USE DEF Goto, Run, Frame
  <1>0. TypeInv /\ World /\ CallInv
    BY DEF BookInv
  <1>1. CASE UndoAdd
    <2>0. /\ pc = "undoAdd" /\ req.op = "AddAddress" /\ ret = "running" /\ req \in Requests
          /\ addrs[F] \in Enlarged /\ ~Has(Found, Given)
          /\ l.orig = Taken /\ l.origGw = pre.gw[F] /\ l.i = 1 /\ l.exists = Has(Found, Given)
      BY <1>0, <1>1 DEF UndoAdd, CallInv, Adding
    <2>1. CASE Fails
      BY <1>0, <2>0, <2>1, FailsKeeps
    <2>2. CASE AddrDel(Given) /\ pc' = "restore" /\ UNCHANGED <<l, req, pre, ret>>
      <3>1. World' /\ addrs' = [addrs EXCEPT ![F] = Without(@, Given)]
        <4>1. l'.raised => ~pre.up
          BY <1>0, <2>2 DEF World
        <4> QED
          BY <1>0, <2>2, <4>1, Types, DeleteKeeps
      <3>2. addrs'[F] = Found
        <4>1. addrs[F] \in Replaced(Found, req.addr)
          BY <2>0 DEF Enlarged
        <4>2. Without(addrs[F], Given) = Found
          BY <1>0, <2>0, <4>1, Types, ReplacedFacts DEF Given
        <4> QED
          BY <1>0, <3>1, <4>2, Types
      <3>3. Restoring'
        BY <2>2, <3>2, SameCall DEF Restoring
      <3>4. Adding'
        BY <2>0, <2>2, <3>3, SameCall DEF Adding
      <3> QED
        BY <2>0, <2>2, <3>1, <3>4 DEF CallInv, Promoting, Removing
    <2> QED
      BY <1>1, <2>1, <2>2 DEF UndoAdd, Given
  <1>2. CASE RestoreAddress
    <2>0. /\ pc = "restore" /\ req.op = "AddAddress" /\ ret = "running" /\ req \in Requests
          /\ l.orig = Taken /\ l.origGw = pre.gw[F] /\ Restoring
      BY <1>0, <1>2 DEF RestoreAddress, CallInv, Adding
    <2>1. CASE Fails
      BY <1>0, <2>0, <2>1, FailsKeeps
    <2>2. CASE /\ l.i <= Len(Taken) /\ AddrReplace(Taken[l.i])
               /\ l' = [l EXCEPT !.i = @ + 1] /\ pc' = "restore" /\ UNCHANGED <<req, pre, ret>>
      <3>1. /\ l'.raised = l.raised /\ l'.orig = l.orig /\ l'.origGw = l.origGw
            /\ l'.i = l.i + 1
        BY <1>0, <2>2, Types DEF Locals
      <3>2. l'.raised => ~pre.up
        BY <1>0, <3>1 DEF World
      <3>3. Taken \in Seq(Addr)
        BY <1>0, Types DEF Taken, Fam
      <3>4. PICK f \in Fam : \E j \in DOMAIN pre.addrs[f] :
                Taken[l.i] = pre.addrs[f][j] /\ Place(f, j) = l.i
        BY <1>0, <2>2, <3>3, Types, TakenFacts
      <3>5. PICK j \in DOMAIN pre.addrs[f] : Taken[l.i] = pre.addrs[f][j] /\ Place(f, j) = l.i
        BY <3>4
      <3>6. \A k \in DOMAIN Found : Place(F, k) \in Nat
        <4>1. Len(pre.addrs["v4"]) \in Nat /\ DOMAIN Found \subseteq Nat
          BY <1>0, Types DEF Fam
        <4> QED
          BY <4>1 DEF Place
      <3>7. World' /\ Restoring'
        <4>1. CASE f # F
          <5>1. World' /\ addrs' = addrs
            BY <1>0, <2>2, <3>2, <3>5, <4>1, RewriteKeeps
          <5>2. ASSUME NEW k \in DOMAIN Found, Place(F, k) < l.i + 1
                PROVE  addrs[F][k] = Found[k]
            <6>1. Place(F, k) # l.i
              <7>1. /\ DOMAIN pre.addrs["v4"] = 1..Len(pre.addrs["v4"])
                    /\ DOMAIN pre.addrs["v6"] = 1..Len(pre.addrs["v6"])
                    /\ Len(pre.addrs["v4"]) \in Nat /\ Len(pre.addrs["v6"]) \in Nat
                BY <1>0, Types DEF Fam
              <7> QED
                BY <1>0, <3>5, <4>1, <7>1, Types DEF Place, Found, Fam
            <6>2. Place(F, k) < l.i
              BY <1>0, <3>6, <5>2, <6>1, Types
            <6> QED
              BY <2>0, <6>2 DEF Restoring
          <5>3. Restoring'
            BY <2>0, <2>2, <3>1, <5>1, <5>2, SameCall DEF Restoring
          <5> QED
            BY <5>1, <5>3
        <4>2. CASE f = F
          <5> DEFINE a == Found[j]
          <5>1. j \in DOMAIN Found /\ a = Taken[l.i] /\ a \in Addr /\ a \in ToSet(Found)
            BY <1>0, <3>5, <4>2, Types DEF Found, ToSet
          <5>2. World' /\ addrs'[F] \in Replaced(addrs[F], a)
            BY <1>0, <2>2, <3>2, <5>1, WriteKeeps
          <5>3. /\ addrs'[F] \in Replaced(addrs[F], a)
                /\ Distinct(addrs[F]) /\ addrs[F] \in Seq(Addr)
            BY <1>0, <5>2, Types DEF World
          <5>4. Has(addrs[F], a.ip) /\ IndexOf(addrs[F], a.ip) = j
            BY <2>0, <5>1, <5>3, IndexIsPlace DEF Restoring
          <5>5. addrs'[F] = [addrs[F] EXCEPT ![j] = a]
            BY <5>3, <5>4 DEF Replaced
          <5>6. /\ DOMAIN addrs'[F] = DOMAIN Found
                /\ \A k \in DOMAIN Found : addrs'[F][k] = IF k = j THEN Found[j] ELSE addrs[F][k]
            BY <2>0, <5>1, <5>3, <5>5 DEF Restoring
          <5>7. ASSUME NEW k \in DOMAIN Found, k # j, Place(F, k) < l.i + 1
                PROVE  Place(F, k) < l.i
            <6>1. Place(F, k) # Place(F, j)
              <7>1. Len(pre.addrs["v4"]) \in Nat /\ DOMAIN Found \subseteq Nat
                BY <1>0, Types DEF Fam
              <7> QED
                BY <5>1, <5>7, <7>1 DEF Place
            <6> QED
              BY <1>0, <3>5, <3>6, <4>2, <5>7, <6>1, Types
          <5>8. Restoring'
            BY <2>0, <2>2, <3>1, <5>6, <5>7, SameCall DEF Restoring
          <5> QED
            BY <5>2, <5>8
        <4> QED
          BY <4>1, <4>2
      <3>8. Adding'
        BY <2>0, <2>2, <3>1, <3>7, SameCall DEF Adding
      <3> QED
        BY <2>0, <2>2, <3>7, <3>8 DEF CallInv, Promoting, Removing
    <2>3. CASE /\ l.i > Len(Taken) /\ pc' = "restoreRoute"
               /\ UNCHANGED <<l, kernel, req, pre, ret>>
      <3>1. World' /\ addrs' = addrs
        <4>1. l'.raised => ~pre.up
          BY <1>0, <2>3 DEF World
        <4> QED
          BY <1>0, <2>3, <4>1, StillKeeps
      <3>2. \A k \in DOMAIN Found : Place(F, k) < l.i
        <4>1. pre.addrs["v4"] \in Seq(Addr) /\ pre.addrs["v6"] \in Seq(Addr)
          BY <1>0, Types DEF Fam
        <4>2. Len(Taken) = Len(pre.addrs["v4"]) + Len(pre.addrs["v6"])
          BY <4>1 DEF Taken
        <4>3. F \in {"v4", "v6"} /\ l.i \in Nat
          BY <1>0, Types DEF Fam
        <4> DEFINE n4 == Len(pre.addrs["v4"])
                   n6 == Len(pre.addrs["v6"])
        <4>4. /\ n4 \in Nat /\ DOMAIN pre.addrs["v4"] = 1..n4
              /\ n6 \in Nat /\ DOMAIN pre.addrs["v6"] = 1..n6
          BY <4>1
        <4>5. Len(Taken) = n4 + n6
          BY <4>2
        <4>6. \A k : Place(F, k) = IF F = "v4" THEN k ELSE n4 + k
          BY DEF Place
        <4> HIDE DEF n4, n6
        <4>7. \A k \in DOMAIN Found : Place(F, k) <= n4 + n6 /\ Place(F, k) \in Nat
          BY <4>3, <4>4, <4>6 DEF Found
        <4> QED
          BY <2>3, <4>3, <4>4, <4>5, <4>7
      <3>3. addrs[F] = Found
        <4>1. DOMAIN addrs[F] = DOMAIN Found /\ \A k \in DOMAIN Found : addrs[F][k] = Found[k]
          BY <2>0, <3>2 DEF Restoring
        <4>2. addrs[F] \in Seq(Addr) /\ Found \in Seq(Addr)
          BY <1>0, Types
        <4> QED
          BY <4>1, <4>2
      <3>4. addrs = pre.addrs
        <4>1. \A f \in Fam : addrs[f] = pre.addrs[f]
          BY <1>0, <3>3 DEF World, Torn, Found
        <4>2. addrs \in [Fam -> Seq(Addr)] /\ pre.addrs \in [Fam -> Seq(Addr)]
          BY <1>0, Types
        <4> QED
          BY <4>1, <4>2
      <3>5. Adding'
        BY <2>0, <2>3, <3>1, <3>4, SameCall DEF Adding
      <3> QED
        BY <2>0, <2>3, <3>1, <3>5 DEF CallInv, Promoting, Removing
    <2> QED
      BY <1>2, <2>0, <2>1, <2>2, <2>3 DEF RestoreAddress
  <1> QED
    BY <1>1, <1>2

\* The rollback of AddAddress: the route.
LEMMA RestoreRouteStep ==
    ASSUME BookInv, RestoreRoute
    PROVE  World' /\ CallInv'
  <1> USE DEF Goto, Run, Frame
  <1>0. TypeInv /\ World /\ CallInv
    BY DEF BookInv
  <1>1. /\ pc = "restoreRoute" /\ req.op = "AddAddress" /\ l.origGw = pre.gw[F]
        /\ addrs = pre.addrs
    BY <1>0 DEF RestoreRoute, CallInv, Adding
  <1>2. CASE Fails
    BY <1>0, <1>1, <1>2, FailsKeeps
  <1>3. CASE /\ Return("aborted")
             /\ RouteSet(F, pre.gw[F]) \/ (RouteDel(F) /\ pre.gw[F] = Nil)
    <2>1. World' /\ addrs' = addrs /\ gw' = [gw EXCEPT ![F] = pre.gw[F]]
      BY <1>0, <1>3, ReturnLocals, RouteKeeps
    <2>2. gw' = pre.gw
      BY <1>0, <2>1, Types DEF World, Torn
    <2>3. AsFound'
      BY <1>1, <1>3, <2>1, <2>2 DEF AsFound, Return
    <2>4. Undone'
      BY <1>1, <1>3, <2>3 DEF Undone, Return
    <2>5. CallInv'
      BY <1>0, <1>1, <1>3, <2>4, ReturnKeeps DEF Failure
    <2> QED
      BY <2>1, <2>5
  <1> QED
    BY <1>1, <1>2, <1>3 DEF RestoreRoute

-----------------------------------------------------------------------------
(* The labels: SetPrimaryAddress *)

\* The order asked for has the addresses that were found, the promoted one first.
LEMMA TargetFacts ==
    ASSUME TypeInv, World, Has(Found, Given)
    PROVE  /\ Target \in Seq(Addr) /\ Len(Target) = Len(Found) /\ Distinct(Target)
           /\ ToSet(Target) = ToSet(Found)
           /\ Target # <<>> /\ Target[1].ip = Given
           /\ Target[1] = Found[IndexOf(Found, Given)]
  <1> DEFINE k == IndexOf(Found, Given)
             a == Found[k]
  <1>1. Found \in Seq(Addr) /\ Distinct(Found)
    BY Types
  <1>2. k \in DOMAIN Found /\ a.ip = Given /\ a \in Addr /\ a \in ToSet(Found)
    BY <1>1, IndexOfType DEF ToSet
  <1>3. ToSet(Found) = ToSet(Without(Found, Given)) \cup {a}
    BY <1>1, WithoutFacts
  <1> HIDE DEF k
  <1>4. Target = Reordered(Found, a)
    BY DEF Target, k
  <1>5. /\ Target \in Seq(Addr) /\ Len(Target) = Len(Found) /\ Distinct(Target)
        /\ Target[1] = a /\ ToSet(Target) = ToSet(Without(Found, Given)) \cup {a}
    BY <1>1, <1>2, <1>4, ReorderedFacts
  <1>6. Target # <<>>
    BY <1>1, <1>2, <1>5
  <1> QED
    BY <1>2, <1>3, <1>5, <1>6 DEF k

\* What the reapplication of a family knows at each of its labels.
Reapplying ==
    /\ req.op = "SetPrimaryAddress" /\ Has(Found, Given) /\ Found[1].ip # Given
    /\ l.list = Listed /\ l.gws = pre.gw /\ ~l.raised
    /\ l.origGw = pre.gw[F] /\ l.fam = Found
    /\ l.order = IF l.undo THEN Found ELSE Target
    /\ gw[F] \in {pre.gw[F], Nil}
    /\ l.i <= Len(Found) + 1

\* The list that is being written is one of the family's addresses.
LEMMA OrderFacts ==
    ASSUME TypeInv, World, Reapplying
    PROVE  /\ l.order \in Seq(Addr) /\ Len(l.order) = Len(Found) /\ Distinct(l.order)
           /\ \A j \in DOMAIN l.order : l.order[j] \in ToSet(Found)
  <1>1. l.order = Target \/ l.order = Found
    BY DEF Reapplying
  <1>2. Found \in Seq(Addr) /\ Distinct(Found)
    BY Types
  <1>3. Target \in Seq(Addr) /\ Len(Target) = Len(Found) /\ Distinct(Target)
        /\ ToSet(Target) = ToSet(Found)
    BY TargetFacts DEF Reapplying
  <1> QED
    BY <1>1, <1>2, <1>3 DEF ToSet

\* reapply: every address goes, and comes back in the order asked for.
LEMMA ReapplySteps ==
    ASSUME BookInv, DeleteNext \/ InsertNext
    PROVE  World' /\ CallInv'
  <1> USE DEF Goto, Run, Frame
  <1>0. TypeInv /\ World /\ CallInv
    BY DEF BookInv
  <1>1. Reapplying /\ ret = "running" /\ req \in Requests
    BY <1>0 DEF DeleteNext, InsertNext, CallInv, Promoting, Reapplying
  <1>2. ASSUME Fails PROVE World' /\ CallInv'
    BY <1>0, <1>1, <1>2, FailsKeeps DEF DeleteNext, InsertNext, Reapplying
  <1>3. ASSUME NEW i \in Nat \ {0}, i <= Len(Found) + 1, l' = [l EXCEPT !.i = i],
               UNCHANGED <<req, pre>>, gw'[F] \in {gw[F], Nil}
        PROVE  Reapplying' /\ l'.i = i /\ l'.order = l.order /\ (l'.raised => ~pre.up)
    <2>1. /\ l'.i = i /\ l'.order = l.order /\ l'.raised = l.raised /\ l'.list = l.list
          /\ l'.gws = l.gws /\ l'.origGw = l.origGw /\ l'.fam = l.fam /\ l'.undo = l.undo
      BY <1>0, <1>3, Types DEF Locals
    <2> QED
      BY <1>0, <1>1, <1>3, <2>1, SameCall DEF Reapplying, World
  <1>4. l.i \in Nat \ {0} /\ Found \in Seq(Addr) /\ Len(Found) \in Nat
    BY <1>0, Types
  <1>5. CASE DeleteNext
    <2>0. pc = "delete" /\ Len(addrs[F]) = Len(Found) + 1 - l.i /\ l.fam = Found
      BY <1>0, <1>1, <1>5 DEF DeleteNext, CallInv, Promoting, Reapplying
    <2>1. CASE /\ l.i <= Len(Found) /\ AddrDel(Found[l.i].ip)
               /\ l' = [l EXCEPT !.i = @ + 1] /\ pc' = "delete" /\ UNCHANGED <<req, pre, ret>>
      <3> DEFINE d == Found[l.i].ip
      <3>1. d \in IP /\ FamOf(d) = F
        <4>1. l.i \in DOMAIN Found
          BY <1>4, <2>1
        <4>2. Found[l.i] \in Addr
          BY <1>4, <4>1
        <4> QED
          BY <1>0, <4>1, <4>2, Types DEF Addr, World, Sound, Found
      <3>2. l'.raised => ~pre.up
        BY <1>0, <2>1, Types DEF Locals, World
      <3>3. /\ World' /\ Has(addrs[F], d) /\ addrs' = [addrs EXCEPT ![F] = Without(@, d)]
            /\ gw'[F] \in {gw[F], Nil}
        BY <1>0, <2>1, <3>1, <3>2, DeleteKeeps
      <3>4. Reapplying' /\ l'.i = l.i + 1
        BY <1>3, <1>4, <2>1, <3>3
      <3>5. Len(addrs'[F]) = Len(addrs[F]) - 1
        <4>1. addrs[F] \in Seq(Addr) /\ Distinct(addrs[F]) /\ addrs'[F] = Without(addrs[F], d)
          BY <1>0, <3>3, Types DEF World
        <4> QED
          BY <3>3, <4>1, WithoutFacts
      <3>6. Promoting'
        <4>1. Len(addrs'[F]) = Len(Found) + 1 - l'.i
          BY <1>4, <2>0, <3>4, <3>5
        <4> QED
          BY <2>1, <3>4, <4>1, SameCall DEF Promoting, Reapplying
      <3> QED
        BY <1>1, <2>1, <3>3, <3>6 DEF CallInv, Adding, Removing
    <2>2. CASE /\ l.i > Len(Found) /\ l' = [l EXCEPT !.i = 1] /\ pc' = "insert"
               /\ UNCHANGED <<kernel, req, pre, ret>>
      <3>1. Reapplying' /\ l'.i = 1 /\ l'.order = l.order /\ (l'.raised => ~pre.up)
        <4>1. 1 \in Nat \ {0} /\ 1 <= Len(Found) + 1
          BY <1>4
        <4>2. gw'[F] \in {gw[F], Nil}
          BY <2>2 DEF kernel
        <4> QED
          BY <1>3, <2>2, <4>1, <4>2
      <3>2. World' /\ addrs' = addrs /\ gw' = gw
        BY <1>0, <2>2, <3>1, StillKeeps
      <3>3. addrs[F] = <<>>
        <4>1. addrs[F] \in Seq(Addr) /\ Len(addrs[F]) \in Nat
          BY <1>0, Types
        <4>2. Len(addrs[F]) = 0
          BY <1>1, <1>4, <2>0, <2>2, <4>1 DEF Reapplying
        <4> QED
          BY <4>1, <4>2
      <3>4. Arranged(F, addrs[F], l.order, 1 - 1)
        BY <3>3 DEF Arranged, ToSet
      <3>5. Promoting'
        BY <2>2, <3>1, <3>2, <3>3, <3>4, SameCall DEF Promoting, Reapplying
      <3> QED
        BY <1>1, <2>2, <3>2, <3>5 DEF CallInv, Adding, Removing
    <2> QED
      BY <1>2, <1>5, <2>0, <2>1, <2>2 DEF DeleteNext
  <1>6. CASE InsertNext
    <2>0. pc = "insert" /\ Arranged(F, addrs[F], l.order, l.i - 1)
      BY <1>0, <1>6 DEF InsertNext, CallInv, Promoting
    <2>1. /\ l.order \in Seq(Addr) /\ Len(l.order) = Len(Found) /\ Distinct(l.order)
          /\ \A j \in DOMAIN l.order : l.order[j] \in ToSet(Found)
      BY <1>0, <1>1, OrderFacts
    <2>2. CASE /\ l.i <= Len(l.order) /\ AddrReplace(l.order[l.i])
               /\ l' = [l EXCEPT !.i = @ + 1] /\ pc' = "insert" /\ UNCHANGED <<req, pre, ret>>
      <3>1. l.i \in 1..Len(l.order) /\ l.order[l.i] \in Addr /\ l.order[l.i] \in ToSet(Found)
        BY <1>4, <2>1, <2>2
      <3>2. l'.raised => ~pre.up
        BY <1>0, <2>2, Types DEF Locals, World
      <3>3. World' /\ addrs'[F] \in Replaced(addrs[F], l.order[l.i]) /\ gw' = gw
        <4>1. gw' = gw
          BY <2>2 DEF AddrReplace
        <4> QED
          BY <1>0, <2>2, <3>1, <3>2, <4>1, WriteKeeps
      <3>4. Reapplying' /\ l'.i = l.i + 1 /\ l'.order = l.order
        <4>1. l.i + 1 \in Nat \ {0} /\ l.i + 1 <= Len(Found) + 1
          BY <1>4, <2>1, <2>2
        <4> QED
          BY <1>3, <2>2, <3>3, <4>1
      <3>5. Arranged(F, addrs'[F], l.order, l.i)
        <4>1. addrs[F] \in Seq(Addr) /\ Distinct(addrs[F])
          BY <1>0, Types DEF World
        <4>2. FamOf(l.order[l.i].ip) = F
          BY <1>0, <3>1, Types DEF ToSet, Found, World, Sound
        <4> QED
          BY <2>0, <2>1, <3>1, <3>3, <4>1, <4>2, ArrangedGrows
      <3>6. Promoting'
        <4>1. (l.i + 1) - 1 = l.i
          BY <1>4
        <4> QED
          BY <2>2, <3>4, <3>5, <4>1, SameCall DEF Promoting, Reapplying
      <3> QED
        BY <1>1, <2>2, <3>3, <3>6 DEF CallInv, Adding, Removing
    <2>3. CASE /\ l.i > Len(l.order) /\ l' = [l EXCEPT !.i = 1] /\ pc' = "reroute"
               /\ UNCHANGED <<kernel, req, pre, ret>>
      <3>1. Reapplying' /\ l'.i = 1 /\ l'.order = l.order /\ (l'.raised => ~pre.up)
        <4>1. 1 \in Nat \ {0} /\ 1 <= Len(Found) + 1
          BY <1>4
        <4>2. UNCHANGED <<req, pre>> /\ gw'[F] \in {gw[F], Nil} /\ l' = [l EXCEPT !.i = 1]
          BY <2>3 DEF kernel
        <4> HIDE <2>3
        <4> QED
          BY <1>3, <4>1, <4>2
      <3>2. World' /\ addrs' = addrs /\ gw' = gw
        BY <1>0, <2>3, <3>1, StillKeeps
      <3>3. Arranged(F, addrs[F], l.order, Len(Found))
        <4>1. l.i - 1 = Len(Found)
          BY <1>1, <1>4, <2>1, <2>3 DEF Reapplying
        <4> QED
          BY <2>0, <4>1
      <3>4. Promoting'
        BY <2>3, <3>1, <3>2, <3>3, SameCall DEF Promoting, Reapplying
      <3> QED
        BY <1>1, <2>3, <3>2, <3>4 DEF CallInv, Adding, Removing
    <2> QED
      BY <1>2, <1>6, <2>2, <2>3 DEF InsertNext
  <1> QED
    BY <1>5, <1>6

\* reapply restores the route; then the new order is tested, or the old one is back.
LEMMA RerouteSteps ==
    ASSUME BookInv, Reroute \/ RerouteFails \/ TestPrimary
    PROVE  World' /\ CallInv'
  <1> USE DEF Goto, Run, Frame
  <1>0. TypeInv /\ World /\ CallInv
    BY DEF BookInv
  <1>1. /\ Reapplying /\ ret = "running" /\ req \in Requests
        /\ Arranged(F, addrs[F], l.order, Len(Found)) /\ l.i = 1
    BY <1>0 DEF Reroute, RerouteFails, TestPrimary, CallInv, Promoting, Reapplying
  <1>2. CASE RerouteFails
    BY <1>0, <1>1, <1>2, FailsKeeps DEF RerouteFails, Reapplying
  <1>3. CASE Reroute
    <2>1. /\ pc = "reroute" /\ UNCHANGED <<req, pre>>
          /\ \/ l.undo /\ Return("aborted")
             \/ ~l.undo /\ pc' \in {"testPrimary", "persist"} /\ UNCHANGED <<l, ret>>
      BY <1>3 DEF Reroute, Return
    <2>2. l'.raised => ~pre.up
      BY <1>0, <2>1, ReturnLocals DEF World
    <2>3. World' /\ addrs' = addrs /\ gw' = pre.gw
      <3>1. CASE RouteSet(F, pre.gw[F])
        <4>1. World' /\ addrs' = addrs /\ gw' = [gw EXCEPT ![F] = pre.gw[F]]
          BY <1>0, <2>1, <2>2, <3>1, RouteKeeps
        <4> QED
          BY <1>0, <4>1, Types DEF World, Torn
      <3>2. CASE UNCHANGED kernel /\ gw[F] = pre.gw[F]
        <4>1. World' /\ addrs' = addrs /\ gw' = gw
          BY <1>0, <2>1, <2>2, <3>2, StillKeeps
        <4>2. \A f \in Fam : gw[f] = pre.gw[f]
          BY <1>0, <3>2 DEF World, Torn
        <4>3. gw \in [Fam -> Gw \cup {Nil}] /\ pre.gw \in [Fam -> Gw \cup {Nil}]
          BY <1>0, Types
        <4> QED
          BY <4>1, <4>2, <4>3
      <3> QED
        BY <1>1, <1>3, <3>1, <3>2 DEF Reroute, Reapplying
    <2>4. CASE l.undo /\ Return("aborted")
      <3>1. l.order = Found /\ ret' = "aborted"
        BY <1>1, <2>4 DEF Reapplying, Return
      <3>2. Undone'
        BY <1>1, <2>1, <2>3, <3>1, SameCall DEF Undone, Reapplying
      <3>3. CallInv'
        BY <1>0, <1>1, <2>1, <2>4, <3>2, ReturnKeeps DEF Failure, Reapplying
      <3> QED
        BY <2>3, <3>3
    <2>5. CASE ~l.undo /\ pc' \in {"testPrimary", "persist"} /\ UNCHANGED <<l, ret>>
      <3>1. Reapplying' /\ l.order = Target
        BY <1>0, <1>1, <2>1, <2>3, <2>5, SameCall DEF Reapplying
      <3>2. Promoting'
        BY <1>1, <2>1, <2>3, <2>5, <3>1, SameCall DEF Promoting, Reapplying
      <3>3. Done'
        BY <1>1, <2>1, <2>3, <2>5, <3>1, SameCall DEF Done, Achieved, Reapplying
      <3> QED
        BY <1>1, <2>1, <2>3, <2>5, <3>2, <3>3 DEF CallInv, Adding, Removing
    <2> QED
      BY <2>1, <2>4, <2>5
  <1>4. CASE TestPrimary
    <2>1. /\ pc = "testPrimary" /\ UNCHANGED <<req, pre, ret, kernel>>
          /\ \/ pc' = "persist" /\ UNCHANGED l
             \/ pc' = "delete" /\ l' = [l EXCEPT !.undo = TRUE, !.order = l.fam, !.i = 1]
      BY <1>4 DEF TestPrimary
    <2>2. /\ l'.raised = l.raised /\ l'.list = l.list /\ l'.gws = l.gws /\ l'.fam = l.fam
          /\ l'.origGw = l.origGw /\ l'.i = 1
          /\ pc' = "delete" => l'.undo /\ l'.order = l.fam
      BY <1>0, <1>1, <2>1, Types DEF Locals
    <2>3. World' /\ addrs' = addrs /\ gw' = gw
      <3>1. l'.raised => ~pre.up
        BY <1>0, <2>2 DEF World
      <3> QED
        BY <1>0, <2>1, <3>1, StillKeeps
    <2>4. gw = pre.gw /\ ~l.undo
      BY <1>0, <2>1 DEF CallInv, Promoting
    <2>5. pc' = "persist" => Done'
      BY <1>1, <2>1, <2>3, <2>4, SameCall DEF Done, Achieved, Reapplying
    <2>6. pc' = "delete" => Reapplying'
      <3>1. 1 <= Len(Found) + 1
        BY <1>0, Types
      <3> QED
        BY <1>1, <2>1, <2>2, <2>3, <3>1, SameCall DEF Reapplying
    <2>7. Len(addrs[F]) = Len(Found) + 1 - 1
      <3>1. Len(addrs[F]) = Len(Found) /\ Len(Found) \in Nat
        BY <1>0, <1>1, Types DEF Arranged
      <3> QED
        BY <3>1
    <2>8. Promoting'
      BY <2>1, <2>2, <2>3, <2>6, <2>7, SameCall DEF Promoting, Reapplying
    <2> QED
      BY <1>1, <2>1, <2>3, <2>5, <2>8 DEF CallInv, Adding, Removing
  <1> QED
    BY <1>2, <1>3, <1>4

-----------------------------------------------------------------------------
(* The labels: RemoveAddress, and the end of every call *)

\* The address goes, is tested away, and comes back where the test says no.
LEMMA RemoveSteps ==
    ASSUME BookInv, DeleteAddress \/ TestRemove \/ PutBack
    PROVE  World' /\ CallInv'
  <1> USE DEF Goto, Run, Frame
  <1>0. TypeInv /\ World /\ CallInv
    BY DEF BookInv
  <1>1. /\ req.op = "RemoveAddress" /\ ~l.raised /\ ret = "running" /\ req \in Requests
        /\ IsPrimaryOf(Found) => opts.allowPrimary
        /\ l.list = [pre.addrs EXCEPT ![F] = Without(Found, Given)]
        /\ l.gws = pre.gw /\ gw = pre.gw
        /\ Has(Found, Given) /\ l.orig = <<Found[IndexOf(Found, Given)]>>
    BY <1>0 DEF DeleteAddress, TestRemove, PutBack, CallInv, Removing
  <1>2. ASSUME Fails PROVE World' /\ CallInv'
    BY <1>0, <1>1, <1>2, FailsKeeps DEF DeleteAddress, TestRemove, PutBack
  <1>3. CASE DeleteAddress
    <2>1. pc = "remove" /\ addrs = pre.addrs /\ (gw[F] = Nil \/ Reaches(Without(Found, Given), gw[F]))
      BY <1>0, <1>3 DEF DeleteAddress, CallInv, Removing
    <2>2. CASE /\ AddrDel(Given) /\ pc' \in {"testRemove", "release"}
               /\ UNCHANGED <<l, opts, req, pre, ret>>
      <3>1. World' /\ addrs' = [addrs EXCEPT ![F] = Without(@, Given)] /\ gw' = gw
        <4>1. addrs[F] = Found
          BY <2>1 DEF Found
        <4>2. l'.raised => ~pre.up
          BY <1>1, <2>2
        <4> QED
          BY <1>0, <2>1, <2>2, <4>1, <4>2, Types, DeleteKeeps
      <3>2. addrs' = l.list
        BY <1>1, <2>1, <3>1 DEF Found
      <3>3. Removing'
        BY <1>1, <2>2, <3>1, <3>2, SameCall DEF Removing
      <3> QED
        BY <1>1, <2>2, <3>1, <3>3 DEF CallInv, Adding, Promoting
    <2> QED
      BY <1>2, <1>3, <2>2 DEF DeleteAddress, Given
  <1>4. CASE TestRemove
    <2>1. /\ pc = "testRemove" /\ pc' \in {"release", "putBack"} /\ addrs = l.list
          /\ UNCHANGED <<l, opts, req, pre, ret, kernel>>
      BY <1>0, <1>4 DEF TestRemove, CallInv, Removing
    <2>2. World' /\ addrs' = addrs /\ gw' = gw
      BY <1>0, <1>1, <2>1, StillKeeps
    <2>3. Removing'
      BY <1>1, <2>1, <2>2, SameCall DEF Removing
    <2> QED
      BY <1>1, <2>1, <2>2, <2>3 DEF CallInv, Adding, Promoting
  <1>5. CASE PutBack
    <2>1. CASE AddrReplace(l.orig[1]) /\ Return("aborted")
      <3> DEFINE a == Found[IndexOf(Found, Given)]
      <3>1. a \in Addr /\ a \in ToSet(Found) /\ l.orig[1] = a
        BY <1>0, <1>1, Types, IndexOfType DEF ToSet
      <3>2. World' /\ addrs'[F] \in Replaced(addrs[F], a) /\ gw' = gw
        <4>1. gw' = gw
          BY <2>1 DEF AddrReplace
        <4> QED
          BY <1>0, <2>1, <3>1, <4>1, ReturnLocals, WriteKeeps
      <3>3. addrs'[F] \in Reentered
        <4>1. addrs[F] = Without(Found, Given)
          BY <1>0, <1>1, <1>5, Types DEF PutBack, CallInv, Removing
        <4> QED
          BY <3>2, <4>1 DEF Reentered
      <3>4. Undone'
        BY <1>1, <2>1, <3>2, <3>3, SameCall DEF Undone, Return, Frame
      <3>5. CallInv'
        BY <1>0, <1>1, <1>5, <2>1, <3>4, ReturnKeeps DEF PutBack, Failure
      <3> QED
        BY <3>2, <3>5
    <2> QED
      BY <1>2, <1>5, <2>1 DEF PutBack
  <1> QED
    BY <1>3, <1>4, <1>5

\* What has been done stays done while backends and panels are told of it.
LEMMA EndSteps ==
    ASSUME BookInv, ReleaseOnPanels \/ PersistNext \/ Finish \/ Crash
    PROVE  World' /\ CallInv'
  <1> USE DEF Goto, Frame
  <1>0. TypeInv /\ World /\ CallInv
    BY DEF BookInv
  <1>1. /\ UNCHANGED <<req, pre, opts>> /\ UNCHANGED kernel /\ pc # "idle" /\ req \in Requests
        /\ l'.raised => l.raised
    <2>1. UNCHANGED <<req, pre, opts>> /\ UNCHANGED kernel /\ pc # "idle" /\ req \in Requests
      BY <1>0 DEF ReleaseOnPanels, PersistNext, Finish, Crash, kernel, CallInv
    <2>2. l' = l \/ l' = [l EXCEPT !.i = @ + 1] \/ l' = L0
      BY DEF ReleaseOnPanels, PersistNext, Finish, Crash
    <2>3. [l EXCEPT !.i = @ + 1].raised = l.raised /\ L0.raised = FALSE
      BY <1>0, Types DEF Locals, L0
    <2>4. l'.raised => l.raised
      BY <2>2, <2>3
    <2> QED
      BY <2>1, <2>4
  <1>2. World' /\ addrs' = addrs /\ gw' = gw
    <2>1. l'.raised => ~pre.up
      BY <1>0, <1>1 DEF World
    <2> QED
      BY <1>0, <1>1, <2>1, StillKeeps
  <1>3. CASE ReleaseOnPanels
    <2>1. pc = "release" /\ pc' = "persist" /\ ret' = ret /\ l' = l
      BY <1>3 DEF ReleaseOnPanels
    <2>2. Done'
      BY <1>0, <1>1, <1>2, <2>1, SameCall DEF CallInv, Removing, Done, Achieved, Holds
    <2> QED
      BY <1>0, <1>1, <1>2, <2>1, <2>2 DEF CallInv, Adding, Promoting, Removing
  <1>4. CASE PersistNext
    <2>1. /\ pc = "persist" /\ pc' = "persist" /\ ret' = ret
          /\ l'.list = l.list /\ l'.gws = l.gws
      BY <1>0, <1>4, Types DEF PersistNext, Locals
    <2>2. Done'
      BY <1>0, <1>1, <1>2, <2>1, SameCall DEF CallInv, Done, Achieved, Holds, Routes
    <2> QED
      BY <1>0, <1>1, <1>2, <2>1, <2>2 DEF CallInv, Adding, Promoting, Removing
  <1>5. CASE Finish \/ Crash
    <2>1. pc' = "idle" /\ (ret' = "crashed" \/ (ret' = "ok" /\ pc = "persist"))
      BY <1>5 DEF Finish, Crash
    <2>2. pc = "persist" => Achieved'
      BY <1>0, <1>1, <1>2, SameCall DEF CallInv, Done, Achieved, Holds, Routes
    <2> QED
      BY <1>2, <2>1, <2>2 DEF CallInv, Adding, Promoting, Removing
  <1> QED
    BY <1>3, <1>4, <1>5

-----------------------------------------------------------------------------
(* The labels: the beginning of a call *)

\* A call begins with the world that pre records.
LEMMA BeginKeeps ==
    ASSUME TypeInv, World, NEW op, Begin(op), ~l'.raised,
           req'.gw \in GwOf(FamOf(req'.addr.ip)) \cup {Nil, Zero}
    PROVE  /\ World' /\ F' \in Fam /\ F' = FamOf(req'.addr.ip) /\ Given' = req'.addr.ip
           /\ req' \in Requests /\ req'.op = op
           /\ addrs' = addrs /\ gw' = gw /\ pre'.addrs = addrs /\ pre'.gw = gw
           /\ Found' = addrs[F'] /\ AsFound'
           /\ Found' \in Seq(Addr) /\ Distinct(Found') /\ opts' = opts
  <1>1. F' = FamOf(req'.addr.ip) /\ F' \in Fam /\ Given' = req'.addr.ip
    BY FamOfType DEF F, Given
  <1>2. /\ addrs' = addrs /\ gw' = gw /\ up' = up /\ opts' = opts
        /\ pre'.addrs = addrs /\ pre'.gw = gw /\ pre'.up = up
        /\ req' \in Requests /\ req'.op = op
    BY DEF Begin
  <1>3. Sound(pre')
    BY <1>2, WorldIsSound DEF Sound
  <1>4. Found' = addrs[F'] /\ AsFound'
    BY <1>2 DEF Found, AsFound
  <1>5. Found' \in Seq(Addr) /\ Distinct(Found')
    <2>1. addrs \in [Fam -> Seq(Addr)]
      BY Types
    <2>2. \A f \in Fam : Distinct(addrs[f])
      BY <1>2, <1>3 DEF Sound
    <2> QED
      BY <1>1, <1>4, <2>1, <2>2
  <1>6. Torn'
    BY <1>2, <1>4, <1>1 DEF Torn
  <1>7. World'
    BY <1>1, <1>2, <1>3, <1>4, <1>5, <1>6 DEF World
  <1> QED
    BY <1>1, <1>2, <1>4, <1>5, <1>7

\* The first steps of the three calls.
LEMMA BeginSteps ==
    ASSUME BookInv, AddAddress \/ SetPrimaryAddress \/ RemoveAddress
    PROVE  World' /\ CallInv'
  <1> USE DEF Refuse, Proceed
  <1>0. TypeInv /\ World /\ CallInv
    BY DEF BookInv
  <1>1. L0.raised = FALSE
    BY DEF L0
  <1>2. CASE AddAddress
    <2>1. ~l'.raised
      BY <1>1, <1>2 DEF AddAddress
    <2>2. World' /\ req' \in Requests /\ req'.op = "AddAddress" /\ AsFound'
      BY <1>0, <1>2, <2>1, BeginKeeps DEF AddAddress
    <2>3. \/ pc' = "idle" /\ ret' = "refused"
          \/ pc' = "linkUp" /\ ret' = "running"
      BY <1>2 DEF AddAddress
    <2> QED
      BY <2>2, <2>3 DEF CallInv, Adding, Promoting, Removing, Undone
  <1>3. CASE SetPrimaryAddress
    <2>0. req'.gw = Nil
      BY <1>3 DEF SetPrimaryAddress, Begin, Requests
    <2>1. ~l'.raised
      BY <1>1, <1>3 DEF SetPrimaryAddress, Promoted, L0
    <2>2. /\ World' /\ req' \in Requests /\ req'.op = "SetPrimaryAddress" /\ AsFound'
          /\ F' \in Fam /\ F' = FamOf(req'.addr.ip) /\ Given' = req'.addr.ip
          /\ Found' = addrs[F'] /\ Found' \in Seq(Addr) /\ Distinct(Found')
          /\ addrs' = addrs /\ gw' = gw /\ pre'.addrs = addrs /\ pre'.gw = gw
      BY <1>0, <1>3, <2>0, <2>1, BeginKeeps DEF SetPrimaryAddress
    <2>3. CASE pc' = "idle" /\ ret' = "refused"
      BY <2>2, <2>3 DEF CallInv, Adding, Promoting, Removing, Undone
    <2>4. CASE /\ Has(Found', Given') /\ l' = Promoted /\ ret' = "running"
               /\ pc' = IF Found'[1].ip = Given' THEN "persist" ELSE "delete"
      <3>1. /\ l'.list = Listed' /\ l'.gws = pre'.gw /\ l'.fam = Found' /\ l'.i = 1
            /\ l'.origGw = pre'.gw[F'] /\ l'.order = Target' /\ ~l'.undo
        <4>1. /\ l'.list = [addrs EXCEPT ![F'] = Reordered(Found', req'.addr)]
              /\ l'.gws = gw /\ l'.fam = Found' /\ l'.i = 1 /\ l'.origGw = gw[F']
              /\ l'.order = Reordered(Found', Found'[IndexOf(Found', Given')]) /\ ~l'.undo
          BY <2>2, <2>4 DEF Promoted, L0, Captured
        <4> QED
          BY <2>2, <4>1 DEF Listed, Target
      <3>2. pc' = "delete" => Reapplying'
        <4>1. 1 <= Len(Found') + 1
          BY <2>2
        <4> QED
          BY <2>1, <2>2, <2>4, <3>1, <4>1 DEF Reapplying
      <3>3. pc' = "delete" => Promoting'
        <4>1. Len(addrs'[F']) = Len(Found') + 1 - 1
          BY <2>2
        <4> QED
          BY <3>1, <3>2, <4>1 DEF Promoting, Reapplying
      <3>4. pc' = "persist" => Done'
        <4> SUFFICES ASSUME pc' = "persist" PROVE Done'
          OBVIOUS
        <4>1. Found'[1].ip = Given' /\ addrs' = pre'.addrs /\ gw' = pre'.gw
          BY <2>2, <2>4
        <4> QED
          BY <2>2, <2>4, <3>1, <4>1 DEF Done, Achieved
      <3> QED
        BY <2>2, <2>4, <3>3, <3>4 DEF CallInv, Adding, Promoting, Removing
    <2> QED
      BY <1>3, <2>2, <2>3, <2>4 DEF SetPrimaryAddress
  <1>4. CASE RemoveAddress
    <2>0. req'.gw = Nil
      BY <1>4 DEF RemoveAddress, Begin, Requests
    <2>1. ~l'.raised
      BY <1>1, <1>4 DEF RemoveAddress, L0
    <2>2. /\ World' /\ req' \in Requests /\ req'.op = "RemoveAddress" /\ AsFound'
          /\ F' \in Fam /\ F' = FamOf(req'.addr.ip) /\ Given' = req'.addr.ip
          /\ Found' = addrs[F'] /\ Found' \in Seq(Addr) /\ Distinct(Found')
          /\ addrs' = addrs /\ gw' = gw /\ pre'.addrs = addrs /\ pre'.gw = gw
          /\ opts' = opts
      BY <1>0, <1>4, <2>0, <2>1, BeginKeeps DEF RemoveAddress
    <2>3. CASE pc' = "idle" /\ ret' = "refused"
      BY <2>2, <2>3 DEF CallInv, Adding, Promoting, Removing, Undone
    <2>4. CASE /\ IsPrimary(req'.addr.ip) => opts.allowPrimary
               /\ gw[F'] # Nil => RouteToGateway(req'.addr.ip, gw[F'])
               /\ l' = [L0 EXCEPT
                         !.list = [addrs EXCEPT ![F'] = Without(Found', Given')],
                         !.gws = Captured,
                         !.orig = IF Has(Found', Given')
                                  THEN <<Found'[IndexOf(Found', Given')]>> ELSE <<>>]
               /\ pc' = (IF Has(Found', Given') THEN "remove" ELSE "release") /\ ret' = "running"
      <3>1. /\ l'.list = [pre.addrs EXCEPT ![F] = Without(Found, Given)]' /\ l'.gws = pre'.gw
            /\ Has(Found', Given') => l'.orig = <<Found'[IndexOf(Found', Given')]>>
        BY <2>2, <2>4 DEF L0, Captured
      <3>2. IsPrimaryOf(Found)' => opts'.allowPrimary
        BY <2>2, <2>4 DEF IsPrimary, IsPrimaryOf
      <3>3. gw[F'] = Nil \/ Reaches(Without(Found', Given'), gw[F'])
        <4> SUFFICES ASSUME gw[F'] # Nil, gw[F'] \notin LinkLocalGw
                     PROVE  Reaches(Without(Found', Given'), gw[F'])
          BY DEF Reaches
        <4> DEFINE g == gw[F']
                   rest(f) == Without(addrs[f], Given')
        <4>1. PICK f \in Fam : \E i \in DOMAIN rest(f) : <<rest(f)[i], g>> \in OnLink
          BY <2>2, <2>4 DEF RouteToGateway
        <4>2. PICK i \in DOMAIN rest(f) : <<rest(f)[i], g>> \in OnLink
          BY <4>1
        <4>3. Sound([up |-> up, addrs |-> addrs, gw |-> gw]) /\ addrs[f] \in Seq(Addr)
          BY <1>0, WorldIsSound, Types
        <4>4. FamOf(rest(f)[i].ip) = f
          <5>1. Distinct(addrs[f]) /\ \A j \in DOMAIN addrs[f] : FamOf(addrs[f][j].ip) = f
            BY <4>3 DEF Sound
          <5>2. rest(f)[i] \in ToSet(addrs[f])
            <6>1. ToSet(rest(f)) \subseteq ToSet(addrs[f])
              BY <4>3, <5>1, WithoutFacts
            <6> QED
              BY <4>2, <6>1 DEF ToSet
          <5> QED
            BY <5>1, <5>2 DEF ToSet
        <4>5. g \in GwOf(f) /\ g \in GwOf(F')
          <5>1. <<rest(f)[i], g>>[2] \in GwOf(FamOf(<<rest(f)[i], g>>[1].ip))
            BY <4>2, HostAssumption
          <5>2. g \in GwOf(f)
            BY <4>4, <5>1
          <5> QED
            BY <2>2, <4>3, <5>2 DEF Sound
        <4>6. f = F'
          BY <2>2, <4>5, HostAssumption DEF GwOf, Fam
        <4> QED
          BY <2>2, <4>2, <4>6 DEF Reaches
      <3>4. pc' = "release" => addrs' = l'.list
        <4>1. ~Has(Found', Given') => Without(Found', Given') = Found'
          BY DEF Without
        <4>2. addrs = [addrs EXCEPT ![F'] = addrs[F']]
          BY <1>0, <2>2, Types
        <4> QED
          BY <2>2, <2>4, <3>1, <4>1, <4>2
      <3>5. Removing'
        BY <2>1, <2>2, <2>4, <3>1, <3>2, <3>3, <3>4 DEF Removing
      <3> QED
        BY <2>2, <2>4, <3>5 DEF CallInv, Adding, Promoting
    <2> QED
      BY <1>4, <2>2, <2>3, <2>4 DEF RemoveAddress
  <1> QED
    BY <1>2, <1>3, <1>4

-----------------------------------------------------------------------------
(* The invariant *)

\* No call has begun, and the host is one the kernel can show.
LEMMA BookInit == Init => BookInv
  <1> SUFFICES ASSUME Init PROVE BookInv
    OBVIOUS
  <1>1. TypeInv /\ RaisedInv
    BY InitType, RaisedInit
  <1>2. Sound(pre) /\ AsFound /\ req.gw = Nil /\ ~l.raised /\ pc = "idle" /\ ret = "none"
        /\ (~up => \A f \in Fam : gw[f] = Nil)
    BY HostAssumption DEF Init, Sound, AsFound, L0
  <1>3. World
    BY <1>2, FamOfType DEF World, Torn, Sound, AsFound, Found, F
  <1>4. CallInv
    BY <1>2 DEF CallInv, Adding, Promoting, Removing
  <1> QED
    BY <1>1, <1>3, <1>4 DEF BookInv

\* Every step keeps it.
LEMMA BookStep == BookInv /\ [Next]_vars => BookInv'
  <1> SUFFICES ASSUME BookInv, [Next]_vars PROVE BookInv'
    OBVIOUS
  <1>1. TypeInv' /\ RaisedInv'
    BY TypeStep, RaisedStep DEF BookInv
  <1>2. ASSUME UNCHANGED vars PROVE World' /\ CallInv'
    <2>1. UNCHANGED <<req, pre, addrs, gw, up, l, pc, ret, opts>>
      BY <1>2 DEF vars
    <2>2. World'
      BY <2>1, SameCall DEF BookInv, World, Torn
    <2>3. Adding' /\ Promoting' /\ Removing'
      BY <2>1, SameCall DEF BookInv, CallInv, Adding, Promoting, Removing, AsFound, Holds,
                            Restoring
    <2>4. (pc' = "persist" => Done') /\ (pc' = "linkDown" => Leaving')
      BY <2>1, SameCall DEF BookInv, CallInv, Done, Achieved, Leaving, AsFound, Holds, Routes
    <2>5. /\ pc' = "idle" /\ ret' = "ok" => Achieved'
          /\ pc' = "idle" /\ ret' \in {"refused", "aborted"} => Undone'
      BY <2>1, SameCall DEF BookInv, CallInv, Achieved, Undone, AsFound, Holds, Routes
    <2> QED
      BY <2>1, <2>2, <2>3, <2>4, <2>5 DEF BookInv, CallInv
  <1>3. ASSUME Next PROVE World' /\ CallInv'
    BY <1>3, BeginSteps, LinkSteps, WriteSteps, GatewaySteps, RestoreSteps, RestoreRouteStep,
       ReapplySteps, RerouteSteps, RemoveSteps, EndSteps DEF Next, Step
  <1> QED
    BY <1>1, <1>2, <1>3 DEF BookInv

-----------------------------------------------------------------------------
(* The calls implement AddressBook *)

\* What AddressBook calls the list and the places of the address.
LEMMA Names ==
    /\ Book!Family = F
    /\ pc = "idle" => Seen.addrs = addrs /\ Seen.gw = gw
    /\ pc # "idle" =>
          /\ Seen.addrs = pre.addrs /\ Seen.gw = pre.gw
          /\ Book!Others = Found
          /\ Book!Own = {i \in DOMAIN Found : Found[i].ip = Given}
  BY DEF Book!Family, Book!Others, Book!Own, Seen, F, Found, Given

\* The library's operators are the same in both modules.
LEMMA SameOperators ==
    /\ \A s, i : Book!RemoveAt(s, i) = RemoveAt(s, i)
    /\ \A s : Book!ToSet(s) = ToSet(s)
    /\ \A s, i, a : Book!InsertAt(s, i, a) = InsertAt(s, i, a)
  BY DEF Book!RemoveAt, RemoveAt, Book!ToSet, ToSet, Book!InsertAt, InsertAt

\* A new address enters a list where AddressBook says.
LEMMA EntersAsBooked ==
    ASSUME NEW s \in Seq(Addr), NEW a \in Addr, FamOf(a.ip) = F, ~Has(s, a.ip)
    PROVE  Book!Entered(s, a) = Replaced(s, a)
  <1>1. Book!Family = F
    BY Names
  <1>2. Places(FamOf(a.ip), s) = IF Book!Family \in NewestFirst \/ s = <<>> THEN {1}
                                 ELSE 2 .. Len(s) + 1
    BY <1>1 DEF Places
  <1> QED
    BY <1>2, SameOperators DEF Replaced, Book!Entered

\* A family that has been written again is one of those AddressBook names.
LEMMA RewrittenAsBooked ==
    ASSUME NEW s \in Seq(Addr), NEW t \in Seq(Addr), NEW order \in Seq(Addr), s # <<>>,
           Arranged(F, t, order, Len(s)), Len(order) = Len(s), ToSet(order) = ToSet(s)
    PROVE  t \in Book!Rewritten(s, order[1])
  <1>1. Book!Family = F
    BY Names
  <1>2. Len(t) = Len(s) /\ ToSet(t) = ToSet(s)
    BY ArrangedWhole
  <1>3. DOMAIN t = DOMAIN s /\ Len(s) > 0
    BY <1>2
  <1>4. t \in [DOMAIN s -> ToSet(s)]
    <2>1. \A j \in DOMAIN t : t[j] \in ToSet(t)
      BY DEF ToSet
    <2>2. t = [j \in DOMAIN t |-> t[j]]
      OBVIOUS
    <2> QED
      BY <1>2, <1>3, <2>1, <2>2
  <1>5. t[IF F \in NewestFirst THEN Len(s) ELSE 1] = order[1]
    BY <1>3 DEF Arranged
  <1> QED
    BY <1>1, <1>2, <1>4, <1>5, SameOperators DEF Book!Rewritten

\* The steps by which a call returns are those of AddressBook.
LEMMA Returns ==
    ASSUME BookInv, BookInv', pc # "idle", pc' = "idle", ret' # "none",
           UNCHANGED <<req, pre>>
    PROVE  Book!Next
  <1>0. /\ TypeInv /\ World /\ CallInv /\ TypeInv' /\ World' /\ CallInv'
        /\ F \in Fam /\ Found \in Seq(Addr) /\ Distinct(Found)
        /\ pre.addrs \in [Fam -> Seq(Addr)] /\ pre.gw \in [Fam -> Gw \cup {Nil}]
    BY Types DEF BookInv
  <1>1. /\ Seen.addrs = pre.addrs /\ Seen.gw = pre.gw
        /\ (Seen.addrs)' = addrs' /\ (Seen.gw)' = gw'
        /\ Book!Family = F /\ Book!Others = Found
        /\ Book!Own = {i \in DOMAIN Found : Found[i].ip = Given}
    BY Names DEF Seen
  <1>2. req' \in Requests
    BY <1>0 DEF CallInv
  <1> DEFINE k == IndexOf(Found, Given)
  <1>3. /\ Has(Found, Given) => k \in Book!Own /\ Book!Own = {k}
        /\ ~Has(Found, Given) => Book!Own = {}
    BY <1>0, <1>1, IndexOfType DEF Has, Distinct
  <1>4. Has(Found, Given) => Without(Found, Given) = RemoveAt(Found, k)
    BY DEF Without
  <1>5. ASSUME NEW lists, NEW g, addrs'[F] \in lists, gw' = [pre.gw EXCEPT ![F] = g]
        PROVE  Book!Becomes(lists, g)
    <2>1. addrs' = [pre.addrs EXCEPT ![F] = addrs'[F]]
      <3>1. \A f \in Fam : f # F => addrs'[f] = pre.addrs[f]
        BY <1>0, SameCall DEF World, Torn
      <3>2. addrs' \in [Fam -> Seq(Addr)]
        BY <1>0 DEF TypeInv, TypeOK, KernelOK
      <3> QED
        BY <1>0, <3>1, <3>2
    <2> QED
      BY <1>1, <1>5, <2>1 DEF Book!Becomes
  <1>6. pre.gw = [pre.gw EXCEPT ![F] = pre.gw[F]]
    BY <1>0
  <1>11. addrs'[F] \in Seq(Addr)
    BY <1>0 DEF TypeInv, TypeOK, KernelOK
  <1>7. CASE ret' = "ok"
    <2>1. Achieved'
      BY <1>0, <1>7 DEF CallInv
    <2>2. CASE /\ req.op = "AddAddress" /\ addrs'[F] \in Enlarged
               /\ gw' = [pre.gw EXCEPT ![F] = Aim]
      <3> DEFINE lists == IF Book!Own = {} THEN Book!Entered(Found, req.addr)
                          ELSE {[i \in DOMAIN Found |->
                                   IF i \in Book!Own THEN req.addr ELSE Found[i]]}
                 g == CASE req.gw = Nil -> pre.gw[F]
                        [] req.gw = Zero -> Nil
                        [] OTHER -> req.gw
      <3>1. Enlarged = lists
        <4>1. CASE ~Has(Found, Given)
          <5>1. req.addr \in Addr /\ FamOf(req.addr.ip) = F /\ ~Has(Found, req.addr.ip)
            BY <1>0, <4>1, Types DEF Given
          <5>2. Book!Entered(Found, req.addr) = Replaced(Found, req.addr)
            BY <1>0, <5>1, EntersAsBooked
          <5> QED
            BY <1>3, <4>1, <5>2 DEF Enlarged
        <4>2. CASE Has(Found, Given)
          <5>1. Enlarged = {[Found EXCEPT ![k] = req.addr]}
            BY <4>2 DEF Enlarged, Replaced, Given
          <5>2. lists = {[i \in DOMAIN Found |-> IF i = k THEN req.addr ELSE Found[i]]}
            BY <1>3, <4>2
          <5> QED
            BY <1>0, <1>3, <4>2, <5>1, <5>2
        <4> QED
          BY <4>1, <4>2
      <3>2. Aim = g
        BY ConfiguratorAssumption DEF Aim
      <3>3. Book!Becomes(lists, g)
        BY <1>5, <2>2, <3>1, <3>2
      <3>4. Book!Does("AddAddress")
        BY <2>2 DEF Book!Does
      <3>5. Book!Add
        BY <1>1, <1>7, <3>3, <3>4 DEF Book!Add
      <3> QED
        BY <3>5 DEF Book!Next
    <2>3. CASE /\ req.op = "SetPrimaryAddress" /\ Has(Found, Given) /\ gw' = pre.gw
               /\ IF Found[1].ip = Given THEN addrs' = pre.addrs
                  ELSE Arranged(F, addrs'[F], Target, Len(Found))
      <3>1. k \in DOMAIN Found /\ 1 \in DOMAIN Found /\ Found[k].ip = Given
        BY <1>0, <2>3, IndexOfType
      <3>2. k = 1 <=> Found[1].ip = Given
        BY <1>0, <3>1 DEF Distinct
      <3>3. addrs'[F] \in IF k = 1 THEN {Found} ELSE Book!Rewritten(Found, Found[k])
        <4>1. CASE k = 1
          BY <2>3, <3>2, <4>1 DEF Found
        <4>2. CASE k # 1
          <5>1. /\ Target \in Seq(Addr) /\ Len(Target) = Len(Found)
                /\ ToSet(Target) = ToSet(Found) /\ Target[1] = Found[k]
            BY <1>0, <2>3, TargetFacts
          <5>2. addrs'[F] \in Book!Rewritten(Found, Target[1])
            BY <1>0, <1>11, <2>3, <3>1, <3>2, <4>2, <5>1, RewrittenAsBooked
          <5> QED
            BY <4>2, <5>1, <5>2
        <4> QED
          BY <4>1, <4>2
      <3>4. Book!Becomes(IF k = 1 THEN {Found} ELSE Book!Rewritten(Found, Found[k]), pre.gw[F])
        BY <1>5, <1>6, <2>3, <3>3
      <3>5. Book!Does("SetPrimaryAddress")
        BY <2>3 DEF Book!Does
      <3>6. Book!Promote
        BY <1>1, <1>3, <1>7, <2>3, <3>4, <3>5 DEF Book!Promote
      <3> QED
        BY <3>6 DEF Book!Next
    <2>4. CASE /\ req.op = "RemoveAddress"
               /\ addrs' = [pre.addrs EXCEPT ![F] = Without(Found, Given)] /\ gw' = pre.gw
      <3>1. Book!Does("RemoveAddress")
        BY <2>4 DEF Book!Does
      <3>2. Book!Release
        <4>1. CASE Has(Found, Given)
          <5>1. Book!Becomes({RemoveAt(Found, k)}, pre.gw[F])
            <6>1. addrs'[F] = RemoveAt(Found, k)
              BY <1>0, <1>4, <2>4, <4>1
            <6> QED
              BY <1>5, <1>6, <2>4, <6>1
          <5> QED
            BY <1>1, <1>3, <1>7, <3>1, <4>1, <5>1, SameOperators DEF Book!Release
        <4>2. CASE ~Has(Found, Given)
          <5>1. addrs' = pre.addrs
            BY <1>0, <2>4, <4>2 DEF Without, Found
          <5> QED
            BY <1>1, <1>3, <1>7, <2>4, <3>1, <4>2, <5>1 DEF Book!Release
        <4> QED
          BY <4>1, <4>2
      <3> QED
        BY <3>2 DEF Book!Next
    <2> QED
      BY <2>1, <2>2, <2>3, <2>4, SameCall DEF Achieved, Holds, Routes
  <1>8. CASE ret' \in {"refused", "aborted"}
    <2>1. Undone'
      BY <1>0, <1>8 DEF CallInv
    <2>2. CASE /\ addrs' = pre.addrs /\ gw' = pre.gw
               /\ ret' = "aborted" => req.op = "AddAddress"
      BY <1>1, <1>2, <1>8, <2>2 DEF Book!Next, Book!Refused, Book!Undo
    <2>3. CASE /\ req.op = "SetPrimaryAddress" /\ ret' = "aborted" /\ Has(Found, Given)
               /\ Found[1].ip # Given /\ gw' = pre.gw
               /\ Arranged(F, addrs'[F], Found, Len(Found))
      <3>1. k \in DOMAIN Found /\ k # 1 /\ Found # <<>>
        BY <1>0, <2>3, IndexOfType
      <3>2. addrs'[F] \in Book!Rewritten(Found, Found[1])
        BY <1>0, <1>11, <2>3, <3>1, RewrittenAsBooked
      <3>3. Book!Becomes(Book!Rewritten(Found, Found[1]), pre.gw[F])
        BY <1>5, <1>6, <2>3, <3>2
      <3>4. Book!Undo
        BY <1>1, <1>3, <2>3, <3>1, <3>3 DEF Book!Undo
      <3> QED
        BY <3>4 DEF Book!Next
    <2>4. CASE /\ req.op = "RemoveAddress" /\ ret' = "aborted" /\ Has(Found, Given)
               /\ gw' = pre.gw /\ addrs'[F] \in Reentered
      <3>1. Reentered = Book!Entered(RemoveAt(Found, k), Found[k])
        <4>1. /\ Without(Found, Given) \in Seq(Addr) /\ ~Has(Without(Found, Given), Given)
              /\ Found[k] \in Addr /\ Found[k].ip = Given
          BY <1>0, <2>4, IndexOfType, WithoutType, WithoutFacts
        <4>2. Book!Entered(Without(Found, Given), Found[k]) = Reentered
          BY <1>0, <4>1, Types, EntersAsBooked DEF Reentered
        <4> QED
          BY <1>4, <2>4, <4>2
      <3>2. Book!Becomes(Book!Entered(RemoveAt(Found, k), Found[k]), pre.gw[F])
        BY <1>5, <1>6, <2>4, <3>1
      <3>3. Book!Undo
        BY <1>1, <1>3, <2>4, <3>2, SameOperators DEF Book!Undo
      <3> QED
        BY <3>3 DEF Book!Next
    <2> QED
      BY <2>1, <2>2, <2>3, <2>4, SameCall DEF Undone, AsFound
  <1>9. CASE ret' \in {"error", "crashed"}
    <2>1. /\ \A f \in Fam : f # F => addrs'[f] = pre.addrs[f] /\ gw'[f] = pre.gw[f]
          /\ ToSet(addrs'[F]) \subseteq ToSet(Found) \cup {req.addr}
          /\ gw'[F] \in {pre.gw[F], req.gw, Nil}
      BY <1>0, SameCall DEF World, Torn
    <2>2. Book!Tear
      BY <1>1, <1>9, <2>1, SameOperators DEF Book!Tear
    <2> QED
      BY <2>2 DEF Book!Next
  <1>10. ret' \in Results /\ ret' # "running"
    BY <1>0 DEF TypeInv, TypeOK, CallOK, CallInv
  <1> QED
    BY <1>7, <1>8, <1>9, <1>10 DEF Results

\* Any step of the configurator is a step of AddressBook, or one its caller does not see.
LEMMA StepsAreBooked ==
    ASSUME BookInv, BookInv', [Next]_vars
    PROVE  [Book!Next]_(Book!book)
  <1>1. CASE AddAddress \/ SetPrimaryAddress \/ RemoveAddress
    <2>1. /\ pc = "idle" /\ addrs' = addrs /\ gw' = gw /\ req' \in Requests
          /\ pre'.addrs = addrs /\ pre'.gw = gw
      BY <1>1 DEF AddAddress, SetPrimaryAddress, RemoveAddress, Begin
    <2>2. ret # "running"
      BY <2>1 DEF BookInv, CallInv
    <2>3. /\ Seen.addrs = addrs /\ Seen.gw = gw
          /\ (Seen.addrs)' = addrs /\ (Seen.gw)' = gw
      BY <2>1 DEF Seen
    <2>4. CASE pc' = "idle" /\ ret' = "refused"
      BY <2>1, <2>2, <2>3, <2>4 DEF Book!Next, Book!Refused
    <2>5. CASE pc' # "idle"
      BY <2>1, <2>2, <2>3, <2>5 DEF Book!Next, Book!Call
    <2> QED
      BY <1>1, <2>4, <2>5
         DEF AddAddress, SetPrimaryAddress, RemoveAddress, Refuse, Proceed
  <1>2. CASE Early \/ ReleaseOnPanels \/ PersistNext \/ Finish \/ Crash
    <2>1. /\ UNCHANGED <<req, pre>> /\ pc # "idle"
          /\ pc' = "idle" => ret' # "none"
      <3>1. CASE Early
        <4>1. UNCHANGED <<req, pre>> /\ pc # "idle"
          BY <3>1, EarlySteps DEF Frame
        <4>2. pc = "linkDown" => ret \in Failure
          BY DEF BookInv, CallInv, Leaving
        <4>3. pc' = "idle" => ret' \in Failure
          BY <3>1, <4>2, EarlySteps DEF Return
        <4> QED
          BY <4>1, <4>3 DEF Failure
      <3>2. CASE ReleaseOnPanels \/ PersistNext \/ Finish \/ Crash
        BY <3>2 DEF ReleaseOnPanels, PersistNext, Finish, Crash, Goto, Frame
      <3> QED
        BY <1>2, <3>1, <3>2
    <2>2. CASE pc' = "idle"
      BY <2>1, <2>2, Returns
    <2>3. CASE pc' # "idle"
      <3>1. Seen' = Seen
        BY <2>1, <2>3 DEF Seen
      <3> QED
        BY <2>1, <2>3, <3>1 DEF Book!book
    <2> QED
      BY <2>2, <2>3
  <1>3. CASE UNCHANGED vars
    <2>1. Seen' = Seen /\ UNCHANGED <<req, pc, ret>>
      BY <1>3 DEF vars, Seen
    <2> QED
      BY <2>1 DEF Book!book
  <1> QED
    BY <1>1, <1>2, <1>3 DEF Next, Step, Early

\* What a caller finds is an address book.
LEMMA StartIsBooked == Init => Book!Init
  <1> SUFFICES ASSUME Init PROVE Book!Init
    OBVIOUS
  <1>1. ASSUME NEW a \in Addr PROVE \E r \in Requests : r.addr = a
    <2> DEFINE r == [op |-> "AddAddress", addr |-> a, gw |-> Nil]
    <2>1. r \in [op : {"AddAddress"}, addr : Addr, gw : Gw \cup {Nil, Zero}]
      OBVIOUS
    <2>2. r \in Requests /\ r.addr = a
      BY <2>1 DEF Requests
    <2> QED
      BY <2>2
  <1>2. \A r \in Requests : r.addr \in Addr
    BY DEF Requests
  <1>3. {r.addr : r \in Requests} = Addr
    BY <1>1, <1>2
  <1>4. addrs \in [Fam -> Seq(Addr)]
    BY InitType DEF TypeInv, TypeOK, KernelOK
  <1> QED
    BY <1>3, <1>4 DEF Init, Book!Init, Seen

\* Each call of AddAddress, SetPrimaryAddress and RemoveAddress takes effect at once for
\* its caller, or not at all; only an error of the kernel or the end of the process tears
\* an interface, and then only the family of the address asked for.
THEOREM CallsImplementBook == Spec => CallsAreAtomic
  <1>1. Spec => []BookInv
    BY BookInit, BookStep, PTL DEF Spec
  <1>2. Init => Book!Init
    BY StartIsBooked
  <1>3. BookInv /\ BookInv' /\ [Next]_vars => [Book!Next]_(Book!book)
    BY StepsAreBooked
  <1> QED
    BY <1>1, <1>2, <1>3, PTL DEF Spec, CallsAreAtomic, Book!Spec

-----------------------------------------------------------------------------
(* What the invariant says of backends, panels and the primary *)

\* A removal that is not allowed to takes no family's primary address away, whether the
\* call succeeds, is refused or is rolled back; what the rollback of the removal of an IPv6
\* address may do is list that address first.
THEOREM PrimaryIsProtected == Spec => []PrimaryProtected
  <1>1. ASSUME BookInv PROVE PrimaryProtected
    <2> SUFFICES ASSUME pc = "idle", req.op = "RemoveAddress", ~opts.allowPrimary,
                        ret \in {"ok", "refused", "aborted"},
                        NEW f \in Fam, pre.addrs[f] # <<>>
                 PROVE  /\ addrs[f] # <<>>
                        /\ \/ addrs[f][1] = pre.addrs[f][1]
                           \/ ret = "aborted" /\ f = "v6" /\ addrs[f][1].ip = Given
      BY DEF PrimaryProtected, Given
    <2>0. /\ TypeInv /\ World /\ CallInv /\ Found \in Seq(Addr) /\ Distinct(Found)
          /\ FamOf(Given) = F
      BY <1>1, Types DEF BookInv
    <2>1. CASE f # F
      BY <2>0, <2>1 DEF World, Torn
    <2>2. CASE f = F /\ AsFound
      BY <2>2 DEF AsFound
    <2>3. CASE f = F /\ ~IsPrimaryOf(Found)
      <3> DEFINE w == Without(Found, Given)
                 a == Found[IndexOf(Found, Given)]
      <3>1. w \in Seq(Addr) /\ w # <<>> /\ w[1] = Found[1] /\ Distinct(w) /\ ~Has(w, Given)
        BY <2>0, <2>3, WithoutType, WithoutFacts DEF IsPrimaryOf, Found
      <3>2. CASE Holds(w)
        <4>1. addrs[F] = w
          BY <2>0, <3>2, Types DEF Holds
        <4> QED
          BY <2>3, <3>1, <4>1 DEF Found
      <3>3. CASE ret = "aborted" /\ Has(Found, Given) /\ addrs[F] \in Reentered
        <4>1. a \in Addr /\ a.ip = Given /\ addrs[F] \in Replaced(w, a)
          BY <2>0, <3>3, IndexOfType DEF Reentered
        <4> HIDE DEF w, a
        <4>2. /\ Len(addrs[F]) = Len(w) + 1
              /\ IF F \in NewestFirst THEN addrs[F][1] = a ELSE addrs[F][1] = w[1]
          BY <2>0, <3>1, <4>1, ReplacedFacts
        <4>3. addrs[F] # <<>>
          BY <3>1, <4>2
        <4> QED
          BY <2>3, <3>1, <3>3, <4>1, <4>2, <4>3 DEF Found, NewestFirst
      <3>4. Holds(w) \/ (ret = "aborted" /\ Has(Found, Given) /\ addrs[F] \in Reentered)
            \/ AsFound
        BY <2>0 DEF CallInv, Achieved, Undone
      <3> QED
        BY <2>2, <2>3, <3>2, <3>3, <3>4
    <2> QED
      BY <2>0, <2>1, <2>2, <2>3 DEF CallInv, Achieved, Undone
  <1>2. Spec => []BookInv
    BY BookInit, BookStep, PTL DEF Spec
  <1> QED
    BY <1>1, <1>2, PTL

\* Each backend is handed what the kernel holds when it is written: both default gateways,
\* the other family as it is and the addresses of the call's family, the IPv4 primary first
\* among its own, whatever the call did on the way.
THEOREM PersistedIsRuntime == Spec => PersistOnlyRuntime
  <1> DEFINE given(b) == disk'[b].addrs
             Runs(b) ==
        /\ disk'[b].gw = gw
        /\ \A f \in Fam : f # F \/ req.op = "RemoveAddress" => given(b)[f] = addrs[f]
        /\ Len(given(b)[F]) = Len(addrs[F]) /\ IPsOf(given(b)[F]) = IPsOf(addrs[F])
        /\ \A i \in DOMAIN given(b)[F] :
              \/ given(b)[F][i] \in ToSet(addrs[F])
              \/ req.op = "SetPrimaryAddress" /\ given(b)[F][i].ip = req.addr.ip
        /\ F = "v4" /\ addrs[F] # <<>> => given(b)[F][1].ip = addrs[F][1].ip
  <1>1. ASSUME BookInv, Next, NEW b \in Backends, disk'[b] # disk[b] PROVE Runs(b)
    <2>0. /\ TypeInv /\ World /\ CallInv /\ F \in Fam /\ FamOf(Given) = F
          /\ Found \in Seq(Addr) /\ Distinct(Found) /\ req.addr \in Addr
          /\ addrs \in [Fam -> Seq(Addr)] /\ pre.addrs \in [Fam -> Seq(Addr)]
      BY <1>1, Types DEF BookInv
    <2>1. PersistNext
      <3>1. Early => UNCHANGED disk
        BY EarlySteps DEF Frame
      <3> QED
        BY <1>1, <3>1 DEF Next, Step, Early, AddAddress, SetPrimaryAddress, RemoveAddress,
                          Begin, ReleaseOnPanels, Finish, Crash, Frame
    <2>2. disk'[b] = Conf /\ Done
      <3>1. disk \in [Backends -> Confs]
        BY <2>0 DEF TypeInv, TypeOK, StoresOK
      <3>2. disk' = [disk EXCEPT ![l.i] = Conf]
        BY <1>1, <2>1 DEF PersistNext
      <3> QED
        BY <1>1, <2>0, <2>1, <3>1, <3>2 DEF PersistNext, CallInv
    <2>3. given(b) = l.list /\ disk'[b].gw = gw
      BY <2>2 DEF Conf, Done
    <2>4. \A f \in Fam : f # F => addrs[f] = pre.addrs[f]
      BY <2>0 DEF World, Torn
    <2>5. ASSUME NEW s, NEW t, ToSet(s) = ToSet(t) PROVE IPsOf(s) = IPsOf(t)
      <3>1. \A r : IPsOf(r) = {x.ip : x \in ToSet(r)}
        BY DEF IPsOf, ToSet
      <3> QED
        BY <2>5, <3>1
    <2>6. CASE req.op = "RemoveAddress"
      <3>1. given(b) = addrs
        BY <2>2, <2>3, <2>6 DEF Done
      <3>2. \A i \in DOMAIN addrs[F] : addrs[F][i] \in ToSet(addrs[F])
        BY DEF ToSet
      <3> QED
        BY <2>3, <3>1, <3>2
    <2>7. CASE req.op = "AddAddress"
      <3> DEFINE e == Extended(Found, req.addr)
      <3>1. given(b) = [pre.addrs EXCEPT ![F] = e] /\ addrs[F] \in Replaced(Found, req.addr)
        BY <2>2, <2>3, <2>7 DEF Done, Achieved, Handed, Enlarged
      <3>2. given(b)[F] = e /\ \A f \in Fam : f # F => given(b)[f] = addrs[f]
        BY <2>0, <2>4, <3>1
      <3>3. /\ e \in Seq(Addr) /\ Len(e) = Len(addrs[F]) /\ ToSet(e) = ToSet(addrs[F])
            /\ F \notin NewestFirst => e[1] = addrs[F][1]
        BY <2>0, <3>1, ExtendedFacts DEF Given
      <3> HIDE DEF e
      <3>4. \A i \in DOMAIN e : e[i] \in ToSet(addrs[F])
        BY <3>3 DEF ToSet
      <3>5. IPsOf(e) = IPsOf(addrs[F])
        BY <2>5, <3>3
      <3>6. F = "v4" => F \notin NewestFirst
        BY DEF NewestFirst
      <3> QED
        BY <2>3, <2>7, <3>2, <3>3, <3>4, <3>5, <3>6
    <2>8. CASE req.op = "SetPrimaryAddress"
      <3> DEFINE a == Found[IndexOf(Found, Given)]
                 w == Without(Found, Given)
                 r == Reordered(Found, req.addr)
      <3>1. /\ given(b) = [pre.addrs EXCEPT ![F] = r] /\ Has(Found, Given)
            /\ IF Found[1].ip = Given THEN addrs = pre.addrs
               ELSE Arranged(F, addrs[F], Target, Len(Found))
        BY <2>2, <2>3, <2>8 DEF Done, Achieved, Listed
      <3>2. given(b)[F] = r /\ \A f \in Fam : f # F => given(b)[f] = addrs[f]
        BY <2>0, <2>4, <3>1
      <3>3. /\ a \in Addr /\ a.ip = Given /\ req.addr.ip = Given
            /\ ToSet(Found) = ToSet(w) \cup {a}
        BY <2>0, <3>1, IndexOfType, WithoutFacts DEF Given
      <3>4. /\ r \in Seq(Addr) /\ Len(r) = Len(Found) /\ r[1] = req.addr
            /\ ToSet(r) = ToSet(w) \cup {req.addr}
        BY <2>0, <3>1, <3>3, ReorderedFacts
      <3>5. Len(addrs[F]) = Len(Found) /\ ToSet(addrs[F]) = ToSet(Found)
        <4>1. CASE Found[1].ip = Given
          BY <3>1, <4>1 DEF Found
        <4>2. CASE Found[1].ip # Given
          <5>1. Target \in Seq(Addr) /\ Len(Target) = Len(Found) /\ ToSet(Target) = ToSet(Found)
            BY <2>0, <3>1, TargetFacts
          <5> QED
            BY <2>0, <3>1, <4>2, <5>1, ArrangedWhole
        <4> QED
          BY <4>1, <4>2
      <3>6. F = "v4" => addrs[F][1].ip = Given
        <4>1. CASE Found[1].ip = Given
          BY <3>1, <4>1 DEF Found
        <4>2. CASE Found[1].ip # Given
          <5>1. Target[1].ip = Given /\ Len(Found) > 0
            BY <2>0, <3>1, TargetFacts
          <5>2. F = "v4" => F \notin NewestFirst
            BY DEF NewestFirst
          <5> QED
            BY <3>1, <4>2, <5>1, <5>2 DEF Arranged
        <4> QED
          BY <4>1, <4>2
      <3> HIDE DEF a, w, r
      <3>7. \A i \in DOMAIN r : r[i] \in ToSet(addrs[F]) \/ r[i].ip = req.addr.ip
        <4>1. \A i \in DOMAIN r : r[i] \in ToSet(w) \cup {req.addr}
          BY <3>4 DEF ToSet
        <4> QED
          BY <3>3, <3>5, <4>1
      <3>8. IPsOf(r) = IPsOf(addrs[F])
        <4>1. \A q, ip : ip \in IPsOf(q) <=> \E x \in ToSet(q) : x.ip = ip
          BY DEF IPsOf, ToSet
        <4>2. \A ip : ip \in IPsOf(r) <=> ip = Given \/ \E x \in ToSet(w) : x.ip = ip
          BY <3>3, <3>4, <4>1
        <4>3. \A ip : ip \in IPsOf(addrs[F]) <=> ip = Given \/ \E x \in ToSet(w) : x.ip = ip
          BY <3>3, <3>5, <4>1
        <4> QED
          BY <4>2, <4>3
      <3> QED
        BY <2>3, <2>8, <3>2, <3>3, <3>4, <3>5, <3>6, <3>7, <3>8
    <2> QED
      BY <2>2, <2>6, <2>7, <2>8 DEF Done, Achieved
  <1>2. Spec => []BookInv
    BY BookInit, BookStep, PTL DEF Spec
  <1>3. BookInv /\ [Next]_vars => [\A b \in Backends : disk'[b] # disk[b] => Runs(b)]_vars
    BY <1>1
  <1> QED
    BY <1>2, <1>3, PTL DEF Spec, PersistOnlyRuntime

\* A panel that gains or loses an address, or is given a main one, is told what the kernel
\* holds at that moment, a main IPv4 address being the primary of its family; and with
\* WithSkipPanels no panel is told anything.
THEOREM PanelsAreTold == Spec => PanelsFollowRuntime
  <1> DEFINE Told(p) ==
        /\ ~opts.skipPanels
        /\ panel'[p].ips \ panel[p].ips \subseteq RuntimeIPs
        /\ (panel[p].ips \ panel'[p].ips) \cap RuntimeIPs = {}
        /\ panel'[p].main # panel[p].main =>
              /\ panel'[p].main \in RuntimeIPs
              /\ panel'[p].main \in IP4 => panel'[p].main = addrs["v4"][1].ip
  <1>1. ASSUME BookInv, Next, NEW p \in Panels, panel'[p] # panel[p] PROVE Told(p)
    <2>0. /\ TypeInv /\ World /\ CallInv /\ F \in Fam /\ FamOf(Given) = F
          /\ Found \in Seq(Addr) /\ Distinct(Found)
          /\ panel \in [Panels -> Beliefs]
      BY <1>1, Types DEF BookInv, TypeInv, TypeOK, StoresOK
    <2>1. ReleaseOnPanels \/ Finish
      <3>1. Early => UNCHANGED panel
        BY EarlySteps DEF Frame
      <3> QED
        BY <1>1, <3>1 DEF Next, Step, Early, AddAddress, SetPrimaryAddress, RemoveAddress,
                          Begin, PersistNext, Crash, Frame
    <2>2. CASE ReleaseOnPanels
      <3>1. PICK ok \in SUBSET Panels : panel' = Released(ok)
        BY <2>2 DEF ReleaseOnPanels
      <3>2. /\ ~opts.skipPanels /\ panel'[p].main = panel[p].main
            /\ panel'[p].ips \in {panel[p].ips, panel[p].ips \ {Given}}
        BY <1>1, <2>0, <3>1 DEF Released, Given, Beliefs
      <3>3. Given \notin RuntimeIPs
        <4>1. addrs = [pre.addrs EXCEPT ![F] = Without(Found, Given)]
          BY <2>0, <2>2 DEF ReleaseOnPanels, CallInv, Removing
        <4>2. addrs[F] = Without(Found, Given)
          BY <2>0, <4>1, Types
        <4>3. ~Has(addrs[F], Given)
          BY <2>0, <4>2, WithoutFacts
        <4>4. \A f \in Fam : \A i \in DOMAIN addrs[f] : FamOf(addrs[f][i].ip) = f
          BY <2>0, WorldIsSound DEF Sound
        <4> QED
          BY <2>0, <4>3, <4>4 DEF RuntimeIPs, IPsOf, Has
      <3> QED
        BY <3>2, <3>3
    <2>3. CASE Finish
      <3>1. /\ ~opts.skipPanels /\ req.op # "RemoveAddress"
            /\ panel'[p].ips \in {panel[p].ips, RuntimeIPs}
            /\ \/ panel'[p].main = panel[p].main
               \/ panel'[p].main = Given /\ req.op = "SetPrimaryAddress"
        BY <1>1, <2>3 DEF Finish, Given
      <3>2. req.op = "SetPrimaryAddress" =>
               Given \in RuntimeIPs /\ (Given \in IP4 => addrs["v4"][1].ip = Given)
        <4> SUFFICES ASSUME req.op = "SetPrimaryAddress"
                     PROVE  Given \in RuntimeIPs /\ (Given \in IP4 => addrs["v4"][1].ip = Given)
          OBVIOUS
        <4>1. /\ Has(Found, Given)
              /\ IF Found[1].ip = Given THEN addrs = pre.addrs
                 ELSE Arranged(F, addrs[F], Target, Len(Found))
          BY <2>0, <2>3 DEF Finish, CallInv, Done, Achieved
        <4>2. /\ Target \in Seq(Addr) /\ Len(Target) = Len(Found) /\ Len(Found) > 0
              /\ ToSet(Target) = ToSet(Found) /\ Target[1].ip = Given
          BY <2>0, <4>1, TargetFacts
        <4>3. ToSet(addrs[F]) = ToSet(Found)
          <5>1. CASE Found[1].ip = Given
            BY <4>1, <5>1 DEF Found
          <5>2. CASE Found[1].ip # Given
            BY <2>0, <4>1, <4>2, <5>2, Types, ArrangedWhole
          <5> QED
            BY <5>1, <5>2
        <4>4. Given \in RuntimeIPs
          <5>1. \E x \in ToSet(Found) : x.ip = Given
            BY <4>1 DEF Has, ToSet
          <5>2. Given \in IPsOf(addrs[F])
            BY <4>3, <5>1 DEF IPsOf, ToSet
          <5> QED
            BY <2>0, <5>2 DEF RuntimeIPs
        <4>5. Given \in IP4 => F = "v4" /\ F \notin NewestFirst
          BY <2>0 DEF FamOf, NewestFirst
        <4>6. Given \in IP4 => addrs[F][1].ip = Given
          <5>1. CASE Found[1].ip = Given
            BY <4>1, <5>1 DEF Found
          <5>2. CASE Found[1].ip # Given
            BY <4>1, <4>2, <4>5, <5>2 DEF Arranged
          <5> QED
            BY <5>1, <5>2
        <4> QED
          BY <4>4, <4>5, <4>6
      <3> QED
        BY <2>0, <3>1, <3>2
    <2> QED
      BY <2>1, <2>2, <2>3
  <1>2. Spec => []BookInv
    BY BookInit, BookStep, PTL DEF Spec
  <1>3. BookInv /\ [Next]_vars => [\A p \in Panels : panel'[p] # panel[p] => Told(p)]_vars
    BY <1>1
  <1> QED
    BY <1>2, <1>3, PTL DEF Spec, PanelsFollowRuntime

=============================================================================
