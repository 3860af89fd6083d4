----------------------- MODULE WindowsConfiguratorProofs -----------------------
(****************************************************************************)
(* Proofs about WindowsConfigurator: the address calls do all or nothing,   *)
(* and an adapter that stops leasing keeps the address it is reachable on.  *)
(* The invariant says at each label how the adapter, the lists and gateways *)
(* the call carries, and what cloud-init has, follow from the adapter the   *)
(* call found.                                                              *)
(****************************************************************************)
EXTENDS WindowsConfigurator, TLAPS, WellFoundedInduction

Gateways == [Fam -> Gw \cup {Nil}]

\* Lists of either family in which no address is twice.
Proper(lists) == lists \in Lists /\ \A f \in Fam : Once(lists[f])

AddressLabels == {"set", "routes", "gateway", "test", "restore", "restoreRoute", "persist"}
DHCPLabels == {"dhcpDisk", "enable4", "find", "static", "secondaries", "set6"}

-----------------------------------------------------------------------------
(* The invariant *)

TypeInv ==
    /\ Proper(addrs) /\ gw \in Gateways /\ dhcp \in [Fam -> BOOLEAN]
    /\ disk = [addrs |-> disk.addrs, gw |-> disk.gw, dhcp |-> disk.dhcp]
    /\ pre = [addrs |-> pre.addrs, gw |-> pre.gw, dhcp |-> pre.dhcp,
              disk |-> pre.disk, leases |-> pre.leases]
    /\ Proper(pre.addrs) /\ pre.gw \in Gateways
    /\ leases \in Nat /\ pre.leases \in Nat /\ pre.leases <= leases
    /\ l = [orig |-> l.orig, list |-> l.list, gws |-> l.gws, origGw |-> l.origGw,
            added |-> l.added, rest |-> l.rest, failed |-> l.failed]
    /\ Proper(l.orig) /\ Proper(l.list) /\ l.gws \in Gateways
    /\ l.rest \in Seq(Addr) /\ Once(l.rest)
    /\ pc \in AddressLabels \cup DHCPLabels \cup {"idle"}
    /\ req \in Requests \cup {[op |-> "none"]}

\* What a call read of the family of its address, what it makes of it, and the gateway
\* it is to end with.
Read == Listed(pre.addrs[F])

Aimed == IF req.op = "AddAddress" THEN With(Read, req.addr)
         ELSE IF req.op = "RemoveAddress" THEN Without(Read, req.addr.ip)
         ELSE Reordered(Read, req.addr)

AimedGw == IF req.op # "AddAddress" \/ req.gw = Nil THEN pre.gw[F]
           ELSE IF req.gw = Zero THEN Nil ELSE req.gw

\* The address is the primary already.
IsFirst == req.op = "SetPrimaryAddress" /\ Read[1].ip = req.addr.ip

\* An address call in progress: what it carries ...
CarriedInv ==
    pc \in AddressLabels =>
        /\ OnAddresses /\ disk = pre.disk
        /\ l.orig = ListedAll(pre.addrs) /\ l.list = [l.orig EXCEPT ![F] = Aimed]
        /\ l.gws = gw
        /\ \A f \in Fam \ {F} : gw[f] = pre.gw[f]
        /\ req.op = "SetPrimaryAddress" => Has(Read, req.addr.ip)

\* ... where the addresses are ...
ListInv ==
    /\ pc = "set" => addrs = pre.addrs /\ ~IsFirst
    /\ pc \in {"routes", "gateway", "test", "restore"} => addrs = l.list /\ ~IsFirst
    /\ pc = "restoreRoute" => addrs = l.orig
    /\ pc = "persist" => addrs = IF IsFirst THEN pre.addrs ELSE l.list

\* ... and where the gateway is.
GatewayInv ==
    /\ pc \in {"set", "routes"} => gw[F] = pre.gw[F] /\ ~l.added
    /\ pc \in {"routes", "gateway", "restoreRoute"} => req.op = "AddAddress"
    /\ pc = "gateway" => /\ gw[F] = IF pre.gw[F] = Nil THEN Nil ELSE AimedGw
                         /\ AimedGw # Nil /\ ~l.added
    /\ pc \in {"test", "restore", "restoreRoute", "persist"} => gw[F] = AimedGw
    /\ pc \in {"test", "restore", "restoreRoute"} => (l.added => pre.gw[F] = Nil)
    /\ pc \in {"gateway", "test", "restore", "restoreRoute"} /\ req.op = "AddAddress" =>
          l.origGw = pre.gw[F]

\* SetDHCP in progress: netsh has the addresses still to add, all of them others than
\* the ones the adapter has by now.
RestInv ==
    /\ pc \in DHCPLabels => req.op = "SetDHCP"
    /\ pc = "static" => l.rest # <<>>
    /\ pc = "enable4" => req.v4
    /\ pc \in {"find", "static", "secondaries"} => ~req.v4
    /\ pc = "secondaries" =>
          /\ ~dhcp["v4"]
          /\ \A i \in DOMAIN addrs["v4"], j \in DOMAIN l.rest :
                addrs["v4"][i].ip # l.rest[j].ip

\* The leased addresses and their gateway, where SetDHCP has come to.
Untouched == addrs = pre.addrs /\ gw = pre.gw /\ dhcp = pre.dhcp

FirstKept ==
    addrs["v4"] # <<>> /\ addrs["v4"][1] = Listed(pre.addrs["v4"])[1]

Leased == ~req.v4 /\ pre.dhcp["v4"] /\ Listed(pre.addrs["v4"]) # <<>>

LeaseInv ==
    req.op = "SetDHCP" /\ leases = pre.leases =>
        /\ pc \in {"dhcpDisk", "enable4", "find"} => Untouched /\ ~l.failed
        /\ pc = "static" => /\ Untouched /\ ~l.failed
                            /\ l.rest = Listed(pre.addrs["v4"]) /\ l.gws["v4"] = pre.gw["v4"]
        /\ pc = "secondaries" =>
              /\ FirstKept /\ gw["v4"] = pre.gw["v4"]
              /\ ~l.failed => addrs["v4"] \o l.rest = Listed(pre.addrs["v4"])
        /\ pc = "set6" =>
              /\ Leased => /\ gw["v4"] = pre.gw["v4"]
                           /\ addrs["v4"] = pre.addrs["v4"] \/ FirstKept
                           /\ ~l.failed => addrs["v4"] = Listed(pre.addrs["v4"])
              /\ ~l.failed => dhcp["v4"] = req.v4

AddressInv == CarriedInv /\ ListInv /\ GatewayInv /\ AllOrNothing
DHCPInv == RestInv /\ LeaseInv /\ LeaseIsKept

WindowsInv == TypeInv /\ AddressInv /\ DHCPInv

-----------------------------------------------------------------------------
(* Numbers *)

\* A set of numbers that is not empty has a least one.
LEMMA Least ==
    ASSUME NEW T \in SUBSET Nat, T # {}
    PROVE  \E m \in T : \A k \in T : m <= k
  <1> DEFINE R == OpToRel(<, Nat)
  <1>1. IsWellFoundedOn(R, Nat)
    BY NatLessThanWellFounded
  <1>2. \A x, y \in Nat : x < y => <<x, y>> \in R
    BY DEF OpToRel
  <1> HIDE DEF R
  <1>3. PICK m \in T : \A y \in T : ~(<<y, m>> \in R)
    BY <1>1, WFMin
  <1>4. \A k \in T : ~(k < m)
    BY <1>2, <1>3
  <1> QED
    BY <1>4

\* What holds of no element, and of one more whenever of m, holds of any number up to N.
LEMMA Induction ==
    ASSUME NEW N \in Nat, NEW T, 0 \in T, \A m \in 0 .. N - 1 : m \in T => m + 1 \in T
    PROVE  0 .. N \subseteq T
  <1> DEFINE U == (0 .. N) \ T
  <1> SUFFICES ASSUME U # {} PROVE FALSE
    OBVIOUS
  <1>1. PICK m \in U : \A k \in U : m <= k
    <2> HIDE DEF U
    <2>1. U \in SUBSET Nat
      BY DEF U
    <2> QED
      BY <2>1, Least
  <1>2. m # 0 /\ m - 1 \in 0 .. N - 1
    BY <1>1
  <1>3. m - 1 \notin U
    BY <1>1, <1>2
  <1>4. (m - 1) + 1 \in T
    BY <1>2, <1>3
  <1> QED
    BY <1>1, <1>2, <1>4

-----------------------------------------------------------------------------
(* Picking elements of a list *)

\* The lists picked from the first m places are defined by their equation.
LEMMA PickedEquation ==
    ASSUME NEW s \in Seq(Addr), NEW T
    PROVE  /\ PickedUpTo(s, T)[0] = <<>>
           /\ \A m \in 1 .. Len(s) :
                PickedUpTo(s, T)[m] = IF m \in T THEN Append(PickedUpTo(s, T)[m - 1], s[m])
                                      ELSE PickedUpTo(s, T)[m - 1]
  <1> DEFINE N == Len(s)
             step(r, m) == IF m = 0 THEN <<>>
                           ELSE IF m \in T THEN Append(r[m - 1], s[m]) ELSE r[m - 1]
             Solves(r, M) == r = [m \in 0 .. M |-> step(r, m)]
             U == {M \in 0 .. N : \E r : Solves(r, M)}
  <1>0. N \in Nat
    OBVIOUS
  <1>1. 0 \in U
    <2> DEFINE r == [m \in 0 .. 0 |-> <<>>]
    <2>1. Solves(r, 0)
      OBVIOUS
    <2> HIDE DEF r, Solves
    <2> QED
      BY <2>1, <1>0
  <1>2. ASSUME NEW M \in 0 .. N - 1, M \in U PROVE M + 1 \in U
    <2>1. PICK r : Solves(r, M)
      BY <1>2
    <2> DEFINE q == [m \in 0 .. M + 1 |-> IF m <= M THEN r[m] ELSE step(r, m)]
    <2>2. \A m \in 0 .. M : q[m] = r[m]
      BY <1>0
    <2>3. \A m \in 1 .. M + 1 : q[m - 1] = r[m - 1]
      BY <2>2, <1>0
    <2>4. \A m \in 0 .. M + 1 : step(q, m) = step(r, m)
      BY <2>3, <1>0
    <2>5. \A m \in 0 .. M : r[m] = step(r, m)
      BY <2>1
    <2>6. \A m \in 0 .. M + 1 : q[m] = step(r, m)
      <3> HIDE DEF step
      <3> QED
        BY <2>5, <1>0
    <2>7. Solves(q, M + 1)
      <3> HIDE DEF step
      <3>1. \A m \in 0 .. M + 1 : q[m] = step(q, m)
        BY <2>4, <2>6
      <3>2. q = [m \in 0 .. M + 1 |-> q[m]]
        OBVIOUS
      <3> HIDE DEF q
      <3> QED
        BY <3>1, <3>2
    <2> HIDE DEF q, Solves
    <2> QED
      BY <2>7, <1>0
  <1>3. 0 .. N \subseteq U
    <2> HIDE DEF U
    <2> QED
      BY <1>0, <1>1, <1>2, Induction
  <1>4. Solves(PickedUpTo(s, T), N)
    <2>1. \E r : Solves(r, N)
      <3> HIDE DEF Solves
      <3> QED
        BY <1>0, <1>3
    <2> DEFINE c == CHOOSE r : r = [m \in 0 .. N |-> step(r, m)]
    <2>2. PickedUpTo(s, T) = c
      BY DEF PickedUpTo
    <2> QED
      BY <2>1, <2>2
  <1>5. \A m \in 0 .. N : PickedUpTo(s, T)[m] = step(PickedUpTo(s, T), m)
    <2> HIDE DEF step
    <2> QED
      BY <1>4
  <1>6. \A m \in 1 .. N : m \in 0 .. N /\ m # 0
    BY <1>0
  <1>7. 0 \in 0 .. N
    BY <1>0
  <1> QED
    BY <1>5, <1>6, <1>7

\* What has been picked from the first m places.
PickedOK(s, T, m, r) ==
    /\ r \in Seq(Addr) /\ Len(r) <= m
    /\ \A p \in DOMAIN r : \E n \in 1 .. m : n \in T /\ r[p] = s[n]
    /\ \A n \in 1 .. m : n \in T => \E p \in DOMAIN r : r[p] = s[n]
    /\ Once(s) => Once(r)
    /\ (\A n \in 1 .. m : n \in T) => Len(r) = m /\ \A n \in 1 .. m : r[n] = s[n]
    /\ (m > 0 /\ \A n \in 1 .. m : n \in T <=> n # 1) =>
          Len(r) = m - 1 /\ \A n \in 2 .. m : r[n - 1] = s[n]

\* By induction on the places looked at.
LEMMA PickedFacts ==
    ASSUME NEW s \in Seq(Addr), NEW T
    PROVE  PickedOK(s, T, Len(s), Picked(s, T))
  <1> DEFINE N == Len(s)
             U == {m \in 0 .. N : PickedOK(s, T, m, PickedUpTo(s, T)[m])}
  <1>0. N \in Nat /\ DOMAIN s = 1 .. N /\ \A n \in 1 .. N : s[n] \in Addr
    OBVIOUS
  <1>1. 0 \in U
    <2>1. PickedOK(s, T, 0, <<>>)
      BY DEF PickedOK, Once
    <2> QED
      BY <2>1, <1>0, PickedEquation
  <1>2. ASSUME NEW h \in 0 .. N - 1, h \in U PROVE h + 1 \in U
    <2> DEFINE m == h + 1
               r == PickedUpTo(s, T)[h]
    <2>1. m \in 1 .. N /\ m - 1 = h /\ h \in Nat
      BY <1>0
    <2>2. PickedUpTo(s, T)[m] = IF m \in T THEN Append(r, s[m]) ELSE r
      BY <2>1, <1>0, PickedEquation
    <2>3. PickedOK(s, T, h, r) /\ s[m] \in Addr
      BY <1>0, <1>2
    <2> HIDE DEF r
    <2>4. \A n \in 1 .. m : n \in 1 .. h \/ n = m
      BY <2>1
    <2>5. CASE m \notin T
      <3>1. PickedOK(s, T, m, r)
        BY <2>1, <2>3, <2>4, <2>5 DEF PickedOK
      <3> QED
        BY <3>1, <2>1, <2>2, <2>5, <1>0
    <2>6. CASE m \in T
      <3> DEFINE new == Append(r, s[m])
      <3>1. /\ new \in Seq(Addr) /\ Len(new) = Len(r) + 1
            /\ DOMAIN new = 1 .. Len(r) + 1 /\ new[Len(r) + 1] = s[m]
            /\ Len(r) \in Nat /\ DOMAIN r = 1 .. Len(r) /\ Len(r) <= h
            /\ \A p \in DOMAIN r : new[p] = r[p]
        <4>1. r \in Seq(Addr) /\ Len(r) <= h
          BY <2>3 DEF PickedOK
        <4> QED
          BY <4>1, <2>3
      <3> HIDE DEF new
      <3>2. \A p \in DOMAIN new : \E n \in 1 .. m : n \in T /\ new[p] = s[n]
        <4>1. \A p \in DOMAIN r : \E n \in 1 .. h : n \in T /\ r[p] = s[n]
          BY <2>3 DEF PickedOK
        <4> QED
          BY <3>1, <4>1, <2>1, <2>6
      <3>3. \A n \in 1 .. m : n \in T => \E p \in DOMAIN new : new[p] = s[n]
        <4>1. \A n \in 1 .. h : n \in T => \E p \in DOMAIN r : r[p] = s[n]
          BY <2>3 DEF PickedOK
        <4>2. DOMAIN r \subseteq DOMAIN new /\ Len(r) + 1 \in DOMAIN new
          BY <3>1
        <4> QED
          BY <3>1, <4>1, <4>2, <2>4
      <3>4. Once(s) => Once(new)
        <4> SUFFICES ASSUME Once(s) PROVE Once(new)
          OBVIOUS
        <4>1. \A p, q \in DOMAIN r : r[p].ip = r[q].ip => p = q
          BY <2>3 DEF PickedOK, Once
        <4>2. \A p \in DOMAIN r : r[p].ip # s[m].ip
          <5>1. \A n \in 1 .. h : s[n].ip # s[m].ip
            BY <2>1, <1>0 DEF Once
          <5>2. \A p \in DOMAIN r : \E n \in 1 .. h : r[p] = s[n]
            BY <2>3 DEF PickedOK
          <5> QED
            BY <5>1, <5>2
        <4>3. \A p \in DOMAIN new : p \in DOMAIN r \/ p = Len(r) + 1
          BY <3>1
        <4> QED
          BY <3>1, <4>1, <4>2, <4>3 DEF Once
      <3>5. (\A n \in 1 .. m : n \in T) => Len(new) = m /\ \A n \in 1 .. m : new[n] = s[n]
        <4> SUFFICES ASSUME \A n \in 1 .. m : n \in T
                     PROVE  Len(new) = m /\ \A n \in 1 .. m : new[n] = s[n]
          OBVIOUS
        <4>1. Len(r) = h /\ \A n \in 1 .. h : r[n] = s[n]
          BY <2>1, <2>3 DEF PickedOK
        <4> QED
          BY <4>1, <3>1, <2>1, <2>4
      <3>6. (m > 0 /\ \A n \in 1 .. m : n \in T <=> n # 1) =>
               Len(new) = m - 1 /\ \A n \in 2 .. m : new[n - 1] = s[n]
        <4> SUFFICES ASSUME \A n \in 1 .. m : n \in T <=> n # 1
                     PROVE  Len(new) = m - 1 /\ \A n \in 2 .. m : new[n - 1] = s[n]
          OBVIOUS
        <4>1. m # 1 /\ h > 0
          BY <2>1, <2>6
        <4>2. Len(r) = h - 1 /\ \A n \in 2 .. h : r[n - 1] = s[n]
          BY <4>1, <2>1, <2>3 DEF PickedOK
        <4>3. Len(new) = m - 1 /\ m - 1 = h
          BY <4>2, <3>1, <2>1
        <4>4. new[h] = s[m] /\ h \in Nat
          BY <4>2, <3>1, <2>1
        <4>5. \A n \in 2 .. h : n - 1 \in DOMAIN r
          BY <4>2, <3>1, <2>1
        <4>6. \A n \in 2 .. h : new[n - 1] = s[n]
          BY <4>2, <4>5, <3>1
        <4>7. \A n \in 2 .. m : n \in 2 .. h \/ n = m
          BY <2>1
        <4> QED
          BY <4>3, <4>4, <4>6, <4>7
      <3>7. PickedOK(s, T, m, new)
        BY <3>1, <3>2, <3>3, <3>4, <3>5, <3>6, <2>1 DEF PickedOK
      <3>8. PickedUpTo(s, T)[m] = new
        BY <2>2, <2>6 DEF new
      <3>9. m \in 0 .. N
        BY <2>1, <1>0
      <3> QED
        BY <3>7, <3>8, <3>9
    <2> QED
      BY <2>5, <2>6
  <1>3. 0 .. N \subseteq U
    <2> HIDE DEF U
    <2> QED
      BY <1>0, <1>1, <1>2, Induction
  <1>4. N \in U
    <2> HIDE DEF U
    <2> QED
      BY <1>0, <1>3
  <1> QED
    BY <1>4 DEF Picked

-----------------------------------------------------------------------------
(* Lists of addresses *)

\* An address is a record with its two fields.
LEMMA AddrFields ==
    \A a \in Addr : a.ip \in IP /\ a.pfx \in Prefix /\ a = [ip |-> a.ip, pfx |-> a.pfx]
  BY DEF Addr

\* What is read of the adapter is addresses, each once if the adapter has each once.
LEMMA ListedFacts ==
    ASSUME NEW s \in Seq(Addr)
    PROVE  Listed(s) \in Seq(Addr) /\ (Once(s) => Once(Listed(s)))
  <1> DEFINE T == {i \in DOMAIN s : Networks(s, s[i]) # {}}
             found == Picked(s, T)
             mask(i) == CHOOSE p \in Networks(s, found[i]) : TRUE
             new == [i \in DOMAIN found |-> [found[i] EXCEPT !.pfx = mask(i)]]
  <1>1. Listed(s) = new
    BY DEF Listed
  <1>2. /\ found \in Seq(Addr)
        /\ \A p \in DOMAIN found : \E n \in 1 .. Len(s) : n \in T /\ found[p] = s[n]
        /\ Once(s) => Once(found)
    <2>1. PickedOK(s, T, Len(s), found)
      BY PickedFacts
    <2> HIDE DEF T, found
    <2> QED
      BY <2>1 DEF PickedOK
  <1>3. \A a : Networks(s, a) \subseteq Prefix
    <2>1. \A i \in DOMAIN s : s[i].pfx \in Prefix
      BY AddrFields
    <2> QED
      BY <2>1 DEF Networks, ToSet
  <1>4. \A p \in DOMAIN found : Networks(s, found[p]) # {}
    BY <1>2
  <1> HIDE DEF found
  <1>5. \A p \in DOMAIN found : found[p] \in Addr /\ mask(p) \in Prefix
    BY <1>2, <1>3, <1>4, AddrFields
  <1> HIDE DEF mask
  <1>6. \A p \in DOMAIN found : new[p] \in Addr /\ new[p].ip = found[p].ip
    BY <1>5 DEF Addr
  <1>7. DOMAIN new = 1 .. Len(found) /\ DOMAIN found = 1 .. Len(found) /\ Len(found) \in Nat
    BY <1>2
  <1>8. new = [p \in 1 .. Len(found) |-> new[p]]
    BY <1>7
  <1> HIDE DEF new
  <1>9. new \in Seq(Addr)
    BY <1>6, <1>7, <1>8
  <1>10. Once(s) => Once(new)
    BY <1>2, <1>6, <1>7 DEF Once
  <1> QED
    BY <1>1, <1>9, <1>10

\* The same for both families.
LEMMA ListedAllFacts ==
    ASSUME NEW lists, Proper(lists)
    PROVE  /\ Proper(ListedAll(lists))
           /\ ListedAll(lists) = [f \in Fam |-> Listed(lists[f])]
           /\ \A f \in Fam : Listed(lists[f]) \in Seq(Addr) /\ Once(Listed(lists[f]))
  BY ListedFacts DEF ListedAll, Proper, Lists

\* Leaving out an address leaves the others, each once, and only them.
LEMMA WithoutFacts ==
    ASSUME NEW s \in Seq(Addr), NEW ip
    PROVE  /\ Without(s, ip) \in Seq(Addr)
           /\ \A p \in DOMAIN Without(s, ip) : Without(s, ip)[p].ip # ip
           /\ Once(s) => Once(Without(s, ip))
           /\ Without(s, ip) = s <=> ~Has(s, ip)
           /\ Once(s) /\ s # <<>> /\ s[1].ip = ip =>
                 /\ Len(Without(s, ip)) = Len(s) - 1
                 /\ \A n \in 2 .. Len(s) : Without(s, ip)[n - 1] = s[n]
  <1> DEFINE T == {i \in DOMAIN s : s[i].ip # ip}
             r == Picked(s, T)
  <1>1. Without(s, ip) = r
    BY DEF Without
  <1>2. PickedOK(s, T, Len(s), r)
    BY PickedFacts
  <1>3. DOMAIN s = 1 .. Len(s) /\ Len(s) \in Nat
    OBVIOUS
  <1>4. r \in Seq(Addr) /\ (Once(s) => Once(r))
    BY <1>2 DEF PickedOK
  <1>5. \A p \in DOMAIN r : r[p].ip # ip
    BY <1>2 DEF PickedOK
  <1>6. ~Has(s, ip) => r = s
    <2> SUFFICES ASSUME ~Has(s, ip) PROVE r = s
      OBVIOUS
    <2>1. \A n \in 1 .. Len(s) : n \in T
      BY <1>3 DEF Has
    <2>2. Len(r) = Len(s) /\ \A n \in 1 .. Len(s) : r[n] = s[n]
      BY <1>2, <2>1 DEF PickedOK
    <2> HIDE DEF r
    <2> QED
      BY <2>2, <1>3, <1>4
  <1>7. r = s => ~Has(s, ip)
    BY <1>5 DEF Has
  <1>8. Once(s) /\ s # <<>> /\ s[1].ip = ip =>
           Len(r) = Len(s) - 1 /\ \A n \in 2 .. Len(s) : r[n - 1] = s[n]
    <2> SUFFICES ASSUME Once(s), s # <<>>, s[1].ip = ip
                 PROVE  Len(r) = Len(s) - 1 /\ \A n \in 2 .. Len(s) : r[n - 1] = s[n]
      OBVIOUS
    <2>1. Len(s) > 0 /\ 1 \in DOMAIN s
      BY <1>3
    <2>2. \A n \in 1 .. Len(s) : n \in T <=> n # 1
      BY <2>1, <1>3 DEF Once
    <2> QED
      BY <1>2, <2>1, <2>2 DEF PickedOK
  <1> QED
    BY <1>1, <1>4, <1>5, <1>6, <1>7, <1>8

\* Setting the prefix of an address, or adding it at the end: where an address is there
\* once, changing it at its place is changing it wherever it is.
LEMMA WithFacts ==
    ASSUME NEW s \in Seq(Addr), NEW a \in Addr, Once(s)
    PROVE  /\ With(s, a) \in Seq(Addr) /\ Once(With(s, a))
           /\ ~Has(s, a.ip) => With(s, a) = Append(s, a)
           /\ Has(s, a.ip) =>
                 With(s, a) = [i \in DOMAIN s |-> IF s[i].ip = a.ip THEN a ELSE s[i]]
  <1>0. DOMAIN s = 1 .. Len(s) /\ Len(s) \in Nat /\ \A n \in DOMAIN s : s[n] \in Addr
    OBVIOUS
  <1>1. CASE Has(s, a.ip)
    <2> DEFINE k == IndexOf(s, a.ip)
               new == [i \in DOMAIN s |-> IF s[i].ip = a.ip THEN a ELSE s[i]]
    <2>1. k \in DOMAIN s /\ s[k].ip = a.ip
      BY <1>1 DEF Has, IndexOf
    <2>2. \A i \in DOMAIN s : s[i].ip = a.ip <=> i = k
      BY <2>1 DEF Once
    <2> HIDE DEF k
    <2>3. [s EXCEPT ![k] = a] = new
      BY <2>1, <2>2
    <2>4. With(s, a) = new
      BY <1>1, <2>3 DEF With, k
    <2>5. \A i \in DOMAIN s : new[i] \in Addr /\ new[i].ip = s[i].ip
      BY <1>0
    <2>6. DOMAIN new = 1 .. Len(s) /\ new = [i \in 1 .. Len(s) |-> new[i]]
      BY <1>0
    <2> HIDE DEF new
    <2>7. new \in Seq(Addr)
      BY <2>5, <2>6, <1>0
    <2>8. Once(new)
      BY <2>5, <2>6, <1>0 DEF Once
    <2> QED
      BY <1>1, <2>4, <2>7, <2>8 DEF new
  <1>2. CASE ~Has(s, a.ip)
    <2> DEFINE new == Append(s, a)
    <2>1. With(s, a) = new
      BY <1>2 DEF With
    <2>2. /\ new \in Seq(Addr) /\ DOMAIN new = 1 .. Len(s) + 1 /\ new[Len(s) + 1] = a
          /\ \A i \in DOMAIN s : new[i] = s[i]
      OBVIOUS
    <2> HIDE DEF new
    <2>3. \A i \in DOMAIN s : s[i].ip # a.ip
      BY <1>2 DEF Has
    <2>4. \A i \in DOMAIN new : i \in DOMAIN s \/ i = Len(s) + 1
      BY <2>2, <1>0
    <2>5. Once(new)
      BY <2>2, <2>3, <2>4 DEF Once
    <2> QED
      BY <1>2, <2>1, <2>2, <2>5 DEF new
  <1> QED
    BY <1>1, <1>2

\* Putting an address first, which leaves the order if it is first.
LEMMA ReorderedFacts ==
    ASSUME NEW s \in Seq(Addr), NEW a \in Addr, Once(s)
    PROVE  /\ Reordered(s, a) \in Seq(Addr) /\ Once(Reordered(s, a))
           /\ s # <<>> /\ s[1].ip = a.ip => IPOrder(Reordered(s, a)) = IPOrder(s)
  <1> DEFINE r == Without(s, a.ip)
             new == <<a>> \o r
  <1>1. r \in Seq(Addr) /\ Once(r) /\ \A p \in DOMAIN r : r[p].ip # a.ip
    BY WithoutFacts
  <1>2. s # <<>> /\ s[1].ip = a.ip =>
           Len(r) = Len(s) - 1 /\ \A n \in 2 .. Len(s) : r[n - 1] = s[n]
    BY WithoutFacts
  <1>3. Reordered(s, a) = new
    BY DEF Reordered
  <1> HIDE DEF r
  <1>4. /\ new \in Seq(Addr) /\ DOMAIN new = 1 .. Len(r) + 1 /\ new[1] = a
        /\ Len(r) \in Nat /\ DOMAIN r = 1 .. Len(r)
        /\ \A p \in 2 .. Len(r) + 1 : new[p] = r[p - 1] /\ p - 1 \in DOMAIN r
    BY <1>1
  <1> HIDE DEF new
  <1>5. Once(new)
    <2> SUFFICES ASSUME NEW p \in DOMAIN new, NEW q \in DOMAIN new, new[p].ip = new[q].ip
                 PROVE  p = q
      BY DEF Once
    <2>1. p = 1 \/ p \in 2 .. Len(r) + 1
      BY <1>4
    <2>2. q = 1 \/ q \in 2 .. Len(r) + 1
      BY <1>4
    <2>3. CASE p = 1 \/ q = 1
      BY <1>1, <1>4, <2>1, <2>2, <2>3
    <2>4. CASE p \in 2 .. Len(r) + 1 /\ q \in 2 .. Len(r) + 1
      <3>1. r[p - 1].ip = r[q - 1].ip /\ p - 1 \in DOMAIN r /\ q - 1 \in DOMAIN r
        BY <1>4, <2>4
      <3>2. p - 1 = q - 1
        BY <3>1, <1>1 DEF Once
      <3> QED
        BY <3>2, <2>4
    <2> QED
      BY <2>1, <2>2, <2>3, <2>4
  <1>6. ASSUME s # <<>>, s[1].ip = a.ip PROVE IPOrder(new) = IPOrder(s)
    <2>1. Len(s) \in Nat /\ DOMAIN s = 1 .. Len(s) /\ DOMAIN new = DOMAIN s
      BY <1>2, <1>4, <1>6
    <2>2. \A n \in DOMAIN s : new[n].ip = s[n].ip
      BY <2>1, <1>2, <1>4, <1>6
    <2> QED
      BY <2>1, <2>2 DEF IPOrder
  <1> QED
    BY <1>1, <1>3, <1>4, <1>5, <1>6

\* A list has a length.
LEMMA LengthFacts == \A s \in Seq(Addr) : Len(s) \in Nat /\ DOMAIN s = 1 .. Len(s)
  OBVIOUS

\* The beginning of a list.
LEMMA PartFacts ==
    ASSUME NEW s \in Seq(Addr), NEW k \in 0 .. Len(s), Once(s)
    PROVE  SubSeq(s, 1, k) \in Seq(Addr) /\ Once(SubSeq(s, 1, k))
  <1>1. /\ SubSeq(s, 1, k) \in Seq(Addr) /\ Len(SubSeq(s, 1, k)) = k
        /\ \A i \in 1 .. k : SubSeq(s, 1, k)[i] = s[i]
    OBVIOUS
  <1> QED
    BY <1>1 DEF Once

\* What a failing SetIPAddresses leaves of the lists has no address twice.
LEMMA SetFailsFacts ==
    ASSUME NEW lists, Proper(lists), Proper(addrs), SetIPAddressesFails(lists)
    PROVE  Proper(addrs')
  <1>1. CASE addrs' = addrs
    BY <1>1 DEF Proper
  <1>2. ASSUME NEW m \in 0 .. 2, NEW n \in 0 .. 2,
               addrs' = [f \in Fam |-> SubSeq(lists[f], 1,
                            LET k == IF f = "v4" THEN m ELSE n
                            IN  IF k > Len(lists[f]) THEN Len(lists[f]) ELSE k)]
        PROVE  Proper(addrs')
    <2> DEFINE k(f) == IF f = "v4" THEN m ELSE n
               j(f) == IF k(f) > Len(lists[f]) THEN Len(lists[f]) ELSE k(f)
    <2>1. \A f \in Fam : lists[f] \in Seq(Addr) /\ Once(lists[f])
      BY DEF Proper, Lists
    <2>2. ASSUME NEW f \in Fam PROVE j(f) \in 0 .. Len(lists[f])
      <3>1. Len(lists[f]) \in Nat
        BY <2>1, LengthFacts
      <3>2. k(f) \in Nat
        BY <1>2
      <3> HIDE DEF k
      <3> QED
        BY <3>1, <3>2
    <2>3. addrs' = [f \in Fam |-> SubSeq(lists[f], 1, j(f))]
      BY <1>2
    <2> HIDE DEF j
    <2>4. \A f \in Fam : SubSeq(lists[f], 1, j(f)) \in Seq(Addr) /\ Once(SubSeq(lists[f], 1, j(f)))
      BY <2>1, <2>2, PartFacts
    <2> QED
      BY <2>3, <2>4 DEF Proper, Lists
  <1> QED
    BY <1>1, <1>2 DEF SetIPAddressesFails

-----------------------------------------------------------------------------
(* Calls *)

\* What the request of an address call is, and what the call makes of the list it read.
LEMMA RequestFacts ==
    ASSUME TypeInv, OnAddresses
    PROVE  /\ F \in Fam /\ req.addr \in Addr
           /\ req.op = "AddAddress" => req.gw \in Gw \cup {Nil, Zero}
           /\ pre.addrs[F] \in Seq(Addr) /\ Once(pre.addrs[F])
           /\ Read \in Seq(Addr) /\ Once(Read)
           /\ Aimed \in Seq(Addr) /\ Once(Aimed)
           /\ AimedGw \in Gw \cup {Nil}
  <1>1. req \in Requests
    BY DEF TypeInv, OnAddresses
  <1>2. req.addr \in Addr /\ (req.op = "AddAddress" => req.gw \in Gw \cup {Nil, Zero})
    BY <1>1 DEF Requests, OnAddresses
  <1>3. F \in Fam
    BY DEF F, FamOf, Fam
  <1>4. pre.addrs[F] \in Seq(Addr) /\ Once(pre.addrs[F]) /\ pre.gw[F] \in Gw \cup {Nil}
    BY <1>3 DEF TypeInv, Proper, Lists, Gateways
  <1>5. Read \in Seq(Addr) /\ Once(Read)
    BY <1>4, ListedFacts DEF Read
  <1>6. Aimed \in Seq(Addr) /\ Once(Aimed)
    BY <1>2, <1>5, WithFacts, WithoutFacts, ReorderedFacts DEF Aimed
  <1>7. AimedGw \in Gw \cup {Nil}
    BY <1>2, <1>4 DEF AimedGw
  <1> QED
    BY <1>2, <1>3, <1>4, <1>5, <1>6, <1>7

\* What is asked for is what the call makes of the list, but for an address that is
\* the primary already.
LEMMA AskedIsAimed ==
    ASSUME TypeInv, OnAddresses
    PROVE  Asked = IF IsFirst THEN pre.addrs[F] ELSE Aimed
  <1>1. req.addr \in Addr /\ Read \in Seq(Addr) /\ Once(Read)
    BY RequestFacts
  <1>2. CASE req.op = "AddAddress"
    <2>1. Asked = IF Without(Read, req.addr.ip) = Read THEN Append(Read, req.addr)
                  ELSE [i \in DOMAIN Read |->
                           IF Read[i].ip = req.addr.ip THEN req.addr ELSE Read[i]]
      BY <1>2 DEF Asked, Read
    <2>2. Aimed = With(Read, req.addr) /\ ~IsFirst
      BY <1>2 DEF Aimed, IsFirst
    <2> QED
      BY <1>1, <2>1, <2>2, WithFacts, WithoutFacts
  <1>3. CASE req.op = "RemoveAddress"
    BY <1>3 DEF Asked, Aimed, IsFirst, Read
  <1>4. CASE req.op = "SetPrimaryAddress"
    BY <1>4 DEF Asked, Aimed, IsFirst, Read, Reordered
  <1> QED
    BY <1>2, <1>3, <1>4 DEF OnAddresses

\* A step that leaves the request and what the call began with alone.
LEMMA FrameFacts ==
    ASSUME UNCHANGED <<req, pre>>
    PROVE  /\ F' = F /\ Read' = Read /\ Aimed' = Aimed /\ AimedGw' = AimedGw
           /\ IsFirst' <=> IsFirst
           /\ OnAddresses' <=> OnAddresses
  BY DEF F, Read, Aimed, AimedGw, IsFirst, OnAddresses

\* Of an address call, nothing is to be said about leases, and of SetDHCP nothing about
\* address calls.
LEMMA NoDHCP ==
    ASSUME OnAddresses, pc \notin DHCPLabels
    PROVE  DHCPInv
  BY DEF OnAddresses, DHCPLabels, DHCPInv, RestInv, LeaseInv, LeaseIsKept

\* ... and the other way round.
LEMMA NoAddresses ==
    ASSUME req.op = "SetDHCP", pc \notin AddressLabels
    PROVE  AddressInv
  BY DEF OnAddresses, AddressLabels, AddressInv, CarriedInv, ListInv, GatewayInv, AllOrNothing

\* The locals at rest have their types.
LEMMA LocalsAtRest ==
    /\ L0 = [orig |-> L0.orig, list |-> L0.list, gws |-> L0.gws, origGw |-> L0.origGw,
             added |-> L0.added, rest |-> L0.rest, failed |-> L0.failed]
    /\ Proper(L0.orig) /\ Proper(L0.list) /\ L0.gws \in Gateways
    /\ L0.rest = <<>> /\ L0.rest \in Seq(Addr) /\ Once(L0.rest)
    /\ ~L0.added /\ ~L0.failed /\ L0.origGw = Nil
  BY DEF L0, Proper, Lists, Once, Gateways

-----------------------------------------------------------------------------
(* A call begins *)

\* A call that begins notes the adapter as it is.
LEMMA BeginFacts ==
    ASSUME TypeInv, NEW op, Begin(op)
    PROVE  /\ req' \in Requests /\ req'.op = op
           /\ pre'.addrs = addrs /\ pre'.gw = gw /\ pre'.dhcp = dhcp /\ pre'.disk = disk
           /\ pre'.leases = leases
           /\ UNCHANGED <<adapter, disk, settings, leases>>
  BY DEF Begin

\* The locals of a call that goes on.
Begun(lists) ==
    [orig |-> ListedAll(addrs), list |-> lists, gws |-> gw, origGw |-> Nil, added |-> FALSE,
     rest |-> <<>>, failed |-> FALSE]

\* ... and has the types, whether it goes on or not.
LEMMA BeginTypes ==
    ASSUME TypeInv, NEW op, Begin(op), pc' \in AddressLabels \cup DHCPLabels \cup {"idle"},
           l' = L0 \/ \E lists : Proper(lists) /\ l' = Begun(lists)
    PROVE  TypeInv'
  <1>1. /\ pre' = [addrs |-> addrs, gw |-> gw, dhcp |-> dhcp, disk |-> disk, leases |-> leases]
        /\ req' \in Requests /\ UNCHANGED <<adapter, disk, leases>>
    BY DEF Begin
  <1>2. Proper(addrs) /\ gw \in Gateways /\ dhcp \in [Fam -> BOOLEAN] /\ leases \in Nat
        /\ disk = [addrs |-> disk.addrs, gw |-> disk.gw, dhcp |-> disk.dhcp]
    BY DEF TypeInv
  <1>3. /\ pre' = [addrs |-> pre'.addrs, gw |-> pre'.gw, dhcp |-> pre'.dhcp,
                   disk |-> pre'.disk, leases |-> pre'.leases]
        /\ Proper(pre'.addrs) /\ pre'.gw \in Gateways
        /\ leases' \in Nat /\ pre'.leases \in Nat /\ pre'.leases <= leases'
    <2>1. /\ pre'.addrs = addrs /\ pre'.gw = gw /\ pre'.leases = leases /\ leases' = leases
          /\ pre' = [addrs |-> pre'.addrs, gw |-> pre'.gw, dhcp |-> pre'.dhcp,
                     disk |-> pre'.disk, leases |-> pre'.leases]
      BY <1>1
    <2>2. pre'.leases <= leases'
      BY <2>1, <1>2
    <2> QED
      BY <2>1, <2>2, <1>2
  <1>4. Proper(addrs') /\ gw' \in Gateways /\ dhcp' \in [Fam -> BOOLEAN]
        /\ disk' = [addrs |-> disk'.addrs, gw |-> disk'.gw, dhcp |-> disk'.dhcp]
    BY <1>1, <1>2 DEF adapter
  <1>5. /\ l' = [orig |-> l'.orig, list |-> l'.list, gws |-> l'.gws, origGw |-> l'.origGw,
                 added |-> l'.added, rest |-> l'.rest, failed |-> l'.failed]
        /\ Proper(l'.orig) /\ Proper(l'.list) /\ l'.gws \in Gateways
        /\ l'.rest \in Seq(Addr) /\ Once(l'.rest)
    <2>1. CASE l' = L0
      BY <2>1, LocalsAtRest
    <2>2. ASSUME NEW lists, Proper(lists), l' = Begun(lists)
          PROVE  /\ l' = [orig |-> l'.orig, list |-> l'.list, gws |-> l'.gws,
                           origGw |-> l'.origGw, added |-> l'.added, rest |-> l'.rest,
                           failed |-> l'.failed]
                 /\ Proper(l'.orig) /\ Proper(l'.list) /\ l'.gws \in Gateways
                 /\ l'.rest \in Seq(Addr) /\ Once(l'.rest)
      <3>1. Proper(ListedAll(addrs))
        BY <1>2, ListedAllFacts
      <3>2. /\ l' = [orig |-> l'.orig, list |-> l'.list, gws |-> l'.gws,
                     origGw |-> l'.origGw, added |-> l'.added, rest |-> l'.rest,
                     failed |-> l'.failed]
            /\ l'.orig = ListedAll(addrs) /\ l'.list = lists /\ l'.gws = gw
            /\ l'.rest = <<>>
        BY <2>2 DEF Begun
      <3> QED
        BY <3>1, <3>2, <2>2, <1>2 DEF Once
    <2> QED
      BY <2>1, <2>2
  <1>6. req' \in Requests \cup {[op |-> "none"]}
    BY <1>1
  <1>7. TypeInv'
    BY <1>3, <1>4, <1>5, <1>6 DEF TypeInv, Proper, Gateways, Requests, Lists, Once
  <1> QED
    BY <1>7

AddressCalls == {"AddAddress", "SetPrimaryAddress", "RemoveAddress"}

\* An address call is refused.
LEMMA RefusedInv ==
    ASSUME TypeInv, NEW op \in AddressCalls, Begin(op), Refuse
    PROVE  WindowsInv'
  <1>1. TypeInv'
    BY BeginTypes DEF Refuse
  <1>2. OnAddresses' /\ disk' = pre'.disk /\ pc' = "idle" /\ ret' = "refused"
    BY BeginFacts DEF OnAddresses, AddressCalls, Refuse
  <1>3. AddressInv'
    BY <1>2 DEF AddressInv, CarriedInv, ListInv, GatewayInv, AllOrNothing, AddressLabels
  <1>4. DHCPInv'
    <2>1. pc' \notin DHCPLabels
      BY <1>2 DEF DHCPLabels
    <2>2. (OnAddresses /\ pc \notin DHCPLabels => DHCPInv)'
      BY NoDHCP, PTL
    <2> QED
      BY <1>2, <2>1, <2>2
  <1> QED
    BY <1>1, <1>3, <1>4 DEF WindowsInv

\* An address call begins.
LEMMA ProceedsInv ==
    ASSUME TypeInv, NEW op \in AddressCalls, Begin(op),
           NEW label \in {"set", "persist"},
           Proceed(label, [ListedAll(addrs) EXCEPT ![F'] = Aimed']),
           IsFirst' => label = "persist", label = "persist" => IsFirst',
           op = "SetPrimaryAddress" => Has(Read', req'.addr.ip)
    PROVE  WindowsInv'
  <1> DEFINE lists == [ListedAll(addrs) EXCEPT ![F'] = Aimed']
  <1>1. /\ req' \in Requests /\ req'.op = op /\ OnAddresses'
        /\ pre'.addrs = addrs /\ pre'.gw = gw /\ pre'.disk = disk
        /\ addrs' = addrs /\ gw' = gw /\ disk' = disk
    BY BeginFacts DEF OnAddresses, AddressCalls, adapter
  <1>2. pc' = label
    BY DEF Proceed
  <1>3. req'.addr \in Addr /\ F' \in Fam
    BY <1>1 DEF Requests, OnAddresses, F, FamOf, Fam
  <1>4. Proper(addrs) /\ gw \in Gateways
    BY DEF TypeInv
  <1>5. Read' = Listed(addrs[F']) /\ Read' \in Seq(Addr) /\ Once(Read')
    <2>1. Read' = Listed(addrs[F'])
      BY <1>1 DEF Read
    <2> QED
      BY <2>1, <1>3, <1>4, ListedAllFacts
  <1>6. Aimed' \in Seq(Addr) /\ Once(Aimed')
    <2>1. Aimed' = IF req'.op = "AddAddress" THEN With(Read', req'.addr)
                   ELSE IF req'.op = "RemoveAddress" THEN Without(Read', req'.addr.ip)
                   ELSE Reordered(Read', req'.addr)
      BY DEF Aimed
    <2> QED
      BY <2>1, <1>3, <1>5, WithFacts, WithoutFacts, ReorderedFacts
  <1>7. Proper(lists) /\ Proper(ListedAll(addrs))
    BY <1>3, <1>4, <1>6, ListedAllFacts DEF Proper, Lists
  <1>8. l' = Begun(lists)
    BY DEF Proceed, Begun, L0
  <1>9. TypeInv'
    <2> HIDE DEF lists
    <2> QED
      BY <1>2, <1>7, <1>8, BeginTypes DEF AddressLabels
  <1>10. /\ l'.orig = ListedAll(pre'.addrs) /\ l'.list = [l'.orig EXCEPT ![F'] = Aimed']
         /\ l'.gws = gw' /\ ~l'.added
    BY <1>1, <1>8 DEF Begun
  <1>11. CarriedInv'
    BY <1>1, <1>10 DEF CarriedInv
  <1>12. ListInv'
    BY <1>1, <1>2 DEF ListInv
  <1>13. GatewayInv'
    <2>1. CASE label = "set"
      BY <2>1, <1>1, <1>2, <1>10 DEF GatewayInv
    <2>2. CASE label = "persist"
      <3>1. AimedGw' = gw[F']
        BY <2>2, <1>1 DEF AimedGw, IsFirst
      <3> QED
        BY <2>2, <3>1, <1>1, <1>2 DEF GatewayInv
    <2> QED
      BY <2>1, <2>2
  <1>14. AllOrNothing'
    BY <1>2 DEF AllOrNothing
  <1>15. DHCPInv'
    <2>1. pc' \notin DHCPLabels
      BY <1>2 DEF DHCPLabels
    <2>2. (OnAddresses /\ pc \notin DHCPLabels => DHCPInv)'
      BY NoDHCP, PTL
    <2> QED
      BY <1>1, <2>1, <2>2
  <1> QED
    BY <1>9, <1>11, <1>12, <1>13, <1>14, <1>15 DEF WindowsInv, AddressInv

\* AddAddress, SetPrimaryAddress and RemoveAddress begin, or are refused.
LEMMA AddAddressInv ==
    ASSUME WindowsInv, AddAddress
    PROVE  WindowsInv'
  <1>1. TypeInv /\ Begin("AddAddress") /\ "AddAddress" \in AddressCalls
    BY DEF WindowsInv, AddAddress, AddressCalls
  <1>2. CASE Refuse
    BY <1>1, <1>2, RefusedInv
  <1>3. CASE ~Refuse
    <2>1. Proceed("set", [ListedAll(addrs) EXCEPT ![F'] = With(Listed(addrs[F']), req'.addr)])
      BY <1>3 DEF AddAddress, F
    <2>2. req'.op = "AddAddress" /\ pre'.addrs = addrs
      BY <1>1, BeginFacts
    <2>3. Aimed' = With(Listed(addrs[F']), req'.addr) /\ ~IsFirst'
      BY <2>2 DEF Aimed, Read, IsFirst
    <2> QED
      BY <1>1, <2>1, <2>3, ProceedsInv
  <1> QED
    BY <1>2, <1>3

\* SetPrimaryAddress goes on only with an address the adapter has.
LEMMA SetPrimaryAddressInv ==
    ASSUME WindowsInv, SetPrimaryAddress
    PROVE  WindowsInv'
  <1>1. TypeInv /\ Begin("SetPrimaryAddress") /\ "SetPrimaryAddress" \in AddressCalls
    BY DEF WindowsInv, SetPrimaryAddress, AddressCalls
  <1>2. CASE Refuse
    BY <1>1, <1>2, RefusedInv
  <1>3. CASE ~Refuse
    <2> DEFINE s == Listed(addrs[F'])
               label == IF s[1].ip = req'.addr.ip THEN "persist" ELSE "set"
    <2>1. /\ Proceed(label, [ListedAll(addrs) EXCEPT ![F'] = Reordered(s, req'.addr)])
          /\ Has(s, req'.addr.ip)
      BY <1>3 DEF SetPrimaryAddress, F
    <2>2. req'.op = "SetPrimaryAddress" /\ pre'.addrs = addrs
      BY <1>1, BeginFacts
    <2>3. Aimed' = Reordered(s, req'.addr) /\ Read' = s
      BY <2>2 DEF Aimed, Read
    <2>4. IsFirst' <=> label = "persist"
      BY <2>2, <2>3 DEF IsFirst
    <2>5. label \in {"set", "persist"}
      OBVIOUS
    <2> HIDE DEF s, label
    <2> QED
      BY <1>1, <2>1, <2>3, <2>4, <2>5, ProceedsInv
  <1> QED
    BY <1>2, <1>3

\* RemoveAddress goes on with the list without the address.
LEMMA RemoveAddressInv ==
    ASSUME WindowsInv, RemoveAddress
    PROVE  WindowsInv'
  <1>1. TypeInv /\ Begin("RemoveAddress") /\ "RemoveAddress" \in AddressCalls
    BY DEF WindowsInv, RemoveAddress, AddressCalls
  <1>2. CASE Refuse
    BY <1>1, <1>2, RefusedInv
  <1>3. CASE ~Refuse
    <2>1. Proceed("set", [ListedAll(addrs) EXCEPT
                             ![F'] = Without(Listed(addrs[F']), req'.addr.ip)])
      BY <1>3 DEF RemoveAddress, F
    <2>2. req'.op = "RemoveAddress" /\ pre'.addrs = addrs
      BY <1>1, BeginFacts
    <2>3. Aimed' = Without(Listed(addrs[F']), req'.addr.ip) /\ ~IsFirst'
      BY <2>2 DEF Aimed, Read, IsFirst
    <2> QED
      BY <1>1, <2>1, <2>3, ProceedsInv
  <1> QED
    BY <1>2, <1>3

-----------------------------------------------------------------------------
(* The steps of an address call *)

Locals(v) ==
    /\ v = [orig |-> v.orig, list |-> v.list, gws |-> v.gws, origGw |-> v.origGw,
            added |-> v.added, rest |-> v.rest, failed |-> v.failed]
    /\ Proper(v.orig) /\ Proper(v.list) /\ v.gws \in Gateways
    /\ v.rest \in Seq(Addr) /\ Once(v.rest)

\* A step inside a call keeps the types, if the adapter and the locals have them.
LEMMA StepTypes ==
    ASSUME TypeInv, Proper(addrs'), gw' \in Gateways, dhcp' \in [Fam -> BOOLEAN],
           UNCHANGED <<req, pre>>,
           disk' = [addrs |-> disk'.addrs, gw |-> disk'.gw, dhcp |-> disk'.dhcp],
           leases' \in Nat, leases' >= leases,
           pc' \in AddressLabels \cup DHCPLabels \cup {"idle"}, Locals(l')
    PROVE  TypeInv'
  <1>1. /\ pre' = [addrs |-> pre'.addrs, gw |-> pre'.gw, dhcp |-> pre'.dhcp,
                   disk |-> pre'.disk, leases |-> pre'.leases]
        /\ Proper(pre'.addrs) /\ pre'.gw \in Gateways
        /\ req' \in Requests \cup {[op |-> "none"]}
    BY DEF TypeInv, Proper
  <1>2. leases' \in Nat /\ pre'.leases \in Nat /\ pre'.leases <= leases'
    BY DEF TypeInv
  <1> QED
    BY <1>1, <1>2 DEF TypeInv, Locals, Proper, Gateways, Requests, Lists, Once

\* In an address call, what holds in progress.
LEMMA InAddressCall ==
    ASSUME WindowsInv, pc \in AddressLabels
    PROVE  /\ TypeInv /\ CarriedInv /\ ListInv /\ GatewayInv /\ OnAddresses
           /\ Proper(addrs) /\ gw \in Gateways /\ dhcp \in [Fam -> BOOLEAN] /\ leases \in Nat
           /\ disk = [addrs |-> disk.addrs, gw |-> disk.gw, dhcp |-> disk.dhcp]
           /\ Locals(l) /\ F \in Fam
           /\ l.orig = ListedAll(pre.addrs) /\ l.list = [l.orig EXCEPT ![F] = Aimed]
           /\ l.gws = gw /\ disk = pre.disk
           /\ \A f \in Fam \ {F} : gw[f] = pre.gw[f]
  <1>1. TypeInv /\ CarriedInv /\ ListInv /\ GatewayInv /\ OnAddresses
    BY DEF WindowsInv, AddressInv, CarriedInv
  <1>2. F \in Fam
    BY <1>1, RequestFacts
  <1> QED
    BY <1>1, <1>2 DEF CarriedInv, TypeInv, Locals

\* A step that goes on with an address call: the conditions under which it keeps the
\* invariant.
LEMMA GoesOn ==
    ASSUME WindowsInv, pc \in AddressLabels, Frame, pc' \in AddressLabels,
           Proper(addrs'), gw' \in Gateways, dhcp' = dhcp, Locals(l'),
           l'.orig = l.orig, l'.list = l.list, l'.gws = gw',
           \A f \in Fam \ {F} : gw'[f] = gw[f],
           ListInv', GatewayInv'
    PROVE  WindowsInv'
  <1>1. UNCHANGED <<req, pre, disk, leases>>
    BY DEF Frame
  <1>2. TypeInv'
    BY <1>1, StepTypes, InAddressCall
  <1>3. CarriedInv'
    <2>1. OnAddresses' /\ F' = F /\ Read' = Read /\ Aimed' = Aimed
      BY <1>1, FrameFacts, InAddressCall
    <2>2. l'.orig = ListedAll(pre'.addrs) /\ l'.list = [l'.orig EXCEPT ![F'] = Aimed']
      BY <1>1, <2>1, InAddressCall
    <2>3. req'.op = "SetPrimaryAddress" => Has(Read', req'.addr.ip)
      BY <1>1, <2>1, InAddressCall DEF CarriedInv
    <2>4. disk' = pre'.disk /\ \A f \in Fam \ {F'} : gw'[f] = pre'.gw[f]
      BY <1>1, <2>1, InAddressCall
    <2> QED
      BY <2>1, <2>2, <2>3, <2>4 DEF CarriedInv
  <1>4. AllOrNothing'
    BY DEF AllOrNothing, AddressLabels
  <1>5. DHCPInv'
    <2>1. OnAddresses' /\ pc' \notin DHCPLabels
      BY <1>1, FrameFacts, InAddressCall DEF AddressLabels, DHCPLabels
    <2>2. (OnAddresses /\ pc \notin DHCPLabels => DHCPInv)'
      BY NoDHCP, PTL
    <2> QED
      BY <2>1, <2>2
  <1> QED
    BY <1>2, <1>3, <1>4, <1>5 DEF WindowsInv, AddressInv

\* A step that ends an address call: the conditions.
LEMMA Ends ==
    ASSUME WindowsInv, pc \in AddressLabels, UNCHANGED <<req, pre, leases>>,
           pc' = "idle", l' = L0,
           Proper(addrs'), gw' \in Gateways, dhcp' = dhcp,
           disk' = [addrs |-> disk'.addrs, gw |-> disk'.gw, dhcp |-> disk'.dhcp],
           AllOrNothing'
    PROVE  WindowsInv'
  <1>1. TypeInv'
    BY StepTypes, InAddressCall, LocalsAtRest DEF Locals
  <1>2. CarriedInv' /\ ListInv' /\ GatewayInv'
    BY DEF CarriedInv, ListInv, GatewayInv, AddressLabels
  <1>3. DHCPInv'
    <2>1. OnAddresses' /\ pc' \notin DHCPLabels
      BY FrameFacts, InAddressCall DEF DHCPLabels
    <2>2. (OnAddresses /\ pc \notin DHCPLabels => DHCPInv)'
      BY NoDHCP, PTL
    <2> QED
      BY <2>1, <2>2
  <1> QED
    BY <1>1, <1>2, <1>3 DEF WindowsInv, AddressInv

\* An address call fails or dies: cloud-init knows nothing of it.
LEMMA EndsInError ==
    ASSUME WindowsInv, pc \in AddressLabels, Frame,
           pc' = "idle", l' = L0, ret' \in {"error", "crashed"},
           Proper(addrs'), gw' \in Gateways, dhcp' = dhcp
    PROVE  WindowsInv'
  <1>1. UNCHANGED <<req, pre, disk, leases>>
    BY DEF Frame
  <1>2. disk' = pre'.disk /\ disk' = [addrs |-> disk'.addrs, gw |-> disk'.gw, dhcp |-> disk'.dhcp]
    BY <1>1, InAddressCall
  <1>3. AllOrNothing'
    BY <1>2 DEF AllOrNothing
  <1> QED
    BY <1>1, <1>2, <1>3, Ends

\* Setting the addresses.
LEMMA SetAddressesInv ==
    ASSUME WindowsInv, SetAddresses
    PROVE  WindowsInv'
  <1>1. pc = "set" /\ pc \in AddressLabels
    BY DEF SetAddresses, AddressLabels
  <1>2. /\ TypeInv /\ OnAddresses /\ Proper(addrs) /\ gw \in Gateways
        /\ dhcp \in [Fam -> BOOLEAN] /\ Locals(l) /\ Proper(l.list) /\ l.gws = gw
        /\ ~IsFirst /\ gw[F] = pre.gw[F] /\ ~l.added
    BY <1>1, InAddressCall DEF ListInv, GatewayInv, Locals
  <1>3. CASE SetIPAddressesFails(l.list) /\ Return("error")
    <2>1. Proper(addrs') /\ gw' = gw /\ dhcp' = dhcp
      BY <1>2, <1>3, SetFailsFacts DEF SetIPAddressesFails
    <2> QED
      BY <1>1, <1>2, <1>3, <2>1, EndsInError DEF Return
  <1>4. CASE ~(SetIPAddressesFails(l.list) /\ Return("error"))
    <2>1. /\ addrs' = l.list /\ gw' = gw /\ dhcp' = dhcp /\ l' = l /\ Frame
          /\ pc' = CASE req.op = "AddAddress" -> "routes"
                     [] req.op = "SetPrimaryAddress" /\ gw[F] = Nil -> "persist"
                     [] OTHER -> IF check THEN "test" ELSE "persist"
      BY <1>4 DEF SetAddresses, SetIPAddresses, Goto, Run
    <2>2. \/ req.op = "AddAddress" /\ pc' = "routes"
          \/ req.op # "AddAddress" /\ pc' \in {"test", "persist"}
      BY <2>1
    <2>3. /\ UNCHANGED <<req, pre>> /\ F' = F /\ AimedGw' = AimedGw /\ ~IsFirst'
      BY <1>2, <2>1, FrameFacts DEF Frame
    <2>4. ListInv'
      BY <2>1, <2>2, <2>3 DEF ListInv
    <2>5. req.op # "AddAddress" => AimedGw = pre.gw[F]
      BY DEF AimedGw
    <2>6. GatewayInv'
      BY <1>2, <2>1, <2>2, <2>3, <2>5 DEF GatewayInv
    <2>7. pc' \in AddressLabels
      BY <2>2 DEF AddressLabels
    <2> QED
      BY <1>1, <1>2, <2>1, <2>4, <2>6, <2>7, GoesOn
  <1> QED
    BY <1>3, <1>4

\* Setting a family's default route leaves the other's.
LEMMA RouteFacts ==
    ASSUME gw \in Gateways, NEW f \in Fam, NEW g \in Gw \cup {Nil}, SetRoute(f, g)
    PROVE  /\ gw' \in Gateways /\ gw'[f] = g /\ \A h \in Fam \ {f} : gw'[h] = gw[h]
           /\ gw' = [gw EXCEPT ![f] = g] /\ addrs' = addrs /\ dhcp' = dhcp
  BY DEF SetRoute, Gateways

\* Going over the default routes there are.
LEMMA ScanRoutesInv ==
    ASSUME WindowsInv, ScanRoutes
    PROVE  WindowsInv'
  <1>1. pc = "routes" /\ pc \in AddressLabels
    BY DEF ScanRoutes, AddressLabels
  <1>2. /\ TypeInv /\ OnAddresses /\ Proper(addrs) /\ gw \in Gateways /\ F \in Fam
        /\ dhcp \in [Fam -> BOOLEAN] /\ Locals(l) /\ l.gws = gw
        /\ addrs = l.list /\ ~IsFirst /\ gw[F] = pre.gw[F] /\ ~l.added
        /\ req.op = "AddAddress"
    BY <1>1, InAddressCall DEF ListInv, GatewayInv
  <1>3. CASE Fails
    BY <1>1, <1>2, <1>3, EndsInError DEF Fails, Return, adapter
  <1>4. CASE ~Fails
    <2> DEFINE g == IF gw[F] = Nil THEN Nil ELSE Wanted
    <2>1. /\ SetRoute(F, g) /\ l' = [l EXCEPT !.origGw = gw[F], !.gws[F] = g]
          /\ pc' = (IF Wanted = Nil THEN "persist" ELSE "gateway") /\ Frame
      BY <1>4 DEF ScanRoutes, Goto, Run
    <2>2. Wanted = AimedGw /\ AimedGw \in Gw \cup {Nil}
      BY <1>2, RequestFacts DEF Wanted, AimedGw
    <2>3. g \in Gw \cup {Nil} /\ (Wanted = Nil => g = Nil)
      BY <2>2
    <2> HIDE DEF g
    <2>4. /\ gw' \in Gateways /\ gw'[F] = g /\ \A f \in Fam \ {F} : gw'[f] = gw[f]
          /\ gw' = [gw EXCEPT ![F] = g] /\ addrs' = addrs /\ dhcp' = dhcp
      BY <1>2, <2>1, <2>3, RouteFacts
    <2>5. /\ l'.orig = l.orig /\ l'.list = l.list /\ l'.gws = [l.gws EXCEPT ![F] = g]
          /\ l'.origGw = gw[F] /\ l'.added = l.added /\ l'.rest = l.rest
          /\ l' = [orig |-> l'.orig, list |-> l'.list, gws |-> l'.gws, origGw |-> l'.origGw,
                   added |-> l'.added, rest |-> l'.rest, failed |-> l'.failed]
      BY <1>2, <2>1 DEF Locals
    <2>6. l'.gws = gw' /\ Locals(l')
      BY <1>2, <2>4, <2>5 DEF Locals
    <2>7. /\ req' = req /\ pre' = pre /\ F' = F /\ AimedGw' = AimedGw /\ ~IsFirst'
      BY <1>2, <2>1, FrameFacts DEF Frame
    <2>8. pc' \in {"persist", "gateway"} /\ pc' \in AddressLabels
      BY <2>1 DEF AddressLabels
    <2>9. ListInv'
      BY <1>2, <2>4, <2>5, <2>7, <2>8 DEF ListInv
    <2>10. GatewayInv'
      <3>1. pc' = "persist" => gw'[F'] = AimedGw'
        BY <2>1, <2>2, <2>3, <2>4, <2>7
      <3>2. pc' = "gateway" => /\ gw'[F'] = IF pre'.gw[F'] = Nil THEN Nil ELSE AimedGw'
                               /\ AimedGw' # Nil /\ ~l'.added /\ l'.origGw = pre'.gw[F']
        BY <1>2, <2>1, <2>2, <2>4, <2>5, <2>7 DEF g
      <3> QED
        BY <3>1, <3>2, <1>2, <2>7, <2>8 DEF GatewayInv
    <2> QED
      BY <1>1, <1>2, <2>1, <2>4, <2>5, <2>6, <2>8, <2>9, <2>10, GoesOn
  <1> QED
    BY <1>3, <1>4

\* Adding a gateway where there is none.
LEMMA AddGatewayInv ==
    ASSUME WindowsInv, AddGateway
    PROVE  WindowsInv'
  <1>1. pc = "gateway" /\ pc \in AddressLabels
    BY DEF AddGateway, AddressLabels
  <1>2. /\ TypeInv /\ OnAddresses /\ Proper(addrs) /\ gw \in Gateways /\ F \in Fam
        /\ dhcp \in [Fam -> BOOLEAN] /\ Locals(l) /\ l.gws = gw
        /\ addrs = l.list /\ ~IsFirst /\ ~l.added /\ req.op = "AddAddress"
        /\ gw[F] = (IF pre.gw[F] = Nil THEN Nil ELSE AimedGw) /\ AimedGw # Nil
        /\ l.origGw = pre.gw[F]
    BY <1>1, InAddressCall DEF ListInv, GatewayInv
  <1>3. Frame /\ pc' \in {"test", "persist"} /\ pc' \in AddressLabels
    BY DEF AddGateway, Goto, Run, AddressLabels
  <1>4. /\ req' = req /\ pre' = pre /\ F' = F /\ AimedGw' = AimedGw /\ ~IsFirst'
    BY <1>2, <1>3, FrameFacts DEF Frame
  <1>5. ASSUME addrs' = addrs, gw'[F] = AimedGw, l'.list = l.list, l'.origGw = l.origGw,
               l'.added => pre.gw[F] = Nil
        PROVE  ListInv' /\ GatewayInv'
    BY <1>2, <1>3, <1>4, <1>5 DEF ListInv, GatewayInv
  <1>6. CASE l.gws[F] # Nil /\ UNCHANGED <<adapter, l>>
    <2>1. addrs' = addrs /\ gw' = gw /\ dhcp' = dhcp /\ l' = l /\ gw[F] = AimedGw
      BY <1>2, <1>6 DEF adapter
    <2>2. ListInv' /\ GatewayInv'
      BY <1>2, <1>5, <2>1
    <2> QED
      BY <1>1, <1>2, <1>3, <2>1, <2>2, GoesOn
  <1>7. CASE /\ l.gws[F] = Nil /\ SetRoute(F, req.gw)
             /\ l' = [l EXCEPT !.added = TRUE, !.gws[F] = req.gw]
    <2>1. pre.gw[F] = Nil /\ req.gw = AimedGw /\ req.gw \in Gw \cup {Nil}
      BY <1>2, <1>7, RequestFacts DEF AimedGw
    <2>2. /\ gw' \in Gateways /\ gw'[F] = req.gw /\ \A f \in Fam \ {F} : gw'[f] = gw[f]
          /\ gw' = [gw EXCEPT ![F] = req.gw] /\ addrs' = addrs /\ dhcp' = dhcp
      BY <1>2, <1>7, <2>1, RouteFacts
    <2>3. /\ l'.orig = l.orig /\ l'.list = l.list /\ l'.gws = [l.gws EXCEPT ![F] = req.gw]
          /\ l'.origGw = l.origGw /\ l'.rest = l.rest
          /\ l' = [orig |-> l'.orig, list |-> l'.list, gws |-> l'.gws, origGw |-> l'.origGw,
                   added |-> l'.added, rest |-> l'.rest, failed |-> l'.failed]
      BY <1>2, <1>7 DEF Locals
    <2>4. l'.gws = gw' /\ Locals(l')
      BY <1>2, <2>2, <2>3 DEF Locals
    <2>5. ListInv' /\ GatewayInv'
      BY <1>5, <2>1, <2>2, <2>3
    <2> QED
      BY <1>1, <1>2, <1>3, <2>2, <2>3, <2>4, <2>5, GoesOn
  <1> QED
    BY <1>6, <1>7 DEF AddGateway

\* The gateway cannot be added.
LEMMA AddGatewayFailsInv ==
    ASSUME WindowsInv, AddGatewayFails
    PROVE  WindowsInv'
  <1>1. pc \in AddressLabels /\ Fails
    BY DEF AddGatewayFails, AddressLabels
  <1> QED
    BY <1>1, InAddressCall, EndsInError DEF Fails, Return, adapter

\* The test, which changes nothing.
LEMMA TestInv ==
    ASSUME WindowsInv, Test
    PROVE  WindowsInv'
  <1>1. /\ pc = "test" /\ pc \in AddressLabels /\ pc' \in {"persist", "restore"}
        /\ pc' \in AddressLabels /\ Frame
        /\ addrs' = addrs /\ gw' = gw /\ dhcp' = dhcp /\ l' = l
    BY DEF Test, Goto, Run, AddressLabels, adapter
  <1>2. /\ TypeInv /\ OnAddresses /\ Proper(addrs) /\ gw \in Gateways /\ F \in Fam
        /\ Locals(l) /\ l.gws = gw /\ addrs = l.list /\ ~IsFirst
    BY <1>1, InAddressCall DEF ListInv
  <1>3. GatewayInv
    BY <1>1, InAddressCall
  <1>4. /\ req' = req /\ pre' = pre /\ F' = F /\ AimedGw' = AimedGw /\ ~IsFirst'
    BY <1>1, <1>2, FrameFacts DEF Frame
  <1>5. ListInv'
    BY <1>1, <1>2, <1>4 DEF ListInv
  <1>6. GatewayInv'
    BY <1>1, <1>3, <1>4 DEF GatewayInv
  <1> QED
    BY <1>1, <1>2, <1>5, <1>6, GoesOn

\* The gateways of both families are the ones the call found.
LEMMA SameGateways ==
    ASSUME NEW g \in Gateways, TypeInv, F \in Fam, g[F] = pre.gw[F],
           \A f \in Fam \ {F} : g[f] = pre.gw[f]
    PROVE  g = pre.gw
  <1>1. pre.gw \in Gateways
    BY DEF TypeInv
  <1>2. \A f \in Fam : g[f] = pre.gw[f]
    OBVIOUS
  <1> QED
    BY <1>1, <1>2 DEF Gateways

\* A rollback that came to its end.
LEMMA EndsAborted ==
    ASSUME WindowsInv, pc \in AddressLabels, Frame, pc' = "idle", l' = L0, ret' = "aborted",
           addrs' = ListedAll(pre.addrs), gw' \in Gateways, gw'[F] = pre.gw[F],
           \A f \in Fam \ {F} : gw'[f] = gw[f], dhcp' = dhcp
    PROVE  WindowsInv'
  <1>1. UNCHANGED <<req, pre, disk, leases>>
    BY DEF Frame
  <1>2. /\ TypeInv /\ F \in Fam /\ disk = pre.disk
        /\ disk = [addrs |-> disk.addrs, gw |-> disk.gw, dhcp |-> disk.dhcp]
        /\ \A f \in Fam \ {F} : gw[f] = pre.gw[f]
    BY InAddressCall
  <1>3. Proper(addrs')
    <2>1. Proper(pre.addrs)
      BY <1>2 DEF TypeInv
    <2>2. Proper(ListedAll(pre.addrs))
      BY <2>1, ListedAllFacts
    <2> QED
      BY <2>2 DEF Proper
  <1>4. gw' = pre.gw
    BY <1>2, SameGateways
  <1>5. AllOrNothing'
    BY <1>1, <1>2, <1>4 DEF AllOrNothing
  <1>6. disk' = [addrs |-> disk'.addrs, gw |-> disk'.gw, dhcp |-> disk'.dhcp]
    BY <1>1, <1>2
  <1> QED
    BY <1>1, <1>3, <1>5, <1>6, Ends

\* Going back to the addresses that were read.
LEMMA RestoreAddressesInv ==
    ASSUME WindowsInv, RestoreAddresses
    PROVE  WindowsInv'
  <1>1. pc = "restore" /\ pc \in AddressLabels
    BY DEF RestoreAddresses, AddressLabels
  <1>2. /\ TypeInv /\ OnAddresses /\ Proper(addrs) /\ gw \in Gateways /\ F \in Fam
        /\ dhcp \in [Fam -> BOOLEAN] /\ Locals(l) /\ Proper(l.orig)
        /\ l.orig = ListedAll(pre.addrs) /\ l.gws = gw /\ gw[F] = AimedGw
        /\ l.added => pre.gw[F] = Nil
        /\ req.op = "AddAddress" => l.origGw = pre.gw[F]
    BY <1>1, InAddressCall DEF GatewayInv, Locals
  <1>3. CASE SetIPAddressesFails(l.orig) /\ Return("error")
    <2>1. Proper(addrs') /\ gw' = gw /\ dhcp' = dhcp
      BY <1>2, <1>3, SetFailsFacts DEF SetIPAddressesFails
    <2> QED
      BY <1>1, <1>2, <1>3, <2>1, EndsInError DEF Return
  <1>4. CASE /\ SetIPAddresses(l.orig) /\ req.op = "AddAddress"
             /\ Goto("restoreRoute") /\ UNCHANGED l /\ Run
    <2>1. /\ addrs' = l.orig /\ gw' = gw /\ dhcp' = dhcp /\ l' = l /\ Frame
          /\ pc' = "restoreRoute"
      BY <1>4 DEF SetIPAddresses, Goto, Run
    <2>2. /\ req' = req /\ pre' = pre /\ F' = F /\ AimedGw' = AimedGw
      BY <2>1, FrameFacts DEF Frame
    <2>3. ListInv'
      BY <2>1 DEF ListInv
    <2>4. GatewayInv'
      BY <1>2, <1>4, <2>1, <2>2 DEF GatewayInv
    <2>5. pc' \in AddressLabels /\ Proper(addrs')
      BY <1>2, <2>1 DEF AddressLabels, Proper
    <2> QED
      BY <1>1, <1>2, <2>1, <2>3, <2>4, <2>5, GoesOn
  <1>5. CASE SetIPAddresses(l.orig) /\ req.op # "AddAddress" /\ Return("aborted")
    <2>1. gw[F] = pre.gw[F]
      BY <1>2, <1>5 DEF AimedGw
    <2> QED
      BY <1>1, <1>2, <1>5, <2>1, EndsAborted DEF SetIPAddresses, Return
  <1> QED
    BY <1>3, <1>4, <1>5 DEF RestoreAddresses, Restored

\* Going back to the gateway there was.
LEMMA RestoreRouteInv ==
    ASSUME WindowsInv, RestoreRoute
    PROVE  WindowsInv'
  <1>1. pc = "restoreRoute" /\ pc \in AddressLabels
    BY DEF RestoreRoute, AddressLabels
  <1>2. /\ TypeInv /\ OnAddresses /\ Proper(addrs) /\ gw \in Gateways /\ F \in Fam
        /\ addrs = ListedAll(pre.addrs) /\ l.origGw = pre.gw[F]
        /\ pre.gw[F] \in Gw \cup {Nil}
    <2>1. /\ TypeInv /\ OnAddresses /\ Proper(addrs) /\ gw \in Gateways /\ F \in Fam
          /\ addrs = ListedAll(pre.addrs) /\ l.origGw = pre.gw[F]
      BY <1>1, InAddressCall DEF ListInv, GatewayInv
    <2>2. pre.gw[F] \in Gw \cup {Nil}
      BY <2>1 DEF TypeInv, Gateways
    <2> QED
      BY <2>1, <2>2
  <1>3. CASE Fails
    BY <1>1, <1>2, <1>3, EndsInError DEF Fails, Return, adapter
  <1>4. CASE SetRoute(F, l.origGw) /\ Return("aborted")
    <2>1. /\ gw' \in Gateways /\ gw'[F] = l.origGw /\ \A h \in Fam \ {F} : gw'[h] = gw[h]
          /\ addrs' = addrs /\ dhcp' = dhcp
      BY <1>2, <1>4, RouteFacts
    <2> QED
      BY <1>1, <1>2, <1>4, <2>1, EndsAborted DEF Return
  <1> QED
    BY <1>3, <1>4 DEF RestoreRoute

\* Cloud-init is given what the call has set.
LEMMA PersistInv ==
    ASSUME WindowsInv, Persist
    PROVE  WindowsInv'
  <1>1. /\ pc = "persist" /\ pc \in AddressLabels /\ pc' = "idle" /\ ret' = "ok" /\ l' = L0
        /\ addrs' = addrs /\ gw' = gw /\ dhcp' = dhcp
        /\ UNCHANGED <<req, pre, leases>>
        /\ disk' = [disk EXCEPT !.addrs = l.list, !.gw = l.gws] \/ disk' = disk
    BY DEF Persist, AddressLabels, adapter
  <1>2. /\ TypeInv /\ OnAddresses /\ Proper(addrs) /\ gw \in Gateways /\ F \in Fam
        /\ dhcp \in [Fam -> BOOLEAN] /\ Locals(l) /\ l.gws = gw /\ disk = pre.disk
        /\ disk = [addrs |-> disk.addrs, gw |-> disk.gw, dhcp |-> disk.dhcp]
        /\ l.orig = ListedAll(pre.addrs) /\ l.list = [l.orig EXCEPT ![F] = Aimed]
        /\ addrs = (IF IsFirst THEN pre.addrs ELSE l.list) /\ gw[F] = AimedGw
        /\ \A f \in Fam \ {F} : gw[f] = pre.gw[f]
    BY <1>1, InAddressCall DEF ListInv, GatewayInv
  <1>3. /\ req' = req /\ pre' = pre /\ F' = F /\ OnAddresses' /\ Asked' = Asked
    BY <1>1, <1>2 DEF F, OnAddresses, Asked
  <1>4. /\ l.list[F] = Aimed /\ \A f \in Fam \ {F} : l.list[f] = Listed(pre.addrs[f])
        /\ Read = Listed(pre.addrs[F])
    BY <1>2 DEF ListedAll, Read
  <1>5. addrs[F] = Asked
    BY <1>2, <1>4, AskedIsAimed
  <1>6. \A f \in Fam \ {F} : addrs[f] \in {pre.addrs[f], Listed(pre.addrs[f])}
    BY <1>2, <1>4
  <1>7. ASSUME NEW f \in Fam
        PROVE  IPOrder(l.list[f]) \in {IPOrder(addrs[f]), IPOrder(Listed(addrs[f]))}
    <2>1. CASE ~IsFirst
      BY <1>2, <2>1
    <2>2. CASE IsFirst /\ f # F
      BY <1>2, <1>4, <2>2
    <2>3. CASE IsFirst /\ f = F
      <3>1. Aimed = Reordered(Read, req.addr) /\ Has(Read, req.addr.ip)
        BY <1>1, <2>3, InAddressCall DEF Aimed, IsFirst, CarriedInv
      <3>2. Read # <<>> /\ Read[1].ip = req.addr.ip
        <4>1. Read # <<>>
          BY <3>1 DEF Has
        <4> QED
          BY <4>1, <2>3 DEF IsFirst
      <3>3. Read \in Seq(Addr) /\ req.addr \in Addr /\ Once(Read)
        BY <1>2, RequestFacts
      <3>4. IPOrder(Aimed) = IPOrder(Read)
        BY <3>1, <3>2, <3>3, ReorderedFacts
      <3> QED
        BY <1>2, <1>4, <2>3, <3>4
    <2> QED
      BY <2>1, <2>2, <2>3
  <1>8. disk' # disk => disk'.addrs = l.list /\ disk'.gw = gw /\ disk'.dhcp = disk.dhcp
    BY <1>1, <1>2
  <1>9. disk' = [addrs |-> disk'.addrs, gw |-> disk'.gw, dhcp |-> disk'.dhcp]
    BY <1>1, <1>2
  <1>10. AllOrNothing'
    <2>1. addrs'[F'] = Asked'
      BY <1>1, <1>3, <1>5
    <2>2. gw'[F'] = IF req'.op # "AddAddress" \/ req'.gw = Nil THEN pre'.gw[F']
                    ELSE IF req'.gw = Zero THEN Nil ELSE req'.gw
      BY <1>1, <1>2, <1>3 DEF AimedGw
    <2>3. \A f \in Fam \ {F'} : gw'[f] = pre'.gw[f]
              /\ addrs'[f] \in {pre'.addrs[f], Listed(pre'.addrs[f])}
      BY <1>1, <1>2, <1>3, <1>6
    <2>4. disk' # pre'.disk =>
              /\ disk'.gw = gw' /\ disk'.dhcp = pre'.disk.dhcp
              /\ \A f \in Fam : IPOrder(disk'.addrs[f])
                                 \in {IPOrder(addrs'[f]), IPOrder(Listed(addrs'[f]))}
      BY <1>1, <1>2, <1>3, <1>7, <1>8
    <2> QED
      BY <1>1, <2>1, <2>2, <2>3, <2>4 DEF AllOrNothing
  <1>11. Proper(addrs') /\ gw' \in Gateways
    BY <1>1, <1>2
  <1> QED
    BY <1>1, <1>9, <1>10, <1>11, Ends

-----------------------------------------------------------------------------
(* SetDHCP *)

\* In SetDHCP, what holds in progress.
LEMMA InDHCP ==
    ASSUME WindowsInv, pc \in DHCPLabels
    PROVE  /\ TypeInv /\ RestInv /\ LeaseInv /\ req.op = "SetDHCP"
           /\ req.v4 \in BOOLEAN /\ req.v6 \in BOOLEAN
           /\ Proper(addrs) /\ gw \in Gateways /\ dhcp \in [Fam -> BOOLEAN] /\ leases \in Nat
           /\ addrs \in Lists /\ addrs["v4"] \in Seq(Addr) /\ Once(addrs["v4"])
           /\ pre.addrs \in Lists /\ Listed(pre.addrs["v4"]) \in Seq(Addr)
           /\ disk = [addrs |-> disk.addrs, gw |-> disk.gw, dhcp |-> disk.dhcp]
           /\ Locals(l) /\ l.rest \in Seq(Addr) /\ Once(l.rest)
  <1>1. TypeInv /\ RestInv /\ LeaseInv /\ req.op = "SetDHCP"
    BY DEF WindowsInv, DHCPInv, RestInv
  <1>2. req \in Requests
    BY <1>1 DEF TypeInv
  <1>3. req.v4 \in BOOLEAN /\ req.v6 \in BOOLEAN
    BY <1>1, <1>2 DEF Requests
  <1>4. Proper(addrs) /\ Proper(pre.addrs) /\ Locals(l)
    BY <1>1 DEF TypeInv, Locals
  <1>5. addrs \in Lists /\ addrs["v4"] \in Seq(Addr) /\ Once(addrs["v4"])
    BY <1>4 DEF Proper, Lists, Fam
  <1>6. pre.addrs \in Lists /\ pre.addrs["v4"] \in Seq(Addr)
    BY <1>4 DEF Proper, Lists, Fam
  <1>7. Listed(pre.addrs["v4"]) \in Seq(Addr)
    BY <1>6, ListedFacts
  <1> QED
    BY <1>1, <1>3, <1>4, <1>5, <1>6, <1>7 DEF TypeInv, Locals

\* What LeaseInv says of a step inside SetDHCP is what is promised of any state.
LEMMA LeaseKeptInside ==
    ASSUME LeaseInv, RestInv, pc \in DHCPLabels
    PROVE  LeaseIsKept
  <1> SUFFICES ASSUME req.op = "SetDHCP", leases = pre.leases, Leased
               PROVE  /\ gw["v4"] = pre.gw["v4"]
                      /\ addrs["v4"] = pre.addrs["v4"] \/ FirstKept
    BY DEF LeaseIsKept, Leased, FirstKept, Returned, DHCPLabels
  <1>1. CASE pc \in {"dhcpDisk", "enable4", "find", "static"}
    BY <1>1 DEF LeaseInv, Untouched
  <1>2. CASE pc \in {"secondaries", "set6"}
    BY <1>2 DEF LeaseInv
  <1> QED
    BY <1>1, <1>2 DEF DHCPLabels

\* A step inside SetDHCP: the conditions under which it keeps the invariant.
LEMMA DHCPGoesOn ==
    ASSUME WindowsInv, pc \in DHCPLabels, pc' \in DHCPLabels, UNCHANGED <<req, pre>>,
           Proper(addrs'), gw' \in Gateways, dhcp' \in [Fam -> BOOLEAN],
           disk' = [addrs |-> disk'.addrs, gw |-> disk'.gw, dhcp |-> disk'.dhcp],
           leases' \in Nat, leases' >= leases, Locals(l'),
           RestInv', LeaseInv'
    PROVE  WindowsInv'
  <1>1. TypeInv'
    BY StepTypes, InDHCP
  <1>2. AddressInv'
    <2>1. req'.op = "SetDHCP" /\ pc' \notin AddressLabels
      BY InDHCP DEF AddressLabels, DHCPLabels
    <2>2. (req.op = "SetDHCP" /\ pc \notin AddressLabels => AddressInv)'
      BY NoAddresses, PTL
    <2> QED
      BY <2>1, <2>2
  <1>3. LeaseIsKept'
    <2>1. (LeaseInv /\ RestInv /\ pc \in DHCPLabels => LeaseIsKept)'
      BY LeaseKeptInside, PTL
    <2> QED
      BY <2>1
  <1> QED
    BY <1>1, <1>2, <1>3 DEF WindowsInv, DHCPInv

\* SetDHCP ends: the conditions.
LEMMA DHCPEnds ==
    ASSUME WindowsInv, pc \in DHCPLabels, Frame, pc' = "idle", l' = L0,
           Proper(addrs'), gw' \in Gateways, dhcp' \in [Fam -> BOOLEAN], LeaseIsKept'
    PROVE  WindowsInv'
  <1>1. UNCHANGED <<req, pre, disk, leases>>
    BY DEF Frame
  <1>2. TypeInv'
    BY <1>1, StepTypes, InDHCP, LocalsAtRest DEF Locals
  <1>3. AddressInv'
    <2>1. req'.op = "SetDHCP" /\ pc' \notin AddressLabels
      BY <1>1, InDHCP DEF AddressLabels
    <2>2. (req.op = "SetDHCP" /\ pc \notin AddressLabels => AddressInv)'
      BY NoAddresses, PTL
    <2> QED
      BY <2>1, <2>2
  <1>4. RestInv' /\ LeaseInv'
    BY DEF RestInv, LeaseInv, DHCPLabels
  <1> QED
    BY <1>2, <1>3, <1>4 DEF WindowsInv, DHCPInv

\* SetDHCP begins, or is refused.
LEMMA SetDHCPInv ==
    ASSUME WindowsInv, SetDHCP
    PROVE  WindowsInv'
  <1>1. TypeInv /\ Begin("SetDHCP")
    BY DEF WindowsInv, SetDHCP
  <1>2. /\ req'.op = "SetDHCP" /\ pre'.addrs = addrs /\ pre'.gw = gw /\ pre'.dhcp = dhcp
        /\ addrs' = addrs /\ gw' = gw /\ dhcp' = dhcp
    BY <1>1, BeginFacts DEF adapter
  <1>3. Refuse \/ Proceed("dhcpDisk", L0.list)
    BY DEF SetDHCP
  <1>4. \/ pc' = "idle" /\ l' = L0 /\ ret' = "refused"
        \/ pc' = "dhcpDisk" /\ l' = Begun(L0.list)
    BY <1>3 DEF Refuse, Proceed, Begun, L0
  <1>5. TypeInv'
    <2>1. Proper(L0.list)
      BY LocalsAtRest
    <2>2. l' = L0 \/ \E lists : Proper(lists) /\ l' = Begun(lists)
      BY <1>4, <2>1
    <2>3. pc' \in AddressLabels \cup DHCPLabels \cup {"idle"}
      BY <1>4 DEF DHCPLabels
    <2> QED
      BY <1>1, <2>2, <2>3, BeginTypes
  <1>6. AddressInv'
    <2>1. pc' \notin AddressLabels
      BY <1>4 DEF AddressLabels
    <2>2. (req.op = "SetDHCP" /\ pc \notin AddressLabels => AddressInv)'
      BY NoAddresses, PTL
    <2> QED
      BY <1>2, <2>1, <2>2
  <1>7. RestInv'
    BY <1>2, <1>4 DEF RestInv, DHCPLabels
  <1>8. LeaseInv'
    <2>1. pc' = "dhcpDisk" => ~l'.failed
      BY <1>4 DEF Begun
    <2> QED
      BY <1>2, <1>4, <2>1 DEF LeaseInv, Untouched
  <1>9. LeaseIsKept'
    <2>1. ~Returned("ok")'
      BY <1>4 DEF Returned
    <2> QED
      BY <1>2, <2>1 DEF LeaseIsKept
  <1> QED
    BY <1>5, <1>6, <1>7, <1>8, <1>9 DEF WindowsInv, DHCPInv

\* Cloud-init is told first.
LEMMA PersistDHCPInv ==
    ASSUME WindowsInv, PersistDHCP
    PROVE  WindowsInv'
  <1>1. /\ pc = "dhcpDisk" /\ pc \in DHCPLabels
        /\ pc' = IF req.v4 THEN "enable4" ELSE "find"
        /\ addrs' = addrs /\ gw' = gw /\ dhcp' = dhcp /\ l' = l
        /\ UNCHANGED <<req, pre, leases>>
        /\ \/ disk' = [disk EXCEPT !.dhcp = [f \in Fam |-> IF f = "v4" THEN req.v4 ELSE req.v6]]
           \/ disk' = disk
    BY DEF PersistDHCP, DHCPLabels, Goto, adapter
  <1>2. pc' \in {"enable4", "find"} /\ pc' \in DHCPLabels
    BY <1>1 DEF DHCPLabels
  <1>3. disk' = [addrs |-> disk'.addrs, gw |-> disk'.gw, dhcp |-> disk'.dhcp]
    BY <1>1, InDHCP
  <1>4. /\ RestInv /\ LeaseInv /\ req.op = "SetDHCP" /\ req.v4 \in BOOLEAN
        /\ leases \in Nat /\ leases' >= leases
    BY <1>1, InDHCP
  <1>5. RestInv'
    BY <1>1, <1>2, <1>4 DEF RestInv
  <1>6. LeaseInv'
    BY <1>1, <1>2, <1>4 DEF LeaseInv, Untouched
  <1>7. Proper(addrs') /\ gw' \in Gateways /\ dhcp' \in [Fam -> BOOLEAN] /\ Locals(l')
    BY <1>1, InDHCP
  <1> QED
    BY <1>1, <1>2, <1>3, <1>4, <1>5, <1>6, <1>7, DHCPGoesOn

\* A list after another.
LEMMA ConcatFacts ==
    ASSUME NEW s \in Seq(Addr), NEW t \in Seq(Addr)
    PROVE  /\ s \o t \in Seq(Addr) /\ Len(s \o t) = Len(s) + Len(t)
           /\ \A j \in 1 .. Len(s) : (s \o t)[j] = s[j]
           /\ \A j \in Len(s) + 1 .. Len(s) + Len(t) : (s \o t)[j] = t[j - Len(s)]
  OBVIOUS

\* Taking the first address of a list.
LEMMA HeadFacts ==
    ASSUME NEW r \in Seq(Addr), r # <<>>
    PROVE  /\ Head(r) \in Addr /\ Head(r) = r[1] /\ Tail(r) \in Seq(Addr)
           /\ <<Head(r)>> \o Tail(r) = r
           /\ Once(r) => /\ Once(Tail(r))
                         /\ \A j \in DOMAIN Tail(r) : Tail(r)[j].ip # Head(r).ip
           /\ \A j \in DOMAIN Tail(r) : \E k \in DOMAIN r : Tail(r)[j] = r[k]
  <1> DEFINE t == Tail(r)
             h == Head(r)
             c == <<h>> \o t
  <1>1. /\ Len(r) \in Nat /\ DOMAIN r = 1 .. Len(r) /\ Len(r) > 0 /\ 1 \in DOMAIN r
        /\ h = r[1] /\ h \in Addr
        /\ t \in Seq(Addr) /\ Len(t) = Len(r) - 1 /\ DOMAIN t = 1 .. Len(r) - 1
        /\ \A j \in DOMAIN t : t[j] = r[j + 1] /\ j + 1 \in DOMAIN r
    OBVIOUS
  <1> HIDE DEF t, h
  <1>2. c \in Seq(Addr) /\ Len(c) = Len(r) /\ \A j \in 1 .. Len(r) : c[j] = r[j]
    <2> DEFINE one == <<h>>
    <2>1. one \in Seq(Addr) /\ Len(one) = 1 /\ one[1] = h /\ c = one \o t
      BY <1>1
    <2> HIDE DEF c, one
    <2>2. /\ c \in Seq(Addr) /\ Len(c) = 1 + Len(t) /\ c[1] = h
          /\ \A j \in 2 .. 1 + Len(t) : c[j] = t[j - 1]
      <3>1. /\ c \in Seq(Addr) /\ Len(c) = Len(one) + Len(t)
            /\ \A j \in 1 .. Len(one) : c[j] = one[j]
            /\ \A j \in Len(one) + 1 .. Len(one) + Len(t) : c[j] = t[j - Len(one)]
        BY <1>1, <2>1, ConcatFacts
      <3>2. 1 \in 1 .. Len(one)
        BY <2>1
      <3>3. c[1] = h
        BY <2>1, <3>1, <3>2
      <3>4. Len(t) \in Nat
        BY <1>1
      <3> QED
        BY <2>1, <3>1, <3>3, <3>4
    <2>3. ASSUME NEW j \in 1 .. Len(r) PROVE c[j] = r[j]
      <3>1. CASE j = 1
        BY <1>1, <2>2, <3>1
      <3>2. CASE j # 1
        <4>1. j - 1 \in DOMAIN t /\ (j - 1) + 1 = j /\ j \in 2 .. 1 + Len(t)
          BY <1>1, <3>2
        <4> QED
          BY <1>1, <2>2, <4>1
      <3> QED
        BY <3>1, <3>2
    <2>4. Len(c) = Len(r)
      BY <1>1, <2>2
    <2> QED
      BY <2>2, <2>3, <2>4
  <1> HIDE DEF c
  <1>3. c = r
    BY <1>1, <1>2
  <1>4. Once(r) => Once(t) /\ \A j \in DOMAIN t : t[j].ip # h.ip
    <2> SUFFICES ASSUME Once(r) PROVE Once(t) /\ \A j \in DOMAIN t : t[j].ip # h.ip
      OBVIOUS
    <2>1. ASSUME NEW p \in DOMAIN t, NEW q \in DOMAIN t, t[p].ip = t[q].ip PROVE p = q
      <3>1. p + 1 = q + 1
        BY <1>1, <2>1 DEF Once
      <3> QED
        BY <3>1, <1>1
    <2>2. ASSUME NEW j \in DOMAIN t PROVE t[j].ip # h.ip
      <3>1. j + 1 # 1
        BY <1>1
      <3> QED
        BY <3>1, <1>1 DEF Once
    <2> QED
      BY <2>1, <2>2 DEF Once
  <1> QED
    BY <1>1, <1>3, <1>4 DEF t, h, c

\* Moving it to the end of another.
LEMMA MovedFacts ==
    ASSUME NEW s \in Seq(Addr), NEW a \in Addr, Once(s), \A i \in DOMAIN s : s[i].ip # a.ip
    PROVE  /\ Append(s, a) \in Seq(Addr) /\ Once(Append(s, a)) /\ Append(s, a) # <<>>
           /\ \A i \in DOMAIN Append(s, a) :
                 Append(s, a)[i] = a \/ (i \in DOMAIN s /\ Append(s, a)[i] = s[i])
           /\ s # <<>> => Append(s, a)[1] = s[1]
  <1> DEFINE new == Append(s, a)
  <1>1. /\ new \in Seq(Addr) /\ DOMAIN new = 1 .. Len(s) + 1 /\ new[Len(s) + 1] = a
        /\ Len(new) = Len(s) + 1 /\ Len(s) \in Nat
        /\ DOMAIN s = 1 .. Len(s) /\ \A i \in DOMAIN s : new[i] = s[i]
    OBVIOUS
  <1>2. new # <<>> /\ (s # <<>> => 1 \in DOMAIN s)
    OBVIOUS
  <1> HIDE DEF new
  <1>3. \A i \in DOMAIN new : i \in DOMAIN s \/ i = Len(s) + 1
    BY <1>1
  <1>4. Once(new)
    BY <1>1, <1>3 DEF Once
  <1> QED
    BY <1>1, <1>2, <1>3, <1>4 DEF new

\* ... changes nothing about the two taken together.
LEMMA MovedWhole ==
    ASSUME NEW s \in Seq(Addr), NEW r \in Seq(Addr), r # <<>>
    PROVE  Append(s, Head(r)) \o Tail(r) = s \o r
  <1> DEFINE h == Head(r)
             t == Tail(r)
             new == Append(s, h)
             c == new \o t
             d == s \o r
  <1>1. /\ Len(s) \in Nat /\ Len(r) \in Nat /\ Len(r) > 0
        /\ h \in Addr /\ h = r[1] /\ t \in Seq(Addr) /\ Len(t) = Len(r) - 1
        /\ \A j \in 1 .. Len(r) - 1 : t[j] = r[j + 1]
    OBVIOUS
  <1> HIDE DEF h, t
  <1>2. /\ new \in Seq(Addr) /\ Len(new) = Len(s) + 1 /\ new[Len(s) + 1] = h
        /\ \A j \in 1 .. Len(s) : new[j] = s[j]
    BY <1>1
  <1> HIDE DEF new
  <1>3. /\ c \in Seq(Addr) /\ Len(c) = Len(s) + Len(r)
        /\ \A j \in 1 .. Len(s) + 1 : c[j] = new[j]
        /\ \A j \in Len(s) + 2 .. Len(s) + Len(r) : c[j] = t[j - (Len(s) + 1)]
    <2>1. /\ c \in Seq(Addr) /\ Len(c) = Len(new) + Len(t)
          /\ \A j \in 1 .. Len(new) : c[j] = new[j]
          /\ \A j \in Len(new) + 1 .. Len(new) + Len(t) : c[j] = t[j - Len(new)]
      BY <1>1, <1>2, ConcatFacts
    <2> HIDE DEF c
    <2> QED
      BY <1>1, <1>2, <2>1
  <1>4. /\ d \in Seq(Addr) /\ Len(d) = Len(s) + Len(r)
        /\ \A j \in 1 .. Len(s) : d[j] = s[j]
        /\ \A j \in Len(s) + 1 .. Len(s) + Len(r) : d[j] = r[j - Len(s)]
    BY ConcatFacts
  <1> HIDE DEF c, d
  <1>5. ASSUME NEW j \in 1 .. Len(s) + Len(r) PROVE c[j] = d[j]
    <2>1. CASE j <= Len(s)
      BY <1>1, <1>2, <1>3, <1>4, <2>1
    <2>2. CASE j = Len(s) + 1
      BY <1>1, <1>2, <1>3, <1>4, <2>2
    <2>3. CASE j > Len(s) + 1
      <3>1. j - (Len(s) + 1) \in 1 .. Len(r) - 1 /\ (j - (Len(s) + 1)) + 1 = j - Len(s)
        BY <1>1, <2>3
      <3>2. c[j] = t[j - (Len(s) + 1)] /\ d[j] = r[j - Len(s)]
        <4>1. j \in Len(s) + 2 .. Len(s) + Len(r) /\ j \in Len(s) + 1 .. Len(s) + Len(r)
          BY <1>1, <2>3
        <4> QED
          BY <4>1, <1>3, <1>4
      <3> QED
        BY <1>1, <3>1, <3>2
    <2> QED
      BY <1>1, <2>1, <2>2, <2>3
  <1>6. c = d
    BY <1>3, <1>4, <1>5
  <1> QED
    BY <1>6 DEF c, d, new, h, t

\* The IPv4 addresses of an adapter are replaced.
LEMMA ReplacedFacts ==
    ASSUME Proper(addrs), NEW s \in Seq(Addr), Once(s), addrs' = [addrs EXCEPT !["v4"] = s]
    PROVE  Proper(addrs') /\ addrs'["v4"] = s
  BY DEF Proper, Lists, Fam

\* A command of netsh fails, or the adapter is not found.
LEMMA FaultInv ==
    ASSUME WindowsInv, pc \in {"enable4", "find", "static"}, Fault("set6")
    PROVE  WindowsInv'
  <1>1. /\ pc \in DHCPLabels /\ pc' = "set6" /\ pc' \in DHCPLabels
        /\ addrs' = addrs /\ gw' = gw /\ dhcp' = dhcp /\ l' = [l EXCEPT !.failed = TRUE]
        /\ UNCHANGED <<req, pre, disk, leases>>
    BY DEF DHCPLabels, Fault, Goto, Run, Frame, adapter
  <1>2. /\ RestInv /\ LeaseInv /\ req.op = "SetDHCP" /\ Locals(l)
        /\ leases \in Nat /\ leases' >= leases
        /\ disk' = [addrs |-> disk'.addrs, gw |-> disk'.gw, dhcp |-> disk'.dhcp]
        /\ Proper(addrs') /\ gw' \in Gateways /\ dhcp' \in [Fam -> BOOLEAN]
    BY <1>1, InDHCP
  <1>3. Locals(l') /\ l'.failed
    <2>1. l' = [orig |-> l.orig, list |-> l.list, gws |-> l.gws, origGw |-> l.origGw,
                added |-> l.added, rest |-> l.rest, failed |-> TRUE]
      BY <1>1, <1>2 DEF Locals
    <2> QED
      BY <2>1, <1>2 DEF Locals
  <1>4. RestInv'
    BY <1>1, <1>2 DEF RestInv
  <1>5. LeaseInv'
    BY <1>1, <1>2, <1>3 DEF LeaseInv, Untouched, Leased
  <1> QED
    BY <1>1, <1>2, <1>3, <1>4, <1>5, DHCPGoesOn

\* The DHCPv4 client is turned on.
LEMMA Enable4Inv ==
    ASSUME WindowsInv, Enable4
    PROVE  WindowsInv'
  <1>1. pc = "enable4" /\ pc \in DHCPLabels
    BY DEF Enable4, DHCPLabels
  <1>2. CASE Fault("set6")
    BY <1>1, <1>2, FaultInv
  <1>3. CASE ~Fault("set6")
    <2>1. /\ addrs' = [addrs EXCEPT !["v4"] = <<>>] /\ gw' = [gw EXCEPT !["v4"] = Nil]
          /\ dhcp' = [dhcp EXCEPT !["v4"] = TRUE] /\ l' = l
          /\ pc' = "set6" /\ pc' \in DHCPLabels /\ UNCHANGED <<req, pre, disk, leases>>
      BY <1>3 DEF Enable4, Goto, Run, Frame, DHCPLabels
    <2>2. /\ RestInv /\ LeaseInv /\ req.op = "SetDHCP" /\ Locals(l) /\ req.v4 \in BOOLEAN
          /\ leases \in Nat /\ leases' >= leases /\ Proper(addrs) /\ gw \in Gateways
          /\ dhcp \in [Fam -> BOOLEAN] /\ Locals(l')
          /\ disk' = [addrs |-> disk'.addrs, gw |-> disk'.gw, dhcp |-> disk'.dhcp]
      BY <1>1, <2>1, InDHCP
    <2>3. Proper(addrs')
      <3>1. <<>> \in Seq(Addr) /\ Once(<<>>)
        BY DEF Once
      <3> QED
        BY <2>1, <2>2, <3>1, ReplacedFacts
    <2>4. gw' \in Gateways /\ dhcp' \in [Fam -> BOOLEAN] /\ dhcp'["v4"] = TRUE
      BY <2>1, <2>2 DEF Gateways, Fam
    <2>5. RestInv'
      BY <2>1, <2>2 DEF RestInv
    <2>6. LeaseInv'
      <3>1. req.v4
        BY <1>1, <2>2 DEF RestInv
      <3> QED
        BY <2>1, <2>4, <3>1 DEF LeaseInv, Leased
    <2> QED
      BY <1>1, <2>1, <2>2, <2>3, <2>4, <2>5, <2>6, DHCPGoesOn
  <1> QED
    BY <1>2, <1>3

\* The leased addresses are read.
LEMMA FindAdapterInv ==
    ASSUME WindowsInv, FindAdapter
    PROVE  WindowsInv'
  <1>1. pc = "find" /\ pc \in DHCPLabels
    BY DEF FindAdapter, DHCPLabels
  <1>2. /\ RestInv /\ LeaseInv /\ req.op = "SetDHCP" /\ Locals(l) /\ req.v4 \in BOOLEAN
        /\ leases \in Nat /\ Proper(addrs) /\ gw \in Gateways /\ dhcp \in [Fam -> BOOLEAN]
        /\ disk = [addrs |-> disk.addrs, gw |-> disk.gw, dhcp |-> disk.dhcp]
        /\ addrs["v4"] \in Seq(Addr) /\ Once(addrs["v4"])
    BY <1>1, InDHCP
  <1>3. CASE Fault("set6")
    BY <1>1, <1>3, FaultInv
  <1>4. CASE /\ dhcp["v4"] /\ Listed(addrs["v4"]) # <<>>
             /\ l' = [l EXCEPT !.rest = Listed(addrs["v4"]), !.gws["v4"] = gw["v4"]]
             /\ Goto("static") /\ UNCHANGED adapter /\ Run
    <2>1. /\ pc' = "static" /\ pc' \in DHCPLabels /\ UNCHANGED <<req, pre, disk, leases>>
          /\ addrs' = addrs /\ gw' = gw /\ dhcp' = dhcp
      BY <1>4 DEF Goto, Run, Frame, adapter, DHCPLabels
    <2>2. /\ l'.orig = l.orig /\ l'.list = l.list /\ l'.rest = Listed(addrs["v4"])
          /\ l'.gws = [l.gws EXCEPT !["v4"] = gw["v4"]] /\ l'.failed = l.failed
          /\ l' = [orig |-> l'.orig, list |-> l'.list, gws |-> l'.gws, origGw |-> l'.origGw,
                   added |-> l'.added, rest |-> l'.rest, failed |-> l'.failed]
      BY <1>2, <1>4 DEF Locals
    <2>3. Listed(addrs["v4"]) \in Seq(Addr) /\ Once(Listed(addrs["v4"]))
      BY <1>2, ListedFacts
    <2>4. l'.gws \in Gateways /\ l'.gws["v4"] = gw["v4"]
      BY <1>2, <2>2 DEF Locals, Gateways, Fam
    <2>5. Locals(l')
      BY <1>2, <2>2, <2>3, <2>4 DEF Locals
    <2>6. RestInv'
      <3> SUFFICES ~req.v4
        BY <1>2, <1>4, <2>1, <2>2 DEF RestInv
      <3> QED
        BY <1>1, <1>2 DEF RestInv
    <2>7. LeaseInv'
      BY <1>1, <1>2, <2>1, <2>2, <2>4 DEF LeaseInv, Untouched
    <2>8. leases' \in Nat /\ leases' >= leases
      BY <1>2, <2>1
    <2> QED
      BY <1>1, <1>2, <2>1, <2>5, <2>6, <2>7, <2>8, DHCPGoesOn
  <1>5. CASE ~dhcp["v4"] /\ Goto("set6") /\ UNCHANGED <<adapter, l>> /\ Run
    <2>1. /\ pc' = "set6" /\ pc' \in DHCPLabels /\ UNCHANGED <<req, pre, disk, leases>>
          /\ addrs' = addrs /\ gw' = gw /\ dhcp' = dhcp /\ l' = l
      BY <1>5 DEF Goto, Run, Frame, adapter, DHCPLabels
    <2>2. RestInv'
      BY <1>2, <2>1 DEF RestInv
    <2>3. LeaseInv'
      <3>1. dhcp["v4"] = FALSE
        BY <1>2, <1>5 DEF Fam
      <3>2. req.v4 = FALSE /\ (leases = pre.leases => Untouched)
        BY <1>1, <1>2 DEF LeaseInv, RestInv
      <3> QED
        BY <2>1, <3>1, <3>2 DEF LeaseInv, Leased, Untouched
    <2>4. leases' \in Nat /\ leases' >= leases /\ Locals(l')
      BY <1>2, <2>1
    <2> QED
      BY <1>1, <1>2, <2>1, <2>2, <2>3, <2>4, DHCPGoesOn
  <1> QED
    BY <1>3, <1>4, <1>5 DEF FindAdapter

\* The first of them replaces the adapter's IPv4 configuration.
LEMMA SetStaticInv ==
    ASSUME WindowsInv, SetStatic
    PROVE  WindowsInv'
  <1>1. pc = "static" /\ pc \in DHCPLabels
    BY DEF SetStatic, DHCPLabels
  <1>2. /\ RestInv /\ LeaseInv /\ req.op = "SetDHCP" /\ Locals(l) /\ req.v4 \in BOOLEAN
        /\ leases \in Nat /\ Proper(addrs) /\ gw \in Gateways /\ dhcp \in [Fam -> BOOLEAN]
        /\ disk = [addrs |-> disk.addrs, gw |-> disk.gw, dhcp |-> disk.dhcp]
        /\ l.rest \in Seq(Addr) /\ Once(l.rest) /\ l.rest # <<>>
    BY <1>1, InDHCP DEF RestInv
  <1>3. CASE Fault("set6")
    BY <1>1, <1>3, FaultInv
  <1>4. CASE ~Fault("set6")
    <2> DEFINE h == Head(l.rest)
               t == Tail(l.rest)
    <2>1. /\ addrs' = [addrs EXCEPT !["v4"] = <<h>>] /\ gw' = [gw EXCEPT !["v4"] = l.gws["v4"]]
          /\ dhcp' = [dhcp EXCEPT !["v4"] = FALSE] /\ l' = [l EXCEPT !.rest = t]
          /\ pc' = "secondaries" /\ pc' \in DHCPLabels /\ UNCHANGED <<req, pre, disk, leases>>
      BY <1>4 DEF SetStatic, Goto, Run, Frame, DHCPLabels
    <2>2. /\ h \in Addr /\ h = l.rest[1] /\ t \in Seq(Addr) /\ Once(t) /\ <<h>> \o t = l.rest
          /\ \A j \in DOMAIN t : t[j].ip # h.ip
      BY <1>2, HeadFacts
    <2> HIDE DEF h, t
    <2>3. <<h>> \in Seq(Addr) /\ Once(<<h>>) /\ <<h>> # <<>> /\ <<h>>[1] = h
          /\ DOMAIN <<h>> = {1}
      BY <2>2 DEF Once
    <2>4. Proper(addrs') /\ addrs'["v4"] = <<h>>
      BY <1>2, <2>1, <2>3, ReplacedFacts
    <2>5. /\ gw' \in Gateways /\ dhcp' \in [Fam -> BOOLEAN] /\ ~dhcp'["v4"]
          /\ gw'["v4"] = l.gws["v4"]
      BY <1>2, <2>1 DEF Gateways, Fam, Locals
    <2>6. /\ l'.rest = t /\ l'.failed = l.failed /\ Locals(l')
      BY <1>2, <2>1, <2>2 DEF Locals, Proper, Lists
    <2>7. RestInv'
      <3>1. \A i \in DOMAIN addrs'["v4"], j \in DOMAIN l'.rest :
               addrs'["v4"][i].ip # l'.rest[j].ip
        BY <2>2, <2>3, <2>4, <2>6
      <3>2. ~req.v4
        BY <1>1, <1>2 DEF RestInv
      <3> QED
        BY <1>2, <2>1, <2>5, <3>1, <3>2 DEF RestInv
    <2>8. LeaseInv'
      <3> SUFFICES ASSUME leases = pre.leases
                   PROVE  /\ FirstKept' /\ gw'["v4"] = pre.gw["v4"]
                          /\ addrs'["v4"] \o l'.rest = Listed(pre.addrs["v4"])
        BY <2>1 DEF LeaseInv
      <3>1. l.rest = Listed(pre.addrs["v4"]) /\ l.gws["v4"] = pre.gw["v4"]
        BY <1>1, <1>2 DEF LeaseInv
      <3>2. FirstKept'
        BY <2>1, <2>2, <2>3, <2>4, <3>1 DEF FirstKept
      <3> QED
        BY <2>2, <2>4, <2>5, <2>6, <3>1, <3>2
    <2>9. leases' \in Nat /\ leases' >= leases
      BY <1>2, <2>1
    <2>10. disk' = [addrs |-> disk'.addrs, gw |-> disk'.gw, dhcp |-> disk'.dhcp]
      BY <1>2, <2>1
    <2> QED
      BY <1>1, <2>1, <2>4, <2>5, <2>6, <2>7, <2>8, <2>9, <2>10, DHCPGoesOn
  <1> QED
    BY <1>3, <1>4

\* A secondary address is added, or not.
LEMMA AddSecondaryInv ==
    ASSUME WindowsInv, AddSecondary
    PROVE  WindowsInv'
  <1>1. pc = "secondaries" /\ pc \in DHCPLabels
    BY DEF AddSecondary, DHCPLabels
  <1>2. /\ RestInv /\ LeaseInv /\ req.op = "SetDHCP" /\ Locals(l)
        /\ leases \in Nat /\ Proper(addrs) /\ gw \in Gateways /\ dhcp \in [Fam -> BOOLEAN]
        /\ disk = [addrs |-> disk.addrs, gw |-> disk.gw, dhcp |-> disk.dhcp]
        /\ addrs["v4"] \in Seq(Addr) /\ Once(addrs["v4"])
        /\ l.rest \in Seq(Addr) /\ Once(l.rest)
    BY <1>1, InDHCP
  <1> DEFINE s == addrs["v4"]
             h == Head(l.rest)
             t == Tail(l.rest)
  <1>3. /\ l.rest # <<>> /\ pc' = pc /\ UNCHANGED <<req, pre, disk, leases>> /\ gw' = gw
        /\ dhcp' = dhcp
        /\ \/ addrs' = [addrs EXCEPT !["v4"] = Append(s, h)] /\ l' = [l EXCEPT !.rest = t]
           \/ addrs' = addrs /\ l' = [l EXCEPT !.rest = t, !.failed = TRUE]
    BY DEF AddSecondary, Run, Frame, adapter
  <1>4. /\ h \in Addr /\ h = l.rest[1] /\ t \in Seq(Addr) /\ Once(t)
        /\ \A j \in DOMAIN t : t[j].ip # h.ip
        /\ \A j \in DOMAIN t : \E k \in DOMAIN l.rest : t[j] = l.rest[k]
        /\ 1 \in DOMAIN l.rest
    <2>1. 1 \in DOMAIN l.rest
      BY <1>2, <1>3
    <2> QED
      BY <1>2, <1>3, <2>1, HeadFacts
  <1>5. \A i \in DOMAIN s, j \in DOMAIN l.rest : s[i].ip # l.rest[j].ip
    BY <1>1, <1>2 DEF RestInv
  <1>6. \A i \in DOMAIN s : s[i].ip # h.ip
    BY <1>4, <1>5
  <1>7. Append(s, h) \o t = s \o l.rest
    BY <1>2, <1>3, MovedWhole
  <1>8. /\ Append(s, h) \in Seq(Addr) /\ Once(Append(s, h)) /\ Append(s, h) # <<>>
        /\ \A i \in DOMAIN Append(s, h) :
              Append(s, h)[i] = h \/ (i \in DOMAIN s /\ Append(s, h)[i] = s[i])
        /\ s # <<>> => Append(s, h)[1] = s[1]
    BY <1>2, <1>4, <1>6, MovedFacts
  <1> DEFINE new == Append(s, h)
  <1> HIDE DEF s, h, t, new
  <1>9. ~req.v4 /\ ~dhcp["v4"]
    BY <1>1, <1>2 DEF RestInv
  <1>10. leases = pre.leases =>
            /\ s # <<>> /\ s[1] = Listed(pre.addrs["v4"])[1] /\ gw["v4"] = pre.gw["v4"]
            /\ ~l.failed => s \o l.rest = Listed(pre.addrs["v4"])
    BY <1>1, <1>2 DEF LeaseInv, FirstKept, s
  <1>11. leases' \in Nat /\ leases' >= leases
         /\ disk' = [addrs |-> disk'.addrs, gw |-> disk'.gw, dhcp |-> disk'.dhcp]
         /\ gw' \in Gateways /\ dhcp' \in [Fam -> BOOLEAN] /\ pc' \in DHCPLabels
    BY <1>1, <1>2, <1>3
  <1>12. CASE addrs' = [addrs EXCEPT !["v4"] = new] /\ l' = [l EXCEPT !.rest = t]
    <2>1. Proper(addrs') /\ addrs'["v4"] = new
      BY <1>2, <1>8, <1>12, ReplacedFacts DEF new
    <2>2. l'.rest = t /\ l'.failed = l.failed /\ Locals(l')
      BY <1>2, <1>4, <1>12 DEF Locals, Proper, Lists
    <2>3. RestInv'
      <3>1. \A i \in DOMAIN new, j \in DOMAIN t : new[i].ip # t[j].ip
        BY <1>4, <1>5, <1>8 DEF new
      <3>2. \A i \in DOMAIN addrs'["v4"], j \in DOMAIN l'.rest :
               addrs'["v4"][i].ip # l'.rest[j].ip
        BY <2>1, <2>2, <3>1
      <3> QED
        BY <1>1, <1>2, <1>3, <1>9, <3>2 DEF RestInv
    <2>4. LeaseInv'
      <3> SUFFICES ASSUME leases = pre.leases
                   PROVE  /\ FirstKept' /\ gw'["v4"] = pre.gw["v4"]
                          /\ ~l'.failed => addrs'["v4"] \o l'.rest = Listed(pre.addrs["v4"])
        BY <1>1, <1>3 DEF LeaseInv
      <3>1. FirstKept'
        BY <1>3, <1>8, <1>10, <2>1 DEF FirstKept, new
      <3>2. addrs'["v4"] \o l'.rest = s \o l.rest
        BY <1>7, <2>1, <2>2 DEF new
      <3> QED
        BY <1>3, <1>10, <2>2, <3>1, <3>2
    <2> QED
      BY <1>1, <1>3, <1>11, <2>1, <2>2, <2>3, <2>4, DHCPGoesOn
  <1>13. CASE addrs' = addrs /\ l' = [l EXCEPT !.rest = t, !.failed = TRUE]
    <2>1. l'.rest = t /\ l'.failed /\ Locals(l')
      BY <1>2, <1>4, <1>13 DEF Locals, Proper, Lists
    <2>2. RestInv'
      <3>1. \A i \in DOMAIN s, j \in DOMAIN t : s[i].ip # t[j].ip
        BY <1>4, <1>5
      <3>2. \A i \in DOMAIN addrs'["v4"], j \in DOMAIN l'.rest :
               addrs'["v4"][i].ip # l'.rest[j].ip
        BY <1>13, <2>1, <3>1 DEF s
      <3> QED
        BY <1>1, <1>2, <1>3, <1>9, <3>2 DEF RestInv
    <2>3. LeaseInv'
      <3> SUFFICES ASSUME leases = pre.leases
                   PROVE  FirstKept' /\ gw'["v4"] = pre.gw["v4"]
        BY <1>1, <1>3, <2>1 DEF LeaseInv
      <3> QED
        BY <1>3, <1>10, <1>13 DEF FirstKept, s
    <2>4. Proper(addrs')
      BY <1>2, <1>13 DEF Proper
    <2> QED
      BY <1>1, <1>3, <1>11, <2>1, <2>2, <2>3, <2>4, DHCPGoesOn
  <1> QED
    BY <1>3, <1>12, <1>13 DEF new

\* All have been added.
LEMMA SecondariesAddedInv ==
    ASSUME WindowsInv, SecondariesAdded
    PROVE  WindowsInv'
  <1>1. /\ pc = "secondaries" /\ pc \in DHCPLabels /\ l.rest = <<>>
        /\ pc' = "set6" /\ pc' \in DHCPLabels /\ UNCHANGED <<req, pre, disk, leases>>
        /\ addrs' = addrs /\ gw' = gw /\ dhcp' = dhcp /\ l' = l
    BY DEF SecondariesAdded, Goto, Run, Frame, adapter, DHCPLabels
  <1>2. /\ RestInv /\ LeaseInv /\ req.op = "SetDHCP" /\ Locals(l) /\ req.v4 \in BOOLEAN
        /\ leases \in Nat /\ Proper(addrs) /\ gw \in Gateways /\ dhcp \in [Fam -> BOOLEAN]
        /\ disk = [addrs |-> disk.addrs, gw |-> disk.gw, dhcp |-> disk.dhcp]
        /\ addrs["v4"] \in Seq(Addr)
    BY <1>1, InDHCP
  <1>3. addrs["v4"] \o l.rest = addrs["v4"]
    BY <1>1, <1>2
  <1>4. dhcp["v4"] = FALSE /\ req.v4 = FALSE
    <2>1. ~dhcp["v4"] /\ ~req.v4
      BY <1>1, <1>2 DEF RestInv
    <2> QED
      BY <1>2, <2>1 DEF Fam
  <1>5. RestInv'
    BY <1>1, <1>2 DEF RestInv
  <1>6. LeaseInv'
    <2> SUFFICES ASSUME leases = pre.leases
                 PROVE  /\ gw["v4"] = pre.gw["v4"] /\ FirstKept
                        /\ ~l.failed => addrs["v4"] = Listed(pre.addrs["v4"])
      BY <1>1, <1>4 DEF LeaseInv, Leased, FirstKept
    <2> QED
      BY <1>1, <1>2, <1>3 DEF LeaseInv
  <1>7. leases' \in Nat /\ leases' >= leases /\ Locals(l')
    BY <1>1, <1>2
  <1> QED
    BY <1>1, <1>2, <1>5, <1>6, <1>7, DHCPGoesOn

\* IPv6 is switched, and SetDHCP returns.
LEMMA SetDHCP6Inv ==
    ASSUME WindowsInv, SetDHCP6
    PROVE  WindowsInv'
  <1>1. /\ pc = "set6" /\ pc \in DHCPLabels
        /\ addrs' = addrs /\ gw' = gw /\ pc' = "idle" /\ l' = L0 /\ Frame
        /\ \/ /\ dhcp' = [dhcp EXCEPT !["v6"] = req.v6]
              /\ ret' = IF l.failed THEN "error" ELSE "ok"
           \/ dhcp' = dhcp /\ ret' = "error"
    BY DEF SetDHCP6, Fails, Return, adapter, DHCPLabels
  <1>2. /\ LeaseInv /\ req.op = "SetDHCP" /\ req.v4 \in BOOLEAN /\ req.v6 \in BOOLEAN
        /\ Proper(addrs) /\ gw \in Gateways /\ dhcp \in [Fam -> BOOLEAN]
    BY <1>1, InDHCP
  <1>3. Proper(addrs') /\ gw' \in Gateways /\ dhcp' \in [Fam -> BOOLEAN]
    BY <1>1, <1>2 DEF Fam, Proper
  <1>4. LeaseIsKept'
    <2>1. req' = req /\ pre' = pre /\ leases' = leases
      BY <1>1 DEF Frame
    <2> SUFFICES ASSUME leases = pre.leases
                 PROVE  /\ Leased =>
                              /\ gw["v4"] = pre.gw["v4"]
                              /\ addrs["v4"] = pre.addrs["v4"] \/ FirstKept
                              /\ ret' = "ok" => addrs["v4"] = Listed(pre.addrs["v4"])
                        /\ ret' = "ok" =>
                              dhcp' = [f \in Fam |-> IF f = "v4" THEN req.v4 ELSE req.v6]
      BY <1>1, <2>1 DEF LeaseIsKept, Leased, FirstKept, Returned
    <2>2. /\ Leased => /\ gw["v4"] = pre.gw["v4"]
                       /\ addrs["v4"] = pre.addrs["v4"] \/ FirstKept
                       /\ ~l.failed => addrs["v4"] = Listed(pre.addrs["v4"])
          /\ ~l.failed => dhcp["v4"] = req.v4
      BY <1>1, <1>2 DEF LeaseInv
    <2>3. ret' = "ok" => ~l.failed /\ dhcp' = [dhcp EXCEPT !["v6"] = req.v6]
      BY <1>1
    <2>4. ASSUME ret' = "ok"
          PROVE  dhcp' = [f \in Fam |-> IF f = "v4" THEN req.v4 ELSE req.v6]
      <3>1. \A f \in Fam : dhcp'[f] = IF f = "v4" THEN req.v4 ELSE req.v6
        BY <1>2, <2>2, <2>3, <2>4 DEF Fam
      <3>2. dhcp' = [f \in Fam |-> dhcp'[f]]
        BY <1>3
      <3> QED
        BY <3>1, <3>2
    <2> QED
      BY <2>2, <2>3, <2>4
  <1> QED
    BY <1>1, <1>3, <1>4, DHCPEnds

-----------------------------------------------------------------------------
(* The lease, the end of the process, and the whole *)

\* The lease changes: SetDHCP promises nothing about the old one any more.
LEMMA LeaseChangesInv ==
    ASSUME WindowsInv, LeaseChanges
    PROVE  WindowsInv'
  <1>1. /\ pc \in DHCPLabels /\ pc' = pc /\ dhcp["v4"] /\ dhcp' = dhcp /\ l' = l
        /\ UNCHANGED <<req, pre, disk>> /\ leases' = leases + 1
    BY DEF LeaseChanges, DHCPLabels
  <1>2. /\ RestInv /\ req.op = "SetDHCP" /\ Locals(l)
        /\ leases \in Nat /\ Proper(addrs) /\ gw \in Gateways /\ dhcp \in [Fam -> BOOLEAN]
        /\ disk = [addrs |-> disk.addrs, gw |-> disk.gw, dhcp |-> disk.dhcp]
        /\ pre.leases \in Nat /\ pre.leases <= leases
    BY <1>1, InDHCP DEF TypeInv
  <1>3. PICK s \in Adapters : /\ addrs' = [addrs EXCEPT !["v4"] = s.addrs["v4"]]
                              /\ gw' = [gw EXCEPT !["v4"] = s.gw["v4"]]
    BY DEF LeaseChanges
  <1>4. s.addrs["v4"] \in Seq(Addr) /\ Once(s.addrs["v4"]) /\ s.gw["v4"] \in Gw \cup {Nil}
    BY WindowsAssumption DEF WindowsAssumption, Lists, Fam
  <1>5. Proper(addrs') /\ gw' \in Gateways
    BY <1>2, <1>3, <1>4, ReplacedFacts DEF Gateways, Fam
  <1>6. pc # "secondaries"
    BY <1>1, <1>2 DEF RestInv
  <1>7. RestInv'
    BY <1>1, <1>2, <1>6 DEF RestInv
  <1>8. leases' # pre'.leases /\ leases' \in Nat /\ leases' >= leases
    BY <1>1, <1>2
  <1>9. LeaseInv'
    BY <1>8 DEF LeaseInv
  <1> QED
    BY <1>1, <1>2, <1>5, <1>7, <1>8, <1>9, DHCPGoesOn

\* The process dies.
LEMMA CrashInv ==
    ASSUME WindowsInv, Crash
    PROVE  WindowsInv'
  <1>1. /\ pc # "idle" /\ pc' = "idle" /\ l' = L0 /\ ret' = "crashed"
        /\ addrs' = addrs /\ gw' = gw /\ dhcp' = dhcp /\ Frame
    BY DEF Crash, adapter
  <1>2. pc \in AddressLabels \/ pc \in DHCPLabels
    BY <1>1 DEF WindowsInv, TypeInv
  <1>3. CASE pc \in AddressLabels
    <2>1. Proper(addrs') /\ gw' \in Gateways
      BY <1>1, <1>3, InAddressCall
    <2> QED
      BY <1>1, <1>3, <2>1, EndsInError
  <1>4. CASE pc \in DHCPLabels
    <2>1. Proper(addrs') /\ gw' \in Gateways /\ dhcp' \in [Fam -> BOOLEAN]
      BY <1>1, <1>4, InDHCP
    <2>2. LeaseIsKept
      BY DEF WindowsInv, DHCPInv
    <2>3. LeaseIsKept'
      BY <1>1, <2>2 DEF LeaseIsKept, Returned, Frame
    <2> QED
      BY <1>1, <1>4, <2>1, <2>3, DHCPEnds
  <1> QED
    BY <1>2, <1>3, <1>4

\* A history starts at rest.
LEMMA InitWindows == Init => WindowsInv
  <1> SUFFICES ASSUME Init PROVE WindowsInv
    OBVIOUS
  <1>1. PICK s \in Adapters : addrs = s.addrs /\ gw = s.gw /\ dhcp = s.dhcp
    BY DEF Init
  <1>2. Proper(addrs) /\ gw \in Gateways /\ dhcp \in [Fam -> BOOLEAN]
    BY <1>1, WindowsAssumption DEF WindowsAssumption, Proper, Gateways
  <1>3. /\ disk = [addrs |-> addrs, gw |-> gw, dhcp |-> dhcp]
        /\ pre = [addrs |-> addrs, gw |-> gw, dhcp |-> dhcp, disk |-> disk, leases |-> 0]
        /\ pc = "idle" /\ l = L0 /\ leases = 0 /\ req = [op |-> "none"]
    BY DEF Init
  <1>4. TypeInv
    BY <1>2, <1>3, LocalsAtRest DEF TypeInv
  <1>5. CarriedInv /\ ListInv /\ GatewayInv /\ RestInv
    BY <1>3 DEF CarriedInv, ListInv, GatewayInv, RestInv, AddressLabels, DHCPLabels
  <1>6. req.op = "none"
    BY <1>3
  <1>7. AllOrNothing /\ LeaseInv /\ LeaseIsKept
    BY <1>6 DEF AllOrNothing, LeaseInv, LeaseIsKept, OnAddresses
  <1> QED
    BY <1>4, <1>5, <1>7 DEF WindowsInv, AddressInv, DHCPInv

\* Nothing changes.
LEMMA StutterInv ==
    ASSUME WindowsInv, UNCHANGED vars
    PROVE  WindowsInv'
  <1>1. /\ TypeInv' /\ AllOrNothing' /\ LeaseIsKept' /\ CarriedInv' /\ ListInv'
        /\ GatewayInv' /\ RestInv' /\ LeaseInv'
    <2> USE DEF vars, adapter, settings, WindowsInv, AddressInv, DHCPInv
    <2>1. TypeInv'
      BY DEF TypeInv, Proper
    <2>2. CarriedInv' /\ ListInv' /\ GatewayInv'
      BY DEF CarriedInv, ListInv, GatewayInv, OnAddresses, F, Aimed, AimedGw, IsFirst, Read
    <2>3. RestInv' /\ LeaseInv'
      BY DEF RestInv, LeaseInv, Untouched, FirstKept, Leased
    <2>4. AllOrNothing' /\ LeaseIsKept'
      BY DEF AllOrNothing, LeaseIsKept, Returned, OnAddresses, F, Asked
    <2> QED
      BY <2>1, <2>2, <2>3, <2>4
  <1> QED
    BY <1>1 DEF WindowsInv, AddressInv, DHCPInv

\* Every step keeps the invariant.
LEMMA WindowsStep == WindowsInv /\ [Next]_vars => WindowsInv'
  <1> SUFFICES ASSUME WindowsInv, [Next]_vars PROVE WindowsInv'
    OBVIOUS
  <1>1. CASE UNCHANGED vars
    BY <1>1, StutterInv
  <1>2. CASE AddAddress \/ SetPrimaryAddress \/ RemoveAddress \/ SetDHCP
    BY <1>2, AddAddressInv, SetPrimaryAddressInv, RemoveAddressInv, SetDHCPInv
  <1>3. CASE SetAddresses \/ ScanRoutes \/ AddGateway \/ AddGatewayFails \/ Test
    BY <1>3, SetAddressesInv, ScanRoutesInv, AddGatewayInv, AddGatewayFailsInv, TestInv
  <1>4. CASE RestoreAddresses \/ RestoreRoute \/ Persist
    BY <1>4, RestoreAddressesInv, RestoreRouteInv, PersistInv
  <1>5. CASE PersistDHCP \/ Enable4 \/ FindAdapter \/ SetStatic \/ AddSecondary
    BY <1>5, PersistDHCPInv, Enable4Inv, FindAdapterInv, SetStaticInv, AddSecondaryInv
  <1>6. CASE SecondariesAdded \/ SetDHCP6 \/ LeaseChanges \/ Crash
    BY <1>6, SecondariesAddedInv, SetDHCP6Inv, LeaseChangesInv, CrashInv
  <1> QED
    BY <1>1, <1>2, <1>3, <1>4, <1>5, <1>6 DEF Next

\* The invariant holds throughout.
LEMMA WindowsInvariant == Spec => []WindowsInv
  BY InitWindows, WindowsStep, PTL DEF Spec

-----------------------------------------------------------------------------
(* Theorems *)

\* AddAddress, SetPrimaryAddress and RemoveAddress on Windows leave the adapter as asked
\* for or, where the test of the internet failed and the rollback did not, as it was, and
\* cloud-init knows what the adapter has or what it knew before.
THEOREM AddressCallsAreAtomic == Spec => []AllOrNothing
  <1>1. WindowsInv => AllOrNothing
    BY DEF WindowsInv, AddressInv
  <1> QED
    BY <1>1, WindowsInvariant, PTL

\* SetDHCP on Windows, turning the client off, leaves the first leased address and its
\* gateway on the adapter at every moment, unless the lease itself changes.
THEOREM AddressStaysReachable == Spec => []LeaseIsKept
  <1>1. WindowsInv => LeaseIsKept
    BY DEF WindowsInv, DHCPInv
  <1> QED
    BY <1>1, WindowsInvariant, PTL
=============================================================================
