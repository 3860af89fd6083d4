--------------------------- MODULE CloudInitProofs ---------------------------
(****************************************************************************)
(* Proofs about CloudInit.  What a new process makes of the files follows   *)
(* from their order, file by file; what Save has done to them, from where   *)
(* it is; and that no section is lost, from where each entry may be: in a   *)
(* section that a new process would use, in a backup of a file that is no   *)
(* longer used, or in one that is not older than the failed Saves.          *)
(****************************************************************************)
EXTENDS CloudInit, TLAPS, WellFoundedInduction

-----------------------------------------------------------------------------
(* The invariant *)

Directory == [Files -> Text \cup {Absent}]
CiFile == [path : Files, onlyNetwork : BOOLEAN]

Saving == pc \in {"save", "backup", "install", "prune"}
PathsOf(s) == {s[n].path : n \in DOMAIN s}
Paths == PathsOf(configFiles)

TypeInv ==
    /\ disk \in Directory /\ tmp \in Directory /\ bak \in [Files -> Seq(Text)]
    /\ pre.disk \in Directory /\ pre.net \in Network
    /\ net \in Network /\ origin \in Network
    /\ configFiles \in Seq(CiFile)
    /\ pc \in {"idle", "down"} \/ Saving
    /\ i \in Nat \ {0} /\ failed \in Nat

\* The files of a process: each of them once, in the order they are read.
Listed(s) ==
    \A m, n \in DOMAIN s : \A a, b \in DOMAIN Order :
        Order[a] = s[m].path /\ Order[b] = s[n].path => (m < n <=> a < b)

\* A base file among them is the first there was.  Every file with a section is among them, but
\* for a base file after one that is there, or is itself among them.
Known(s, d) ==
    /\ \A k \in DOMAIN Order : Order[k] \in PathsOf(s) /\ k <= Len(BaseFiles) =>
          \A m \in 1 .. k - 1 : d[Order[m]] = Absent /\ Order[m] \notin PathsOf(s)
    /\ \A k \in DOMAIN Order : HasSection(d, Order[k]) =>
          \/ Order[k] \in PathsOf(s)
          \/ k <= Len(BaseFiles) /\ \E m \in 1 .. k - 1 :
                Order[m] \in PathsOf(s) \/ d[Order[m]] # Absent

\* What a process knows of the directory it works on: the files, the backups beside them.
Opened(s, d, b) ==
    /\ s # <<>> /\ PathsOf(s) \subseteq {Order[k] : k \in DOMAIN Order}
    /\ Listed(s) /\ Known(s, d)
    /\ \A f \in PathsOf(s) : d[f] # Absent \/ b[f] # <<>>
    /\ \E k \in DOMAIN BaseFiles : d[Order[k]] # Absent \/ Order[k] \in PathsOf(s)

ControlInv ==
    /\ pc = "down" => configFiles = <<>>
    /\ pc # "down" => /\ Opened(configFiles, disk, bak)
                      /\ DOMAIN net.v1 # {} \/ DOMAIN net.v2 # {}
    /\ pc \in {"backup", "install", "prune"} => i <= Len(configFiles)

\* What Save has done to the directory it began with.
Passed(n) == n < i \/ (n = i /\ pc = "prune")

Placed(n) ==
    LET f == configFiles[n].path
    IN  IF Passed(n) THEN disk[f] # Absent /\ disk[f].net = NewNet(f)
        ELSE IF pc = "install" /\ n = i THEN disk[f] = Absent /\ bak[f] # <<>>
        ELSE disk[f] = pre.disk[f]

PlaceInv ==
    /\ Saving => \A n \in DOMAIN configFiles : Placed(n)
    /\ pc \in {"backup", "install"} => tmp[file] # Absent /\ tmp[file].net = NewNet(file)

\* A backup of f, one of the newest k, has the entry.
BackedUp(e, f, k) ==
    \E m \in DOMAIN bak[f] : m <= k /\ bak[f][m].net # Absent /\ e \in Entries(bak[f][m].net)

\* It is in the backup of a file that has no section and never gets one again.
Retired(e) ==
    \E f \in Files \ Paths : ~HasSection(disk, f) /\ BackedUp(e, f, Len(bak[f]))

\* It is in a backup of one of the process's files, not older than its failed Saves.
Moved(n) == n < i \/ (n = i /\ pc \in {"install", "prune"})

Away(e) ==
    \E n \in DOMAIN configFiles :
        /\ ~HasSection(disk, configFiles[n].path)
        /\ BackedUp(e, configFiles[n].path, IF Saving /\ Moved(n) THEN failed + 1 ELSE failed)

\* It is in a section of one of them, and a new process would read it.
OnDisk(e) ==
    /\ e \in Entries(Effective(disk))
    /\ pc # "down" => \E f \in Paths : HasSection(disk, f) /\ e \in Entries(disk[f].net)

Safe(e) == Retired(e) \/ ((pc # "down" => e \in Entries(net)) /\ (OnDisk(e) \/ Away(e)))

\* The process has not failed as many times as there are backups kept.
Few == Retention = 0 \/ failed < Retention

KeptInv == Few => \A e \in Kept : Safe(e)

CloudInitInv ==
    /\ TypeInv /\ ControlInv /\ PlaceInv /\ KeptInv
    /\ Saving => CallDone
    /\ SavedIsRead /\ CallDoesItsPart

-----------------------------------------------------------------------------
(* Numbers *)

\* A set of numbers that is not empty has a least one.
LEMMA Least ==
    ASSUME NEW T \in SUBSET Nat, T # {}
    PROVE  \E m \in T : \A k \in T : m <= k
  <1> DEFINE R == OpToRel(<, Nat)
  <1>1. IsWellFoundedOn(R, Nat)
    BY NatLessThanWellFounded
  <1>2. \A x, y \in Nat : x < y => <<x, y>> \in R
    BY DEF OpToRel
  <1> HIDE DEF R
  <1>3. PICK m \in T : \A y \in T : ~(<<y, m>> \in R)
    BY <1>1, WFMin
  <1>4. \A k \in T : ~(k < m)
    BY <1>2, <1>3
  <1> QED
    BY <1>4

\* What holds of no element, and of one more whenever of m, holds of any number up to N.
LEMMA Induction ==
    ASSUME NEW N \in Nat, NEW T, 0 \in T, \A m \in 0 .. N - 1 : m \in T => m + 1 \in T
    PROVE  0 .. N \subseteq T
  <1> DEFINE U == (0 .. N) \ T
  <1> SUFFICES ASSUME U # {} PROVE FALSE
    OBVIOUS
  <1>1. PICK m \in U : \A k \in U : m <= k
    <2> HIDE DEF U
    <2>1. U \in SUBSET Nat
      BY DEF U
    <2> QED
      BY <2>1, Least
  <1>2. m # 0 /\ m - 1 \in 0 .. N - 1
    BY <1>1
  <1>3. m - 1 \notin U
    BY <1>1, <1>2
  <1>4. (m - 1) + 1 \in T
    BY <1>2, <1>3
  <1> QED
    BY <1>1, <1>2, <1>4


\* A sequence of N values after a first one, each by a step from the one before.
Chain(r, N, b, g) == r[0] = b /\ \A k \in 1 .. N : r[k] = g[k][r[k - 1]]

\* Steps that stay within a set have such a sequence.
LEMMA Recursion ==
    ASSUME NEW X, NEW N \in Nat, NEW b \in X, NEW g \in [1 .. N -> [X -> X]]
    PROVE  \E r \in [0 .. N -> X] : Chain(r, N, b, g)
  <1> DEFINE U == {M \in 0 .. N : \E r \in [0 .. M -> X] : Chain(r, M, b, g)}
  <1>1. 0 \in U
    <2> DEFINE r == [k \in 0 .. 0 |-> b]
    <2>1. r \in [0 .. 0 -> X] /\ Chain(r, 0, b, g)
      BY DEF Chain
    <2> HIDE DEF r
    <2> QED
      BY <2>1
  <1>2. ASSUME NEW M \in 0 .. N - 1, M \in U PROVE M + 1 \in U
    <2>1. PICK r \in [0 .. M -> X] : Chain(r, M, b, g)
      BY <1>2
    <2>2. M + 1 \in 1 .. N /\ g[M + 1] \in [X -> X] /\ r[M] \in X
      OBVIOUS
    <2> DEFINE q == [k \in 0 .. M + 1 |-> IF k <= M THEN r[k] ELSE g[M + 1][r[M]]]
    <2>3. q \in [0 .. M + 1 -> X]
      BY <2>2
    <2>4. q[M + 1] = g[M + 1][r[M]] /\ \A k \in 0 .. M : q[k] = r[k]
      OBVIOUS
    <2> HIDE DEF q
    <2>5. ASSUME NEW k \in 1 .. M + 1 PROVE q[k] = g[k][q[k - 1]]
      <3>1. CASE k = M + 1
        <4>1. q[k - 1] = r[M]
          BY <2>4, <3>1
        <4> QED
          BY <2>4, <3>1, <4>1
      <3>2. CASE k # M + 1
        <4>1. k \in 1 .. M /\ k \in 0 .. M /\ k - 1 \in 0 .. M
          BY <3>2
        <4>2. q[k] = r[k] /\ q[k - 1] = r[k - 1]
          BY <2>4, <4>1
        <4> QED
          BY <2>1, <4>1, <4>2 DEF Chain
      <3> QED
        BY <3>1, <3>2
    <2>6. Chain(q, M + 1, b, g)
      BY <2>1, <2>4, <2>5 DEF Chain
    <2> QED
      BY <2>3, <2>6
  <1>3. 0 .. N \subseteq U
    <2> HIDE DEF U
    <2> QED
      BY <1>1, <1>2, Induction
  <1> QED
    BY <1>3

\* What holds of the first value, and of each next one, holds of them all.
LEMMA Invariance ==
    ASSUME NEW X, NEW N \in Nat, NEW r, r[0] \in X,
           \A k \in 1 .. N : r[k - 1] \in X => r[k] \in X
    PROVE  \A k \in 0 .. N : r[k] \in X
  <1> DEFINE U == {k \in 0 .. N : r[k] \in X}
  <1>1. 0 \in U
    OBVIOUS
  <1>2. ASSUME NEW M \in 0 .. N - 1, M \in U PROVE M + 1 \in U
    <2>1. M + 1 \in 1 .. N /\ (M + 1) - 1 = M
      OBVIOUS
    <2>2. r[(M + 1) - 1] \in X
      <3>1. r[(M + 1) - 1] = r[M]
        BY <2>1
      <3> QED
        BY <1>2, <3>1
    <2> QED
      BY <2>1, <2>2
  <1>3. 0 .. N \subseteq U
    <2> HIDE DEF U
    <2> QED
      BY <1>1, <1>2, Induction
  <1> QED
    BY <1>3

-----------------------------------------------------------------------------
(* Networks *)

\* The network without anything is one, and the only one whose halves are both empty.
LEMMA NothingIsANetwork ==
    /\ NoNetwork \in Network /\ DOMAIN NoNetwork.v1 = {} /\ DOMAIN NoNetwork.v2 = {}
    /\ \A n \in Network : n # NoNetwork <=> DOMAIN n.v1 # {} \/ DOMAIN n.v2 # {}
  <1> DEFINE nil == <<>>
  <1>1. DOMAIN nil = {} /\ nil \in [{} -> Seq(Subnet)] /\ nil \in [{} -> Stanza]
    OBVIOUS
  <1>2. \A h : DOMAIN h = {} /\ h = [x \in DOMAIN h |-> h[x]] => h = nil
    OBVIOUS
  <1> HIDE DEF nil
  <1>3. NoNetwork = [v1 |-> nil, v2 |-> nil]
    BY DEF NoNetwork, nil
  <1>4. nil \in V1({}) /\ nil \in V2({})
    BY <1>1 DEF V1, V2
  <1>5. nil \in UNION {V1(S) : S \in SUBSET Iface} /\ nil \in UNION {V2(K) : K \in SUBSET Key}
    BY <1>4
  <1>6. NoNetwork \in Network
    BY <1>3, <1>5 DEF Network
  <1>7. ASSUME NEW n \in Network, DOMAIN n.v1 = {}, DOMAIN n.v2 = {} PROVE n = NoNetwork
    <2>1. n = [v1 |-> n.v1, v2 |-> n.v2]
      BY DEF Network
    <2>2. n.v1 = [x \in DOMAIN n.v1 |-> n.v1[x]] /\ n.v2 = [x \in DOMAIN n.v2 |-> n.v2[x]]
      BY DEF Network, V1, V2
    <2>3. n.v1 = nil /\ n.v2 = nil
      BY <1>2, <1>7, <2>2
    <2> QED
      BY <1>3, <2>1, <2>3
  <1> QED
    BY <1>1, <1>3, <1>6, <1>7

\* What a network is made of.
LEMMA NetworkParts ==
    ASSUME NEW n \in Network
    PROVE  /\ n = [v1 |-> n.v1, v2 |-> n.v2]
           /\ DOMAIN n.v1 \in SUBSET Iface /\ n.v1 \in [DOMAIN n.v1 -> Seq(Subnet)]
           /\ DOMAIN n.v2 \in SUBSET Key /\ n.v2 \in [DOMAIN n.v2 -> Stanza]
  BY DEF Network, V1, V2

\* Two halves make a network.
LEMMA NetworkOf ==
    ASSUME NEW S \in SUBSET Iface, NEW h \in [S -> Seq(Subnet)],
           NEW K \in SUBSET Key, NEW q \in [K -> Stanza]
    PROVE  [v1 |-> h, v2 |-> q] \in Network
  BY DEF Network, V1, V2

\* The entries of a network, half by half.
LEMMA EntriesParts ==
    ASSUME NEW n, NEW e
    PROVE  e \in Entries(n) <=> (\E x \in DOMAIN n.v1 : e = <<"v1", x>>)
                             \/ (\E k \in DOMAIN n.v2 : e = <<"v2", k>>)
  BY DEF Entries, V1Entries, V2Entries

\* A text has a section that is a network, and it is not the lack of one.
LEMMA TextParts ==
    ASSUME NEW t \in Text
    PROVE  /\ t # Absent /\ t = [net |-> t.net, other |-> t.other] /\ t.other \in BOOLEAN
           /\ t.net # Absent => t.net \in Network
  BY CloudInitAssumption DEF Text

\* A text of a section or none.
LEMMA TextOf ==
    ASSUME NEW n \in Network \cup {Absent}, NEW other \in BOOLEAN
    PROVE  [net |-> n, other |-> other] \in Text
  BY DEF Text

\* A stanza filled from another is a stanza.
LEMMA FilledIsAStanza ==
    ASSUME NEW a \in Stanza, NEW b \in Stanza
    PROVE  Filled(a, b) \in Stanza
  <1> DEFINE D == [f \in Families |-> IF a.dhcp[f] = "on" \/ b.dhcp[f] = Unset THEN a.dhcp[f]
                                       ELSE b.dhcp[f]]
             A == IF a.addresses = <<>> THEN b.addresses ELSE a.addresses
             G == a.gateways \cup {g \in b.gateways :
                                     \A h \in a.gateways : FamilyOf[h] # FamilyOf[g]}
             R == IF a.routes = {} THEN b.routes ELSE a.routes
             S == IF a.servers = {} THEN b.servers ELSE a.servers
  <1>1. D \in [Families -> {"on", "off", Unset}]
    BY DEF Stanza
  <1>2. A \in Seq(Addresses)
    BY DEF Stanza
  <1>3. G \in SUBSET Gateways /\ R \in SUBSET Routes /\ S \in SUBSET Servers
    BY DEF Stanza
  <1>4. Filled(a, b) = [addresses |-> A, gateways |-> G, dhcp |-> D, routes |-> R, servers |-> S]
    BY DEF Filled
  <1> HIDE DEF A, D, G, R, S
  <1> QED
    BY <1>1, <1>2, <1>3, <1>4 DEF Stanza

\* Networks merged are a network.  The list is the first that is not empty, the stanzas
\* are those of both.
LEMMA MergeFacts ==
    ASSUME NEW a \in Network, NEW b \in Network
    PROVE  /\ Merge(a, b) \in Network
           /\ Merge(a, b).v1 = IF DOMAIN a.v1 = {} THEN b.v1 ELSE a.v1
           /\ DOMAIN Merge(a, b).v2 = DOMAIN a.v2 \cup DOMAIN b.v2
           /\ DOMAIN a.v2 = {} => Merge(a, b).v2 = b.v2
  <1> DEFINE h == IF DOMAIN a.v1 = {} THEN b.v1 ELSE a.v1
             K == DOMAIN a.v2 \cup DOMAIN b.v2
             F(k) == IF k \notin DOMAIN b.v2 THEN a.v2[k]
                     ELSE IF k \notin DOMAIN a.v2 THEN b.v2[k] ELSE Filled(a.v2[k], b.v2[k])
             q == [k \in K |-> F(k)]
  <1>1. Merge(a, b) = [v1 |-> h, v2 |-> q]
    BY DEF Merge
  <1>2. h \in [DOMAIN h -> Seq(Subnet)] /\ DOMAIN h \in SUBSET Iface
    BY NetworkParts
  <1>3. \A k \in K : F(k) \in Stanza
    BY NetworkParts, FilledIsAStanza
  <1>4. K \in SUBSET Key
    BY NetworkParts
  <1>5. ASSUME DOMAIN a.v2 = {} PROVE q = b.v2
    <2>1. K = DOMAIN b.v2 /\ \A k \in K : F(k) = b.v2[k]
      BY <1>5
    <2>2. b.v2 = [k \in DOMAIN b.v2 |-> b.v2[k]]
      BY NetworkParts
    <2> HIDE DEF F, K
    <2> QED
      BY <2>1, <2>2
  <1>6. q \in [K -> Stanza] /\ DOMAIN q = K
    <2> HIDE DEF F, K
    <2> QED
      BY <1>3
  <1> HIDE DEF F, h, q
  <1>7. [v1 |-> h, v2 |-> q] \in Network
    <2> HIDE DEF K
    <2> QED
      BY <1>2, <1>4, <1>6, NetworkOf
  <1> QED
    BY <1>1, <1>5, <1>6, <1>7 DEF h

-----------------------------------------------------------------------------
(* What is read *)

\* The order names files, each of them once, and of a section there is a network.
LEMMA OrderFacts ==
    /\ Order \in Seq(Files) /\ Len(Order) \in Nat /\ DOMAIN Order = 1 .. Len(Order)
    /\ \A k \in DOMAIN Order : Order[k] \in Files
    /\ \A m, n \in DOMAIN Order : Order[m] = Order[n] => m = n
    /\ Len(BaseFiles) \in Nat /\ Len(BaseFiles) <= Len(Order)
    /\ DOMAIN BaseFiles = 1 .. Len(BaseFiles)
    /\ \A k \in 1 .. Len(BaseFiles) : Order[k] = BaseFiles[k]
    /\ \A d \in Directory, f \in Files : HasSection(d, f) =>
          d[f] \in Text /\ d[f].net \in Network /\ d[f].other \in BOOLEAN
  <1>1. BaseFiles \in Seq(Files) /\ DropIns \in Seq(Files)
        /\ \A m, n \in DOMAIN Order : Order[m] = Order[n] => m = n
    BY CloudInitAssumption
  <1>2. Order \in Seq(Files) /\ Len(Order) = Len(BaseFiles) + Len(DropIns)
        /\ \A k \in 1 .. Len(BaseFiles) : Order[k] = BaseFiles[k]
    BY <1>1 DEF Order
  <1>3. ASSUME NEW d \in Directory, NEW f \in Files, HasSection(d, f)
        PROVE  d[f] \in Text /\ d[f].net \in Network /\ d[f].other \in BOOLEAN
    <2>1. d[f] \in Text /\ d[f].net # Absent
      BY <1>3 DEF Directory, HasSection
    <2> QED
      BY <2>1, TextParts
  <1> HIDE DEF Order
  <1>4. Len(Order) \in Nat /\ DOMAIN Order = 1 .. Len(Order)
        /\ \A k \in DOMAIN Order : Order[k] \in Files
    BY <1>2
  <1>5. Len(BaseFiles) \in Nat /\ Len(DropIns) \in Nat /\ DOMAIN BaseFiles = 1 .. Len(BaseFiles)
    BY <1>1
  <1>6. Len(BaseFiles) <= Len(Order)
    BY <1>2, <1>5
  <1> QED
    BY <1>1, <1>2, <1>3, <1>4, <1>5, <1>6

\* The files merged one by one, as they are read.
LEMMA EffectiveEquation ==
    ASSUME NEW d \in Directory
    PROVE  /\ EffectiveUpTo(d)[0] = NoNetwork
           /\ \A k \in 1 .. Len(Order) :
                EffectiveUpTo(d)[k] =
                    IF Used(d, k) THEN Merge(EffectiveUpTo(d)[k - 1], d[Order[k]].net)
                    ELSE EffectiveUpTo(d)[k - 1]
           /\ \A k \in 0 .. Len(Order) : EffectiveUpTo(d)[k] \in Network
  <1> DEFINE N == Len(Order)
             turn(s, k) == IF Used(d, k) THEN Merge(s, d[Order[k]].net) ELSE s
             step(r, k) == IF Used(d, k) THEN Merge(r[k - 1], d[Order[k]].net) ELSE r[k - 1]
             Solves(r) == r = [k \in 0 .. N |-> IF k = 0 THEN NoNetwork ELSE step(r, k)]
             g == [k \in 1 .. N |-> [s \in Network |-> turn(s, k)]]
  <1>0. N \in Nat /\ NoNetwork \in Network
    BY OrderFacts, NothingIsANetwork
  <1>1. ASSUME NEW k \in 1 .. N, NEW s \in Network PROVE turn(s, k) \in Network
    <2>1. Used(d, k) => d[Order[k]].net \in Network
      BY OrderFacts DEF Used
    <2> QED
      BY <2>1, MergeFacts
  <1>2. g \in [1 .. N -> [Network -> Network]]
    <2> HIDE DEF turn
    <2> QED
      BY <1>1
  <1>3. PICK r \in [0 .. N -> Network] : Chain(r, N, NoNetwork, g)
    <2> HIDE DEF g, N
    <2> QED
      BY <1>0, <1>2, Recursion
  <1>4. ASSUME NEW k \in 1 .. N PROVE r[k] = step(r, k)
    <2>1. r[k] = g[k][r[k - 1]] /\ r[k - 1] \in Network
      <3> HIDE DEF g
      <3> QED
        BY <1>0, <1>3 DEF Chain
    <2>2. g[k][r[k - 1]] = turn(r[k - 1], k)
      <3> HIDE DEF turn
      <3> QED
        BY <2>1
    <2> QED
      BY <2>1, <2>2
  <1>5. Solves(r)
    <2> HIDE DEF step
    <2>1. \A k \in 0 .. N : r[k] = IF k = 0 THEN NoNetwork ELSE step(r, k)
      BY <1>0, <1>3, <1>4 DEF Chain
    <2> QED
      BY <2>1
  <1> DEFINE F == CHOOSE q : q = [k \in 0 .. N |-> IF k = 0 THEN NoNetwork ELSE step(q, k)]
  <1>6. EffectiveUpTo(d) = F
    BY DEF EffectiveUpTo
  <1>7. Solves(F)
    <2> HIDE DEF step
    <2> QED
      BY <1>5
  <1> HIDE DEF F
  <1>8. F[0] = NoNetwork /\ \A k \in 1 .. N : F[k] = step(F, k)
    <2> HIDE DEF step
    <2> QED
      BY <1>0, <1>7
  <1>9. \A k \in 0 .. N : F[k] \in Network
    <2>1. ASSUME NEW k \in 1 .. N, F[k - 1] \in Network PROVE F[k] \in Network
      <3>1. F[k] = turn(F[k - 1], k)
        BY <1>8
      <3> HIDE DEF turn
      <3> QED
        BY <2>1, <3>1, <1>1
    <2> HIDE DEF step, N
    <2> QED
      BY <1>0, <1>8, <2>1, Invariance
  <1> QED
    BY <1>6, <1>8, <1>9

\* The files with a network, as they are found.
LEMMA FilesEquation ==
    ASSUME NEW d \in Directory
    PROVE  /\ FilesUpTo(d)[0] = <<>>
           /\ \A k \in 1 .. Len(Order) :
                FilesUpTo(d)[k] =
                    IF Used(d, k)
                    THEN Append(FilesUpTo(d)[k - 1],
                                [path |-> Order[k], onlyNetwork |-> ~d[Order[k]].other])
                    ELSE FilesUpTo(d)[k - 1]
           /\ \A k \in 0 .. Len(Order) : FilesUpTo(d)[k] \in Seq(CiFile)
  <1> DEFINE N == Len(Order)
             b == <<>>
             X == Seq(CiFile)
             ci(k) == [path |-> Order[k], onlyNetwork |-> ~d[Order[k]].other]
             turn(s, k) == IF Used(d, k) THEN Append(s, ci(k)) ELSE s
             step(r, k) == IF Used(d, k) THEN Append(r[k - 1], ci(k)) ELSE r[k - 1]
             Solves(r) == r = [k \in 0 .. N |-> IF k = 0 THEN b ELSE step(r, k)]
             g == [k \in 1 .. N |-> [s \in X |-> turn(s, k)]]
  <1>0. N \in Nat /\ b \in X
    BY OrderFacts
  <1>1. ASSUME NEW k \in 1 .. N, NEW s \in X PROVE turn(s, k) \in X
    <2>1. Used(d, k) => ci(k) \in CiFile
      BY OrderFacts DEF Used, CiFile
    <2> HIDE DEF ci
    <2> QED
      BY <2>1
  <1> HIDE DEF X
  <1>2. g \in [1 .. N -> [X -> X]]
    <2> HIDE DEF turn
    <2> QED
      BY <1>1
  <1> HIDE DEF b
  <1>3. PICK r \in [0 .. N -> X] : Chain(r, N, b, g)
    <2> HIDE DEF g, N
    <2> QED
      BY <1>0, <1>2, Recursion
  <1>4. ASSUME NEW k \in 1 .. N PROVE r[k] = step(r, k)
    <2>1. r[k] = g[k][r[k - 1]] /\ r[k - 1] \in X
      <3> HIDE DEF g
      <3> QED
        BY <1>0, <1>3 DEF Chain
    <2>2. g[k][r[k - 1]] = turn(r[k - 1], k)
      <3> HIDE DEF turn
      <3> QED
        BY <2>1
    <2> QED
      BY <2>1, <2>2
  <1>5. Solves(r)
    <2> HIDE DEF step
    <2>1. \A k \in 0 .. N : r[k] = IF k = 0 THEN b ELSE step(r, k)
      BY <1>0, <1>3, <1>4 DEF Chain
    <2> QED
      BY <2>1
  <1> DEFINE F == CHOOSE q : q = [k \in 0 .. N |-> IF k = 0 THEN b ELSE step(q, k)]
  <1>6. FilesUpTo(d) = F
    BY DEF FilesUpTo, b
  <1>7. Solves(F)
    <2> HIDE DEF step
    <2> QED
      BY <1>5
  <1> HIDE DEF F
  <1>8. F[0] = b /\ \A k \in 1 .. N : F[k] = step(F, k)
    <2> HIDE DEF step
    <2> QED
      BY <1>0, <1>7
  <1>9. \A k \in 0 .. N : F[k] \in X
    <2>1. ASSUME NEW k \in 1 .. N, F[k - 1] \in X PROVE F[k] \in X
      <3>1. F[k] = turn(F[k - 1], k)
        BY <1>8
      <3> HIDE DEF turn
      <3> QED
        BY <2>1, <3>1, <1>1
    <2> HIDE DEF step, N
    <2> QED
      BY <1>0, <1>8, <2>1, Invariance
  <1> QED
    BY <1>6, <1>8, <1>9 DEF b, X

\* Only one base file is used.
LEMMA OneBaseIsUsed ==
    ASSUME NEW d \in Directory, NEW k \in DOMAIN Order, NEW m \in DOMAIN Order,
           Used(d, k), Used(d, m), k <= Len(BaseFiles), m <= Len(BaseFiles)
    PROVE  k = m
  <1>1. d[Order[k]] # Absent /\ d[Order[m]] # Absent
    BY DEF Used, HasSection
  <1>2. k \in Nat /\ m \in Nat /\ k >= 1 /\ m >= 1 /\ Len(BaseFiles) \in Nat
    BY OrderFacts
  <1>3. ~(m \in 1 .. k - 1) /\ ~(k \in 1 .. m - 1)
    BY <1>1 DEF Used
  <1> QED
    BY <1>2, <1>3

\* What the first k files merged have: the stanzas of those that are used, and the list
\* of the first of them that has one.
MergedUpTo(d, k) ==
    /\ \A x : x \in DOMAIN EffectiveUpTo(d)[k].v2 <=>
          \E m \in 1 .. k : Used(d, m) /\ x \in DOMAIN d[Order[m]].net.v2
    /\ DOMAIN EffectiveUpTo(d)[k].v1 = {} <=>
          \A m \in 1 .. k : Used(d, m) => DOMAIN d[Order[m]].net.v1 = {}
    /\ \A m \in 1 .. k :
          /\ Used(d, m) /\ DOMAIN d[Order[m]].net.v1 # {}
          /\ \A j \in 1 .. m - 1 : Used(d, j) => DOMAIN d[Order[j]].net.v1 = {}
          => EffectiveUpTo(d)[k].v1 = d[Order[m]].net.v1

\* One file more is merged.
LEMMA MergedStep ==
    ASSUME NEW d \in Directory, NEW h \in 0 .. Len(Order) - 1, MergedUpTo(d, h)
    PROVE  MergedUpTo(d, h + 1)
  <1> DEFINE E == EffectiveUpTo(d)[h]
             G == EffectiveUpTo(d)[h + 1]
             S(m) == d[Order[m]].net
  <1>1. h + 1 \in 1 .. Len(Order) /\ h \in 0 .. Len(Order) /\ (h + 1) - 1 = h
        /\ h \in Nat
    BY OrderFacts
  <1>2. E \in Network /\ G = IF Used(d, h + 1) THEN Merge(E, S(h + 1)) ELSE E
    <2>1. EffectiveUpTo(d)[(h + 1) - 1] = E
      BY <1>1
    <2> QED
      BY <1>1, <2>1, EffectiveEquation
  <1>3. Used(d, h + 1) => S(h + 1) \in Network
    BY <1>1, OrderFacts DEF Used
  <1>4. /\ \A x : x \in DOMAIN E.v2 <=> \E m \in 1 .. h : Used(d, m) /\ x \in DOMAIN S(m).v2
        /\ DOMAIN E.v1 = {} <=> \A m \in 1 .. h : Used(d, m) => DOMAIN S(m).v1 = {}
        /\ \A m \in 1 .. h :
              /\ Used(d, m) /\ DOMAIN S(m).v1 # {}
              /\ \A j \in 1 .. m - 1 : Used(d, j) => DOMAIN S(j).v1 = {}
              => E.v1 = S(m).v1
    BY DEF MergedUpTo
  <1>5. /\ IF Used(d, h + 1) THEN /\ DOMAIN G.v2 = DOMAIN E.v2 \cup DOMAIN S(h + 1).v2
                                  /\ G.v1 = IF DOMAIN E.v1 = {} THEN S(h + 1).v1 ELSE E.v1
           ELSE G.v1 = E.v1 /\ G.v2 = E.v2
    BY <1>2, <1>3, MergeFacts
  <1>6. \A m \in 1 .. h + 1 : m = h + 1 \/ m \in 1 .. h
    BY <1>1
  <1>7. \A m \in 1 .. h : m \in 1 .. h + 1
    BY <1>1
  <1> HIDE DEF E, G, S
  <1>8. \A x : x \in DOMAIN G.v2 <=>
            \E m \in 1 .. h + 1 : Used(d, m) /\ x \in DOMAIN S(m).v2
    BY <1>1, <1>4, <1>5, <1>6, <1>7
  <1>9. DOMAIN G.v1 = {} <=> \A m \in 1 .. h + 1 : Used(d, m) => DOMAIN S(m).v1 = {}
    BY <1>1, <1>4, <1>5, <1>6, <1>7
  <1>10. ASSUME NEW m \in 1 .. h + 1, Used(d, m), DOMAIN S(m).v1 # {},
                \A j \in 1 .. m - 1 : Used(d, j) => DOMAIN S(j).v1 = {}
         PROVE  G.v1 = S(m).v1
    <2>1. CASE m = h + 1
      <3>1. DOMAIN E.v1 = {}
        BY <1>1, <1>4, <1>10, <2>1
      <3> QED
        BY <1>5, <1>10, <2>1, <3>1
    <2>2. CASE m \in 1 .. h
      <3>1. E.v1 = S(m).v1
        BY <1>4, <1>10, <2>2
      <3> QED
        BY <1>5, <1>10, <3>1
    <2> QED
      BY <1>6, <2>1, <2>2
  <1> QED
    BY <1>8, <1>9, <1>10 DEF MergedUpTo, G, S

\* All files merged.
LEMMA Merged ==
    ASSUME NEW d \in Directory
    PROVE  MergedUpTo(d, Len(Order)) /\ Effective(d) \in Network
  <1> DEFINE N == Len(Order)
             T == {k \in 0 .. N : MergedUpTo(d, k)}
  <1>0. N \in Nat
    BY OrderFacts
  <1>1. MergedUpTo(d, 0)
    BY EffectiveEquation, NothingIsANetwork DEF MergedUpTo
  <1>2. \A m \in 0 .. N - 1 : m \in T => m + 1 \in T
    BY <1>0, MergedStep
  <1>3. 0 \in T
    BY <1>0, <1>1
  <1>4. 0 .. N \subseteq T
    <2> HIDE DEF N, T
    <2> QED
      BY <1>0, <1>2, <1>3, Induction
  <1>5. N \in T
    BY <1>0, <1>4
  <1> QED
    BY <1>0, <1>5, EffectiveEquation DEF Effective

\* With a section in one file only, its network is read.
LEMMA OneSectionIsRead ==
    ASSUME NEW d \in Directory, NEW m \in DOMAIN Order, Used(d, m),
           \A k \in DOMAIN Order : Used(d, k) => k = m
    PROVE  Effective(d) = d[Order[m]].net
  <1> DEFINE N == Len(Order)
             E == EffectiveUpTo(d)
             n == d[Order[m]].net
             T == {k \in 0 .. N : E[k] = IF k < m THEN NoNetwork ELSE n}
  <1>0. N \in Nat /\ m \in 1 .. N /\ n \in Network
    BY OrderFacts DEF Used
  <1>1. Merge(NoNetwork, n) = n
    <2>1. Merge(NoNetwork, n) \in Network /\ Merge(NoNetwork, n).v1 = n.v1
          /\ Merge(NoNetwork, n).v2 = n.v2
      BY <1>0, MergeFacts, NothingIsANetwork
    <2> HIDE DEF n
    <2>2. Merge(NoNetwork, n) = [v1 |-> n.v1, v2 |-> n.v2]
      BY <2>1, NetworkParts
    <2> QED
      BY <1>0, <2>2, NetworkParts
  <1>2. ASSUME NEW h \in 0 .. N - 1, E[h] = IF h < m THEN NoNetwork ELSE n
        PROVE  E[h + 1] = IF h + 1 < m THEN NoNetwork ELSE n
    <2>1. h + 1 \in 1 .. N /\ h + 1 \in DOMAIN Order /\ (h + 1) - 1 = h
      BY <1>0, OrderFacts
    <2>2. E[(h + 1) - 1] = E[h]
      BY <2>1
    <2>3. E[h + 1] = IF Used(d, h + 1) THEN Merge(E[h], d[Order[h + 1]].net) ELSE E[h]
      BY <2>1, <2>2, EffectiveEquation
    <2>4. Used(d, h + 1) <=> h + 1 = m
      BY <2>1
    <2> HIDE DEF E, N
    <2> QED
      BY <1>0, <1>1, <1>2, <2>1, <2>3, <2>4
  <1>3. 0 \in T
    BY <1>0, EffectiveEquation
  <1>4. \A h \in 0 .. N - 1 : h \in T => h + 1 \in T
    <2> HIDE DEF E, n
    <2> QED
      BY <1>0, <1>2
  <1>5. 0 .. N \subseteq T
    <2> HIDE DEF N, T
    <2> QED
      BY <1>0, <1>3, <1>4, Induction
  <1>6. N \in T
    BY <1>0, <1>5
  <1>7. E[N] = n
    <2> HIDE DEF E, N, n
    <2> QED
      BY <1>0, <1>6
  <1> QED
    BY <1>7 DEF Effective

\* A list that is read is that of the first file used that has one.
FirstList(d, m) ==
    /\ Used(d, m) /\ DOMAIN d[Order[m]].net.v1 # {}
    /\ \A j \in 1 .. m - 1 : Used(d, j) => DOMAIN d[Order[j]].net.v1 = {}

\* The list of the first file that has one is read.
LEMMA FirstListIsRead ==
    ASSUME NEW d \in Directory, NEW m \in DOMAIN Order, FirstList(d, m)
    PROVE  Effective(d).v1 = d[Order[m]].net.v1
  BY Merged, OrderFacts DEF MergedUpTo, Effective, FirstList

\* There is such a file where there is a list.
LEMMA FirstListExists ==
    ASSUME NEW d \in Directory, NEW q \in DOMAIN Order, Used(d, q),
           DOMAIN d[Order[q]].net.v1 # {}
    PROVE  \E m \in DOMAIN Order : FirstList(d, m)
  <1> DEFINE N == Len(Order)
             S(m) == d[Order[m]].net
             T == {m \in 1 .. N : Used(d, m) /\ DOMAIN S(m).v1 # {}}
  <1>0. N \in Nat /\ DOMAIN Order = 1 .. N
    BY OrderFacts
  <1>1. T # {} /\ T \in SUBSET Nat
    <2>1. q \in T
      <3> HIDE DEF N
      <3> QED
        BY <1>0
    <2>2. T \in SUBSET (1 .. N)
      OBVIOUS
    <2>3. SUBSET (1 .. N) \subseteq SUBSET Nat
      BY <1>0
    <2> HIDE DEF T
    <2> QED
      BY <2>1, <2>2, <2>3
  <1>2. PICK m \in T : \A k \in T : m <= k
    <2> HIDE DEF T
    <2> QED
      BY <1>1, Least
  <1>3. \A j \in 1 .. m - 1 : Used(d, j) => DOMAIN S(j).v1 = {}
    <2>1. \A j \in 1 .. m - 1 : j \in 1 .. N /\ ~(m <= j)
      BY <1>0
    <2> HIDE DEF S
    <2> QED
      BY <1>2, <2>1
  <1> HIDE DEF N
  <1> QED
    BY <1>0, <1>2, <1>3 DEF FirstList

\* A stanza of a file that is used is read.
LEMMA StanzaIsRead ==
    ASSUME NEW d \in Directory, NEW m \in DOMAIN Order, Used(d, m),
           NEW x \in DOMAIN d[Order[m]].net.v2
    PROVE  x \in DOMAIN Effective(d).v2
  BY Merged, OrderFacts DEF MergedUpTo, Effective

\* An entry that is read is one of a section that is used; one of the list is one of the
\* first list.
LEMMA ReadFromASection ==
    ASSUME NEW d \in Directory, NEW e \in Entries(Effective(d))
    PROVE  /\ \E m \in DOMAIN Order : Used(d, m) /\ e \in Entries(d[Order[m]].net)
           /\ \A x : e = <<"v1", x>> => x \in DOMAIN Effective(d).v1
                                    /\ \E m \in DOMAIN Order : FirstList(d, m)
           /\ \A x : e = <<"v2", x>> => \E m \in DOMAIN Order :
                 Used(d, m) /\ x \in DOMAIN d[Order[m]].net.v2
  <1> DEFINE N == Len(Order)
             S(m) == d[Order[m]].net
             E == Effective(d)
  <1>0. N \in Nat /\ DOMAIN Order = 1 .. N
    BY OrderFacts
  <1>1. CASE \E x \in DOMAIN E.v1 : e = <<"v1", x>>
    <2>1. PICK x \in DOMAIN E.v1 : e = <<"v1", x>>
      BY <1>1
    <2>2. \E q \in DOMAIN Order : Used(d, q) /\ DOMAIN S(q).v1 # {}
      BY <1>0, Merged DEF MergedUpTo, Effective
    <2>3. PICK m \in DOMAIN Order : FirstList(d, m)
      BY <2>2, FirstListExists
    <2>4. E.v1 = S(m).v1 /\ Used(d, m)
      BY <2>3, FirstListIsRead DEF FirstList
    <2> HIDE DEF E, S
    <2>5. e \in Entries(S(m))
      BY <2>1, <2>4, EntriesParts
    <2>6. \A y : e = <<"v1", y>> => y \in DOMAIN E.v1
      BY <2>1
    <2>7. \A y : e # <<"v2", y>>
      BY <2>1
    <2> QED
      BY <2>3, <2>4, <2>5, <2>6, <2>7 DEF S, E
  <1>2. CASE \E x \in DOMAIN E.v2 : e = <<"v2", x>>
    <2>1. PICK x \in DOMAIN E.v2 : e = <<"v2", x>>
      BY <1>2
    <2>2. PICK m \in DOMAIN Order : Used(d, m) /\ x \in DOMAIN S(m).v2
      BY <1>0, Merged DEF MergedUpTo, Effective
    <2> HIDE DEF E, S
    <2>3. e \in Entries(S(m))
      BY <2>1, <2>2, EntriesParts
    <2>4. \A y : e # <<"v1", y>>
      BY <2>1
    <2>5. \A y : e = <<"v2", y>> => y = x
      BY <2>1
    <2> QED
      BY <2>2, <2>3, <2>4, <2>5 DEF S
  <1> QED
    BY <1>1, <1>2, EntriesParts

\* The first k files' list: those that are used, in their order.
FoundUpTo(d, k) ==
    /\ \A n \in DOMAIN FilesUpTo(d)[k] :
          \E m \in 1 .. k : Used(d, m) /\ FilesUpTo(d)[k][n].path = Order[m]
    /\ \A m \in 1 .. k : Used(d, m) =>
          \E n \in DOMAIN FilesUpTo(d)[k] : FilesUpTo(d)[k][n].path = Order[m]
    /\ Listed(FilesUpTo(d)[k])

\* One file more is listed.
LEMMA FoundStep ==
    ASSUME NEW d \in Directory, NEW h \in 0 .. Len(Order) - 1, FoundUpTo(d, h)
    PROVE  FoundUpTo(d, h + 1)
  <1> DEFINE F == FilesUpTo(d)[h]
             G == FilesUpTo(d)[h + 1]
             x == [path |-> Order[h + 1], onlyNetwork |-> ~d[Order[h + 1]].other]
             X == Seq(CiFile)
  <1>1. h + 1 \in 1 .. Len(Order) /\ h \in 0 .. Len(Order) /\ (h + 1) - 1 = h /\ h \in Nat
        /\ h + 1 \in DOMAIN Order
    BY OrderFacts
  <1>2. F \in Seq(CiFile) /\ G = IF Used(d, h + 1) THEN Append(F, x) ELSE F
    <2> HIDE DEF x
    <2>1. FilesUpTo(d)[(h + 1) - 1] = F
      BY <1>1
    <2>2. G = IF Used(d, h + 1) THEN Append(FilesUpTo(d)[(h + 1) - 1], x)
              ELSE FilesUpTo(d)[(h + 1) - 1]
      BY <1>1, FilesEquation DEF x
    <2>3. F \in Seq(CiFile)
      BY <1>1, FilesEquation
    <2> HIDE DEF F, G
    <2> QED
      BY <2>1, <2>2, <2>3
  <1>3. /\ \A n \in DOMAIN F : \E m \in 1 .. h : Used(d, m) /\ F[n].path = Order[m]
        /\ \A m \in 1 .. h : Used(d, m) => \E n \in DOMAIN F : F[n].path = Order[m]
        /\ Listed(F)
    BY DEF FoundUpTo
  <1>4. \A m \in 1 .. h + 1 : m = h + 1 \/ m \in 1 .. h
    BY <1>1
  <1>5. \A m \in 1 .. h : m \in 1 .. h + 1 /\ m \in DOMAIN Order /\ m < h + 1
    BY <1>1, OrderFacts
  <1>6. x.path = Order[h + 1]
    OBVIOUS
  <1> HIDE DEF F, G, x
  <1>7. CASE ~Used(d, h + 1)
    <2>1. G = F
      BY <1>2, <1>7
    <2>2. \A n \in DOMAIN G : \E m \in 1 .. h + 1 : Used(d, m) /\ G[n].path = Order[m]
      BY <1>3, <1>5, <2>1
    <2>3. \A m \in 1 .. h + 1 : Used(d, m) => \E n \in DOMAIN G : G[n].path = Order[m]
      BY <1>3, <1>4, <1>7, <2>1
    <2> QED
      BY <1>3, <2>1, <2>2, <2>3 DEF FoundUpTo, G
  <1>8. CASE Used(d, h + 1)
    <2> DEFINE L == Len(F)
    <2>0. L \in Nat /\ DOMAIN F = 1 .. L
      BY <1>2
    <2>1. /\ DOMAIN G = 1 .. L + 1 /\ G[L + 1] = x
          /\ \A n \in 1 .. L : G[n] = F[n]
      BY <1>2, <1>8
    <2>2. \A n \in DOMAIN G : n = L + 1 \/ n \in DOMAIN F
      BY <2>0, <2>1
    <2> HIDE DEF L
    <2>3. \A n \in DOMAIN G : \E m \in 1 .. h + 1 : Used(d, m) /\ G[n].path = Order[m]
      <3>1. ASSUME NEW n \in DOMAIN F
            PROVE  \E m \in 1 .. h + 1 : Used(d, m) /\ G[n].path = Order[m]
        <4>1. PICK m \in 1 .. h : Used(d, m) /\ F[n].path = Order[m]
          BY <1>3
        <4>2. G[n] = F[n] /\ m \in 1 .. h + 1
          BY <1>5, <2>0, <2>1
        <4> QED
          BY <4>1, <4>2
      <3>2. h + 1 \in 1 .. h + 1
        BY <1>1
      <3> QED
        BY <1>6, <1>8, <2>1, <2>2, <3>1, <3>2
    <2>4. \A m \in 1 .. h + 1 : Used(d, m) => \E n \in DOMAIN G : G[n].path = Order[m]
      <3>1. L + 1 \in DOMAIN G /\ G[L + 1].path = Order[h + 1]
        BY <1>6, <2>0, <2>1
      <3>2. ASSUME NEW m \in 1 .. h, Used(d, m) PROVE \E n \in DOMAIN G : G[n].path = Order[m]
        <4>1. PICK n \in DOMAIN F : F[n].path = Order[m]
          BY <1>3, <3>2
        <4>2. n \in DOMAIN G /\ G[n] = F[n]
          BY <2>0, <2>1
        <4> QED
          BY <4>1, <4>2
      <3> QED
        BY <1>4, <3>1, <3>2
    <2>5. Listed(G)
      <3> SUFFICES ASSUME NEW m \in DOMAIN G, NEW n \in DOMAIN G,
                          NEW a \in DOMAIN Order, NEW b \in DOMAIN Order,
                          Order[a] = G[m].path, Order[b] = G[n].path
                   PROVE  m < n <=> a < b
        BY DEF Listed
      <3>1. /\ m \in DOMAIN F => a \in 1 .. h /\ G[m] = F[m]
            /\ n \in DOMAIN F => b \in 1 .. h /\ G[n] = F[n]
        <4>1. ASSUME NEW q \in DOMAIN F, NEW c \in DOMAIN Order, Order[c] = G[q].path
              PROVE  c \in 1 .. h /\ G[q] = F[q]
          <5>1. G[q] = F[q]
            BY <2>0, <2>1
          <5>2. PICK z \in 1 .. h : F[q].path = Order[z]
            BY <1>3
          <5>3. c = z
            BY <1>5, <4>1, <5>1, <5>2, OrderFacts
          <5> QED
            BY <5>1, <5>3
        <4> QED
          BY <4>1
      <3>2. /\ m = L + 1 => a = h + 1
            /\ n = L + 1 => b = h + 1
        BY <1>1, <1>6, <2>1, OrderFacts
      <3>3. CASE m \in DOMAIN F /\ n \in DOMAIN F
        BY <1>3, <3>1, <3>3 DEF Listed
      <3>4. CASE m \in DOMAIN F /\ n = L + 1
        BY <1>1, <2>0, <3>1, <3>2, <3>4
      <3>5. CASE m = L + 1 /\ n \in DOMAIN F
        BY <1>1, <2>0, <3>1, <3>2, <3>5
      <3>6. CASE m = L + 1 /\ n = L + 1
        BY <1>1, <2>0, <3>2, <3>6
      <3> QED
        BY <2>2, <3>3, <3>4, <3>5, <3>6
    <2> QED
      BY <2>3, <2>4, <2>5 DEF FoundUpTo, G
  <1> QED
    BY <1>7, <1>8

\* The files of a new process: those that are used, in their order.
LEMMA FilesRead ==
    ASSUME NEW d \in Directory
    PROVE  /\ ReadFiles(d) \in Seq(CiFile) /\ Listed(ReadFiles(d))
           /\ \A n \in DOMAIN ReadFiles(d) :
                 \E m \in DOMAIN Order : Used(d, m) /\ ReadFiles(d)[n].path = Order[m]
           /\ \A m \in DOMAIN Order : Used(d, m) =>
                 \E n \in DOMAIN ReadFiles(d) : ReadFiles(d)[n].path = Order[m]
           /\ Effective(d) # NoNetwork => ReadFiles(d) # <<>>
  <1> DEFINE N == Len(Order)
             T == {k \in 0 .. N : FoundUpTo(d, k)}
             s == ReadFiles(d)
  <1>0. N \in Nat
    BY OrderFacts
  <1>1. FoundUpTo(d, 0)
    <2> DEFINE F == FilesUpTo(d)[0]
    <2>1. F = <<>>
      BY FilesEquation
    <2>2. DOMAIN F = {}
      BY <2>1
    <2> HIDE DEF F
    <2>3. Listed(F)
      BY <2>2 DEF Listed
    <2> QED
      BY <2>2, <2>3 DEF F, FoundUpTo
  <1>2. \A m \in 0 .. N - 1 : m \in T => m + 1 \in T
    BY <1>0, FoundStep
  <1>3. 0 \in T
    BY <1>0, <1>1
  <1>4. 0 .. N \subseteq T
    <2> HIDE DEF N, T
    <2> QED
      BY <1>0, <1>2, <1>3, Induction
  <1>5. N \in T
    BY <1>0, <1>4
  <1>6. DOMAIN Order = 1 .. N /\ s = FilesUpTo(d)[N] /\ s \in Seq(CiFile)
    BY <1>0, FilesEquation, OrderFacts DEF ReadFiles
  <1>7. /\ Listed(s)
        /\ \A n \in DOMAIN s : \E m \in DOMAIN Order : Used(d, m) /\ s[n].path = Order[m]
        /\ \A m \in DOMAIN Order : Used(d, m) => \E n \in DOMAIN s : s[n].path = Order[m]
    <2> HIDE DEF s
    <2> QED
      BY <1>5, <1>6 DEF FoundUpTo
  <1>8. ASSUME Effective(d) # NoNetwork PROVE s # <<>>
    <2>1. \E e : e \in Entries(Effective(d))
      <3>1. Effective(d) \in Network
        BY Merged
      <3>2. (\E x : x \in DOMAIN Effective(d).v1) \/ (\E x : x \in DOMAIN Effective(d).v2)
        BY <1>8, <3>1, NothingIsANetwork
      <3> QED
        BY <3>2, EntriesParts
    <2>2. \E m \in DOMAIN Order : Used(d, m)
      BY <2>1, ReadFromASection
    <2>3. DOMAIN s # {}
      <3> HIDE DEF s
      <3> QED
        BY <1>7, <2>2
    <2> HIDE DEF s
    <2> QED
      BY <2>3
  <1> QED
    BY <1>6, <1>7, <1>8

-----------------------------------------------------------------------------
(* What a process knows of the directory *)

\* A list of files names each of them once, and each has its place in the order.
LEMMA EachOnce ==
    ASSUME NEW s \in Seq(CiFile), NEW d, NEW b, Opened(s, d, b)
    PROVE  /\ \A n \in DOMAIN s : s[n].path \in Files
                 /\ \E k \in DOMAIN Order : Order[k] = s[n].path
           /\ \A m, n \in DOMAIN s : s[m].path = s[n].path => m = n
  <1>1. \A n \in DOMAIN s : \E k \in DOMAIN Order : Order[k] = s[n].path
    BY DEF Opened, PathsOf
  <1>2. ASSUME NEW m \in DOMAIN s, NEW n \in DOMAIN s, s[m].path = s[n].path PROVE m = n
    <2>1. PICK k \in DOMAIN Order : Order[k] = s[m].path
      BY <1>1
    <2>2. ~(k < k) /\ m \in Nat /\ n \in Nat
      BY OrderFacts
    <2>3. ~(m < n) /\ ~(n < m)
      BY <1>2, <2>1, <2>2 DEF Opened, Listed
    <2> QED
      BY <2>2, <2>3
  <1>3. \A n \in DOMAIN s : s[n].path \in Files
    <2>1. \A n \in DOMAIN s : s[n] \in CiFile
      OBVIOUS
    <2>2. \A x \in CiFile : x.path \in Files
      BY DEF CiFile
    <2> HIDE DEF CiFile
    <2> QED
      BY <2>1, <2>2
  <1> QED
    BY <1>1, <1>2, <1>3

\* A section in one of the files of a process is used.
LEMMA OwnSectionIsUsed ==
    ASSUME NEW s, NEW d, NEW b, Opened(s, d, b), NEW k \in DOMAIN Order,
           Order[k] \in PathsOf(s), HasSection(d, Order[k])
    PROVE  Used(d, k)
  BY DEF Opened, Known, Used

\* With one base file in use, what is used is in one of the files of a process.
LEMMA UsedIsOwn ==
    ASSUME NEW s, NEW d, NEW b, Opened(s, d, b), NEW k \in DOMAIN Order, Used(d, k),
           \A f, g \in ToSet(BaseFiles) :
               (d[f] # Absent \/ b[f] # <<>>) /\ (d[g] # Absent \/ b[g] # <<>>) => f = g
    PROVE  Order[k] \in PathsOf(s)
  <1> SUFFICES ASSUME Order[k] \notin PathsOf(s) PROVE FALSE
    OBVIOUS
  <1>1. HasSection(d, Order[k])
    BY DEF Used
  <1>2. /\ k <= Len(BaseFiles)
        /\ \E m \in 1 .. k - 1 : Order[m] \in PathsOf(s) \/ d[Order[m]] # Absent
    BY <1>1 DEF Opened, Known
  <1>3. PICK m \in 1 .. k - 1 : Order[m] \in PathsOf(s)
    BY <1>2 DEF Used
  <1>4. /\ m \in DOMAIN Order /\ m # k /\ k \in DOMAIN BaseFiles /\ m \in DOMAIN BaseFiles
        /\ Order[k] = BaseFiles[k] /\ Order[m] = BaseFiles[m]
    BY <1>2, OrderFacts
  <1>5. Order[k] \in ToSet(BaseFiles) /\ Order[m] \in ToSet(BaseFiles)
    BY <1>4 DEF ToSet
  <1>6. d[Order[m]] # Absent \/ b[Order[m]] # <<>>
    BY <1>3 DEF Opened
  <1>7. d[Order[k]] # Absent
    BY <1>1 DEF HasSection
  <1>8. Order[k] = Order[m]
    BY <1>5, <1>6, <1>7
  <1> QED
    BY <1>4, <1>8, OrderFacts

\* The first list stays the one that is read while it is used, and no other section comes
\* to be.
LEMMA ListStays ==
    ASSUME NEW d \in Directory, NEW c \in Directory, NEW m \in DOMAIN Order,
           FirstList(d, m), Used(c, m),
           \A j \in DOMAIN Order : Used(c, j) => Used(d, j) /\ c[Order[j]].net = d[Order[j]].net
    PROVE  Effective(c).v1 = Effective(d).v1
  <1>1. \A j \in 1 .. m - 1 : j \in DOMAIN Order
    BY OrderFacts
  <1>2. FirstList(c, m)
    BY <1>1 DEF FirstList
  <1>3. c[Order[m]].net = d[Order[m]].net
    OBVIOUS
  <1> QED
    BY <1>2, <1>3, FirstListIsRead

\* What a process does to one of its files leaves it what it knows.
LEMMA OpenedStays ==
    ASSUME NEW s \in Seq(CiFile), NEW d, NEW c, NEW b, NEW a, NEW f \in PathsOf(s),
           Opened(s, d, b), \A g \in Files : g # f => c[g] = d[g],
           \A g \in Files : b[g] # <<>> => a[g] # <<>>,
           c[f] # Absent \/ a[f] # <<>>
    PROVE  Opened(s, c, a)
  <1>1. /\ \A k \in DOMAIN Order : Order[k] \in Files
        /\ \A k \in DOMAIN Order : Order[k] # f => c[Order[k]] = d[Order[k]]
        /\ \A k \in DOMAIN Order : \A m \in 1 .. k - 1 : m \in DOMAIN Order
        /\ \A k \in DOMAIN BaseFiles : k \in DOMAIN Order
    BY OrderFacts
  <1>2. ASSUME NEW k \in DOMAIN Order, Order[k] \in PathsOf(s), k <= Len(BaseFiles),
               NEW m \in 1 .. k - 1
        PROVE  c[Order[m]] = Absent /\ Order[m] \notin PathsOf(s)
    <2>1. d[Order[m]] = Absent /\ Order[m] \notin PathsOf(s)
      BY <1>2 DEF Opened, Known
    <2> QED
      BY <1>1, <2>1
  <1>3. ASSUME NEW k \in DOMAIN Order, HasSection(c, Order[k]), Order[k] \notin PathsOf(s)
        PROVE  k <= Len(BaseFiles) /\ \E m \in 1 .. k - 1 :
                  Order[m] \in PathsOf(s) \/ c[Order[m]] # Absent
    <2>1. HasSection(d, Order[k])
      BY <1>1, <1>3 DEF HasSection
    <2>2. k <= Len(BaseFiles) /\ \E m \in 1 .. k - 1 :
             Order[m] \in PathsOf(s) \/ d[Order[m]] # Absent
      BY <1>3, <2>1 DEF Opened, Known
    <2> QED
      BY <1>1, <2>2
  <1>4. Known(s, c)
    BY <1>2, <1>3 DEF Known
  <1>5. ASSUME NEW g \in PathsOf(s) PROVE c[g] # Absent \/ a[g] # <<>>
    <2>1. g \in Files /\ (d[g] # Absent \/ b[g] # <<>>)
      BY <1>1 DEF Opened
    <2> QED
      BY <2>1
  <1>6. \E k \in DOMAIN BaseFiles : c[Order[k]] # Absent \/ Order[k] \in PathsOf(s)
    <2>1. PICK k \in DOMAIN BaseFiles : d[Order[k]] # Absent \/ Order[k] \in PathsOf(s)
      BY DEF Opened
    <2> QED
      BY <1>1, <2>1
  <1> QED
    BY <1>4, <1>5, <1>6 DEF Opened

\* A new process knows what it has read.
LEMMA OpenedNow ==
    ASSUME NEW d \in Directory, NEW b, Readable(d)
    PROVE  /\ Opened(ReadFiles(d), d, b)
           /\ DOMAIN Effective(d).v1 # {} \/ DOMAIN Effective(d).v2 # {}
  <1> DEFINE s == ReadFiles(d)
  <1>1. /\ Listed(s)
        /\ \A n \in DOMAIN s : \E m \in DOMAIN Order : Used(d, m) /\ s[n].path = Order[m]
        /\ \A m \in DOMAIN Order : Used(d, m) => \E n \in DOMAIN s : s[n].path = Order[m]
        /\ Effective(d) # NoNetwork => s # <<>>
    BY FilesRead
  <1>2. Effective(d) # NoNetwork /\ Effective(d) \in Network
    BY Merged DEF Readable
  <1> HIDE DEF s
  <1>3. \A k \in DOMAIN Order : Order[k] \in PathsOf(s) <=> Used(d, k)
    BY <1>1, OrderFacts DEF PathsOf
  <1>4. \A k \in DOMAIN Order : \A m \in 1 .. k - 1 : m \in DOMAIN Order
    BY OrderFacts
  <1>5. ASSUME NEW k \in DOMAIN Order, Used(d, k), k <= Len(BaseFiles), NEW m \in 1 .. k - 1
        PROVE  d[Order[m]] = Absent /\ Order[m] \notin PathsOf(s)
    <2>1. d[Order[m]] = Absent
      BY <1>5 DEF Used
    <2> QED
      BY <1>3, <1>4, <2>1 DEF Used, HasSection
  <1>6. ASSUME NEW k \in DOMAIN Order, HasSection(d, Order[k]), ~Used(d, k)
        PROVE  k <= Len(BaseFiles) /\ \E m \in 1 .. k - 1 : d[Order[m]] # Absent
    BY <1>6 DEF Used
  <1>7. Known(s, d)
    BY <1>3, <1>5, <1>6 DEF Known
  <1>8. PathsOf(s) \subseteq {Order[k] : k \in DOMAIN Order}
    BY <1>1 DEF PathsOf
  <1>9. \A f \in PathsOf(s) : d[f] # Absent
    BY <1>1 DEF PathsOf, Used, HasSection
  <1>10. \E k \in DOMAIN BaseFiles : d[Order[k]] # Absent
    <2>1. PICK k \in DOMAIN BaseFiles : d[BaseFiles[k]] # Absent
      BY DEF Readable
    <2> QED
      BY <2>1, OrderFacts
  <1>11. Opened(s, d, b)
    BY <1>1, <1>2, <1>7, <1>8, <1>9, <1>10 DEF Opened
  <1> QED
    BY <1>2, <1>11, NothingIsANetwork DEF s

-----------------------------------------------------------------------------
(* Lists of subnets *)

\* The static ones, as they are found.
LEMMA StaticEquation ==
    ASSUME NEW p \in Seq(Subnet)
    PROVE  /\ StaticUpTo(p)[0] = <<>>
           /\ \A k \in 1 .. Len(p) :
                StaticUpTo(p)[k] =
                    IF p[k].type = "static" THEN Append(StaticUpTo(p)[k - 1], p[k])
                    ELSE StaticUpTo(p)[k - 1]
           /\ \A k \in 0 .. Len(p) : StaticUpTo(p)[k] \in Seq(Subnet)
  <1> DEFINE N == Len(p)
             b == <<>>
             X == Seq(Subnet)
             turn(s, k) == IF p[k].type = "static" THEN Append(s, p[k]) ELSE s
             step(r, k) == IF p[k].type = "static" THEN Append(r[k - 1], p[k]) ELSE r[k - 1]
             Solves(r) == r = [k \in 0 .. N |-> IF k = 0 THEN b ELSE step(r, k)]
             g == [k \in 1 .. N |-> [s \in X |-> turn(s, k)]]
  <1>0. N \in Nat /\ b \in X
    OBVIOUS
  <1>1. ASSUME NEW k \in 1 .. N, NEW s \in X PROVE turn(s, k) \in X
    OBVIOUS
  <1> HIDE DEF X
  <1>2. g \in [1 .. N -> [X -> X]]
    <2> HIDE DEF turn
    <2> QED
      BY <1>1
  <1> HIDE DEF b
  <1>3. PICK r \in [0 .. N -> X] : Chain(r, N, b, g)
    <2> HIDE DEF g, N
    <2> QED
      BY <1>0, <1>2, Recursion
  <1>4. ASSUME NEW k \in 1 .. N PROVE r[k] = step(r, k)
    <2>1. r[k] = g[k][r[k - 1]] /\ r[k - 1] \in X
      <3> HIDE DEF g, N
      <3> QED
        BY <1>0, <1>3 DEF Chain
    <2>2. g[k][r[k - 1]] = turn(r[k - 1], k)
      <3> HIDE DEF turn
      <3> QED
        BY <2>1
    <2> QED
      BY <2>1, <2>2
  <1>5. Solves(r)
    <2> HIDE DEF step
    <2>1. \A k \in 0 .. N : r[k] = IF k = 0 THEN b ELSE step(r, k)
      BY <1>0, <1>3, <1>4 DEF Chain
    <2> QED
      BY <2>1
  <1> DEFINE F == CHOOSE q : q = [k \in 0 .. N |-> IF k = 0 THEN b ELSE step(q, k)]
  <1>6. StaticUpTo(p) = F
    BY DEF StaticUpTo, b
  <1>7. Solves(F)
    <2> HIDE DEF step
    <2> QED
      BY <1>5
  <1> HIDE DEF F
  <1>8. F[0] = b /\ \A k \in 1 .. N : F[k] = step(F, k)
    <2> HIDE DEF step
    <2> QED
      BY <1>0, <1>7
  <1>9. \A k \in 0 .. N : F[k] \in X
    <2>1. ASSUME NEW k \in 1 .. N, F[k - 1] \in X PROVE F[k] \in X
      <3>1. F[k] = turn(F[k - 1], k)
        BY <1>8
      <3> HIDE DEF turn
      <3> QED
        BY <2>1, <3>1, <1>1
    <2> HIDE DEF step, N
    <2> QED
      BY <1>0, <1>8, <2>1, Invariance
  <1> QED
    BY <1>6, <1>8, <1>9 DEF b, X

\* The static ones of a list are subnets, and static.
LEMMA StaticIsStatic ==
    ASSUME NEW p \in Seq(Subnet)
    PROVE  /\ Static(p) \in Seq(Subnet)
           /\ \A n \in DOMAIN Static(p) : Static(p)[n].type = "static"
  <1> DEFINE N == Len(p)
             F == StaticUpTo(p)
             X == {s \in Seq(Subnet) : \A n \in DOMAIN s : s[n].type = "static"}
  <1>1. F[0] \in X
    <2> DEFINE b == F[0]
    <2>1. b = <<>>
      BY StaticEquation
    <2>2. b \in Seq(Subnet) /\ DOMAIN b = {}
      BY <2>1
    <2> QED
      BY <2>2
  <1>2. ASSUME NEW k \in 1 .. N, F[k - 1] \in X PROVE F[k] \in X
    <2> DEFINE s == F[k - 1]
               t == F[k]
    <2>1. s \in Seq(Subnet) /\ \A n \in DOMAIN s : s[n].type = "static"
      BY <1>2
    <2>2. t = IF p[k].type = "static" THEN Append(s, p[k]) ELSE s
      BY StaticEquation
    <2>3. p[k] \in Subnet
      OBVIOUS
    <2> HIDE DEF s, t
    <2>4. CASE p[k].type = "static"
      <3>1. t \in Seq(Subnet)
        BY <2>1, <2>2, <2>3, <2>4
      <3>2. DOMAIN t = 1 .. Len(s) + 1 /\ t[Len(s) + 1] = p[k]
            /\ \A n \in 1 .. Len(s) : t[n] = s[n]
        BY <2>1, <2>2, <2>3, <2>4
      <3>3. \A n \in DOMAIN t : t[n].type = "static"
        BY <2>1, <2>4, <3>2
      <3> QED
        BY <3>1, <3>3 DEF t
    <2>5. CASE p[k].type # "static"
      BY <2>1, <2>2, <2>5 DEF t
    <2> QED
      BY <2>4, <2>5
  <1>3. \A k \in 0 .. N : F[k] \in X
    <2> HIDE DEF F, X, N
    <2>1. N \in Nat
      BY DEF N
    <2> QED
      BY <1>1, <1>2, <2>1, Invariance
  <1>4. Static(p) \in X
    <2>1. N \in 0 .. N
      OBVIOUS
    <2> HIDE DEF X
    <2> QED
      BY <1>3, <2>1 DEF Static
  <1> QED
    BY <1>4

\* In front of a list of static subnets the others are passed over.
LEMMA StaticBehind ==
    ASSUME NEW q \in Seq(Subnet), NEW p \in Seq(Subnet), NEW L \in Nat,
           Len(q) = L + Len(p), \A n \in 1 .. L : q[n].type # "static",
           \A n \in DOMAIN p : p[n].type = "static" /\ q[L + n] = p[n]
    PROVE  Static(q) = p
  <1> DEFINE N == Len(q)
             F == StaticUpTo(q)
             M(k) == IF k <= L THEN 0 ELSE k - L
             T == {k \in 0 .. N : Len(F[k]) = M(k) /\ \A n \in 1 .. M(k) : F[k][n] = p[n]}
  <1>0. N \in Nat /\ Len(p) \in Nat
    OBVIOUS
  <1>1. 0 \in T
    BY <1>0, StaticEquation
  <1>2. ASSUME NEW h \in 0 .. N - 1, h \in T PROVE h + 1 \in T
    <2> DEFINE s == F[h]
               t == F[h + 1]
    <2>1. h + 1 \in 1 .. N /\ (h + 1) - 1 = h /\ h \in 0 .. N
      BY <1>0
    <2>2. Len(s) = M(h) /\ \A n \in 1 .. M(h) : s[n] = p[n]
      BY <1>2
    <2>3. F[(h + 1) - 1] = s
      BY <2>1
    <2>4. t = IF q[h + 1].type = "static" THEN Append(s, q[h + 1]) ELSE s
      <3> HIDE DEF s
      <3> QED
        BY <2>1, <2>3, StaticEquation
    <2>5. s \in Seq(Subnet) /\ q[h + 1] \in Subnet
      BY <2>1, StaticEquation
    <2> HIDE DEF s, t
    <2>6. CASE h + 1 <= L
      <3>1. t = s /\ M(h) = 0 /\ M(h + 1) = 0
        BY <2>1, <2>4, <2>6
      <3> QED
        BY <2>1, <2>2, <3>1 DEF t
    <2>7. CASE ~(h + 1 <= L)
      <3> DEFINE m == h + 1 - L
      <3>1. m \in DOMAIN p /\ L + m = h + 1 /\ M(h) = m - 1 /\ M(h + 1) = m /\ m \in Nat
        BY <1>0, <2>1, <2>7
      <3>2. q[h + 1] = p[m] /\ q[h + 1].type = "static"
        <4>1. q[L + m] = p[m] /\ p[m].type = "static"
          BY <3>1
        <4> HIDE DEF m
        <4> QED
          BY <3>1, <4>1
      <3>3. t = Append(s, p[m])
        BY <2>4, <3>2
      <3> HIDE DEF m, M
      <3>4. Len(s) = m - 1
        BY <2>2, <3>1
      <3>5. Len(t) = m /\ t[m] = p[m] /\ \A n \in 1 .. m - 1 : t[n] = s[n]
        BY <2>5, <3>1, <3>2, <3>3, <3>4
      <3>6. \A n \in 1 .. m : t[n] = p[n]
        <4>1. \A n \in 1 .. m : n = m \/ n \in 1 .. m - 1
          BY <3>1
        <4>2. \A n \in 1 .. m - 1 : s[n] = p[n]
          BY <2>2, <3>1
        <4> QED
          BY <3>5, <4>1, <4>2
      <3>7. Len(t) = M(h + 1) /\ \A n \in 1 .. M(h + 1) : t[n] = p[n]
        BY <3>1, <3>5, <3>6
      <3> HIDE DEF N
      <3>8. h + 1 \in 0 .. N
        BY <1>0, <2>1
      <3> QED
        BY <3>7, <3>8 DEF t
    <2> QED
      BY <2>6, <2>7
  <1>3. 0 .. N \subseteq T
    <2> HIDE DEF N, T
    <2> QED
      BY <1>0, <1>1, <1>2, Induction
  <1>4. N \in T /\ M(N) = Len(p)
    BY <1>0, <1>3
  <1>5. Static(q) = F[N] /\ F[N] \in Seq(Subnet)
    BY <1>0, StaticEquation DEF Static
  <1> DEFINE s == Static(q)
  <1>6. s \in Seq(Subnet) /\ Len(s) = Len(p) /\ \A n \in 1 .. Len(p) : s[n] = p[n]
    <2> HIDE DEF F, M, N
    <2> QED
      BY <1>4, <1>5
  <1> HIDE DEF s
  <1>7. s = p
    BY <1>6
  <1> QED
    BY <1>7 DEF s

\* Lists alike but for routes and servers have static ones alike.
Alike(p, q) ==
    /\ Len(q) = Len(p)
    /\ \A n \in 1 .. Len(p) :
          q[n].type = p[n].type /\ q[n].address = p[n].address /\ q[n].gateways = p[n].gateways

\* The static ones of lists that are alike are alike.
LEMMA StaticAlike ==
    ASSUME NEW p \in Seq(Subnet), NEW q \in Seq(Subnet), Alike(p, q)
    PROVE  Alike(Static(p), Static(q))
  <1> DEFINE N == Len(p)
             F == StaticUpTo(p)
             G == StaticUpTo(q)
             T == {k \in 0 .. N : Alike(F[k], G[k])}
  <1>0. N \in Nat /\ Len(q) = N
    BY DEF Alike
  <1>1. 0 \in T
    <2>1. F[0] = <<>> /\ G[0] = <<>>
      BY StaticEquation
    <2> DEFINE b == <<>>
    <2>2. Len(b) = 0
      OBVIOUS
    <2> HIDE DEF b
    <2>3. Alike(b, b)
      BY <2>2 DEF Alike
    <2> QED
      BY <1>0, <2>1, <2>3 DEF b
  <1>2. ASSUME NEW h \in 0 .. N - 1, h \in T PROVE h + 1 \in T
    <2> DEFINE s == F[h]
               t == G[h]
               a == F[h + 1]
               c == G[h + 1]
    <2>1. h + 1 \in 1 .. N /\ (h + 1) - 1 = h /\ h \in 0 .. N /\ h + 1 \in 0 .. N
      BY <1>0
    <2>2. F[(h + 1) - 1] = s /\ G[(h + 1) - 1] = t
      BY <2>1
    <2>3. a = IF p[h + 1].type = "static" THEN Append(s, p[h + 1]) ELSE s
      <3> HIDE DEF s
      <3> QED
        BY <2>1, <2>2, StaticEquation
    <2>4. c = IF q[h + 1].type = "static" THEN Append(t, q[h + 1]) ELSE t
      <3> HIDE DEF t
      <3>1. h + 1 \in 1 .. Len(q)
        BY <1>0, <2>1
      <3> QED
        BY <2>2, <3>1, StaticEquation
    <2>5. s \in Seq(Subnet) /\ t \in Seq(Subnet) /\ Alike(s, t)
      BY <1>0, <1>2, <2>1, StaticEquation
    <2>6. /\ p[h + 1] \in Subnet /\ q[h + 1] \in Subnet
          /\ q[h + 1].type = p[h + 1].type /\ q[h + 1].address = p[h + 1].address
          /\ q[h + 1].gateways = p[h + 1].gateways
      BY <1>0, <2>1 DEF Alike
    <2> HIDE DEF s, t, a, c
    <2>7. Alike(a, c)
      <3>1. CASE p[h + 1].type # "static"
        BY <2>3, <2>4, <2>5, <2>6, <3>1
      <3>2. CASE p[h + 1].type = "static"
        <4> DEFINE L == Len(s)
        <4>0. Len(t) = L /\ L \in Nat
              /\ \A n \in 1 .. L : /\ t[n].type = s[n].type /\ t[n].address = s[n].address
                                   /\ t[n].gateways = s[n].gateways
          BY <2>5 DEF Alike
        <4>1. /\ Len(a) = L + 1 /\ a[L + 1] = p[h + 1] /\ \A n \in 1 .. L : a[n] = s[n]
          BY <2>3, <2>5, <2>6, <3>2
        <4>2. /\ Len(c) = L + 1 /\ c[L + 1] = q[h + 1] /\ \A n \in 1 .. L : c[n] = t[n]
          BY <2>4, <2>5, <2>6, <3>2, <4>0
        <4> HIDE DEF L
        <4>3. \A n \in 1 .. L + 1 : n = L + 1 \/ n \in 1 .. L
          BY <4>0
        <4>4. \A n \in 1 .. L + 1 : /\ c[n].type = a[n].type /\ c[n].address = a[n].address
                                    /\ c[n].gateways = a[n].gateways
          BY <2>6, <4>0, <4>1, <4>2, <4>3
        <4> QED
          BY <4>1, <4>2, <4>4 DEF Alike
      <3> QED
        BY <3>1, <3>2
    <2> HIDE DEF N
    <2> QED
      BY <2>1, <2>7 DEF a, c
  <1>3. 0 .. N \subseteq T
    <2> HIDE DEF N, T
    <2> QED
      BY <1>0, <1>1, <1>2, Induction
  <1>4. N \in T
    BY <1>0, <1>3
  <1> QED
    BY <1>0, <1>4 DEF Static

\* What GetInterfaces reports of such lists differs in routes and servers only.
LEMMA ViewAlike ==
    ASSUME NEW p \in Seq(Subnet), NEW q \in Seq(Subnet), Alike(p, q)
    PROVE  /\ ViewV1(q).addresses = ViewV1(p).addresses
           /\ ViewV1(q).gateways = ViewV1(p).gateways
           /\ ViewV1(q).dhcp = ViewV1(p).dhcp
  <1> DEFINE s == Static(p)
             t == Static(q)
  <1>1. s \in Seq(Subnet) /\ t \in Seq(Subnet) /\ Alike(s, t)
    BY StaticIsStatic, StaticAlike
  <1> HIDE DEF s, t
  <1>2. DOMAIN t = DOMAIN s /\ \A n \in DOMAIN s : t[n].address = s[n].address
                                                /\ t[n].gateways = s[n].gateways
    BY <1>1 DEF Alike
  <1>3. [n \in DOMAIN t |-> t[n].address] = [n \in DOMAIN s |-> s[n].address]
    BY <1>2
  <1>4. UNION {t[n].gateways : n \in DOMAIN t} = UNION {s[n].gateways : n \in DOMAIN s}
    BY <1>2
  <1>5. DOMAIN q = DOMAIN p /\ \A n \in DOMAIN p : q[n].type = p[n].type
    BY DEF Alike
  <1>6. {m \in DOMAIN q : q[m].type # "static"} = {m \in DOMAIN p : p[m].type # "static"}
    BY <1>5
  <1>7. {SubnetFamily(q[n].type) : n \in {m \in DOMAIN q : q[m].type # "static"}} =
        {SubnetFamily(p[n].type) : n \in {m \in DOMAIN p : p[m].type # "static"}}
    BY <1>5, <1>6
  <1> QED
    BY <1>3, <1>4, <1>7 DEF ViewV1, UnionOf, s, t

-----------------------------------------------------------------------------
(* What the calls make of an interface *)

\* The addresses asked for, with the gateways they reach, and no client; while there is
\* one, with the routes and the servers there were.
LEMMA RebuiltFacts ==
    ASSUME NEW p \in Seq(Subnet), NEW addrs \in Seq(Addresses), NEW G \in SUBSET Gateways
    PROVE  LET q == Rebuilt(p, addrs, G)
           IN  /\ q \in Seq(Subnet)
               /\ ViewV1(q).addresses = addrs /\ ViewV1(q).dhcp = {}
               /\ ViewV1(q).gateways = G \cap UNION {Reach[x] : x \in ToSet(addrs)}
               /\ addrs # <<>> => /\ ViewV1(q).routes = ViewV1(p).routes
                                  /\ ViewV1(q).servers = ViewV1(p).servers
  <1> DEFINE q == Rebuilt(p, addrs, G)
             Rs == RoutesOf(p)
             Ss == ServersOf(p)
             Reaching(r) == {n \in DOMAIN addrs : Hop[r] \in Reach[addrs[n]]}
             Place(r) == IF Reaching(r) = {} THEN 1
                         ELSE CHOOSE n \in Reaching(r) : \A m \in Reaching(r) : n <= m
             On(n) == {r \in Rs : Place(r) = n}
             sub(n) == [type |-> "static", address |-> addrs[n],
                        gateways |-> G \cap Reach[addrs[n]], servers |-> Ss, routes |-> On(n)]
  <1>1. q = [n \in DOMAIN addrs |-> sub(n)]
    BY DEF Rebuilt
  <1>2. \A n \in DOMAIN p : p[n].routes \in SUBSET Routes /\ p[n].servers \in SUBSET Servers
    <2>1. \A n \in DOMAIN p : p[n] \in Subnet
      OBVIOUS
    <2> QED
      BY <2>1 DEF Subnet
  <1>3. Rs \in SUBSET Routes /\ Ss \in SUBSET Servers
    BY <1>2 DEF RoutesOf, ServersOf, UnionOf
  <1>4. \A r \in Rs : addrs # <<>> => Place(r) \in DOMAIN addrs
    <2> TAKE r \in Rs
    <2> HAVE addrs # <<>>
    <2> DEFINE T == Reaching(r)
    <2>1. 1 \in DOMAIN addrs
      OBVIOUS
    <2>2. T \in SUBSET Nat /\ T \subseteq DOMAIN addrs
      OBVIOUS
    <2> HIDE DEF T
    <2>3. T # {} => \E n \in T : \A m \in T : n <= m
      BY <2>2, Least
    <2>4. (IF T = {} THEN 1 ELSE CHOOSE n \in T : \A m \in T : n <= m) \in DOMAIN addrs
      BY <2>1, <2>2, <2>3
    <2> QED
      BY <2>4 DEF T
  <1> HIDE DEF q, Rs, Ss, Place
  <1>5. DOMAIN addrs = 1 .. Len(addrs) /\ \A n \in DOMAIN addrs : addrs[n] \in Addresses
    OBVIOUS
  <1>6. \A n \in DOMAIN addrs : sub(n) \in Subnet
    BY <1>3, <1>5 DEF Subnet
  <1>7. DOMAIN q = DOMAIN addrs /\ \A n \in DOMAIN addrs : q[n] = sub(n)
    <2> HIDE DEF sub
    <2> QED
      BY <1>1
  <1>8. q \in Seq(Subnet) /\ Len(q) = Len(addrs)
    <2>1. q = [n \in 1 .. Len(addrs) |-> sub(n)]
      BY <1>1, <1>5
    <2>2. Len(addrs) \in Nat
      OBVIOUS
    <2> HIDE DEF sub
    <2> QED
      BY <1>5, <1>6, <2>1, <2>2
  <1>9. \A n \in DOMAIN addrs : /\ q[n].type = "static" /\ q[n].address = addrs[n]
                                /\ q[n].gateways = G \cap Reach[addrs[n]]
                                /\ q[n].servers = Ss /\ q[n].routes = On(n)
    BY <1>7
  <1> HIDE DEF sub
  <1>10. Static(q) = q
    <2>1. Len(q) = 0 + Len(q) /\ \A n \in DOMAIN q : 0 + n = n
      BY <1>8
    <2>2. \A n \in 1 .. 0 : q[n].type # "static"
      OBVIOUS
    <2>3. \A n \in DOMAIN q : q[n].type = "static" /\ q[0 + n] = q[n]
      BY <1>7, <1>9, <2>1
    <2> QED
      BY <1>8, <2>1, <2>2, <2>3, StaticBehind
  <1>11. ViewV1(q).addresses = addrs
    <2>1. ViewV1(q).addresses = [n \in DOMAIN q |-> q[n].address]
      BY <1>10 DEF ViewV1
    <2>2. addrs = [n \in DOMAIN addrs |-> addrs[n]]
      OBVIOUS
    <2> QED
      BY <1>7, <1>9, <2>1, <2>2
  <1>12. ViewV1(q).gateways = G \cap UNION {Reach[x] : x \in ToSet(addrs)}
    <2>1. ViewV1(q).gateways = UNION {q[n].gateways : n \in DOMAIN q}
      BY <1>10 DEF ViewV1, UnionOf
    <2>2. UNION {q[n].gateways : n \in DOMAIN q} =
          UNION {G \cap Reach[addrs[n]] : n \in DOMAIN addrs}
      BY <1>7, <1>9
    <2>3. ToSet(addrs) = {addrs[n] : n \in DOMAIN addrs}
      BY DEF ToSet
    <2> QED
      BY <2>1, <2>2, <2>3
  <1>13. ASSUME addrs # <<>> PROVE ViewV1(q).routes = ViewV1(p).routes
    <2>1. ViewV1(q).routes = UNION {q[n].routes : n \in DOMAIN q} /\ ViewV1(p).routes = Rs
      BY DEF ViewV1, RoutesOf, UnionOf, Rs
    <2>2. UNION {q[n].routes : n \in DOMAIN q} = UNION {On(n) : n \in DOMAIN addrs}
      BY <1>7, <1>9
    <2>3. \A r \in Rs : r \in On(Place(r)) /\ Place(r) \in DOMAIN addrs
      BY <1>4, <1>13
    <2>4. \A n : On(n) \subseteq Rs
      OBVIOUS
    <2> HIDE DEF On
    <2>5. UNION {On(n) : n \in DOMAIN addrs} = Rs
      BY <2>3, <2>4
    <2> QED
      BY <2>1, <2>2, <2>5
  <1>14. ASSUME addrs # <<>> PROVE ViewV1(q).servers = ViewV1(p).servers
    <2>1. ViewV1(q).servers = UNION {q[n].servers : n \in DOMAIN q} /\ ViewV1(p).servers = Ss
      BY DEF ViewV1, ServersOf, UnionOf, Ss
    <2>2. 1 \in DOMAIN addrs
      BY <1>14
    <2> QED
      BY <1>7, <1>9, <2>1, <2>2
  <1>15. ViewV1(q).dhcp = {}
    <2>1. ViewV1(q).dhcp = {SubnetFamily(q[n].type) : n \in {m \in DOMAIN q : q[m].type # "static"}}
      BY DEF ViewV1
    <2>2. {m \in DOMAIN q : q[m].type # "static"} = {}
      BY <1>7, <1>9
    <2> QED
      BY <2>1, <2>2
  <1> QED
    BY <1>8, <1>11, <1>12, <1>13, <1>14, <1>15 DEF q

\* One list after another.
LEMMA Joined ==
    ASSUME NEW X, NEW a \in Seq(X), NEW b \in Seq(X)
    PROVE  /\ a \o b \in Seq(X) /\ Len(a \o b) = Len(a) + Len(b)
           /\ DOMAIN (a \o b) = 1 .. Len(a) + Len(b) /\ Len(a) + Len(b) \in Nat
           /\ \A n \in 1 .. Len(a) : (a \o b)[n] = a[n]
           /\ \A n \in Len(a) + 1 .. Len(a) + Len(b) : (a \o b)[n] = b[n - Len(a)]
           /\ \A n \in DOMAIN b : (a \o b)[Len(a) + n] = b[n] /\ Len(a) + n \in DOMAIN (a \o b)
  OBVIOUS

\* A function on the first N numbers is a list.
LEMMA ListOf ==
    ASSUME NEW X, NEW N \in Nat, NEW f \in [1 .. N -> X]
    PROVE  f \in Seq(X) /\ Len(f) = N
  OBVIOUS

\* The clients asked for and no others; the rest is that of the static subnets.
LEMMA ClientsFacts ==
    ASSUME NEW p \in Seq(Subnet), NEW on \in SUBSET Families
    PROVE  /\ WithClients(p, on) \in Seq(Subnet)
           /\ ViewV1(WithClients(p, on)) = [ViewV1(Static(p)) EXCEPT !.dhcp = on]
  <1> DEFINE C4 == IF 4 \in on THEN Client("dhcp4") ELSE <<>>
             C6 == IF 6 \in on THEN Client("dhcp6") ELSE <<>>
             C == C4 \o C6
             s == Static(p)
             q == C \o s
             L == Len(C)
  <1>1. WithClients(p, on) = q
    BY DEF WithClients
  <1>2. ASSUME NEW type \in {"dhcp4", "dhcp6"}
        PROVE  /\ Client(type) \in Seq(Subnet) /\ Len(Client(type)) = 1
               /\ Client(type)[1].type = type /\ Client(type)[1].gateways = {}
               /\ Client(type)[1].routes = {} /\ Client(type)[1].servers = {}
    <2> DEFINE x == [type |-> type, address |-> Absent, gateways |-> {},
                     servers |-> {}, routes |-> {}]
    <2>1. x \in Subnet
      BY DEF Subnet
    <2>2. Client(type) = <<x>>
      BY DEF Client
    <2>3. x.type = type /\ x.gateways = {} /\ x.routes = {} /\ x.servers = {}
      OBVIOUS
    <2> HIDE DEF x
    <2> QED
      BY <2>1, <2>2, <2>3
  <1> DEFINE Bare(c) == c.type # "static" /\ c.gateways = {} /\ c.routes = {} /\ c.servers = {}
  <1>3. /\ C4 \in Seq(Subnet) /\ Len(C4) = IF 4 \in on THEN 1 ELSE 0
        /\ 4 \in on => Bare(C4[1]) /\ C4[1].type = "dhcp4"
    <2>1. CASE 4 \in on
      BY <1>2, <2>1
    <2>2. CASE 4 \notin on
      BY <2>2
    <2> QED
      BY <2>1, <2>2
  <1>4. /\ C6 \in Seq(Subnet) /\ Len(C6) = IF 6 \in on THEN 1 ELSE 0
        /\ 6 \in on => Bare(C6[1]) /\ C6[1].type = "dhcp6"
    <2>1. CASE 6 \in on
      BY <1>2, <2>1
    <2>2. CASE 6 \notin on
      BY <2>2
    <2> QED
      BY <2>1, <2>2
  <1> HIDE DEF C4, C6, Bare
  <1>5. /\ C \in Seq(Subnet) /\ L = Len(C4) + Len(C6) /\ L \in Nat
        /\ \A n \in 1 .. Len(C4) : C[n] = C4[n]
        /\ \A n \in Len(C4) + 1 .. L : C[n] = C6[n - Len(C4)]
    <2>1. /\ C4 \o C6 \in Seq(Subnet) /\ Len(C4 \o C6) = Len(C4) + Len(C6)
          /\ \A n \in 1 .. Len(C4) : (C4 \o C6)[n] = C4[n]
          /\ \A n \in Len(C4) + 1 .. Len(C4) + Len(C6) : (C4 \o C6)[n] = C6[n - Len(C4)]
      <3>1. C4 \in Seq(Subnet) /\ C6 \in Seq(Subnet)
        BY <1>3, <1>4
      <3> QED
        BY <3>1, Joined
    <2>2. Len(C4) + Len(C6) \in Nat
      BY <1>3, <1>4
    <2> QED
      BY <2>1, <2>2
  <1>6. \A n \in 1 .. L : Bare(C[n])
    BY <1>3, <1>4, <1>5
  <1>7. {SubnetFamily(C[n].type) : n \in 1 .. L} = on
    <2>1. \A x \in on : x = 4 \/ x = 6
      BY DEF Families
    <2>2. \A n \in 1 .. L : SubnetFamily(C[n].type) \in on
      BY <1>3, <1>4, <1>5 DEF SubnetFamily
    <2>3. 4 \in on => 1 \in 1 .. L /\ SubnetFamily(C[1].type) = 4
      BY <1>3, <1>4, <1>5 DEF SubnetFamily
    <2>4. 6 \in on => L \in 1 .. L /\ SubnetFamily(C[L].type) = 6
      BY <1>3, <1>4, <1>5 DEF SubnetFamily
    <2> HIDE DEF L, C
    <2> QED
      BY <2>1, <2>2, <2>3, <2>4
  <1>8. s \in Seq(Subnet) /\ \A n \in DOMAIN s : s[n].type = "static"
    BY StaticIsStatic
  <1> HIDE DEF C, s
  <1>9. /\ q \in Seq(Subnet) /\ Len(q) = L + Len(s) /\ DOMAIN q = 1 .. L + Len(s)
        /\ \A n \in 1 .. L : q[n] = C[n]
        /\ \A n \in DOMAIN s : q[L + n] = s[n] /\ L + n \in DOMAIN q
        /\ DOMAIN s = 1 .. Len(s) /\ Len(s) \in Nat
    <2>1. /\ q \in Seq(Subnet) /\ Len(q) = L + Len(s) /\ DOMAIN q = 1 .. L + Len(s)
          /\ \A n \in 1 .. L : q[n] = C[n]
          /\ \A n \in DOMAIN s : q[L + n] = s[n] /\ L + n \in DOMAIN q
      <3>1. C \in Seq(Subnet) /\ s \in Seq(Subnet)
        BY <1>5, <1>8
      <3> QED
        BY <3>1, Joined
    <2>2. DOMAIN s = 1 .. Len(s) /\ Len(s) \in Nat
      BY <1>8
    <2> QED
      BY <2>1, <2>2
  <1>10. \A n \in DOMAIN q : n \in 1 .. L \/ \E m \in DOMAIN s : n = L + m
    <2>1. \A n \in DOMAIN q : n \in 1 .. L \/ (n - L \in DOMAIN s /\ n = L + (n - L))
      BY <1>5, <1>9
    <2> QED
      BY <2>1
  <1>11. \A n \in 1 .. L : n \in DOMAIN q
    BY <1>5, <1>9
  <1> HIDE DEF q, L
  <1>12. Static(q) = s
    <2>1. \A n \in 1 .. L : q[n].type # "static"
      BY <1>6, <1>9 DEF Bare
    <2>2. \A n \in DOMAIN s : s[n].type = "static" /\ q[L + n] = s[n]
      BY <1>8, <1>9
    <2> QED
      BY <1>5, <1>8, <1>9, <2>1, <2>2, StaticBehind
  <1>13. Static(s) = s
    <2>1. Len(s) = 0 + Len(s) /\ \A n \in DOMAIN s : 0 + n = n
      BY <1>8
    <2>2. \A n \in 1 .. 0 : s[n].type # "static"
      OBVIOUS
    <2>3. \A n \in DOMAIN s : s[n].type = "static" /\ s[0 + n] = s[n]
      BY <1>8, <2>1
    <2> QED
      BY <1>8, <2>1, <2>2, <2>3, StaticBehind
  <1>14. UNION {q[n].routes : n \in DOMAIN q} = UNION {s[n].routes : n \in DOMAIN s}
    <2>1. \A n \in DOMAIN q : q[n].routes = {} \/ \E m \in DOMAIN s : q[n].routes = s[m].routes
      BY <1>6, <1>9, <1>10 DEF Bare
    <2>2. \A m \in DOMAIN s : \E n \in DOMAIN q : q[n].routes = s[m].routes
      BY <1>9
    <2> QED
      BY <2>1, <2>2
  <1>15. UNION {q[n].servers : n \in DOMAIN q} = UNION {s[n].servers : n \in DOMAIN s}
    <2>1. \A n \in DOMAIN q : q[n].servers = {} \/ \E m \in DOMAIN s : q[n].servers = s[m].servers
      BY <1>6, <1>9, <1>10 DEF Bare
    <2>2. \A m \in DOMAIN s : \E n \in DOMAIN q : q[n].servers = s[m].servers
      BY <1>9
    <2> QED
      BY <2>1, <2>2
  <1>16. {m \in DOMAIN q : q[m].type # "static"} = 1 .. L
    <2>1. \A m \in DOMAIN q : q[m].type # "static" => m \in 1 .. L
      BY <1>8, <1>9, <1>10
    <2>2. \A m \in 1 .. L : m \in DOMAIN q /\ q[m].type # "static"
      BY <1>6, <1>9, <1>11 DEF Bare
    <2> QED
      BY <2>1, <2>2
  <1>17. {SubnetFamily(q[n].type) : n \in {m \in DOMAIN q : q[m].type # "static"}} = on
    <2>1. {SubnetFamily(q[n].type) : n \in 1 .. L} = {SubnetFamily(C[n].type) : n \in 1 .. L}
      BY <1>9
    <2> QED
      BY <1>7, <1>16, <2>1
  <1>18. ViewV1(q).addresses = ViewV1(s).addresses /\ ViewV1(q).gateways = ViewV1(s).gateways
    BY <1>12, <1>13 DEF ViewV1
  <1>19. /\ ViewV1(q).routes = ViewV1(s).routes /\ ViewV1(q).servers = ViewV1(s).servers
         /\ ViewV1(q).dhcp = on
    BY <1>14, <1>15, <1>17 DEF ViewV1, RoutesOf, ServersOf, UnionOf
  <1>20. WithClients(p, on) \in Seq(Subnet)
    BY <1>1, <1>9 DEF q
  <1>21. ViewV1(q) = [ViewV1(s) EXCEPT !.dhcp = on]
    BY <1>18, <1>19 DEF ViewV1
  <1> QED
    BY <1>1, <1>20, <1>21 DEF s, q

\* Each route on one of the subnets, and on no other.
LEMMA RoutesFacts ==
    ASSUME NEW p \in Seq(Subnet), NEW R \in SUBSET Routes, NEW place \in Places(p, R)
    PROVE  /\ WithRoutes(p, place) \in Seq(Subnet)
           /\ ViewV1(WithRoutes(p, place)) = [ViewV1(p) EXCEPT !.routes = R]
  <1> DEFINE q == WithRoutes(p, place)
             On(n) == {r \in R : place[r] = n}
  <1>1. DOMAIN place = R /\ \A r \in R : place[r] \in DOMAIN p
    BY DEF Places
  <1>2. q = [n \in DOMAIN p |-> [p[n] EXCEPT !.routes = On(n)]]
    BY <1>1 DEF WithRoutes
  <1>3. DOMAIN p = 1 .. Len(p) /\ Len(p) \in Nat /\ \A n \in DOMAIN p : p[n] \in Subnet
    OBVIOUS
  <1>4. \A n : On(n) \in SUBSET Routes
    OBVIOUS
  <1> HIDE DEF q, On
  <1>5. \A n \in DOMAIN p :
           /\ q[n] \in Subnet /\ q[n].type = p[n].type /\ q[n].address = p[n].address
           /\ q[n].gateways = p[n].gateways /\ q[n].servers = p[n].servers
           /\ q[n].routes = On(n)
    BY <1>2, <1>3, <1>4 DEF Subnet
  <1>6. q \in Seq(Subnet) /\ Len(q) = Len(p) /\ DOMAIN q = DOMAIN p
    <2>1. q = [n \in 1 .. Len(p) |-> [p[n] EXCEPT !.routes = On(n)]]
      BY <1>2, <1>3
    <2>2. \A n \in 1 .. Len(p) : [p[n] EXCEPT !.routes = On(n)] \in Subnet
      BY <1>3, <1>4 DEF Subnet
    <2>3. q \in [1 .. Len(p) -> Subnet]
      BY <2>1, <2>2
    <2>4. q \in Seq(Subnet) /\ Len(q) = Len(p)
      BY <1>3, <2>3, ListOf
    <2> QED
      BY <1>3, <2>1, <2>4
  <1>7. Alike(p, q)
    BY <1>3, <1>5, <1>6 DEF Alike
  <1>8. UNION {q[n].routes : n \in DOMAIN q} = R
    <2>1. UNION {q[n].routes : n \in DOMAIN q} = UNION {On(n) : n \in DOMAIN p}
      BY <1>5, <1>6
    <2>2. \A r \in R : r \in On(place[r]) /\ place[r] \in DOMAIN p
      BY <1>1 DEF On
    <2>3. \A n : On(n) \subseteq R
      BY DEF On
    <2> QED
      BY <2>1, <2>2, <2>3
  <1>9. UNION {q[n].servers : n \in DOMAIN q} = UNION {p[n].servers : n \in DOMAIN p}
    BY <1>5, <1>6
  <1>10. ViewV1(q).routes = R /\ ViewV1(q).servers = ViewV1(p).servers
    BY <1>8, <1>9 DEF ViewV1, RoutesOf, ServersOf, UnionOf
  <1>11. /\ ViewV1(q).addresses = ViewV1(p).addresses /\ ViewV1(q).dhcp = ViewV1(p).dhcp
         /\ ViewV1(q).gateways = ViewV1(p).gateways
    BY <1>6, <1>7, ViewAlike
  <1>12. ViewV1(q) = [ViewV1(p) EXCEPT !.routes = R]
    BY <1>10, <1>11 DEF ViewV1
  <1> QED
    BY <1>6, <1>12 DEF q

\* The servers on every subnet.
LEMMA ServersFacts ==
    ASSUME NEW p \in Seq(Subnet), NEW S \in SUBSET Servers
    PROVE  LET q == [n \in DOMAIN p |-> [p[n] EXCEPT !.servers = S]]
           IN  /\ q \in Seq(Subnet)
               /\ p # <<>> => ViewV1(q) = [ViewV1(p) EXCEPT !.servers = S]
  <1> DEFINE q == [n \in DOMAIN p |-> [p[n] EXCEPT !.servers = S]]
  <1>1. DOMAIN p = 1 .. Len(p) /\ Len(p) \in Nat /\ \A n \in DOMAIN p : p[n] \in Subnet
    OBVIOUS
  <1>2. q \in Seq(Subnet) /\ Len(q) = Len(p) /\ DOMAIN q = DOMAIN p
    <2>1. q = [n \in 1 .. Len(p) |-> [p[n] EXCEPT !.servers = S]]
      BY <1>1
    <2>2. \A n \in 1 .. Len(p) : [p[n] EXCEPT !.servers = S] \in Subnet
      BY <1>1 DEF Subnet
    <2> HIDE DEF q
    <2>3. q \in [1 .. Len(p) -> Subnet]
      BY <2>1, <2>2
    <2>4. q \in Seq(Subnet) /\ Len(q) = Len(p)
      BY <1>1, <2>3, ListOf
    <2> QED
      BY <1>1, <2>1, <2>4
  <1>3. \A n \in DOMAIN p :
           /\ q[n].type = p[n].type /\ q[n].address = p[n].address
           /\ q[n].gateways = p[n].gateways /\ q[n].routes = p[n].routes
           /\ q[n].servers = S
    BY <1>1 DEF Subnet
  <1> HIDE DEF q
  <1>4. Alike(p, q)
    BY <1>1, <1>2, <1>3 DEF Alike
  <1>5. UNION {q[n].routes : n \in DOMAIN q} = UNION {p[n].routes : n \in DOMAIN p}
    BY <1>2, <1>3
  <1>6. ASSUME p # <<>> PROVE UNION {q[n].servers : n \in DOMAIN q} = S
    <2>1. 1 \in DOMAIN p
      BY <1>1, <1>6
    <2> QED
      BY <1>2, <1>3, <2>1
  <1>7. /\ ViewV1(q).routes = ViewV1(p).routes
        /\ p # <<>> => ViewV1(q).servers = S
    BY <1>5, <1>6 DEF ViewV1, RoutesOf, ServersOf, UnionOf
  <1>8. /\ ViewV1(q).addresses = ViewV1(p).addresses /\ ViewV1(q).dhcp = ViewV1(p).dhcp
        /\ ViewV1(q).gateways = ViewV1(p).gateways
    BY <1>2, <1>4, ViewAlike
  <1>9. p # <<>> => ViewV1(q) = [ViewV1(p) EXCEPT !.servers = S]
    BY <1>7, <1>8 DEF ViewV1
  <1> QED
    BY <1>2, <1>9 DEF q

-----------------------------------------------------------------------------
(* The calls *)

\* A stanza with the clients asked for.
LEMMA StanzaClients ==
    ASSUME NEW s \in Stanza, NEW on \in SUBSET Families
    PROVE  LET t == [s EXCEPT !.dhcp = SetDHCP(@, on)]
           IN  /\ t \in Stanza
               /\ ViewV2(t) = [ViewV2(s) EXCEPT !.dhcp = on]
  <1> DEFINE D == SetDHCP(s.dhcp, on)
             t == [s EXCEPT !.dhcp = D]
  <1>1. s.dhcp \in [Families -> {"on", "off", Unset}]
    BY DEF Stanza
  <1>2. D \in [Families -> {"on", "off", Unset}]
    BY <1>1 DEF SetDHCP
  <1>3. {f \in Families : D[f] = "on"} = on
    <2>1. Unset # "on"
      BY CloudInitAssumption
    <2>2. \A f \in Families : D[f] = "on" <=> f \in on
      BY <1>1, <2>1 DEF SetDHCP
    <2> HIDE DEF D
    <2> QED
      BY <2>2
  <1> HIDE DEF D
  <1>4. t \in Stanza
    BY <1>2 DEF Stanza
  <1>5. ViewV2(t) = [s EXCEPT !.dhcp = {f \in Families : D[f] = "on"}]
    BY <1>2 DEF ViewV2, Stanza
  <1>6. [ViewV2(s) EXCEPT !.dhcp = on] = [s EXCEPT !.dhcp = on]
    BY DEF ViewV2, Stanza
  <1> QED
    BY <1>3, <1>4, <1>5, <1>6 DEF D

\* A stanza with the routes asked for.
LEMMA StanzaRouted ==
    ASSUME NEW s \in Stanza, NEW R \in SUBSET Routes
    PROVE  LET t == [s EXCEPT !.routes = R]
           IN  t \in Stanza /\ ViewV2(t) = [ViewV2(s) EXCEPT !.routes = R]
  BY DEF Stanza, ViewV2

\* A stanza with the servers asked for.
LEMMA StanzaServed ==
    ASSUME NEW s \in Stanza, NEW S \in SUBSET Servers
    PROVE  LET t == [s EXCEPT !.servers = S]
           IN  t \in Stanza /\ ViewV2(t) = [ViewV2(s) EXCEPT !.servers = S]
  BY DEF Stanza, ViewV2

\* What a call has done by the time it starts to save, or has failed.
Asked ==
    /\ pc = "idle"
    /\ UNCHANGED <<disk, tmp, bak, configFiles, origin, failed>>
    /\ pre' = [disk |-> disk, net |-> net]
    /\ net' \in Network /\ DOMAIN net'.v1 = DOMAIN net.v1 /\ DOMAIN net'.v2 = DOMAIN net.v2
    /\ \/ pc' = "save" /\ i' = 1 /\ ret' = "running" /\ CallDone'
       \/ pc' = pc /\ i' = i /\ ret' = "error"

\* Lists and stanzas for those of a network, changed as the call asks.
Parts(c, n, h, q) ==
    /\ h \in [DOMAIN n.v1 -> Seq(Subnet)] /\ q \in [DOMAIN n.v2 -> Stanza]
    /\ \A x \in DOMAIN n.v1 : IF x = c.iface THEN V1Part(c, n.v1[x], h[x]) ELSE h[x] = n.v1[x]
    /\ \A k \in DOMAIN n.v2 : IF NameOf[k] = c.iface THEN V2Part(c, ViewV2(n.v2[k]), ViewV2(q[k]))
                                                     ELSE q[k] = n.v2[k]

\* A call that changes its interface's lists and stanzas as it should has done its part.
LEMMA Changed ==
    ASSUME TypeInv, NEW h, NEW q, Parts(call', net, h, q), net' = [v1 |-> h, v2 |-> q],
           pre' = [disk |-> disk, net |-> net]
    PROVE  /\ net' \in Network /\ DOMAIN net'.v1 = DOMAIN net.v1 /\ DOMAIN net'.v2 = DOMAIN net.v2
           /\ CallDone'
  <1>1. net \in Network
    BY DEF TypeInv
  <1>2. net'.v1 = h /\ net'.v2 = q /\ pre'.net = net
    OBVIOUS
  <1>3. net' \in Network
    BY <1>1, NetworkParts, NetworkOf DEF Parts
  <1>4. DOMAIN h = DOMAIN net.v1 /\ DOMAIN q = DOMAIN net.v2
    BY DEF Parts
  <1>5. Entries(net') = Entries(pre'.net)
    BY <1>2, <1>4 DEF Entries, V1Entries, V2Entries
  <1> QED
    BY <1>2, <1>3, <1>4, <1>5 DEF CallDone, Parts

\* SetIfaceAddresses does its part.
LEMMA AddressesAsked ==
    TypeInv /\ SetIfaceAddresses => Asked
  <1> SUFFICES ASSUME TypeInv, SetIfaceAddresses PROVE Asked
    OBVIOUS
  <1> PICK iface \in Iface, addrs \in AddrLists, G \in GatewaySets :
        /\ Begin("addresses", iface, [addresses |-> addrs, gateways |-> G])
        /\ net' = Change(iface, LAMBDA subnets : Rebuilt(subnets, addrs, G),
                         LAMBDA s : [s EXCEPT !.addresses = addrs, !.gateways = G])
        /\ Save
    BY DEF SetIfaceAddresses
  <1> DEFINE c == [op |-> "addresses", iface |-> iface,
                   asked |-> [addresses |-> addrs, gateways |-> G]]
             first(p) == Rebuilt(p, addrs, G)
             second(s) == [s EXCEPT !.addresses = addrs, !.gateways = G]
             h == [n \in DOMAIN net.v1 |-> IF n = iface THEN first(net.v1[n]) ELSE net.v1[n]]
             q == [k \in DOMAIN net.v2 |-> IF NameOf[k] = iface THEN second(net.v2[k])
                                           ELSE net.v2[k]]
  <1>1. /\ pc = "idle" /\ call' = c /\ pre' = [disk |-> disk, net |-> net]
        /\ UNCHANGED <<disk, tmp, bak, configFiles, origin, failed>>
    BY DEF Begin
  <1>2. net' = [v1 |-> h, v2 |-> q]
    BY DEF Change
  <1>3. addrs \in Seq(Addresses) /\ G \in SUBSET Gateways
    BY CloudInitAssumption
  <1>4. net \in Network /\ net.v1 \in [DOMAIN net.v1 -> Seq(Subnet)]
        /\ net.v2 \in [DOMAIN net.v2 -> Stanza]
    BY NetworkParts DEF TypeInv
  <1>5. \A p \in Seq(Subnet) : first(p) \in Seq(Subnet) /\ V1Part(c, p, first(p))
    BY <1>3, RebuiltFacts DEF V1Part
  <1>6. ASSUME NEW s \in Stanza
        PROVE  second(s) \in Stanza /\ V2Part(c, ViewV2(s), ViewV2(second(s)))
    <2> DEFINE b == ViewV2(s)
               a == ViewV2(second(s))
    <2>1. second(s) \in Stanza /\ a = [b EXCEPT !.addresses = addrs, !.gateways = G]
      BY <1>3 DEF Stanza, ViewV2
    <2>2. c.op = "addresses" /\ c.asked.addresses = addrs /\ c.asked.gateways = G
      OBVIOUS
    <2> HIDE DEF a, b, c, second
    <2>3. V2Part(c, b, a)
      BY <2>1, <2>2 DEF V2Part
    <2> QED
      BY <2>1, <2>3 DEF a, b
  <1>7. c.iface = iface
    OBVIOUS
  <1> HIDE DEF c, first, second
  <1>8. h \in [DOMAIN net.v1 -> Seq(Subnet)] /\ q \in [DOMAIN net.v2 -> Stanza]
    BY <1>4, <1>5, <1>6
  <1>9. \A n \in DOMAIN net.v1 : IF n = c.iface THEN V1Part(c, net.v1[n], h[n])
                                 ELSE h[n] = net.v1[n]
    BY <1>4, <1>5, <1>7
  <1>10. \A k \in DOMAIN net.v2 :
            IF NameOf[k] = c.iface THEN V2Part(c, ViewV2(net.v2[k]), ViewV2(q[k]))
            ELSE q[k] = net.v2[k]
    BY <1>4, <1>6, <1>7
  <1> HIDE DEF h, q
  <1>11. Parts(call', net, h, q)
    BY <1>1, <1>8, <1>9, <1>10 DEF Parts
  <1>12. /\ net' \in Network /\ DOMAIN net'.v1 = DOMAIN net.v1 /\ DOMAIN net'.v2 = DOMAIN net.v2
         /\ CallDone'
    BY <1>1, <1>2, <1>11, Changed
  <1> QED
    BY <1>1, <1>12 DEF Asked, Save

\* SetIfaceDHCP does its part.
LEMMA ClientsAsked ==
    TypeInv /\ SetIfaceDHCP => Asked
  <1> SUFFICES ASSUME TypeInv, SetIfaceDHCP PROVE Asked
    OBVIOUS
  <1> PICK iface \in Iface, on \in SUBSET Families :
        /\ Begin("dhcp", iface, on)
        /\ net' = Change(iface, LAMBDA subnets : WithClients(subnets, on),
                         LAMBDA s : [s EXCEPT !.dhcp = SetDHCP(@, on)])
        /\ Save
    BY DEF SetIfaceDHCP
  <1> DEFINE c == [op |-> "dhcp", iface |-> iface, asked |-> on]
             first(p) == WithClients(p, on)
             second(s) == [s EXCEPT !.dhcp = SetDHCP(@, on)]
             h == [n \in DOMAIN net.v1 |-> IF n = iface THEN first(net.v1[n]) ELSE net.v1[n]]
             q == [k \in DOMAIN net.v2 |-> IF NameOf[k] = iface THEN second(net.v2[k])
                                           ELSE net.v2[k]]
  <1>1. /\ pc = "idle" /\ call' = c /\ pre' = [disk |-> disk, net |-> net]
        /\ UNCHANGED <<disk, tmp, bak, configFiles, origin, failed>>
    BY DEF Begin
  <1>2. net' = [v1 |-> h, v2 |-> q]
    BY DEF Change
  <1>3. c.iface = iface /\ c.op = "dhcp" /\ c.asked = on
    OBVIOUS
  <1>4. net \in Network /\ net.v1 \in [DOMAIN net.v1 -> Seq(Subnet)]
        /\ net.v2 \in [DOMAIN net.v2 -> Stanza]
    BY NetworkParts DEF TypeInv
  <1> HIDE DEF c
  <1>5. \A p \in Seq(Subnet) : first(p) \in Seq(Subnet) /\ V1Part(c, p, first(p))
    BY <1>3, ClientsFacts DEF V1Part
  <1>6. ASSUME NEW s \in Stanza
        PROVE  second(s) \in Stanza /\ V2Part(c, ViewV2(s), ViewV2(second(s)))
    <2>1. second(s) \in Stanza /\ ViewV2(second(s)) = [ViewV2(s) EXCEPT !.dhcp = on]
      BY StanzaClients
    <2> HIDE DEF second
    <2> QED
      BY <1>3, <2>1 DEF V2Part
  <1> HIDE DEF first, second
  <1>8. h \in [DOMAIN net.v1 -> Seq(Subnet)] /\ q \in [DOMAIN net.v2 -> Stanza]
    BY <1>4, <1>5, <1>6
  <1>9. \A n \in DOMAIN net.v1 : IF n = c.iface THEN V1Part(c, net.v1[n], h[n])
                                 ELSE h[n] = net.v1[n]
    BY <1>3, <1>4, <1>5
  <1>10. \A k \in DOMAIN net.v2 :
            IF NameOf[k] = c.iface THEN V2Part(c, ViewV2(net.v2[k]), ViewV2(q[k]))
            ELSE q[k] = net.v2[k]
    BY <1>3, <1>4, <1>6
  <1> HIDE DEF h, q
  <1>11. Parts(call', net, h, q)
    BY <1>1, <1>8, <1>9, <1>10 DEF Parts
  <1>12. /\ net' \in Network /\ DOMAIN net'.v1 = DOMAIN net.v1 /\ DOMAIN net'.v2 = DOMAIN net.v2
         /\ CallDone'
    BY <1>1, <1>2, <1>11, Changed
  <1> QED
    BY <1>1, <1>12 DEF Asked, Save

\* SetIfaceDNS does its part.
LEMMA ServersAsked ==
    TypeInv /\ SetIfaceDNS => Asked
  <1> SUFFICES ASSUME TypeInv, SetIfaceDNS PROVE Asked
    OBVIOUS
  <1> PICK iface \in Iface, S \in ServerSets :
        /\ Begin("dns", iface, S)
        /\ net' = Change(iface,
                         LAMBDA subnets : [n \in DOMAIN subnets |-> [subnets[n] EXCEPT !.servers = S]],
                         LAMBDA s : [s EXCEPT !.servers = S])
        /\ Save
    BY DEF SetIfaceDNS
  <1> DEFINE c == [op |-> "dns", iface |-> iface, asked |-> S]
             first(p) == [n \in DOMAIN p |-> [p[n] EXCEPT !.servers = S]]
             second(s) == [s EXCEPT !.servers = S]
             h == [n \in DOMAIN net.v1 |-> IF n = iface THEN first(net.v1[n]) ELSE net.v1[n]]
             q == [k \in DOMAIN net.v2 |-> IF NameOf[k] = iface THEN second(net.v2[k])
                                           ELSE net.v2[k]]
  <1>0. S \in SUBSET Servers
    BY CloudInitAssumption
  <1>1. /\ pc = "idle" /\ call' = c /\ pre' = [disk |-> disk, net |-> net]
        /\ UNCHANGED <<disk, tmp, bak, configFiles, origin, failed>>
    BY DEF Begin
  <1>2. net' = [v1 |-> h, v2 |-> q]
    BY DEF Change
  <1>3. c.iface = iface /\ c.op = "dns" /\ c.asked = S
    OBVIOUS
  <1>4. net \in Network /\ net.v1 \in [DOMAIN net.v1 -> Seq(Subnet)]
        /\ net.v2 \in [DOMAIN net.v2 -> Stanza]
    BY NetworkParts DEF TypeInv
  <1> HIDE DEF c
  <1>5. ASSUME NEW p \in Seq(Subnet) PROVE first(p) \in Seq(Subnet) /\ V1Part(c, p, first(p))
    <2>1. /\ first(p) \in Seq(Subnet)
          /\ p # <<>> => ViewV1(first(p)) = [ViewV1(p) EXCEPT !.servers = S]
      BY <1>0, ServersFacts
    <2> HIDE DEF first
    <2> QED
      BY <1>3, <2>1 DEF V1Part
  <1>6. ASSUME NEW s \in Stanza
        PROVE  second(s) \in Stanza /\ V2Part(c, ViewV2(s), ViewV2(second(s)))
    <2>1. second(s) \in Stanza /\ ViewV2(second(s)) = [ViewV2(s) EXCEPT !.servers = S]
      BY <1>0, StanzaServed
    <2> HIDE DEF second
    <2> QED
      BY <1>3, <2>1 DEF V2Part
  <1> HIDE DEF first, second
  <1>8. h \in [DOMAIN net.v1 -> Seq(Subnet)] /\ q \in [DOMAIN net.v2 -> Stanza]
    BY <1>4, <1>5, <1>6
  <1>9. \A n \in DOMAIN net.v1 : IF n = c.iface THEN V1Part(c, net.v1[n], h[n])
                                 ELSE h[n] = net.v1[n]
    BY <1>3, <1>4, <1>5
  <1>10. \A k \in DOMAIN net.v2 :
            IF NameOf[k] = c.iface THEN V2Part(c, ViewV2(net.v2[k]), ViewV2(q[k]))
            ELSE q[k] = net.v2[k]
    BY <1>3, <1>4, <1>6
  <1> HIDE DEF h, q
  <1>11. Parts(call', net, h, q)
    BY <1>1, <1>8, <1>9, <1>10 DEF Parts
  <1>12. /\ net' \in Network /\ DOMAIN net'.v1 = DOMAIN net.v1 /\ DOMAIN net'.v2 = DOMAIN net.v2
         /\ CallDone'
    BY <1>1, <1>2, <1>11, Changed
  <1> QED
    BY <1>1, <1>12 DEF Asked, Save

\* SetIfaceRoutes does its part, or fails and has done nothing.
LEMMA RoutesAsked ==
    TypeInv /\ SetIfaceRoutes => Asked
  <1> SUFFICES ASSUME TypeInv, SetIfaceRoutes PROVE Asked
    OBVIOUS
  <1> PICK iface \in Iface, R \in RouteSets :
        /\ Begin("routes", iface, R)
        /\ IF iface \in DOMAIN net.v1
           THEN IF net.v1[iface] = <<>>
                THEN ret' = "error" /\ UNCHANGED <<net, pc, i>>
                ELSE \E place \in Places(net.v1[iface], R) :
                        /\ net' = Change(iface, LAMBDA subnets : WithRoutes(subnets, place),
                                         LAMBDA s : [s EXCEPT !.routes = R])
                        /\ Save
           ELSE /\ net' = Change(iface, LAMBDA subnets : subnets,
                                 LAMBDA s : [s EXCEPT !.routes = R])
                /\ Save
    BY DEF SetIfaceRoutes
  <1> DEFINE c == [op |-> "routes", iface |-> iface, asked |-> R]
             second(s) == [s EXCEPT !.routes = R]
             q == [k \in DOMAIN net.v2 |-> IF NameOf[k] = iface THEN second(net.v2[k])
                                           ELSE net.v2[k]]
  <1>0. R \in SUBSET Routes
    BY CloudInitAssumption
  <1>1. /\ pc = "idle" /\ call' = c /\ pre' = [disk |-> disk, net |-> net]
        /\ UNCHANGED <<disk, tmp, bak, configFiles, origin, failed>>
    BY DEF Begin
  <1>3. c.iface = iface /\ c.op = "routes" /\ c.asked = R
    OBVIOUS
  <1>4. net \in Network /\ net.v1 \in [DOMAIN net.v1 -> Seq(Subnet)]
        /\ net.v2 \in [DOMAIN net.v2 -> Stanza]
    BY NetworkParts DEF TypeInv
  <1> HIDE DEF c
  <1>6. ASSUME NEW s \in Stanza
        PROVE  second(s) \in Stanza /\ V2Part(c, ViewV2(s), ViewV2(second(s)))
    <2>1. second(s) \in Stanza /\ ViewV2(second(s)) = [ViewV2(s) EXCEPT !.routes = R]
      BY <1>0, StanzaRouted
    <2> HIDE DEF second
    <2> QED
      BY <1>3, <2>1 DEF V2Part
  <1>7. q \in [DOMAIN net.v2 -> Stanza]
    <2> HIDE DEF second
    <2> QED
      BY <1>4, <1>6
  <1>8. \A k \in DOMAIN net.v2 :
            IF NameOf[k] = c.iface THEN V2Part(c, ViewV2(net.v2[k]), ViewV2(q[k]))
            ELSE q[k] = net.v2[k]
    <2> HIDE DEF second
    <2> QED
      BY <1>3, <1>4, <1>6
  <1>9. ASSUME NEW h \in [DOMAIN net.v1 -> Seq(Subnet)], net' = [v1 |-> h, v2 |-> q], Save,
               \A n \in DOMAIN net.v1 : IF n = iface THEN V1Part(c, net.v1[n], h[n])
                                        ELSE h[n] = net.v1[n]
        PROVE  Asked
    <2> HIDE DEF q, second
    <2>1. Parts(call', net, h, q)
      BY <1>1, <1>3, <1>7, <1>8, <1>9 DEF Parts
    <2>2. /\ net' \in Network /\ DOMAIN net'.v1 = DOMAIN net.v1 /\ DOMAIN net'.v2 = DOMAIN net.v2
          /\ CallDone'
      BY <1>1, <1>9, <2>1, Changed
    <2> QED
      BY <1>1, <1>9, <2>2 DEF Asked, Save
  <1>10. CASE iface \notin DOMAIN net.v1
    <2> DEFINE h == [n \in DOMAIN net.v1 |-> IF n = iface THEN net.v1[n] ELSE net.v1[n]]
    <2>1. Save /\ net' = [v1 |-> h, v2 |-> q]
      BY <1>10 DEF Change
    <2>2. h \in [DOMAIN net.v1 -> Seq(Subnet)] /\ \A n \in DOMAIN net.v1 : h[n] = net.v1[n]
      BY <1>4
    <2> HIDE DEF h, q, second
    <2> QED
      BY <1>9, <1>10, <2>1, <2>2
  <1>11. CASE iface \in DOMAIN net.v1 /\ net.v1[iface] = <<>>
    <2>1. ret' = "error" /\ UNCHANGED <<net, pc, i>>
      BY <1>11
    <2> QED
      BY <1>1, <1>4, <2>1 DEF Asked
  <1>12. CASE iface \in DOMAIN net.v1 /\ net.v1[iface] # <<>>
    <2> PICK place \in Places(net.v1[iface], R) :
          /\ net' = Change(iface, LAMBDA subnets : WithRoutes(subnets, place),
                           LAMBDA s : [s EXCEPT !.routes = R])
          /\ Save
      BY <1>12
    <2> DEFINE t == WithRoutes(net.v1[iface], place)
               h == [n \in DOMAIN net.v1 |-> IF n = iface THEN WithRoutes(net.v1[n], place)
                                             ELSE net.v1[n]]
    <2>1. net' = [v1 |-> h, v2 |-> q]
      BY DEF Change
    <2>2. t \in Seq(Subnet) /\ V1Part(c, net.v1[iface], t)
      <3>1. net.v1[iface] \in Seq(Subnet)
        BY <1>4, <1>12
      <3>2. t \in Seq(Subnet) /\ ViewV1(t) = [ViewV1(net.v1[iface]) EXCEPT !.routes = R]
        BY <1>0, <3>1, RoutesFacts
      <3> HIDE DEF t
      <3> QED
        BY <1>3, <3>2 DEF V1Part
    <2>3. h \in [DOMAIN net.v1 -> Seq(Subnet)]
          /\ \A n \in DOMAIN net.v1 : h[n] = IF n = iface THEN t ELSE net.v1[n]
      BY <1>4, <2>2
    <2>4. \A n \in DOMAIN net.v1 : IF n = iface THEN V1Part(c, net.v1[n], h[n])
                                   ELSE h[n] = net.v1[n]
      <3> HIDE DEF h, t
      <3> QED
        BY <2>2, <2>3
    <2> HIDE DEF h, q, t, second
    <2> QED
      BY <1>9, <2>1, <2>3, <2>4
  <1> QED
    BY <1>10, <1>11, <1>12

-----------------------------------------------------------------------------
(* Save *)

\* There is a main file, the first where that has nothing but a network.
LEMMA MainFacts ==
    ASSUME configFiles \in Seq(CiFile), configFiles # <<>>
    PROVE  Main \in DOMAIN configFiles /\ (configFiles[1].onlyNetwork => Main = 1)
  <1> DEFINE T == {n \in DOMAIN configFiles : configFiles[n].onlyNetwork}
             M == CHOOSE n \in DOMAIN configFiles : configFiles[n].onlyNetwork /\
                     \A m \in DOMAIN configFiles : configFiles[m].onlyNetwork => n <= m
  <1>1. 1 \in DOMAIN configFiles /\ DOMAIN configFiles \subseteq Nat
        /\ \A n \in DOMAIN configFiles : n >= 1
    OBVIOUS
  <1>2. Main = IF \A n \in DOMAIN configFiles : ~configFiles[n].onlyNetwork THEN 1 ELSE M
    BY DEF Main
  <1>3. ASSUME T # {}
        PROVE  /\ M \in DOMAIN configFiles /\ configFiles[M].onlyNetwork
               /\ \A m \in DOMAIN configFiles : configFiles[m].onlyNetwork => M <= m
    <2>1. T \in SUBSET Nat
      BY <1>1
    <2>2. PICK n \in T : \A k \in T : n <= k
      <3> HIDE DEF T
      <3> QED
        BY <1>3, <2>1, Least
    <2>3. /\ n \in DOMAIN configFiles /\ configFiles[n].onlyNetwork
          /\ \A m \in DOMAIN configFiles : configFiles[m].onlyNetwork => n <= m
      BY <2>2
    <2> QED
      BY <2>3
  <1> HIDE DEF M
  <1>4. CASE T = {}
    BY <1>1, <1>2, <1>4
  <1>5. CASE T # {}
    <2>1. Main = M
      BY <1>2, <1>5
    <2>2. configFiles[1].onlyNetwork => M <= 1
      BY <1>1, <1>3, <1>5
    <2>3. M >= 1 /\ M \in Nat
      BY <1>1, <1>3, <1>5
    <2> QED
      BY <1>3, <1>5, <2>1, <2>2, <2>3
  <1> QED
    BY <1>4, <1>5

\* The main file gets the network, or its list if it is encapsulated, and the others
\* get no section.
LEMMA NewNetFacts ==
    ASSUME TypeInv, configFiles # <<>>, NEW f
    PROVE  /\ NewNet(f) \in Network \cup {Absent}
           /\ f # configFiles[Main].path => NewNet(f) = Absent
           /\ f = configFiles[Main].path =>
                 /\ NewNet(f) \in Network /\ NewNet(f) # Absent
                 /\ NewNet(f).v1 = net.v1
                 /\ f \notin Encapsulated => NewNet(f) = net
  <1> DEFINE nil == <<>>
             n == [net EXCEPT !.v2 = nil]
  <1>1. net \in Network /\ Absent \notin Network
    BY CloudInitAssumption DEF TypeInv
  <1>2. nil \in [{} -> Stanza]
    OBVIOUS
  <1> HIDE DEF nil
  <1>3. n = [v1 |-> net.v1, v2 |-> nil]
    BY <1>1, NetworkParts
  <1>4. [v1 |-> net.v1, v2 |-> nil] \in Network
    BY <1>1, <1>2, NetworkParts, NetworkOf
  <1>5. n.v1 = net.v1
    BY <1>3
  <1> HIDE DEF n
  <1>6. NewNet(f) = IF f # configFiles[Main].path THEN Absent
                    ELSE IF f \in Encapsulated THEN n ELSE net
    BY DEF NewNet, n, nil
  <1> HIDE DEF NewNet
  <1> QED
    BY <1>1, <1>3, <1>4, <1>5, <1>6

\* It says the same as long as Save runs.
LEMMA NewNetStays ==
    ASSUME UNCHANGED <<net, configFiles>>, NEW f
    PROVE  NewNet(f)' = NewNet(f)
  BY DEF NewNet, Main

\* The steps of Save, and its failures.
Writes ==
    /\ pc = "save" /\ i <= Len(configFiles)
    /\ disk[file] # Absent
    /\ WriteTmp(file, [disk[file] EXCEPT !.net = NewNet(file)])
    /\ Go("backup")
Moves == pc = "backup" /\ MoveToBackup(file) /\ Go("install")
Installs == pc = "install" /\ MoveInPlace(file) /\ Go("prune")
Fails == Saving /\ Fault

\* What can happen.
LEMMA Steps ==
    ASSUME TypeInv, [Next]_vars
    PROVE  \/ Asked \/ Writes \/ Moves \/ Installs \/ PruneBackups \/ Saved \/ Fails
           \/ Exit \/ newCloudInit \/ UNCHANGED vars
  <1>1. SetIfaceAddresses => Asked
    BY AddressesAsked
  <1>2. SetIfaceDHCP => Asked
    BY ClientsAsked
  <1>3. SetIfaceRoutes => Asked
    BY RoutesAsked
  <1>4. SetIfaceDNS => Asked
    BY ServersAsked
  <1>5. WriteConfig => Writes \/ Fails
    BY DEF WriteConfig, Writes, Fails, Saving
  <1>6. Backup => Moves \/ Fails
    BY DEF Backup, Moves, Fails, Saving
  <1>7. Install => Installs \/ Fails
    BY DEF Install, Installs, Fails, Saving
  <1> QED
    BY <1>1, <1>2, <1>3, <1>4, <1>5, <1>6, <1>7 DEF Next

-----------------------------------------------------------------------------
(* What each step leaves of types, files and their places *)

FilesInv == TypeInv /\ ControlInv /\ PlaceInv

\* The file that Save is at.
LEMMA FileAt ==
    ASSUME FilesInv, Saving, i <= Len(configFiles)
    PROVE  /\ i \in DOMAIN configFiles /\ file \in Files /\ file \in Paths
           /\ configFiles \in Seq(CiFile) /\ Opened(configFiles, disk, bak)
           /\ \A n \in DOMAIN configFiles : configFiles[n].path = file => n = i
  <1>1. pc # "down"
    BY DEF Saving
  <1>2. i \in Nat \ {0} /\ configFiles \in Seq(CiFile) /\ Opened(configFiles, disk, bak)
    BY <1>1 DEF FilesInv, TypeInv, ControlInv
  <1>3. i \in DOMAIN configFiles
    BY <1>2
  <1>4. file \in Files /\ \A n \in DOMAIN configFiles : configFiles[n].path = file => n = i
    BY <1>2, <1>3, EachOnce DEF file
  <1>5. file \in Paths
    BY <1>3 DEF file, Paths, PathsOf
  <1> QED
    BY <1>2, <1>3, <1>4, <1>5

\* A call.
LEMMA AskedFiles ==
    ASSUME FilesInv, Asked
    PROVE  FilesInv'
  <1>1. TypeInv'
    <2>1. pre'.disk = disk /\ pre'.net = net
      BY DEF Asked
    <2>2. pc' \in {"idle", "save"} /\ i' \in Nat \ {0}
      BY DEF Asked, FilesInv, TypeInv
    <2> QED
      BY <2>1, <2>2 DEF Asked, FilesInv, TypeInv, Saving
  <1>2. ControlInv'
    BY DEF Asked, FilesInv, ControlInv
  <1>3. PlaceInv'
    <2>1. CASE pc' = "save" /\ i' = 1
      <3>1. pre'.disk = disk /\ UNCHANGED <<disk, configFiles>>
        BY DEF Asked
      <3>2. \A n \in DOMAIN configFiles' : ~(n < 1)
        BY DEF Asked, FilesInv, TypeInv
      <3>3. \A n \in DOMAIN configFiles' : ~Passed(n)'
        BY <2>1, <3>2 DEF Passed
      <3>4. \A n \in DOMAIN configFiles' : Placed(n)'
        BY <2>1, <3>1, <3>3 DEF Placed
      <3> QED
        BY <2>1, <3>4 DEF PlaceInv
    <2>2. CASE pc' = "idle"
      BY <2>2 DEF PlaceInv, Saving
    <2> QED
      BY <2>1, <2>2 DEF Asked
  <1> QED
    BY <1>1, <1>2, <1>3 DEF FilesInv

\* The new text beside a file.
LEMMA WritesFiles ==
    ASSUME FilesInv, Writes
    PROVE  FilesInv'
  <1>0. Saving /\ i <= Len(configFiles)
    BY DEF Writes, Saving
  <1>1. /\ pc = "save" /\ pc' = "backup" /\ disk[file] # Absent
        /\ tmp' = [tmp EXCEPT ![file] = [disk[file] EXCEPT !.net = NewNet(file)]]
        /\ UNCHANGED <<disk, bak, i, ret, failed, net, configFiles, call, calls, pre, origin>>
    BY DEF Writes, WriteTmp, Go, Rest
  <1>2. i \in DOMAIN configFiles /\ file \in Files /\ configFiles # <<>>
    BY <1>0, FileAt DEF Opened
  <1> DEFINE t == [disk[file] EXCEPT !.net = NewNet(file)]
  <1>3. disk[file] \in Text
    BY <1>1, <1>2 DEF FilesInv, TypeInv, Directory
  <1>4. t = [net |-> NewNet(file), other |-> disk[file].other] /\ t.net = NewNet(file)
    BY <1>3, TextParts
  <1>5. t \in Text /\ t # Absent
    <2>1. disk[file].other \in BOOLEAN
      BY <1>3, TextParts
    <2>2. NewNet(file) \in Network \cup {Absent}
      BY <1>2, NewNetFacts DEF FilesInv
    <2> HIDE DEF t
    <2> QED
      BY <1>4, <2>1, <2>2, TextOf, TextParts
  <1> HIDE DEF t
  <1>6. tmp' = [tmp EXCEPT ![file] = t] /\ tmp \in Directory
    BY <1>1 DEF t, FilesInv, TypeInv
  <1>7. tmp' \in Directory /\ tmp'[file] = t
    BY <1>2, <1>5, <1>6 DEF Directory
  <1>8. TypeInv'
    BY <1>1, <1>7 DEF FilesInv, TypeInv, Saving
  <1>9. ControlInv'
    BY <1>0, <1>1 DEF FilesInv, ControlInv
  <1>10. PlaceInv'
    <2>1. file' = file /\ (NewNet(file))' = NewNet(file)
      BY <1>1 DEF file, NewNet, Main
    <2>2. ASSUME NEW n \in DOMAIN configFiles PROVE Placed(n)'
      <3>1. Placed(n)
        BY <1>0, <2>2 DEF FilesInv, PlaceInv
      <3>2. (Passed(n)' <=> Passed(n)) /\ NewNet(configFiles[n].path)' = NewNet(configFiles[n].path)
        BY <1>1 DEF Passed, NewNet, Main
      <3> HIDE DEF NewNet, Passed
      <3> QED
        BY <1>1, <3>1, <3>2 DEF Placed
    <2>3. (tmp[file] # Absent /\ tmp[file].net = NewNet(file))'
      BY <1>4, <1>5, <1>7, <2>1
    <2> QED
      BY <1>1, <2>2, <2>3 DEF PlaceInv
  <1> QED
    BY <1>8, <1>9, <1>10 DEF FilesInv

\* A file to its backup.
LEMMA MovesFiles ==
    ASSUME FilesInv, Moves
    PROVE  /\ FilesInv'
           /\ file \in Files /\ disk[file] \in Text
           /\ disk' = [disk EXCEPT ![file] = Absent] /\ Len(bak'[file]) = Len(bak[file]) + 1
           /\ bak'[file][1] = disk[file]
           /\ \A m \in DOMAIN bak[file] : m + 1 \in DOMAIN bak'[file]
                                          /\ bak'[file][m + 1] = bak[file][m]
           /\ \A f \in Files : f # file => bak'[f] = bak[f]
  <1>1. /\ pc = "backup" /\ pc' = "install" /\ disk[file] # Absent
        /\ bak' = [bak EXCEPT ![file] = <<disk[file]>> \o bak[file]]
        /\ disk' = [disk EXCEPT ![file] = Absent]
        /\ UNCHANGED <<tmp, i, ret, failed, net, configFiles, call, calls, pre, origin>>
    BY DEF Moves, MoveToBackup, Go, Rest
  <1>2. Saving /\ i <= Len(configFiles)
    BY <1>1 DEF Saving, FilesInv, ControlInv
  <1>3. /\ i \in DOMAIN configFiles /\ file \in Files /\ file \in PathsOf(configFiles)
        /\ configFiles \in Seq(CiFile) /\ Opened(configFiles, disk, bak)
        /\ \A n \in DOMAIN configFiles : configFiles[n].path = file => n = i
    BY <1>2, FileAt DEF Paths
  <1>4. disk \in Directory /\ bak \in [Files -> Seq(Text)]
    BY DEF FilesInv, TypeInv
  <1>5. disk[file] \in Text /\ bak[file] \in Seq(Text)
    BY <1>1, <1>3, <1>4 DEF Directory
  <1> DEFINE B == <<disk[file]>> \o bak[file]
  <1>6. /\ B \in Seq(Text) /\ Len(B) = Len(bak[file]) + 1 /\ B[1] = disk[file] /\ B # <<>>
        /\ \A m \in DOMAIN bak[file] : m + 1 \in DOMAIN B /\ B[m + 1] = bak[file][m]
    BY <1>5
  <1> HIDE DEF B
  <1>7. bak' = [bak EXCEPT ![file] = B]
    BY <1>1 DEF B
  <1>8. bak' \in [Files -> Seq(Text)] /\ bak'[file] = B
        /\ \A f \in Files : f # file => bak'[f] = bak[f]
    BY <1>3, <1>4, <1>6, <1>7
  <1>9. disk' \in Directory /\ disk'[file] = Absent
        /\ \A f \in Files : f # file => disk'[f] = disk[f]
    BY <1>1, <1>3, <1>4 DEF Directory
  <1>10. TypeInv'
    BY <1>1, <1>8, <1>9 DEF FilesInv, TypeInv, Saving
  <1>11. ControlInv'
    <2>1. \A f \in Files : bak[f] # <<>> => bak'[f] # <<>>
      BY <1>6, <1>8
    <2> DEFINE d == disk
               c == disk'
               b == bak
               a == bak'
               f == file
               p == configFiles
    <2>2. Opened(p, c, a)
      <3>1. /\ p \in Seq(CiFile) /\ f \in PathsOf(p) /\ Opened(p, d, b)
            /\ \A g \in Files : g # f => c[g] = d[g]
            /\ \A g \in Files : b[g] # <<>> => a[g] # <<>>
            /\ c[f] # Absent \/ a[f] # <<>>
        BY <1>3, <1>6, <1>8, <1>9, <2>1
      <3> HIDE DEF a, b, c, d, f, p
      <3> QED
        BY <3>1, OpenedStays
    <2> QED
      BY <1>1, <1>2, <2>2 DEF FilesInv, ControlInv
  <1>12. PlaceInv'
    <2>1. file' = file /\ (NewNet(file))' = NewNet(file)
      BY <1>1 DEF file, NewNet, Main
    <2>2. ASSUME NEW n \in DOMAIN configFiles, n # i PROVE Placed(n)'
      <3> DEFINE f == configFiles[n].path
      <3>1. f # file /\ f \in Files
        BY <1>3, <2>2, EachOnce
      <3>2. disk'[f] = disk[f] /\ configFiles'[n].path = f
        BY <1>1, <1>9, <3>1
      <3>3. Placed(n)
        BY <1>2, <2>2 DEF FilesInv, PlaceInv
      <3>4. (Passed(n)' <=> Passed(n)) /\ (NewNet(configFiles[n].path))' = NewNet(f)
        BY <1>1 DEF Passed, NewNet, Main
      <3> QED
        BY <1>1, <2>2, <3>2, <3>3, <3>4 DEF Placed
    <2>3. Placed(i)'
      <3>1. configFiles'[i].path = file /\ disk'[file] = Absent /\ bak'[file] # <<>>
        BY <1>1, <1>6, <1>8, <1>9 DEF file
      <3>2. ~Passed(i)'
        BY <1>1, <1>3 DEF Passed
      <3> QED
        BY <1>1, <3>1, <3>2 DEF Placed
    <2>4. (tmp[file] # Absent /\ tmp[file].net = NewNet(file))'
      BY <1>1, <2>1 DEF FilesInv, PlaceInv
    <2> QED
      BY <1>1, <2>2, <2>3, <2>4 DEF PlaceInv
  <1> QED
    BY <1>1, <1>3, <1>5, <1>6, <1>8, <1>10, <1>11, <1>12 DEF FilesInv

\* The new text into its place.
LEMMA InstallsFiles ==
    ASSUME FilesInv, Installs
    PROVE  /\ FilesInv'
           /\ file \in Files /\ disk[file] = Absent
           /\ disk'[file] # Absent /\ disk'[file].net = NewNet(file)
           /\ \A f \in Files : f # file => disk'[f] = disk[f]
           /\ bak' = bak
  <1>1. /\ pc = "install" /\ pc' = "prune"
        /\ disk' = [disk EXCEPT ![file] = tmp[file]]
        /\ tmp' = [tmp EXCEPT ![file] = Absent]
        /\ UNCHANGED <<bak, i, ret, failed, net, configFiles, call, calls, pre, origin>>
    BY DEF Installs, MoveInPlace, Go, Rest
  <1>2. Saving /\ i <= Len(configFiles)
    BY <1>1 DEF Saving, FilesInv, ControlInv
  <1>3. /\ i \in DOMAIN configFiles /\ file \in Files /\ file \in PathsOf(configFiles)
        /\ configFiles \in Seq(CiFile) /\ Opened(configFiles, disk, bak)
        /\ \A n \in DOMAIN configFiles : configFiles[n].path = file => n = i
    BY <1>2, FileAt DEF Paths
  <1>4. disk \in Directory /\ tmp \in Directory
    BY DEF FilesInv, TypeInv
  <1>5. tmp[file] \in Text /\ tmp[file] # Absent /\ tmp[file].net = NewNet(file)
    BY <1>1, <1>3, <1>4 DEF FilesInv, PlaceInv, Directory
  <1>6. /\ disk' \in Directory /\ disk'[file] = tmp[file] /\ tmp' \in Directory
        /\ \A f \in Files : f # file => disk'[f] = disk[f]
    BY <1>1, <1>3, <1>4, <1>5 DEF Directory
  <1>7. disk[file] = Absent
    <2>1. Placed(i) /\ ~Passed(i)
      BY <1>1, <1>2, <1>3 DEF FilesInv, PlaceInv, Passed
    <2> QED
      BY <1>1, <1>3, <2>1 DEF Placed, file
  <1>8. TypeInv'
    BY <1>1, <1>6 DEF FilesInv, TypeInv, Saving
  <1>9. ControlInv'
    <2> DEFINE d == disk
               c == disk'
               b == bak
               a == bak'
               f == file
               p == configFiles
    <2>1. Opened(p, c, a)
      <3>1. /\ p \in Seq(CiFile) /\ f \in PathsOf(p) /\ Opened(p, d, b)
            /\ \A g \in Files : g # f => c[g] = d[g]
            /\ \A g \in Files : b[g] # <<>> => a[g] # <<>>
            /\ c[f] # Absent \/ a[f] # <<>>
        BY <1>1, <1>3, <1>5, <1>6
      <3> HIDE DEF a, b, c, d, f, p
      <3> QED
        BY <3>1, OpenedStays
    <2> QED
      BY <1>1, <1>2, <2>1 DEF FilesInv, ControlInv
  <1>10. PlaceInv'
    <2>1. ASSUME NEW n \in DOMAIN configFiles, n # i PROVE Placed(n)'
      <3> DEFINE f == configFiles[n].path
      <3>1. f # file /\ f \in Files
        BY <1>3, <2>1, EachOnce
      <3>2. disk'[f] = disk[f] /\ configFiles'[n].path = f
        BY <1>1, <1>6, <3>1
      <3>3. Placed(n)
        BY <1>2, <2>1 DEF FilesInv, PlaceInv
      <3>4. (Passed(n)' <=> Passed(n)) /\ (NewNet(configFiles[n].path))' = NewNet(f)
        BY <1>1, <2>1 DEF Passed, NewNet, Main
      <3> QED
        BY <1>1, <2>1, <3>2, <3>3, <3>4 DEF Placed
    <2>2. Placed(i)'
      <3>1. configFiles'[i].path = file /\ disk'[file] # Absent /\ disk'[file].net = NewNet(file)
        BY <1>1, <1>5, <1>6 DEF file
      <3>2. Passed(i)'
        BY <1>1, <1>3 DEF Passed
      <3>3. (NewNet(configFiles[i].path))' = NewNet(file)
        BY <1>1 DEF NewNet, Main, file
      <3> QED
        BY <1>1, <3>1, <3>2, <3>3 DEF Placed
    <2> QED
      BY <1>1, <2>1, <2>2 DEF PlaceInv
  <1> QED
    BY <1>1, <1>3, <1>5, <1>6, <1>7, <1>8, <1>9, <1>10 DEF FilesInv

\* What is kept of the backups: the newest.
LEMMA PrunedFacts ==
    ASSUME NEW b \in Seq(Text)
    PROVE  /\ Pruned(b) \in Seq(Text) /\ (b # <<>> => Pruned(b) # <<>>)
           /\ \A m \in DOMAIN b : Retention = 0 \/ m <= Retention =>
                 m \in DOMAIN Pruned(b) /\ Pruned(b)[m] = b[m]
  <1>1. Retention \in Nat
    BY FilesAssumption
  <1>2. CASE Retention = 0 \/ Len(b) <= Retention
    BY <1>2 DEF Pruned
  <1>3. CASE ~(Retention = 0 \/ Len(b) <= Retention)
    <2> DEFINE q == SubSeq(b, 1, Retention)
    <2>1. /\ q \in Seq(Text) /\ Len(q) = Retention
          /\ \A m \in 1 .. Retention : q[m] = b[m]
      BY <1>1, <1>3
    <2>2. Pruned(b) = q
      BY <1>3 DEF Pruned
    <2> HIDE DEF q
    <2>3. DOMAIN q = 1 .. Retention /\ q # <<>>
      BY <1>1, <1>3, <2>1
    <2> QED
      BY <1>1, <1>3, <2>1, <2>2, <2>3
  <1> QED
    BY <1>2, <1>3

\* Old backups go.
LEMMA PruneFiles ==
    ASSUME FilesInv, PruneBackups
    PROVE  /\ FilesInv'
           /\ file \in Files /\ file \in Paths
           /\ \A f \in Files : f # file => bak'[f] = bak[f]
           /\ \A m \in DOMAIN bak[file] : Retention = 0 \/ m <= Retention =>
                 m \in DOMAIN bak'[file] /\ bak'[file][m] = bak[file][m]
  <1>1. /\ pc = "prune" /\ pc' = "save" /\ i' = i + 1
        /\ bak' = [bak EXCEPT ![file] = Pruned(bak[file])] \/ bak' = bak
        /\ UNCHANGED <<disk, tmp, ret, failed, net, configFiles, call, calls, pre, origin>>
    BY DEF PruneBackups, Prune, Rest
  <1>2. Saving /\ i <= Len(configFiles)
    BY <1>1 DEF Saving, FilesInv, ControlInv
  <1>3. /\ i \in DOMAIN configFiles /\ file \in Files /\ file \in PathsOf(configFiles)
        /\ configFiles \in Seq(CiFile) /\ Opened(configFiles, disk, bak)
    BY <1>2, FileAt DEF Paths
  <1>4. bak \in [Files -> Seq(Text)] /\ bak[file] \in Seq(Text) /\ i \in Nat \ {0}
    BY <1>3 DEF FilesInv, TypeInv
  <1>5. /\ Pruned(bak[file]) \in Seq(Text) /\ (bak[file] # <<>> => Pruned(bak[file]) # <<>>)
        /\ \A m \in DOMAIN bak[file] : Retention = 0 \/ m <= Retention =>
              m \in DOMAIN Pruned(bak[file]) /\ Pruned(bak[file])[m] = bak[file][m]
    BY <1>4, PrunedFacts
  <1> DEFINE B == Pruned(bak[file])
  <1> HIDE DEF B
  <1>6. /\ bak' \in [Files -> Seq(Text)]
        /\ bak'[file] = B \/ bak'[file] = bak[file]
        /\ \A f \in Files : f # file => bak'[f] = bak[f]
    BY <1>1, <1>3, <1>4, <1>5 DEF B
  <1>7. TypeInv'
    <2>1. bak' \in [Files -> Seq(Text)]
      BY <1>1, <1>3, <1>4, <1>5
    <2> QED
      BY <1>1, <1>4, <2>1 DEF FilesInv, TypeInv, Saving
  <1>8. \A f \in Files : bak[f] # <<>> => bak'[f] # <<>>
    BY <1>5, <1>6 DEF B
  <1>9. ControlInv'
    <2> DEFINE d == disk
               b == bak
               a == bak'
               f == file
               p == configFiles
    <2>1. Opened(p, d, a)
      <3>1. /\ p \in Seq(CiFile) /\ f \in PathsOf(p) /\ Opened(p, d, b)
            /\ \A g \in Files : g # f => d[g] = d[g]
            /\ \A g \in Files : b[g] # <<>> => a[g] # <<>>
        BY <1>3, <1>8
      <3>2. d[f] # Absent \/ b[f] # <<>>
        BY <1>3 DEF Opened
      <3>3. d[f] # Absent \/ a[f] # <<>>
        BY <1>3, <1>8, <3>2
      <3> HIDE DEF a, b, d, f, p
      <3> QED
        BY <3>1, <3>3, OpenedStays
    <2> QED
      BY <1>1, <1>2, <2>1 DEF FilesInv, ControlInv
  <1>10. PlaceInv'
    <2>1. ASSUME NEW n \in DOMAIN configFiles PROVE Placed(n)'
      <3>1. Placed(n)
        BY <1>2, <2>1 DEF FilesInv, PlaceInv
      <3>2. (Passed(n)' <=> Passed(n))
        <4>1. n \in Nat
          BY <1>3
        <4> QED
          BY <1>1, <1>4, <4>1 DEF Passed
      <3>3. (NewNet(configFiles[n].path))' = NewNet(configFiles[n].path)
        BY <1>1 DEF NewNet, Main
      <3> QED
        BY <1>1, <3>1, <3>2, <3>3 DEF Placed
    <2> QED
      BY <1>1, <2>1 DEF PlaceInv
  <1> QED
    BY <1>3, <1>5, <1>6, <1>7, <1>9, <1>10 DEF FilesInv, B, Paths

\* A failure, the end of Save and that of the process leave the files.
LEMMA EndsFiles ==
    ASSUME FilesInv, Fails \/ Saved \/ Exit \/ UNCHANGED vars
    PROVE  FilesInv' /\ UNCHANGED files
  <1>1. CASE Fails \/ Saved
    <2>1. /\ pc' = "idle" /\ i' = 1 /\ failed' \in Nat /\ Saving
          /\ UNCHANGED <<disk, tmp, bak, net, configFiles, call, calls, pre, origin>>
      BY <1>1 DEF Fails, Saved, Fault, Rest, files, FilesInv, TypeInv, Saving
    <2>2. TypeInv'
      BY <2>1 DEF FilesInv, TypeInv
    <2>3. ControlInv'
      BY <2>1 DEF FilesInv, ControlInv, Saving
    <2>4. PlaceInv'
      BY <2>1 DEF PlaceInv, Saving
    <2> QED
      BY <2>1, <2>2, <2>3, <2>4 DEF FilesInv, files
  <1>2. CASE Exit
    <2>1. /\ pc' = "down" /\ i' = 1 /\ net' = NoNetwork /\ configFiles' = <<>>
          /\ UNCHANGED <<disk, tmp, bak, call, calls, pre, origin, failed>>
      BY <1>2 DEF Exit, files
    <2>2. TypeInv'
      <3>1. configFiles' \in Seq(CiFile)
        BY <2>1
      <3>2. net' \in Network
        BY <2>1, NothingIsANetwork
      <3> QED
        BY <2>1, <3>1, <3>2 DEF FilesInv, TypeInv
    <2>3. ControlInv'
      BY <2>1 DEF ControlInv
    <2>4. PlaceInv'
      BY <2>1 DEF PlaceInv, Saving
    <2> QED
      BY <2>1, <2>2, <2>3, <2>4 DEF FilesInv, files
  <1>3. CASE UNCHANGED vars
    <2>1. UNCHANGED <<disk, tmp, bak, net, configFiles, pc, i, pre, origin, failed>>
      BY <1>3 DEF vars
    <2>2. TypeInv'
      BY <2>1 DEF FilesInv, TypeInv, Saving
    <2>3. ControlInv'
      BY <2>1 DEF FilesInv, ControlInv
    <2>4. PlaceInv'
      BY <2>1 DEF FilesInv, PlaceInv, Placed, Passed, NewNet, Main, file, Saving
    <2> QED
      BY <2>1, <2>2, <2>3, <2>4 DEF FilesInv, files
  <1> QED
    BY <1>1, <1>2, <1>3

\* A new process knows the directory.
LEMMA OpensFiles ==
    ASSUME FilesInv, newCloudInit
    PROVE  FilesInv'
  <1>1. /\ pc' = "idle" /\ i' = 1 /\ net' = Effective(disk) /\ configFiles' = ReadFiles(disk)
        /\ pre' = [disk |-> disk, net |-> net'] /\ Readable(disk)
        /\ UNCHANGED <<disk, tmp, bak, call, calls, origin>>
        /\ failed' = IF Retention # 0 /\ failed >= Retention THEN failed ELSE 0
    BY DEF newCloudInit, files
  <1>2. disk \in Directory
    BY DEF FilesInv, TypeInv
  <1>3. Effective(disk) \in Network /\ ReadFiles(disk) \in Seq(CiFile)
    BY <1>2, Merged, FilesRead
  <1>4. failed' \in Nat
    BY <1>1 DEF FilesInv, TypeInv
  <1>5. TypeInv'
    BY <1>1, <1>3, <1>4 DEF FilesInv, TypeInv
  <1>6. /\ Opened(ReadFiles(disk), disk, bak)
        /\ DOMAIN Effective(disk).v1 # {} \/ DOMAIN Effective(disk).v2 # {}
    BY <1>1, <1>2, OpenedNow
  <1>7. ControlInv'
    BY <1>1, <1>6 DEF ControlInv
  <1>8. PlaceInv'
    BY <1>1 DEF PlaceInv, Saving
  <1> QED
    BY <1>5, <1>7, <1>8 DEF FilesInv

\* So does the first one.
LEMMA InitFiles ==
    Init => FilesInv
  <1> SUFFICES ASSUME Init PROVE FilesInv
    OBVIOUS
  <1>1. /\ disk \in Dirs /\ Readable(disk)
        /\ tmp = [f \in Files |-> Absent] /\ bak = [f \in Files |-> <<>>]
        /\ net = Effective(disk) /\ configFiles = ReadFiles(disk)
        /\ pc = "idle" /\ i = 1 /\ failed = 0
        /\ pre = [disk |-> disk, net |-> net] /\ origin = net
    BY DEF Init
  <1>2. disk \in Directory
    <2>1. disk = [f \in Files |-> disk[f]]
      BY <1>1, CloudInitAssumption
    <2>2. ASSUME NEW f \in Files, disk[f] # Absent PROVE disk[f] \in Text
      <3> DEFINE t == disk[f]
                 n == t.net
      <3>1. /\ t = [net |-> n, other |-> t.other] /\ t.other \in BOOLEAN
            /\ n # Absent =>
                  /\ n = [v1 |-> n.v1, v2 |-> n.v2]
                  /\ DOMAIN n.v1 \subseteq Iface /\ n.v1 \in V1(DOMAIN n.v1)
                  /\ DOMAIN n.v2 \subseteq Key /\ n.v2 \in V2(DOMAIN n.v2)
        BY <1>1, <2>2, CloudInitAssumption
      <3> HIDE DEF t
      <3>2. n # Absent => n \in Network
        <4> HIDE DEF n
        <4> QED
          BY <3>1, NetworkOf DEF V1, V2
      <3>3. t \in Text
        <4> HIDE DEF n
        <4> QED
          BY <3>1, <3>2, TextOf
      <3> QED
        BY <3>3 DEF t
    <2> QED
      BY <2>1, <2>2 DEF Directory
  <1>3. Effective(disk) \in Network /\ ReadFiles(disk) \in Seq(CiFile)
    BY <1>2, Merged, FilesRead
  <1>4. tmp \in Directory /\ bak \in [Files -> Seq(Text)]
    BY <1>1 DEF Directory
  <1>5. TypeInv
    BY <1>1, <1>2, <1>3, <1>4 DEF TypeInv
  <1>6. /\ Opened(ReadFiles(disk), disk, bak)
        /\ DOMAIN Effective(disk).v1 # {} \/ DOMAIN Effective(disk).v2 # {}
    BY <1>1, <1>2, OpenedNow
  <1>7. ControlInv
    BY <1>1, <1>6 DEF ControlInv
  <1>8. PlaceInv
    BY <1>1 DEF PlaceInv, Saving
  <1> QED
    BY <1>5, <1>7, <1>8 DEF FilesInv

\* Every step keeps types, files and places.
LEMMA FilesStep ==
    FilesInv /\ [Next]_vars => FilesInv'
  <1> SUFFICES ASSUME FilesInv, [Next]_vars PROVE FilesInv'
    OBVIOUS
  <1>1. \/ Asked \/ Writes \/ Moves \/ Installs \/ PruneBackups \/ Saved \/ Fails
        \/ Exit \/ newCloudInit \/ UNCHANGED vars
    BY Steps DEF FilesInv
  <1> QED
    BY <1>1, AskedFiles, WritesFiles, MovesFiles, InstallsFiles, PruneFiles, EndsFiles, OpensFiles

-----------------------------------------------------------------------------
(* What a call that returned without error has done *)

DoneInv ==
    /\ Saving => CallDone
    /\ SavedIsRead /\ CallDoesItsPart

\* When Save has passed every file, the main one has the only section.
LEMMA AllPassed ==
    ASSUME FilesInv, pc = "save", i > Len(configFiles)
    PROVE  /\ Readable(disk) \/ (configFiles[Main].path \in Encapsulated /\ DOMAIN net.v1 = {})
           /\ Effective(disk) = NewNet(configFiles[Main].path)
           /\ configFiles # <<>> /\ configFiles[Main].path \in Paths
           /\ HasSection(disk, configFiles[Main].path)
           /\ disk[configFiles[Main].path].net = NewNet(configFiles[Main].path)
  <1> DEFINE f == configFiles[Main].path
  <1>1. Saving /\ pc # "down"
    BY DEF Saving
  <1>2. /\ disk \in Directory /\ configFiles \in Seq(CiFile) /\ net \in Network
        /\ Opened(configFiles, disk, bak) /\ configFiles # <<>>
        /\ DOMAIN net.v1 # {} \/ DOMAIN net.v2 # {}
    BY <1>1 DEF FilesInv, TypeInv, ControlInv, Opened
  <1>3. Main \in DOMAIN configFiles
    BY <1>2, MainFacts
  <1>4. ASSUME NEW n \in DOMAIN configFiles
        PROVE  /\ disk[configFiles[n].path] # Absent
               /\ disk[configFiles[n].path].net = NewNet(configFiles[n].path)
    <2>1. Placed(n)
      BY <1>1 DEF FilesInv, PlaceInv
    <2>2. Passed(n)
      <3>1. n \in Nat /\ n <= Len(configFiles) /\ Len(configFiles) \in Nat /\ i \in Nat
        BY <1>2 DEF FilesInv, TypeInv
      <3> QED
        BY <3>1 DEF Passed
    <2> QED
      BY <2>1, <2>2 DEF Placed
  <1>5. \A g \in Paths : disk[g] # Absent /\ disk[g].net = NewNet(g)
    BY <1>4 DEF Paths, PathsOf
  <1>6. /\ \A g : g # f => NewNet(g) = Absent
        /\ NewNet(f) \in Network /\ NewNet(f) # Absent /\ NewNet(f).v1 = net.v1
        /\ f \notin Encapsulated => NewNet(f) = net
    <2>1. TypeInv
      BY DEF FilesInv
    <2>2. ASSUME NEW g, g # f PROVE NewNet(g) = Absent
      BY <1>2, <2>1, <2>2, NewNetFacts
    <2>3. /\ NewNet(f) \in Network /\ NewNet(f) # Absent /\ NewNet(f).v1 = net.v1
          /\ f \notin Encapsulated => NewNet(f) = net
      <3>1. f = configFiles[Main].path
        OBVIOUS
      <3> HIDE DEF f
      <3> QED
        BY <1>2, <2>1, <3>1, NewNetFacts
    <2> QED
      BY <2>2, <2>3
  <1>7. PICK k \in DOMAIN Order : Order[k] = f
    BY <1>2, <1>3, EachOnce
  <1>8. f \in Paths
    BY <1>3 DEF Paths, PathsOf
  <1> HIDE DEF f
  <1>9. Used(disk, k)
    <2>1. HasSection(disk, f)
      BY <1>5, <1>6, <1>8 DEF HasSection
    <2> QED
      BY <1>2, <1>7, <1>8, <2>1, OwnSectionIsUsed DEF Paths
  <1>10. ASSUME NEW m \in DOMAIN Order, Used(disk, m) PROVE m = k
    <2>1. HasSection(disk, Order[m])
      BY <1>10 DEF Used
    <2>2. CASE Order[m] \in Paths
      <3>1. Order[m] = f
        BY <1>5, <1>6, <2>1, <2>2 DEF HasSection
      <3> QED
        BY <1>7, <3>1, OrderFacts
    <2>3. CASE Order[m] \notin Paths
      <3>1. PICK j \in 1 .. m - 1 : m <= Len(BaseFiles) /\ disk[Order[j]] # Absent
        BY <1>2, <1>5, <2>1, <2>3 DEF Opened, Known, Paths
      <3> QED
        BY <1>10, <3>1 DEF Used
    <2> QED
      BY <2>2, <2>3
  <1>11. Effective(disk) = NewNet(f)
    <2>1. Effective(disk) = disk[Order[k]].net
      BY <1>2, <1>9, <1>10, OneSectionIsRead
    <2> QED
      BY <1>5, <1>7, <1>8, <2>1
  <1>12. ASSUME f \notin Encapsulated \/ DOMAIN net.v1 # {} PROVE Readable(disk)
    <2>1. NewNet(f) # NoNetwork
      <3>1. DOMAIN NewNet(f).v1 # {} \/ DOMAIN NewNet(f).v2 # {}
        BY <1>2, <1>6, <1>12
      <3> QED
        BY <1>6, <3>1, NothingIsANetwork
    <2>2. PICK n \in DOMAIN BaseFiles : disk[Order[n]] # Absent \/ Order[n] \in Paths
      BY <1>2 DEF Opened, Paths
    <2>3. disk[BaseFiles[n]] # Absent
      BY <1>5, <2>2, OrderFacts
    <2> QED
      BY <1>11, <2>1, <2>3 DEF Readable
  <1>13. HasSection(disk, f) /\ disk[f].net = NewNet(f)
    BY <1>5, <1>6, <1>8 DEF HasSection
  <1> QED
    BY <1>2, <1>8, <1>11, <1>12, <1>13 DEF f

\* What a call has done stays done, and a Save that ends well shows it to a new process.
LEMMA DoneStep ==
    FilesInv /\ DoneInv /\ [Next]_vars => DoneInv'
  <1> SUFFICES ASSUME FilesInv, DoneInv, [Next]_vars PROVE DoneInv'
    OBVIOUS
  <1>1. CASE Asked
    <2>1. (pc' = "save" /\ ret' = "running" /\ CallDone') \/ (pc' = "idle" /\ ret' = "error")
      BY <1>1 DEF Asked
    <2>2. Saving' => CallDone'
      BY <2>1 DEF Saving
    <2>3. ~(pc' = "idle" /\ ret' = "ok")
      BY <2>1
    <2> QED
      BY <2>2, <2>3 DEF DoneInv, SavedIsRead, CallDoesItsPart
  <1>2. CASE Writes \/ Moves \/ Installs \/ PruneBackups
    <2>1. Saving /\ pc' # "idle" /\ UNCHANGED <<net, call, pre>>
      BY <1>2 DEF Writes, Moves, Installs, PruneBackups, Go, Rest, Saving
    <2>2. CallDone'
      BY <2>1 DEF DoneInv, CallDone
    <2> QED
      BY <2>1, <2>2 DEF DoneInv, SavedIsRead, CallDoesItsPart
  <1>3. CASE Saved
    <2>1. /\ pc = "save" /\ i > Len(configFiles) /\ pc' = "idle" /\ Saving
          /\ UNCHANGED <<disk, net, configFiles, call, pre>>
      BY <1>3 DEF Saved, Rest, files, Saving
    <2>2. CallDone'
      BY <2>1 DEF DoneInv, CallDone
    <2> DEFINE f == configFiles[Main].path
    <2>3. /\ Readable(disk) \/ (f \in Encapsulated /\ DOMAIN net.v1 = {})
          /\ Effective(disk) = NewNet(f) /\ configFiles # <<>>
      BY <2>1, AllPassed
    <2>4. NewNet(f).v1 = net.v1 /\ (f \notin Encapsulated => NewNet(f) = net)
      <3>1. TypeInv
        BY DEF FilesInv
      <3>2. f = configFiles[Main].path
        OBVIOUS
      <3> HIDE DEF f
      <3> QED
        BY <2>3, <3>1, <3>2, NewNetFacts
    <2>5. (configFiles[Main].path)' = f
      BY <2>1 DEF Main
    <2> HIDE DEF f
    <2>6. SavedIsRead'
      BY <2>1, <2>3, <2>4, <2>5 DEF SavedIsRead
    <2>7. ~Saving'
      BY <2>1 DEF Saving
    <2> QED
      BY <2>2, <2>6, <2>7 DEF DoneInv, CallDoesItsPart
  <1>4. CASE Fails \/ Exit \/ newCloudInit
    <2>1. pc' \in {"idle", "down"} /\ ~(pc' = "idle" /\ ret' = "ok")
      BY <1>4 DEF Fails, Fault, Exit, newCloudInit
    <2> QED
      BY <2>1 DEF DoneInv, SavedIsRead, CallDoesItsPart, Saving
  <1>5. CASE UNCHANGED vars
    <2>1. UNCHANGED <<disk, net, configFiles, pc, call, ret, pre>>
      BY <1>5 DEF vars
    <2>2. (CallDone <=> CallDone') /\ (Saving <=> Saving')
      BY <2>1 DEF CallDone, Saving
    <2>3. (configFiles[Main].path)' = configFiles[Main].path
      BY <2>1 DEF Main
    <2>4. SavedIsRead'
      BY <2>1, <2>3 DEF DoneInv, SavedIsRead
    <2> QED
      BY <2>1, <2>2, <2>4 DEF DoneInv, CallDoesItsPart
  <1>6. \/ Asked \/ Writes \/ Moves \/ Installs \/ PruneBackups \/ Saved \/ Fails
        \/ Exit \/ newCloudInit \/ UNCHANGED vars
    BY Steps DEF FilesInv
  <1> QED
    BY <1>1, <1>2, <1>3, <1>4, <1>5, <1>6

-----------------------------------------------------------------------------
(* What is kept *)

\* One base file in use, with this directory and these backups.
Single(d, b) ==
    \A f, g \in ToSet(BaseFiles) :
        (d[f] # Absent \/ b[f] # <<>>) /\ (d[g] # Absent \/ b[g] # <<>>) => f = g

\* An entry of another file stays where it is, and is read, when one file's section goes.
LEMMA OthersStay ==
    ASSUME NEW s \in Seq(CiFile), NEW d \in Directory, NEW c \in Directory, NEW b, NEW a,
           Opened(s, d, b), Opened(s, c, a), NEW f \in Files,
           \A g \in Files : g # f => c[g] = d[g], ~HasSection(c, f),
           NEW e \in Entries(Effective(d)),
           \E g \in PathsOf(s) : HasSection(d, g) /\ e \in Entries(d[g].net),
           ~(HasSection(d, f) /\ e \in Entries(d[f].net)),
           \A x : e = <<"v1", x>> => Single(d, b) /\ Single(c, a)
    PROVE  /\ e \in Entries(Effective(c))
           /\ \E g \in PathsOf(s) : HasSection(c, g) /\ e \in Entries(c[g].net)
  <1>1. /\ \A k \in DOMAIN Order : Order[k] \in Files
        /\ \A g \in PathsOf(s) : \E k \in DOMAIN Order : Order[k] = g
    BY OrderFacts DEF Opened
  <1>2. \A g \in Files : HasSection(c, g) => HasSection(d, g) /\ c[g].net = d[g].net
    BY DEF HasSection
  <1>3. \A g \in Files : g # f /\ HasSection(d, g) => HasSection(c, g) /\ c[g].net = d[g].net
    BY DEF HasSection
  <1>4. CASE \E x : e = <<"v1", x>>
    <2>1. PICK x : e = <<"v1", x>>
      BY <1>4
    <2>2. x \in DOMAIN Effective(d).v1 /\ \E m \in DOMAIN Order : FirstList(d, m)
      BY <2>1, ReadFromASection
    <2>3. PICK m \in DOMAIN Order : FirstList(d, m)
      BY <2>2
    <2>4. Used(d, m) /\ HasSection(d, Order[m]) /\ Effective(d).v1 = d[Order[m]].net.v1
      BY <2>3, FirstListIsRead DEF FirstList, Used
    <2>5. e \in Entries(d[Order[m]].net)
      BY <2>1, <2>2, <2>4, EntriesParts
    <2>6. Single(d, b) /\ Single(c, a)
      BY <2>1
    <2>7. Order[m] \in PathsOf(s)
      BY <2>4, <2>6, UsedIsOwn DEF Single
    <2>8. HasSection(c, Order[m]) /\ c[Order[m]].net = d[Order[m]].net
      BY <1>1, <1>3, <2>4, <2>5
    <2>9. Used(c, m)
      BY <2>7, <2>8, OwnSectionIsUsed
    <2>10. ASSUME NEW j \in DOMAIN Order, Used(c, j)
           PROVE  Used(d, j) /\ c[Order[j]].net = d[Order[j]].net
      <3>1. Order[j] \in PathsOf(s)
        BY <2>6, <2>10, UsedIsOwn DEF Single
      <3>2. HasSection(d, Order[j]) /\ c[Order[j]].net = d[Order[j]].net
        BY <1>1, <1>2, <2>10 DEF Used
      <3> QED
        BY <3>1, <3>2, OwnSectionIsUsed
    <2>11. Effective(c).v1 = Effective(d).v1
      BY <2>3, <2>9, <2>10, ListStays
    <2>12. e \in Entries(Effective(c))
      BY <2>1, <2>2, <2>11, EntriesParts
    <2> QED
      BY <2>5, <2>7, <2>8, <2>12
  <1>5. CASE \E x : e = <<"v2", x>>
    <2>1. PICK x : e = <<"v2", x>>
      BY <1>5
    <2>2. PICK g \in PathsOf(s) : HasSection(d, g) /\ e \in Entries(d[g].net)
      OBVIOUS
    <2>3. PICK k \in DOMAIN Order : Order[k] = g
      BY <1>1
    <2>4. HasSection(c, g) /\ c[g].net = d[g].net
      BY <1>1, <1>3, <2>2, <2>3
    <2>5. Used(c, k)
      BY <2>3, <2>4, OwnSectionIsUsed
    <2>6. x \in DOMAIN c[Order[k]].net.v2
      <3>1. e \in Entries(c[g].net)
        BY <2>2, <2>4
      <3>2. (\E y \in DOMAIN c[g].net.v1 : e = <<"v1", y>>)
            \/ (\E y \in DOMAIN c[g].net.v2 : e = <<"v2", y>>)
        BY <3>1, EntriesParts
      <3> QED
        BY <2>1, <2>3, <3>2
    <2>7. e \in Entries(Effective(c))
      BY <2>1, <2>5, <2>6, StanzaIsRead, EntriesParts
    <2> QED
      BY <2>2, <2>4, <2>7
  <1>6. (\E x : e = <<"v1", x>>) \/ (\E x : e = <<"v2", x>>)
    BY EntriesParts
  <1> QED
    BY <1>4, <1>5, <1>6

\* A file with a section, and none in the files before it, is the first that is used.
LEMMA FirstOfOwn ==
    ASSUME NEW s, NEW d, NEW b, Opened(s, d, b), NEW m \in DOMAIN s, NEW k \in DOMAIN Order,
           Order[k] = s[m].path, HasSection(d, Order[k]),
           \A n \in DOMAIN s : n < m => d[s[n].path] # Absent /\ ~HasSection(d, s[n].path)
    PROVE  Used(d, k) /\ \A j \in 1 .. k - 1 : ~Used(d, j)
  <1>1. Used(d, k)
    BY OwnSectionIsUsed DEF PathsOf
  <1>2. ASSUME NEW j \in DOMAIN Order, j < k, Order[j] \in PathsOf(s)
        PROVE  d[Order[j]] # Absent /\ ~HasSection(d, Order[j])
    <2>1. PICK n \in DOMAIN s : s[n].path = Order[j]
      BY <1>2 DEF PathsOf
    <2>2. n < m
      BY <1>2, <2>1 DEF Opened, Listed
    <2> QED
      BY <2>1, <2>2
  <1>3. ASSUME NEW j \in 1 .. k - 1, Used(d, j) PROVE FALSE
    <2>1. j \in DOMAIN Order /\ j < k /\ k \in Nat
      BY OrderFacts
    <2>2. HasSection(d, Order[j])
      BY <1>3 DEF Used
    <2>3. Order[j] \notin PathsOf(s)
      BY <1>2, <2>1, <2>2
    <2>4. PICK q \in 1 .. j - 1 :
             j <= Len(BaseFiles) /\ (Order[q] \in PathsOf(s) \/ d[Order[q]] # Absent)
      BY <2>1, <2>2, <2>3 DEF Opened, Known
    <2>5. q \in DOMAIN Order /\ q < k
      BY <2>1, <2>4, OrderFacts
    <2>6. d[Order[q]] # Absent
      BY <1>2, <2>4, <2>5
    <2> QED
      BY <1>3, <2>4, <2>6 DEF Used
  <1> QED
    BY <1>1, <1>3

\* What is kept is in a list, with one base file in use, or a stanza, with no
\* encapsulated file in use.
LEMMA KeptFacts ==
    ASSUME NEW e \in Kept
    PROVE  \/ Single(disk, bak) /\ \E x : e = <<"v1", x>>
           \/ ~Encased /\ \E x : e = <<"v2", x>>
  <1>1. \/ OneBase /\ e \in V1Entries(origin)
        \/ ~Encased /\ e \in V2Entries(origin)
    BY DEF Kept
  <1>2. OneBase => Single(disk, bak)
    BY DEF OneBase, Single, InUse
  <1> QED
    BY <1>1, <1>2 DEF V1Entries, V2Entries

\* A file in use stays in use, so no more is kept than before.
LEMMA KeptShrinks ==
    ASSUME FilesInv, [Next]_vars
    PROVE  Kept' \subseteq Kept /\ (Few' => Few) /\ origin' = origin
  <1>1. ASSUME NEW f \in Files PROVE InUse(f) => InUse(f)'
    <2>1. CASE UNCHANGED <<disk, bak>>
      BY <2>1 DEF InUse
    <2>2. CASE Moves
      <3>1. /\ file \in Files /\ Len(bak'[file]) = Len(bak[file]) + 1
            /\ \A g \in Files : g # file => disk'[g] = disk[g] /\ bak'[g] = bak[g]
        BY <2>2, MovesFiles DEF FilesInv, TypeInv, Directory
      <3>2. bak'[file] # <<>>
        <4> DEFINE B == bak'[file]
        <4>1. Len(B) # 0
          BY <3>1 DEF FilesInv, TypeInv
        <4> HIDE DEF B
        <4>2. B # <<>>
          BY <4>1
        <4> QED
          BY <4>2 DEF B
      <3> QED
        BY <3>1, <3>2 DEF InUse
    <2>3. CASE Installs
      BY <2>3, InstallsFiles DEF InUse
    <2>4. CASE PruneBackups
      <3>1. /\ \A g \in Files : g # file => bak'[g] = bak[g]
            /\ \A m \in DOMAIN bak[file] : Retention = 0 \/ m <= Retention =>
                  m \in DOMAIN bak'[file]
        BY <2>4, PruneFiles
      <3>2. bak[file] # <<>> => bak'[file] # <<>>
        <4>1. bak[file] \in Seq(Text)
          BY <2>4, PruneFiles DEF FilesInv, TypeInv
        <4>2. bak[file] # <<>> => 1 \in DOMAIN bak[file]
          BY <4>1
        <4>3. bak[file] # <<>> => 1 \in DOMAIN bak'[file]
          BY <3>1, <4>2, FilesAssumption
        <4> QED
          BY <4>3
      <3>3. disk' = disk
        BY <2>4 DEF PruneBackups, Prune
      <3> QED
        BY <3>1, <3>2, <3>3 DEF InUse
    <2>5. CASE Asked \/ Writes \/ Saved \/ Fails \/ Exit \/ newCloudInit \/ UNCHANGED vars
      <3>1. UNCHANGED <<disk, bak>>
        BY <2>5, EndsFiles DEF Asked, Writes, WriteTmp, newCloudInit, files
      <3> QED
        BY <2>1, <3>1
    <2> QED
      BY <2>2, <2>3, <2>4, <2>5, Steps DEF FilesInv
  <1>2. origin' = origin /\ (Few' => Few)
    <2>1. failed \in Nat /\ Retention \in Nat
      BY FilesAssumption DEF FilesInv, TypeInv
    <2>2. CASE Asked \/ Writes \/ Moves \/ Installs \/ PruneBackups \/ Saved \/ Exit \/ UNCHANGED vars
      <3>1. UNCHANGED <<origin, failed>>
        BY <2>2 DEF Asked, Writes, Moves, Installs, PruneBackups, Saved, Exit, Go, Rest, vars
      <3> QED
        BY <3>1 DEF Few
    <2>3. CASE Fails \/ newCloudInit
      BY <2>1, <2>3 DEF Fails, Fault, Rest, newCloudInit, Few
    <2> QED
      BY <2>2, <2>3, Steps DEF FilesInv
  <1>3. ToSet(BaseFiles) \subseteq Files /\ Encapsulated \subseteq Files
    BY CloudInitAssumption DEF ToSet
  <1>4. OneBase' => OneBase
    BY <1>1, <1>3 DEF OneBase
  <1>5. Encased => Encased'
    BY <1>1, <1>3 DEF Encased
  <1> QED
    BY <1>2, <1>4, <1>5 DEF Kept

\* Backups that are counted further have no fewer entries.
LEMMA BackedUpMore ==
    ASSUME TypeInv, NEW e, NEW f \in Files, NEW k \in Nat, NEW l \in Nat, k <= l,
           BackedUp(e, f, k)
    PROVE  BackedUp(e, f, l)
  <1>1. \A m \in DOMAIN bak[f] : m \in Nat
    BY DEF TypeInv
  <1> QED
    BY <1>1 DEF BackedUp

\* A file to its backup: the entries of its section are there, those of others are where
\* they were.
LEMMA MovesSafe ==
    ASSUME FilesInv, Moves, NEW e, Safe(e),
           \A x : e = <<"v1", x>> => Single(disk, bak) /\ Single(disk', bak')
    PROVE  Safe(e)'
  <1>1. /\ pc = "backup" /\ pc' = "install" /\ Saving /\ Saving' /\ i <= Len(configFiles)
        /\ UNCHANGED <<i, failed, net, configFiles>>
    BY DEF Moves, Go, Rest, Saving, FilesInv, ControlInv
  <1>2. /\ file \in Files /\ disk[file] \in Text
        /\ disk' = [disk EXCEPT ![file] = Absent] /\ Len(bak'[file]) = Len(bak[file]) + 1
        /\ bak'[file][1] = disk[file]
        /\ \A m \in DOMAIN bak[file] : m + 1 \in DOMAIN bak'[file]
                                       /\ bak'[file][m + 1] = bak[file][m]
        /\ \A f \in Files : f # file => bak'[f] = bak[f]
        /\ FilesInv'
    BY MovesFiles
  <1>3. /\ i \in DOMAIN configFiles /\ file \in Paths /\ Paths' = Paths
        /\ configFiles \in Seq(CiFile) /\ Opened(configFiles, disk, bak)
        /\ \A n \in DOMAIN configFiles : configFiles[n].path = file => n = i
    BY <1>1, FileAt DEF Paths, PathsOf
  <1>4. /\ disk \in Directory /\ disk' \in Directory /\ Opened(configFiles, disk', bak')
        /\ failed \in Nat /\ i \in Nat
    BY <1>1, <1>2 DEF FilesInv, TypeInv, ControlInv
  <1>5. /\ disk'[file] = Absent /\ ~HasSection(disk', file)
        /\ \A f \in Files : f # file => disk'[f] = disk[f]
    BY <1>2, <1>4 DEF Directory, HasSection
  <1>6. \A n \in DOMAIN configFiles : configFiles[n].path \in Files
    BY <1>3, EachOnce
  <1>7. CASE Retired(e)
    <2>1. PICK f \in Files \ Paths : ~HasSection(disk, f) /\ BackedUp(e, f, Len(bak[f]))
      BY <1>7 DEF Retired
    <2>2. f # file /\ disk'[f] = disk[f] /\ bak'[f] = bak[f]
      BY <1>2, <1>3, <1>5, <2>1
    <2>3. ~HasSection(disk', f) /\ BackedUp(e, f, Len(bak[f]))'
      BY <2>1, <2>2 DEF HasSection, BackedUp
    <2> QED
      BY <1>3, <2>1, <2>3 DEF Safe, Retired
  <1>8. CASE e \in Entries(net) /\ Away(e)
    <2>1. PICK n \in DOMAIN configFiles :
             /\ ~HasSection(disk, configFiles[n].path)
             /\ BackedUp(e, configFiles[n].path, IF Saving /\ Moved(n) THEN failed + 1 ELSE failed)
      BY <1>8 DEF Away
    <2>2. CASE n = i
      <3>1. ~Moved(n) /\ Moved(n)' /\ configFiles[n].path = file
        BY <1>1, <1>4, <2>2 DEF Moved, file
      <3>2. PICK m \in DOMAIN bak[file] :
               m <= failed /\ bak[file][m].net # Absent /\ e \in Entries(bak[file][m].net)
        BY <2>1, <3>1 DEF BackedUp
      <3>3. m + 1 <= failed + 1 /\ m + 1 \in DOMAIN bak'[file] /\ bak'[file][m + 1] = bak[file][m]
        <4>1. m \in Nat
          BY <1>2 DEF FilesInv, TypeInv
        <4> QED
          BY <1>2, <1>4, <3>2, <4>1
      <3>4. BackedUp(e, configFiles[n].path, failed + 1)'
        BY <1>1, <3>1, <3>2, <3>3 DEF BackedUp
      <3>5. Away(e)'
        BY <1>1, <1>5, <3>1, <3>4 DEF Away
      <3> QED
        BY <1>1, <1>8, <3>5 DEF Safe
    <2>3. CASE n # i
      <3> DEFINE f == configFiles[n].path
      <3>1. f # file /\ f \in Files /\ (Moved(n)' <=> Moved(n))
        BY <1>1, <1>3, <1>6, <2>3 DEF Moved
      <3>2. disk'[f] = disk[f] /\ bak'[f] = bak[f]
        BY <1>2, <1>5, <3>1
      <3>3. ~HasSection(disk', f)
            /\ BackedUp(e, f, IF Saving /\ Moved(n) THEN failed + 1 ELSE failed)'
        BY <1>1, <2>1, <3>1, <3>2 DEF HasSection, BackedUp
      <3>4. Away(e)'
        BY <1>1, <3>3 DEF Away
      <3> QED
        BY <1>1, <1>8, <3>4 DEF Safe
    <2> QED
      BY <2>2, <2>3
  <1>9. CASE e \in Entries(net) /\ OnDisk(e)
    <2>1. e \in Entries(Effective(disk))
          /\ \E f \in Paths : HasSection(disk, f) /\ e \in Entries(disk[f].net)
      BY <1>1, <1>9 DEF OnDisk
    <2>2. CASE HasSection(disk, file) /\ e \in Entries(disk[file].net)
      <3>1. disk[file].net # Absent
        BY <2>2 DEF HasSection
      <3>2. 1 \in DOMAIN bak'[file]
        <4>1. bak[file] \in Seq(Text) /\ bak'[file] \in Seq(Text)
          BY <1>2 DEF FilesInv, TypeInv
        <4>2. Len(bak'[file]) >= 1
          BY <1>2, <4>1
        <4> HIDE DEF FilesInv, TypeInv
        <4> QED
          BY <4>1, <4>2
      <3>3. Moved(i)' /\ (configFiles[i].path)' = file
        BY <1>1, <1>3 DEF Moved, file
      <3>4. BackedUp(e, configFiles[i].path, failed + 1)'
        BY <1>1, <1>2, <1>4, <2>2, <3>1, <3>2, <3>3 DEF BackedUp
      <3>5. configFiles'[i].path = file /\ i \in DOMAIN configFiles'
        BY <1>1, <1>3 DEF file
      <3>6. Away(e)'
        <4> DEFINE n == i
        <4>1. n \in DOMAIN configFiles' /\ configFiles'[n].path = file
              /\ ~HasSection(disk', configFiles'[n].path)
          BY <1>5, <3>5
        <4>2. BackedUp(e, configFiles[i].path, IF Saving /\ Moved(i) THEN failed + 1 ELSE failed)'
          BY <1>1, <3>3, <3>4 DEF BackedUp
        <4> QED
          BY <1>1, <4>1, <4>2 DEF Away
      <3> QED
        BY <1>1, <1>9, <3>6 DEF Safe
    <2>3. CASE ~(HasSection(disk, file) /\ e \in Entries(disk[file].net))
      <3> DEFINE s == configFiles
                 d == disk
                 c == disk'
                 b == bak
                 a == bak'
                 f == file
      <3>1. /\ e \in Entries(Effective(c))
            /\ \E g \in PathsOf(s) : HasSection(c, g) /\ e \in Entries(c[g].net)
        <4>1. /\ s \in Seq(CiFile) /\ d \in Directory /\ c \in Directory
              /\ Opened(s, d, b) /\ Opened(s, c, a) /\ f \in Files
              /\ \A g \in Files : g # f => c[g] = d[g]
              /\ ~HasSection(c, f) /\ e \in Entries(Effective(d))
              /\ \E g \in PathsOf(s) : HasSection(d, g) /\ e \in Entries(d[g].net)
              /\ ~(HasSection(d, f) /\ e \in Entries(d[f].net))
              /\ \A x : e = <<"v1", x>> => Single(d, b) /\ Single(c, a)
          BY <1>2, <1>3, <1>4, <1>5, <2>1, <2>3 DEF Paths
        <4> HIDE DEF a, b, c, d, f, s
        <4> QED
          BY <4>1, OthersStay
      <3>2. OnDisk(e)'
        BY <1>1, <3>1 DEF OnDisk, Paths
      <3> QED
        BY <1>1, <1>9, <3>2 DEF Safe
    <2> QED
      BY <2>2, <2>3
  <1> QED
    BY <1>1, <1>7, <1>8, <1>9 DEF Safe

\* The main file in its place has all that is kept; another file in its place has no
\* section, as before.
LEMMA InstallsSafe ==
    ASSUME FilesInv, Installs, NEW e, Safe(e),
           (\E x : e = <<"v1", x>>) \/ (\E x : e = <<"v2", x>>),
           \A x : e = <<"v1", x>> => Single(disk, bak) /\ Single(disk', bak'),
           \A x : e = <<"v2", x>> => ~Encased'
    PROVE  Safe(e)'
  <1>1. /\ pc = "install" /\ pc' = "prune" /\ Saving /\ Saving' /\ i <= Len(configFiles)
        /\ UNCHANGED <<bak, i, failed, net, configFiles>>
    BY DEF Installs, MoveInPlace, Go, Rest, Saving, FilesInv, ControlInv
  <1>2. /\ file \in Files /\ disk[file] = Absent
        /\ disk'[file] # Absent /\ disk'[file].net = NewNet(file)
        /\ \A f \in Files : f # file => disk'[f] = disk[f]
        /\ FilesInv'
    BY InstallsFiles
  <1>3. /\ i \in DOMAIN configFiles /\ file \in Paths /\ Paths' = Paths
        /\ configFiles \in Seq(CiFile) /\ Opened(configFiles, disk, bak) /\ configFiles # <<>>
        /\ \A n \in DOMAIN configFiles : configFiles[n].path = file => n = i
    BY <1>1, FileAt DEF Paths, PathsOf, Opened
  <1>4. /\ disk \in Directory /\ disk' \in Directory /\ Opened(configFiles, disk', bak')
        /\ i \in Nat /\ TypeInv
    BY <1>1, <1>2 DEF FilesInv, TypeInv, ControlInv
  <1>5. \A n \in DOMAIN configFiles : configFiles[n].path \in Files /\ n \in Nat
    BY <1>3, EachOnce
  <1>6. CASE Retired(e)
    <2>1. PICK f \in Files \ Paths : ~HasSection(disk, f) /\ BackedUp(e, f, Len(bak[f]))
      BY <1>6 DEF Retired
    <2>2. f # file /\ disk'[f] = disk[f]
      BY <1>2, <1>3, <2>1
    <2>3. ~HasSection(disk', f) /\ BackedUp(e, f, Len(bak[f]))'
      BY <1>1, <2>1, <2>2 DEF HasSection, BackedUp
    <2> QED
      BY <1>3, <2>1, <2>3 DEF Safe, Retired
  <1>7. CASE e \in Entries(net) /\ file = configFiles[Main].path
    <2>1. /\ NewNet(file) # Absent /\ NewNet(file).v1 = net.v1
          /\ file \notin Encapsulated => NewNet(file) = net
      BY <1>3, <1>4, <1>7, NewNetFacts
    <2>2. HasSection(disk', file)
      BY <1>2, <2>1 DEF HasSection
    <2>3. PICK k \in DOMAIN Order : Order[k] = file
      BY <1>3 DEF Opened, Paths
    <2>4. ASSUME NEW n \in DOMAIN configFiles, n < i
          PROVE  disk'[configFiles[n].path] # Absent /\ ~HasSection(disk', configFiles[n].path)
      <3> DEFINE f == configFiles[n].path
      <3>1. Placed(n) /\ Passed(n)
        BY <1>1, <2>4 DEF FilesInv, PlaceInv, Passed
      <3>2. disk[f] # Absent /\ disk[f].net = NewNet(f)
        BY <3>1 DEF Placed
      <3>3. f # file /\ f \in Files
        BY <1>3, <1>4, <1>5, <2>4
      <3>4. f # configFiles[Main].path
        BY <1>7, <3>3
      <3> HIDE DEF f
      <3>5. NewNet(f) = Absent
        BY <1>3, <1>4, <3>4, NewNetFacts
      <3>6. disk'[f] = disk[f]
        BY <1>2, <3>3
      <3>7. disk'[f] # Absent /\ ~HasSection(disk', f)
        BY <3>2, <3>5, <3>6 DEF HasSection
      <3> QED
        BY <3>7 DEF f
    <2>5. Used(disk', k) /\ \A j \in 1 .. k - 1 : ~Used(disk', j)
      <3> DEFINE s == configFiles
                 d == disk'
                 b == bak'
      <3>1. /\ Opened(s, d, b) /\ i \in DOMAIN s /\ Order[k] = s[i].path
            /\ HasSection(d, Order[k])
            /\ \A n \in DOMAIN s : n < i => d[s[n].path] # Absent /\ ~HasSection(d, s[n].path)
        BY <1>3, <1>4, <2>2, <2>3, <2>4 DEF file
      <3> HIDE DEF s, d, b
      <3>2. Used(d, k) /\ \A j \in 1 .. k - 1 : ~Used(d, j)
        BY <3>1, FirstOfOwn
      <3> QED
        BY <3>2 DEF d
    <2>6. e \in Entries(NewNet(file)) /\ e \in Entries(Effective(disk'))
      <3> DEFINE c == disk'
                 n == NewNet(file)
      <3>1. c[Order[k]].net = n /\ c \in Directory /\ Used(c, k) /\ n.v1 = net.v1
            /\ \A j \in 1 .. k - 1 : ~Used(c, j)
        BY <1>2, <1>4, <2>1, <2>3, <2>5
      <3>2. file \notin Encapsulated => n = net
        BY <2>1
      <3>3. file \in Encapsulated => Encased'
        <4>1. InUse(file)' <=> disk'[file'] # Absent \/ bak'[file'] # <<>>
          BY DEF InUse
        <4>2. file' = file
          BY <1>1 DEF file
        <4> QED
          BY <1>2, <4>1, <4>2 DEF Encased, InUse
      <3> HIDE DEF c, n
      <3>4. CASE \E x : e = <<"v1", x>>
        <4>1. PICK x : e = <<"v1", x>>
          BY <3>4
        <4>2. x \in DOMAIN n.v1
          BY <1>7, <3>1, <4>1, EntriesParts
        <4>3. FirstList(c, k)
          BY <3>1, <4>2 DEF FirstList
        <4>4. Effective(c).v1 = n.v1
          BY <3>1, <4>3, FirstListIsRead
        <4>5. e \in Entries(n) /\ e \in Entries(Effective(c))
          BY <4>1, <4>2, <4>4, EntriesParts
        <4> QED
          BY <4>5 DEF c, n
      <3>5. CASE \E x : e = <<"v2", x>>
        <4>1. PICK x : e = <<"v2", x>>
          BY <3>5
        <4>2. n = net
          BY <3>2, <3>3, <4>1
        <4>3. x \in DOMAIN n.v2
          BY <1>7, <4>1, <4>2, EntriesParts
        <4>4. x \in DOMAIN Effective(c).v2
          BY <3>1, <4>3, StanzaIsRead
        <4>5. e \in Entries(n) /\ e \in Entries(Effective(c))
          BY <4>1, <4>3, <4>4, EntriesParts
        <4> QED
          BY <4>5 DEF c, n
      <3> QED
        BY <3>4, <3>5
    <2>7. OnDisk(e)'
      <3>1. e \in Entries(disk'[file].net)
        BY <1>2, <2>6
      <3>2. \E g \in Paths' : HasSection(disk', g) /\ e \in Entries(disk'[g].net)
        BY <1>3, <2>2, <3>1
      <3> QED
        BY <2>6, <3>2 DEF OnDisk
    <2> QED
      BY <1>1, <1>7, <2>7 DEF Safe
  <1>8. CASE e \in Entries(net) /\ file # configFiles[Main].path
    <2>1. NewNet(file) = Absent
      BY <1>3, <1>4, <1>8, NewNetFacts
    <2>2. ~HasSection(disk', file) /\ ~HasSection(disk, file)
      BY <1>2, <2>1 DEF HasSection
    <2>3. CASE Away(e)
      <3>1. PICK n \in DOMAIN configFiles :
               /\ ~HasSection(disk, configFiles[n].path)
               /\ BackedUp(e, configFiles[n].path,
                           IF Saving /\ Moved(n) THEN failed + 1 ELSE failed)
        BY <2>3 DEF Away
      <3> DEFINE f == configFiles[n].path
      <3>2. ~HasSection(disk', f)
        BY <1>2, <1>5, <2>2, <3>1 DEF HasSection
      <3>3. Moved(n)' <=> Moved(n)
        BY <1>1 DEF Moved
      <3>4. BackedUp(e, configFiles[n].path, IF Saving /\ Moved(n) THEN failed + 1 ELSE failed)'
        BY <1>1, <3>1, <3>3 DEF BackedUp
      <3>5. Away(e)'
        BY <1>1, <3>2, <3>4 DEF Away
      <3> QED
        BY <1>1, <1>8, <3>5 DEF Safe
    <2>4. CASE OnDisk(e)
      <3> DEFINE s == configFiles
                 d == disk
                 c == disk'
                 b == bak
                 a == bak'
                 f == file
      <3>1. /\ e \in Entries(Effective(c))
            /\ \E g \in PathsOf(s) : HasSection(c, g) /\ e \in Entries(c[g].net)
        <4>1. /\ s \in Seq(CiFile) /\ d \in Directory /\ c \in Directory
              /\ Opened(s, d, b) /\ Opened(s, c, a) /\ f \in Files
              /\ \A g \in Files : g # f => c[g] = d[g]
              /\ ~HasSection(c, f) /\ e \in Entries(Effective(d))
              /\ \E g \in PathsOf(s) : HasSection(d, g) /\ e \in Entries(d[g].net)
              /\ ~(HasSection(d, f) /\ e \in Entries(d[f].net))
              /\ \A x : e = <<"v1", x>> => Single(d, b) /\ Single(c, a)
          BY <1>1, <1>2, <1>3, <1>4, <2>2, <2>4 DEF Paths, OnDisk
        <4> HIDE DEF a, b, c, d, f, s
        <4> QED
          BY <4>1, OthersStay
      <3>2. OnDisk(e)'
        BY <1>1, <3>1 DEF OnDisk, Paths
      <3> QED
        BY <1>1, <1>8, <3>2 DEF Safe
    <2> QED
      BY <1>1, <1>8, <2>3, <2>4, <1>6 DEF Safe
  <1> QED
    BY <1>1, <1>6, <1>7, <1>8 DEF Safe

\* The backups that go are older than the failed Saves.
LEMMA PruneSafe ==
    ASSUME FilesInv, PruneBackups, Few, NEW e, Safe(e)
    PROVE  Safe(e)'
  <1>1. /\ pc = "prune" /\ pc' = "save" /\ i' = i + 1 /\ Saving /\ Saving'
        /\ i <= Len(configFiles)
        /\ UNCHANGED <<disk, failed, net, configFiles>>
    BY DEF PruneBackups, Prune, Rest, Saving, FilesInv, ControlInv
  <1>2. /\ file \in Files /\ file \in Paths
        /\ \A f \in Files : f # file => bak'[f] = bak[f]
        /\ \A m \in DOMAIN bak[file] : Retention = 0 \/ m <= Retention =>
              m \in DOMAIN bak'[file] /\ bak'[file][m] = bak[file][m]
    BY PruneFiles
  <1>3. /\ i \in DOMAIN configFiles /\ Paths' = Paths
        /\ configFiles \in Seq(CiFile) /\ Opened(configFiles, disk, bak)
    BY <1>1, FileAt DEF Paths, PathsOf
  <1>4. /\ failed \in Nat /\ i \in Nat /\ Retention \in Nat /\ bak[file] \in Seq(Text)
    BY <1>2, FilesAssumption DEF FilesInv, TypeInv
  <1>5. \A n \in DOMAIN configFiles : configFiles[n].path \in Files /\ n \in Nat
    BY <1>3, EachOnce
  <1>6. CASE Retired(e)
    <2>1. PICK f \in Files \ Paths : ~HasSection(disk, f) /\ BackedUp(e, f, Len(bak[f]))
      BY <1>6 DEF Retired
    <2>2. bak'[f] = bak[f]
      BY <1>2, <2>1
    <2>3. BackedUp(e, f, Len(bak[f]))'
      BY <2>1, <2>2 DEF BackedUp
    <2> QED
      BY <1>1, <1>3, <2>1, <2>3 DEF Safe, Retired
  <1>7. CASE e \in Entries(net) /\ OnDisk(e)
    <2>1. OnDisk(e)'
      BY <1>1, <1>3, <1>7 DEF OnDisk
    <2> QED
      BY <1>1, <1>7, <2>1 DEF Safe
  <1>8. CASE e \in Entries(net) /\ Away(e)
    <2>1. PICK n \in DOMAIN configFiles :
             /\ ~HasSection(disk, configFiles[n].path)
             /\ BackedUp(e, configFiles[n].path, IF Saving /\ Moved(n) THEN failed + 1 ELSE failed)
      BY <1>8 DEF Away
    <2> DEFINE f == configFiles[n].path
               k == IF Saving /\ Moved(n) THEN failed + 1 ELSE failed
    <2>2. Moved(n)' <=> Moved(n)
      BY <1>1, <1>4, <1>5 DEF Moved
    <2>3. k \in Nat /\ (Retention = 0 \/ k <= Retention)
      BY <1>4 DEF Few
    <2>4. k' = k
      BY <1>1, <2>2
    <2>5. PICK m \in DOMAIN bak[f] : m <= k /\ bak[f][m].net # Absent /\ e \in Entries(bak[f][m].net)
      BY <2>1 DEF BackedUp
    <2>6. f \in Files /\ m \in Nat
      BY <1>5 DEF FilesInv, TypeInv
    <2> HIDE DEF k
    <2>7. m \in DOMAIN bak'[f] /\ bak'[f][m] = bak[f][m]
      BY <1>2, <1>4, <2>3, <2>5, <2>6
    <2>8. BackedUp(e, configFiles[n].path, k)'
      BY <1>1, <2>4, <2>5, <2>7 DEF BackedUp
    <2>9. Away(e)'
      BY <1>1, <2>1, <2>8 DEF Away, k
    <2> QED
      BY <1>1, <1>8, <2>9 DEF Safe
  <1> QED
    BY <1>1, <1>6, <1>7, <1>8 DEF Safe

\* How old a backup of a file may be by now.
Age(n) == IF Saving /\ Moved(n) THEN failed + 1 ELSE failed

\* Where the files stay as they are, and no backup counts as older than it did.
LEMMA StillSafe ==
    ASSUME TypeInv, NEW e, Safe(e), UNCHANGED <<disk, bak, configFiles>>,
           pc # "down", Entries(net)' = Entries(net),
           \A n \in DOMAIN configFiles : configFiles[n].path \in Files,
           \A n \in DOMAIN configFiles : Age(n)' \in Nat /\ Age(n) <= Age(n)'
    PROVE  Safe(e)'
  <1>1. Paths' = Paths
    BY DEF Paths, PathsOf
  <1>2. ASSUME NEW f, NEW k PROVE BackedUp(e, f, k)' <=> \E m \in DOMAIN bak[f] :
             m <= k' /\ bak[f][m].net # Absent /\ e \in Entries(bak[f][m].net)
    BY DEF BackedUp
  <1>3. CASE Retired(e)
    <2>1. PICK f \in Files \ Paths : ~HasSection(disk, f) /\ BackedUp(e, f, Len(bak[f]))
      BY <1>3 DEF Retired
    <2>2. BackedUp(e, f, Len(bak[f]))'
      BY <2>1 DEF BackedUp
    <2> QED
      BY <1>1, <2>1, <2>2 DEF Safe, Retired
  <1>4. CASE e \in Entries(net) /\ OnDisk(e)
    <2>1. OnDisk(e)'
      BY <1>1, <1>4 DEF OnDisk
    <2> QED
      BY <1>4, <2>1 DEF Safe
  <1>5. CASE e \in Entries(net) /\ Away(e)
    <2>1. PICK n \in DOMAIN configFiles :
             ~HasSection(disk, configFiles[n].path) /\ BackedUp(e, configFiles[n].path, Age(n))
      BY <1>5 DEF Away, Age
    <2>2. PICK m \in DOMAIN bak[configFiles[n].path] :
             /\ m <= Age(n) /\ bak[configFiles[n].path][m].net # Absent
             /\ e \in Entries(bak[configFiles[n].path][m].net)
      BY <2>1 DEF BackedUp
    <2>3. m \in Nat /\ Age(n) \in Nat /\ Age(n)' \in Nat /\ Age(n) <= Age(n)'
      BY <2>2 DEF TypeInv, Age
    <2>4. m <= Age(n)'
      BY <2>2, <2>3
    <2>5. BackedUp(e, configFiles[n].path, Age(n))'
      BY <2>2, <2>4 DEF BackedUp
    <2>6. Away(e)'
      BY <2>1, <2>5 DEF Away, Age
    <2> QED
      BY <1>5, <2>6 DEF Safe
  <1> QED
    BY <1>3, <1>4, <1>5 DEF Safe

\* A call, its first step for a file, and its failure.
LEMMA CallsSafe ==
    ASSUME FilesInv, Asked \/ Writes \/ Fails, NEW e, Safe(e)
    PROVE  Safe(e)'
  <1>1. /\ TypeInv /\ failed \in Nat /\ i \in Nat
    BY DEF FilesInv, TypeInv
  <1>2. pc # "down" /\ UNCHANGED <<disk, bak, configFiles>>
    BY DEF Asked, Writes, WriteTmp, Fails, Fault, Go, Rest, files, Saving
  <1>3. \A n \in DOMAIN configFiles : configFiles[n].path \in Files /\ n \in Nat \ {0}
    <2>1. configFiles \in Seq(CiFile) /\ Opened(configFiles, disk, bak)
      BY <1>2 DEF FilesInv, TypeInv, ControlInv
    <2> QED
      BY <2>1, EachOnce
  <1>4. CASE Asked
    <2>1. Entries(net)' = Entries(net)
      <3>1. DOMAIN net'.v1 = DOMAIN net.v1 /\ DOMAIN net'.v2 = DOMAIN net.v2
        BY <1>4 DEF Asked
      <3> QED
        BY <3>1 DEF Entries, V1Entries, V2Entries
    <2>2. ASSUME NEW n \in DOMAIN configFiles PROVE Age(n) = failed /\ Age(n)' = failed
      <3>1. pc = "idle" /\ failed' = failed
            /\ (pc' = "idle" \/ (pc' = "save" /\ i' = 1))
        BY <1>4 DEF Asked
      <3>2. ~Saving /\ ~(Saving' /\ Moved(n)')
        BY <1>3, <3>1 DEF Saving, Moved
      <3> QED
        BY <3>1, <3>2 DEF Age
    <2>3. \A n \in DOMAIN configFiles : Age(n)' \in Nat /\ Age(n) <= Age(n)'
      BY <1>1, <2>2
    <2> QED
      BY <1>1, <1>2, <1>3, <2>1, <2>3, StillSafe
  <1>5. CASE Writes
    <2>1. pc = "save" /\ pc' = "backup" /\ UNCHANGED <<i, failed, net>>
      BY <1>5 DEF Writes, Go, Rest
    <2>2. \A n \in DOMAIN configFiles : Age(n)' = Age(n) /\ Age(n) \in Nat
      BY <1>1, <2>1 DEF Age, Moved, Saving
    <2>3. \A n \in DOMAIN configFiles : Age(n)' \in Nat /\ Age(n) <= Age(n)'
      BY <2>2
    <2> QED
      BY <1>1, <1>2, <1>3, <2>1, <2>3, StillSafe
  <1>6. CASE Fails
    <2>1. pc' = "idle" /\ failed' = failed + 1 /\ net' = net
      BY <1>6 DEF Fails, Fault, Rest
    <2>2. \A n \in DOMAIN configFiles : Age(n)' \in Nat /\ Age(n) <= Age(n)'
      BY <1>1, <2>1 DEF Age, Saving
    <2> QED
      BY <1>1, <1>2, <1>3, <2>1, <2>2, StillSafe
  <1> QED
    BY <1>4, <1>5, <1>6

\* A Save that ends well has put all that is kept in the main file.
LEMMA SavedSafe ==
    ASSUME FilesInv, Saved, NEW e, Safe(e),
           (\E x : e = <<"v1", x>>) \/ (\E x : e = <<"v2", x>>),
           \A x : e = <<"v2", x>> => ~Encased
    PROVE  Safe(e)'
  <1> DEFINE f == configFiles[Main].path
             n == NewNet(f)
  <1>1. /\ pc = "save" /\ pc' = "idle" /\ i > Len(configFiles)
        /\ UNCHANGED <<disk, bak, configFiles, net>>
    BY DEF Saved, Rest, files
  <1>2. /\ Effective(disk) = n /\ f \in Paths /\ HasSection(disk, f) /\ disk[f].net = n
        /\ configFiles # <<>>
    BY <1>1, AllPassed
  <1>3. n.v1 = net.v1 /\ (f \notin Encapsulated => n = net)
    <2>1. TypeInv /\ f = configFiles[Main].path
      BY DEF FilesInv
    <2> HIDE DEF f
    <2> QED
      BY <1>2, <2>1, NewNetFacts
  <1>4. f \in Encapsulated => Encased
    BY <1>2 DEF Encased, InUse, HasSection
  <1>5. Paths' = Paths
    BY <1>1 DEF Paths, PathsOf
  <1> HIDE DEF f, n
  <1>6. CASE Retired(e)
    <2>1. PICK g \in Files \ Paths : ~HasSection(disk, g) /\ BackedUp(e, g, Len(bak[g]))
      BY <1>6 DEF Retired
    <2>2. BackedUp(e, g, Len(bak[g]))'
      BY <1>1, <2>1 DEF BackedUp
    <2> QED
      BY <1>1, <1>5, <2>1, <2>2 DEF Safe, Retired
  <1>7. CASE e \in Entries(net)
    <2>1. e \in Entries(n)
      BY <1>3, <1>4, <1>7, EntriesParts
    <2>2. OnDisk(e)'
      BY <1>1, <1>2, <1>5, <2>1 DEF OnDisk
    <2> QED
      BY <1>1, <1>7, <2>2 DEF Safe
  <1> QED
    BY <1>1, <1>6, <1>7 DEF Safe

\* A process that ends leaves its files; their backups are those of no process.
LEMMA ExitSafe ==
    ASSUME FilesInv, Exit, NEW e, Safe(e)
    PROVE  Safe(e)'
  <1>1. pc # "down" /\ pc' = "down" /\ configFiles' = <<>> /\ UNCHANGED <<disk, bak, failed>>
    BY DEF Exit, files
  <1>2. Paths' = {}
    BY <1>1 DEF Paths, PathsOf
  <1>3. \A n \in DOMAIN configFiles : configFiles[n].path \in Files
    <2>1. configFiles \in Seq(CiFile) /\ Opened(configFiles, disk, bak)
      BY <1>1 DEF FilesInv, TypeInv, ControlInv
    <2> QED
      BY <2>1, EachOnce
  <1>4. ASSUME NEW f \in Files, NEW k, ~HasSection(disk, f), BackedUp(e, f, k)
        PROVE  Retired(e)'
    <2>1. PICK m \in DOMAIN bak[f] : bak[f][m].net # Absent /\ e \in Entries(bak[f][m].net)
      BY <1>4 DEF BackedUp
    <2>2. m <= Len(bak[f])
      <3>1. bak[f] \in Seq(Text)
        BY DEF FilesInv, TypeInv
      <3> QED
        BY <2>1, <3>1
    <2>3. BackedUp(e, f, Len(bak[f]))'
      BY <1>1, <2>1, <2>2 DEF BackedUp
    <2> QED
      BY <1>1, <1>2, <1>4, <2>3 DEF Retired
  <1>5. CASE Retired(e) \/ Away(e)
    <2>1. Retired(e)'
      BY <1>3, <1>4, <1>5 DEF Retired, Away
    <2> QED
      BY <2>1 DEF Safe
  <1>6. CASE OnDisk(e)
    <2>1. OnDisk(e)'
      BY <1>1, <1>6 DEF OnDisk
    <2> QED
      BY <1>1, <2>1 DEF Safe
  <1> QED
    BY <1>5, <1>6 DEF Safe

\* A process that starts has what it read, and it read every file it has.
LEMMA ReadIsOnDisk ==
    ASSUME NEW d \in Directory, NEW e \in Entries(Effective(d))
    PROVE  \E f \in PathsOf(ReadFiles(d)) : HasSection(d, f) /\ e \in Entries(d[f].net)
  <1>1. PICK m \in DOMAIN Order : Used(d, m) /\ e \in Entries(d[Order[m]].net)
    BY ReadFromASection
  <1>2. PICK n \in DOMAIN ReadFiles(d) : ReadFiles(d)[n].path = Order[m]
    BY <1>1, FilesRead
  <1> QED
    BY <1>1, <1>2 DEF PathsOf, Used

\* What was retired stays so: a file without a section is not one of the process's.
LEMMA StartSafe ==
    ASSUME FilesInv, newCloudInit, NEW e, Safe(e)
    PROVE  Safe(e)'
  <1>1. /\ pc = "down" /\ net' = Effective(disk) /\ configFiles' = ReadFiles(disk)
        /\ UNCHANGED <<disk, bak>>
    BY DEF newCloudInit, files
  <1>2. configFiles = <<>> /\ disk \in Directory
    BY <1>1 DEF FilesInv, ControlInv, TypeInv
  <1>3. Paths' = PathsOf(ReadFiles(disk))
    BY <1>1 DEF Paths, PathsOf
  <1>4. ~Away(e)
    BY <1>2 DEF Away
  <1>5. CASE Retired(e)
    <2>1. PICK f \in Files : ~HasSection(disk, f) /\ BackedUp(e, f, Len(bak[f]))
      BY <1>5 DEF Retired
    <2>2. f \notin Paths'
      BY <1>2, <1>3, <2>1, FilesRead DEF PathsOf, Used
    <2>3. BackedUp(e, f, Len(bak[f]))'
      BY <1>1, <2>1 DEF BackedUp
    <2> QED
      BY <1>1, <2>1, <2>2, <2>3 DEF Safe, Retired
  <1>6. CASE OnDisk(e)
    <2>1. e \in Entries(Effective(disk))
      BY <1>6 DEF OnDisk
    <2>2. \E f \in PathsOf(ReadFiles(disk)) : HasSection(disk, f) /\ e \in Entries(disk[f].net)
      BY <1>2, <2>1, ReadIsOnDisk
    <2>3. OnDisk(e)' /\ e \in Entries(net')
      BY <1>1, <1>3, <2>1, <2>2 DEF OnDisk
    <2> QED
      BY <2>3 DEF Safe
  <1> QED
    BY <1>4, <1>5, <1>6 DEF Safe

\* What is kept after a step satisfied the provisos after it too.
LEMMA KeptThen ==
    ASSUME FilesInv, [Next]_vars, NEW e \in Kept'
    PROVE  /\ e \in Kept /\ ((\E x : e = <<"v1", x>>) \/ (\E x : e = <<"v2", x>>))
           /\ \A x : e = <<"v1", x>> => Single(disk, bak) /\ Single(disk', bak')
           /\ \A x : e = <<"v2", x>> => ~Encased /\ ~Encased'
  <1>1. e \in Kept
    BY KeptShrinks
  <1>2. \/ Single(disk, bak) /\ \E x : e = <<"v1", x>>
        \/ ~Encased /\ \E x : e = <<"v2", x>>
    BY <1>1, KeptFacts
  <1>3. \/ OneBase' /\ e \in V1Entries(origin)'
        \/ ~Encased' /\ e \in V2Entries(origin)'
    BY DEF Kept
  <1>4. OneBase' => Single(disk', bak')
    BY DEF OneBase, Single, InUse
  <1>5. \/ Single(disk', bak') /\ \E x : e = <<"v1", x>>
        \/ ~Encased' /\ \E x : e = <<"v2", x>>
    BY <1>3, <1>4 DEF V1Entries, V2Entries
  <1>6. \A x, y : <<"v1", x>> # <<"v2", y>>
    OBVIOUS
  <1> QED
    BY <1>1, <1>2, <1>5, <1>6

\* An entry that is kept stays safe.
LEMMA KeptStep ==
    FilesInv /\ KeptInv /\ [Next]_vars => KeptInv'
  <1> SUFFICES ASSUME FilesInv, KeptInv, [Next]_vars, Few', NEW e \in Kept'
               PROVE  Safe(e)'
    BY DEF KeptInv
  <1>1. Few
    BY KeptShrinks
  <1>2. /\ e \in Kept /\ ((\E x : e = <<"v1", x>>) \/ (\E x : e = <<"v2", x>>))
        /\ \A x : e = <<"v1", x>> => Single(disk, bak) /\ Single(disk', bak')
        /\ \A x : e = <<"v2", x>> => ~Encased /\ ~Encased'
    BY KeptThen
  <1>3. Safe(e)
    BY <1>1, <1>2 DEF KeptInv
  <1>4. CASE Moves
    BY <1>2, <1>3, <1>4, MovesSafe
  <1>5. CASE Installs
    BY <1>2, <1>3, <1>5, InstallsSafe
  <1>6. CASE PruneBackups
    BY <1>1, <1>3, <1>6, PruneSafe
  <1>7. CASE Saved
    BY <1>2, <1>3, <1>7, SavedSafe
  <1>8. CASE Asked \/ Writes \/ Fails
    BY <1>3, <1>8, CallsSafe
  <1>9. CASE Exit
    BY <1>3, <1>9, ExitSafe
  <1>10. CASE newCloudInit
    BY <1>3, <1>10, StartSafe
  <1>11. CASE UNCHANGED vars
    <2>1. UNCHANGED <<disk, bak, net, configFiles, pc, i, failed>>
      BY <1>11 DEF vars
    <2>2. Paths' = Paths /\ (Retired(e)' <=> Retired(e))
      <3>1. Paths' = Paths
        BY <2>1 DEF Paths, PathsOf
      <3> QED
        BY <2>1, <3>1 DEF Retired, BackedUp
    <2>3. (OnDisk(e)' <=> OnDisk(e)) /\ (Away(e)' <=> Away(e))
      BY <2>1, <2>2 DEF OnDisk, Away, BackedUp, Saving, Moved
    <2> QED
      BY <1>3, <2>1, <2>2, <2>3 DEF Safe
  <1>12. \/ Asked \/ Writes \/ Moves \/ Installs \/ PruneBackups \/ Saved \/ Fails
         \/ Exit \/ newCloudInit \/ UNCHANGED vars
    BY Steps DEF FilesInv
  <1> QED
    BY <1>4, <1>5, <1>6, <1>7, <1>8, <1>9, <1>10, <1>11, <1>12

\* What the first process read is on disk.
LEMMA KeptInit ==
    Init => KeptInv
  <1> SUFFICES ASSUME Init, NEW e \in Kept PROVE Safe(e)
    BY DEF KeptInv
  <1>1. /\ net = Effective(disk) /\ origin = net /\ configFiles = ReadFiles(disk)
        /\ disk \in Directory
    BY InitFiles DEF Init, FilesInv, TypeInv
  <1>2. e \in Entries(net)
    BY <1>1 DEF Kept, Entries
  <1>3. \E f \in PathsOf(ReadFiles(disk)) : HasSection(disk, f) /\ e \in Entries(disk[f].net)
    BY <1>1, <1>2, ReadIsOnDisk
  <1>4. OnDisk(e)
    BY <1>1, <1>2, <1>3 DEF OnDisk, Paths
  <1> QED
    BY <1>2, <1>4 DEF Safe

-----------------------------------------------------------------------------
(* What follows from it *)

\* Where an entry is that is safe.
LEMMA SafeIsWithin ==
    ASSUME FilesInv, NEW e, Safe(e)
    PROVE  e \in Within(Live \cup Backups)
  <1>1. disk \in Directory /\ bak \in [Files -> Seq(Text)]
    BY DEF FilesInv, TypeInv
  <1>2. ASSUME NEW t \in Live \cup Backups, t.net # Absent, e \in Entries(t.net)
        PROVE  e \in Within(Live \cup Backups)
    BY <1>2 DEF Within
  <1>3. ASSUME NEW f \in Files, NEW m \in DOMAIN bak[f], bak[f][m].net # Absent,
               e \in Entries(bak[f][m].net)
        PROVE  e \in Within(Live \cup Backups)
    <2>1. bak[f][m] \in Backups
      BY DEF Backups
    <2> QED
      BY <1>2, <1>3, <2>1
  <1>4. ASSUME NEW f \in Files, HasSection(disk, f), e \in Entries(disk[f].net)
        PROVE  e \in Within(Live \cup Backups)
    <2>1. disk[f] \in Live /\ disk[f].net # Absent
      BY <1>4 DEF Live, HasSection
    <2> QED
      BY <1>2, <1>4, <2>1
  <1>5. CASE Retired(e)
    BY <1>3, <1>5 DEF Retired, BackedUp
  <1>6. CASE Away(e)
    <2>1. \A n \in DOMAIN configFiles : configFiles[n].path \in Files
      <3>1. pc # "down"
        BY <1>6 DEF FilesInv, ControlInv, Away
      <3>2. configFiles \in Seq(CiFile) /\ Opened(configFiles, disk, bak)
        BY <3>1 DEF FilesInv, ControlInv, TypeInv
      <3> QED
        BY <3>2, EachOnce
    <2> QED
      BY <1>3, <1>6, <2>1 DEF Away, BackedUp
  <1>7. CASE OnDisk(e)
    <2>1. PICK m \in DOMAIN Order : Used(disk, m) /\ e \in Entries(disk[Order[m]].net)
      BY <1>1, <1>7, ReadFromASection DEF OnDisk
    <2>2. HasSection(disk, Order[m]) /\ Order[m] \in Files
      BY <2>1, OrderFacts DEF Used
    <2> QED
      BY <1>4, <2>1, <2>2
  <1> QED
    BY <1>5, <1>6, <1>7 DEF Safe

\* A file after the first one holds its section until the first has the network.
LEMMA StanzasStay ==
    ASSUME FilesInv, Saving, configFiles[1].onlyNetwork, ~Encased,
           NEW n \in 2 .. Len(configFiles),
           pre.disk[configFiles[n].path] # Absent, pre.disk[configFiles[n].path].net # Absent,
           NEW e \in Entries(pre.disk[configFiles[n].path].net) \cap Entries(net)
    PROVE  e \in Within(Live)
  <1> DEFINE f == configFiles[n].path
             g == configFiles[1].path
  <1>1. pc # "down" /\ i \in Nat \ {0} /\ TypeInv
    BY DEF Saving, FilesInv, TypeInv
  <1>2. /\ configFiles \in Seq(CiFile) /\ Opened(configFiles, disk, bak) /\ configFiles # <<>>
        /\ n \in DOMAIN configFiles /\ 1 \in DOMAIN configFiles /\ n \in Nat /\ n >= 2
    BY <1>1 DEF FilesInv, TypeInv, ControlInv, Opened
  <1>3. f \in Files /\ g \in Files
    BY <1>2, EachOnce
  <1>4. Placed(n) /\ Placed(1)
    BY <1>2 DEF FilesInv, PlaceInv
  <1>5. ASSUME NEW h \in Files, disk[h] # Absent, disk[h].net # Absent, e \in Entries(disk[h].net)
        PROVE  e \in Within(Live)
    BY <1>5 DEF Live, Within
  <1>6. CASE Passed(1)
    <2>1. disk[g] # Absent /\ disk[g].net = NewNet(g)
      BY <1>4, <1>6 DEF Placed
    <2>2. g = configFiles[Main].path
      BY <1>2, MainFacts
    <2>3. g \notin Encapsulated
      BY <2>1 DEF Encased, InUse
    <2> HIDE DEF g
    <2>4. NewNet(g) = net /\ NewNet(g) # Absent
      BY <1>1, <1>2, <2>2, <2>3, NewNetFacts
    <2> QED
      BY <1>3, <1>5, <2>1, <2>4
  <1>7. CASE ~Passed(1)
    <2>1. ~Passed(n) /\ n # i
      BY <1>1, <1>2, <1>7 DEF Passed
    <2>2. disk[f] = pre.disk[f]
      BY <1>4, <2>1 DEF Placed
    <2> QED
      BY <1>3, <1>5, <2>2
  <1> QED
    BY <1>6, <1>7

\* The sections survive.
LEMMA Survive ==
    FilesInv /\ KeptInv => SectionsSurvive
  <1> SUFFICES ASSUME FilesInv, KeptInv PROVE SectionsSurvive
    OBVIOUS
  <1>1. Retention = 0 \/ failed < Retention => Kept \subseteq Within(Live \cup Backups)
    BY SafeIsWithin DEF KeptInv, Few
  <1>2. ASSUME pc \notin {"idle", "down"}, configFiles[1].onlyNetwork, ~Encased,
               NEW n \in 2 .. Len(configFiles),
               pre.disk[configFiles[n].path] # Absent,
               pre.disk[configFiles[n].path].net # Absent
        PROVE  Entries(pre.disk[configFiles[n].path].net) \cap Entries(net) \subseteq Within(Live)
    <2>1. Saving
      BY <1>2 DEF FilesInv, TypeInv
    <2> QED
      BY <1>2, <2>1, StanzasStay
  <1> QED
    BY <1>1, <1>2 DEF SectionsSurvive

-----------------------------------------------------------------------------
(* The theorems *)

\* The invariant holds of every reachable state, for any files, interfaces and calls.
THEOREM CloudInitInvariant ==
    Spec => []CloudInitInv
  <1> USE DEF CloudInitInv
  <1>1. Init => CloudInitInv
    <2> SUFFICES ASSUME Init PROVE CloudInitInv
      OBVIOUS
    <2>1. FilesInv /\ KeptInv
      BY InitFiles, KeptInit
    <2>2. DoneInv
      BY DEF Init, DoneInv, SavedIsRead, CallDoesItsPart, Saving
    <2> QED
      BY <2>1, <2>2 DEF FilesInv, DoneInv
  <1>2. CloudInitInv /\ [Next]_vars => CloudInitInv'
    <2> SUFFICES ASSUME CloudInitInv, [Next]_vars PROVE CloudInitInv'
      OBVIOUS
    <2>1. FilesInv /\ DoneInv /\ KeptInv
      BY DEF FilesInv, DoneInv
    <2>2. FilesInv' /\ DoneInv' /\ KeptInv'
      BY <2>1, FilesStep, DoneStep, KeptStep
    <2> QED
      BY <2>2 DEF FilesInv, DoneInv
  <1> QED
    BY <1>1, <1>2, PTL DEF Spec

\* However many calls, failures of Save, deaths and restarts, each interface the files
\* configured is still in a file or in a backup, and where the first file has nothing but a
\* network, the stanzas of the later files are at no time off the disk: for any files, any
\* sections in them and any retention.
THEOREM SectionsAreKept ==
    Spec => []SectionsSurvive
  <1>1. CloudInitInv => SectionsSurvive
    BY Survive DEF CloudInitInv, FilesInv
  <1> QED
    BY <1>1, CloudInitInvariant, PTL

\* After a Save without error a new process reads the network the old one held, whatever
\* the other files had before.
THEOREM SavedNetworkIsRead ==
    Spec => []SavedIsRead
  <1>1. CloudInitInv => SavedIsRead
    BY DEF CloudInitInv
  <1> QED
    BY <1>1, CloudInitInvariant, PTL

\* A call without error did what it was asked for its interface, in both halves of the
\* network, and left every other interface as it was; setting addresses (cloudinit.go's
\* rebuilding of the subnets) leaves no client in v1.
THEOREM CallIsDone ==
    Spec => []CallDoesItsPart
  <1>1. CloudInitInv => CallDoesItsPart
    BY DEF CloudInitInv
  <1> QED
    BY <1>1, CloudInitInvariant, PTL
=============================================================================
