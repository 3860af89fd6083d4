---------------------------- MODULE NetplanProofs ----------------------------
(****************************************************************************)
(* Proofs about Netplan.  Reading merges file after file into the first     *)
(* configuration with the key, so what it makes of a directory is shown by  *)
(* induction on the number of files read; the invariant says how memory and *)
(* directory differ at each step of Save, from each other and from what the *)
(* call began with.                                                         *)
(****************************************************************************)
EXTENDS Netplan, TLAPS, WellFoundedInduction

Sequence(s) == \E S : s \in Seq(S)
OnFiles(f) == f = [x \in Files |-> f[x]]

Directory == [Files -> Text \cup {Absent}]
Config == [file : Files, net : Stanzas, empty : BOOLEAN, dirty : BOOLEAN]

\* The place of a file in the order of names.
Pos(f) == CHOOSE j \in DOMAIN FileOrder : FileOrder[j] = f

\* The files of a directory, up to the m-th, that have a key.
Sources(d, m, k) == {f \in Files : Pos(f) <= m /\ d[f] # Absent /\ k \in DOMAIN d[f].net}

\* The value a setting of a key has: the first that is not empty, else off if any is.
IsValue(d, m, k, s, x) ==
    \/ /\ x \notin Empty
       /\ \E f \in Sources(d, m, k) :
             /\ d[f].net[k][s] = x
             /\ \A g \in Sources(d, m, k) : Pos(g) < Pos(f) => d[g].net[k][s] \in Empty
    \/ /\ x = "off"
       /\ \A f \in Sources(d, m, k) : d[f].net[k][s] \in Empty
       /\ \E f \in Sources(d, m, k) : d[f].net[k][s] = "off"
    \/ /\ x = Unset
       /\ \A f \in Sources(d, m, k) : d[f].net[k][s] = Unset

Fields == {"addresses", "gateway", "dhcp", "routes", "nameservers"}

\* A file shares a key with another.
Shares(d, f) == \E k \in DOMAIN d[f].net, g \in Files \ {f} :
                    d[g] # Absent /\ k \in DOMAIN d[g].net

\* Configurations in the order of their files, no two with the same key.
Listed(cs) ==
    /\ cs \in Seq(Config)
    /\ \A n \in DOMAIN cs : cs[n].empty = (DOMAIN cs[n].net = {})
    /\ \A n, m \in DOMAIN cs : n < m => Pos(cs[n].file) < Pos(cs[m].file)
    /\ \A n, m \in DOMAIN cs : DOMAIN cs[n].net \cap DOMAIN cs[m].net # {} => n = m

\* What memory knows of a directory d, whatever calls have done to both.
Held(cs, d) ==
    /\ Listed(cs)
    /\ \A n \in DOMAIN cs :
          ~cs[n].dirty => d[cs[n].file] # Absent /\ d[cs[n].file].net = cs[n].net
    /\ \A n \in DOMAIN cs :
          d[cs[n].file] # Absent => DOMAIN cs[n].net \subseteq DOMAIN d[cs[n].file].net
    /\ \A f \in Files : d[f] # Absent => \E n \in DOMAIN cs : cs[n].file = f
    /\ \A f \in Files : d[f] # Absent =>
          \A k \in DOMAIN d[f].net :
              \E n \in DOMAIN cs : k \in DOMAIN cs[n].net /\ Pos(cs[n].file) <= Pos(f)

-----------------------------------------------------------------------------
(* The invariant *)

Text1(c) == [net |-> c.net, unknown |-> FALSE]

\* The call is about one of its stanzas.
Targeted(c) == \E k \in DOMAIN c.net : NameOf[k] = target

\* Two functions on keys that differ in the target's stanzas only.
AgreeOnOthers(old, new) ==
    DOMAIN new = DOMAIN old /\ \A k \in DOMAIN old : NameOf[k] # target => new[k] = old[k]

\* The call has come past this configuration of the list it began with.
Saved(c) == IF disk[c.file] = Absent THEN c.empty
            ELSE AgreeOnOthers(c.net, disk[c.file].net)

Same(c) == disk[c.file] = pre.disk[c.file]

\* How far a call has come, or came: c is the configuration it is at.
Progress(c) ==
    /\ \A n \in DOMAIN pre.configs : n < c => Saved(pre.configs[n])
    /\ \A n \in DOMAIN pre.configs : n > c => Same(pre.configs[n])
    /\ c \in DOMAIN pre.configs =>
          LET p == pre.configs[c] IN Same(p) \/ disk[p.file] = Absent \/ Saved(p)

Calling == {"save", "backup", "install", "prune"}

TypeInv ==
    /\ disk \in Directory /\ tmp \in Directory
    /\ OnFiles(bak) /\ \A f \in Files : Sequence(bak[f])
    /\ pc \in Calling \cup {"idle", "down"} /\ i \in Nat \ {0}
    /\ pre = [disk |-> pre.disk, configs |-> pre.configs]
    /\ pre.disk \in Directory
    /\ faulted \in BOOLEAN
    /\ pc \in {"backup", "install", "prune"} => i \in DOMAIN configs /\ configs[i].dirty

\* In a call, memory is what the call began with, changed, and saved up to i.
CarriedInv ==
    pc \in Calling =>
        /\ DOMAIN configs = DOMAIN pre.configs
        /\ \A n \in DOMAIN configs :
              /\ configs[n].file = pre.configs[n].file
              /\ configs[n].empty = pre.configs[n].empty
              /\ AgreeOnOthers(pre.configs[n].net, configs[n].net)
              /\ n >= i => (configs[n].dirty <=> pre.configs[n].dirty \/ Targeted(pre.configs[n]))
              /\ n < i /\ configs[n].dirty => configs[n].empty /\ disk[configs[n].file] = Absent

\* Where the text of the configuration being saved is.
PlaceInv ==
    /\ pc \in {"save", "backup"} /\ i \in DOMAIN configs => Same(configs[i])
    /\ pc = "backup" /\ ~configs[i].empty => tmp[configs[i].file] = Text1(configs[i])
    /\ pc = "install" => /\ disk[configs[i].file] = Absent /\ ~configs[i].empty
                         /\ tmp[configs[i].file] = Text1(configs[i])
    /\ pc = "prune" =>
          IF configs[i].empty THEN disk[configs[i].file] = Absent
          ELSE disk[configs[i].file] = Text1(configs[i]) /\ disk[configs[i].file] # Absent

\* Only files a call is about, or that were dirty before, have changed; what was there
\* is the newest backup.
ChangedInv ==
    /\ \A f \in Files : disk[f] # pre.disk[f] =>
          \E n \in DOMAIN pre.configs :
              /\ pre.configs[n].file = f
              /\ pre.configs[n].dirty \/ Targeted(pre.configs[n])
    /\ \A f \in Removed : bak[f] # <<>> /\ bak[f][1] = pre.disk[f]

\* Before the first fault, the files of the list are there and those marked share a key.
FaultlessInv ==
    /\ ret = "error" => faulted
    /\ ~faulted =>
          /\ \A n \in DOMAIN pre.configs :
                pre.configs[n].dirty => Shares(pre.disk, pre.configs[n].file)
          /\ pc = "idle" => \A n \in DOMAIN configs :
                                /\ disk[configs[n].file] # Absent
                                /\ configs[n].dirty => Shares(disk, configs[n].file)
          /\ pc \in Calling => \A n \in DOMAIN configs :
                n > i \/ (n = i /\ pc \in {"save", "backup"}) => disk[configs[n].file] # Absent

NetplanInv ==
    /\ TypeInv
    /\ Held(pre.configs, pre.disk)
    /\ pc # "down" => Held(configs, disk)
    /\ pc \in Calling => Progress(i)
    /\ AtRest => \E c \in Nat : Progress(c)
    /\ CarriedInv /\ PlaceInv /\ ChangedInv /\ FaultlessInv
    /\ pc = "idle" /\ ret = "ok" => \A n \in DOMAIN configs : ~configs[n].dirty

-----------------------------------------------------------------------------
(* Induction *)

\* A set of numbers that is not empty has a least one.
LEMMA Least ==
    ASSUME NEW T \in SUBSET Nat, T # {}
    PROVE  \E m \in T : \A k \in T : m <= k
  <1> DEFINE R == OpToRel(<, Nat)
  <1>1. IsWellFoundedOn(R, Nat)
    BY NatLessThanWellFounded
  <1>2. \A x, y \in Nat : x < y => <<x, y>> \in R
    BY DEF OpToRel
  <1> HIDE DEF R
  <1>3. PICK m \in T : \A y \in T : ~(<<y, m>> \in R)
    BY <1>1, WFMin
  <1>4. \A k \in T : ~(k < m)
    BY <1>2, <1>3
  <1> QED
    BY <1>4

\* What holds of no element, and of one more whenever of m, holds of any number up to N.
LEMMA Induction ==
    ASSUME NEW N \in Nat, NEW T, 0 \in T, \A m \in 0 .. N - 1 : m \in T => m + 1 \in T
    PROVE  0 .. N \subseteq T
  <1> DEFINE U == (0 .. N) \ T
  <1> SUFFICES ASSUME U # {} PROVE FALSE
    OBVIOUS
  <1>1. PICK m \in U : \A k \in U : m <= k
    <2> HIDE DEF U
    <2>1. U \in SUBSET Nat
      BY DEF U
    <2> QED
      BY <2>1, Least
  <1>2. m # 0 /\ m - 1 \in 0 .. N - 1
    BY <1>1
  <1>3. m - 1 \notin U
    BY <1>1, <1>2
  <1>4. (m - 1) + 1 \in T
    BY <1>2, <1>3
  <1> QED
    BY <1>1, <1>2, <1>4

-----------------------------------------------------------------------------
(* Reading a directory *)

\* A file is in the order of names, once.
LEMMA PosFacts ==
    /\ \A f \in Files : Pos(f) \in DOMAIN FileOrder /\ FileOrder[Pos(f)] = f
    /\ \A j \in DOMAIN FileOrder : FileOrder[j] \in Files /\ Pos(FileOrder[j]) = j
    /\ Len(FileOrder) \in Nat /\ DOMAIN FileOrder = 1 .. Len(FileOrder)
  <1>1. Len(FileOrder) \in Nat /\ DOMAIN FileOrder = 1 .. Len(FileOrder)
    BY NetplanAssumption DEF NetplanAssumption
  <1>2. \A f \in Files : Pos(f) \in DOMAIN FileOrder /\ FileOrder[Pos(f)] = f
    BY NetplanAssumption DEF NetplanAssumption, Pos
  <1>3. \A j \in DOMAIN FileOrder : FileOrder[j] \in Files
    BY NetplanAssumption DEF NetplanAssumption
  <1>4. \A j \in DOMAIN FileOrder : Pos(FileOrder[j]) = j
    BY <1>2, <1>3, NetplanAssumption DEF NetplanAssumption
  <1> QED
    BY <1>1, <1>2, <1>3, <1>4

\* Reading m files defines a list for each m, by its equation.
LEMMA ReadEquation ==
    ASSUME NEW d
    PROVE  /\ ReadUpTo(d)[0] = <<>>
           /\ \A m \in 1 .. Len(FileOrder) :
                ReadUpTo(d)[m] =
                    IF d[FileOrder[m]] = Absent THEN ReadUpTo(d)[m - 1]
                    ELSE ReadFile(ReadUpTo(d)[m - 1], FileOrder[m], d[FileOrder[m]].net)
  <1> DEFINE N == Len(FileOrder)
             step(r, m) == IF m = 0 THEN <<>>
                           ELSE IF d[FileOrder[m]] = Absent THEN r[m - 1]
                           ELSE ReadFile(r[m - 1], FileOrder[m], d[FileOrder[m]].net)
             Solves(r, M) == r = [m \in 0 .. M |-> step(r, m)]
             T == {M \in 0 .. N : \E r : Solves(r, M)}
  <1>0. N \in Nat
    BY PosFacts
  <1>1. 0 \in T
    <2> DEFINE r == [m \in 0 .. 0 |-> <<>>]
    <2>1. Solves(r, 0)
      OBVIOUS
    <2> HIDE DEF r, Solves
    <2> QED
      BY <2>1, <1>0
  <1>2. ASSUME NEW M \in 0 .. N - 1, M \in T PROVE M + 1 \in T
    <2>1. PICK r : Solves(r, M)
      BY <1>2
    <2> DEFINE q == [m \in 0 .. M + 1 |-> IF m <= M THEN r[m] ELSE step(r, m)]
    <2>2. \A m \in 0 .. M : q[m] = r[m]
      BY <1>0
    <2>3. \A m \in 1 .. M + 1 : q[m - 1] = r[m - 1]
      BY <2>2, <1>0
    <2>4. \A m \in 0 .. M + 1 : step(q, m) = step(r, m)
      BY <2>3, <1>0
    <2>5. \A m \in 0 .. M : r[m] = step(r, m)
      BY <2>1
    <2>6. \A m \in 0 .. M + 1 : q[m] = step(r, m)
      <3> HIDE DEF step
      <3> QED
        BY <2>5, <1>0
    <2>7. Solves(q, M + 1)
      <3> HIDE DEF step
      <3>1. \A m \in 0 .. M + 1 : q[m] = step(q, m)
        BY <2>4, <2>6
      <3>2. q = [m \in 0 .. M + 1 |-> q[m]]
        OBVIOUS
      <3> HIDE DEF q
      <3> QED
        BY <3>1, <3>2
    <2> HIDE DEF q, Solves
    <2> QED
      BY <2>7, <1>0
  <1>3. 0 .. N \subseteq T
    <2> HIDE DEF T
    <2> QED
      BY <1>0, <1>1, <1>2, Induction
  <1>4. Solves(ReadUpTo(d), N)
    <2>1. \E r : Solves(r, N)
      <3> HIDE DEF Solves
      <3> QED
        BY <1>0, <1>3
    <2> DEFINE c == CHOOSE r : r = [m \in 0 .. N |-> step(r, m)]
    <2>2. ReadUpTo(d) = c
      BY DEF ReadUpTo
    <2> QED
      BY <2>1, <2>2
  <1> QED
    BY <1>4, <1>0

\* A stanza is determined by its settings.
LEMMA StanzaFields ==
    /\ \A a \in Stanza : DOMAIN a = Fields
    /\ \A a, b \in Stanza : (\A s \in Fields : a[s] = b[s]) => a = b
  BY DEF Stanza, Fields

\* A set of stanzas is a function on its keys.
LEMMA StanzasDef ==
    \A net : net \in Stanzas <=> net \in [DOMAIN net -> Stanza] /\ DOMAIN net \subseteq Key
  BY DEF Stanzas

\* The configurations of a list have their types.
LEMMA ConfigType ==
    \A cs \in Seq(Config) : \A n \in DOMAIN cs :
        /\ cs[n] \in Config /\ cs[n].file \in Files /\ cs[n].net \in Stanzas
        /\ cs[n].empty \in BOOLEAN /\ cs[n].dirty \in BOOLEAN
  <1>1. \A c \in Config : /\ c.file \in Files /\ c.net \in Stanzas
                          /\ c.empty \in BOOLEAN /\ c.dirty \in BOOLEAN
    BY DEF Config
  <1>2. \A cs \in Seq(Config) : \A n \in DOMAIN cs : cs[n] \in Config
    OBVIOUS
  <1> QED
    BY <1>1, <1>2

\* Filling a stanza gives a stanza.
LEMMA FilledFacts ==
    ASSUME NEW dst \in Stanza, NEW src \in Stanza
    PROVE  /\ Filled(dst, src) \in Stanza
           /\ \A s \in Fields : Filled(dst, src)[s] =
                  IF dst[s] \in Empty /\ src[s] # Unset THEN src[s] ELSE dst[s]
  <1>1. DOMAIN dst = Fields
    BY StanzaFields
  <1>2. Filled(dst, src) = [s \in Fields |-> IF dst[s] \in Empty /\ src[s] # Unset
                                             THEN src[s] ELSE dst[s]]
    BY <1>1 DEF Filled
  <1>3. Filled(dst, src) \in Stanza
    BY <1>2 DEF Stanza, Fields
  <1> QED
    BY <1>2, <1>3

\* What merging a file into an earlier configuration changes.
LEMMA AbsorbFacts ==
    ASSUME NEW c \in Config, NEW net \in Stanzas
    PROVE  /\ Absorb(c, net) \in Config
           /\ Absorb(c, net).file = c.file /\ Absorb(c, net).empty = c.empty
           /\ DOMAIN Absorb(c, net).net = DOMAIN c.net
           /\ \A k \in DOMAIN c.net :
                  Absorb(c, net).net[k] =
                      IF k \in DOMAIN net THEN Filled(c.net[k], net[k]) ELSE c.net[k]
           /\ ~Absorb(c, net).dirty => Absorb(c, net) = c
           /\ Absorb(c, net).dirty => c.dirty \/ DOMAIN c.net \cap DOMAIN net # {}
  <1> DEFINE merged == [k \in DOMAIN c.net |-> IF k \in DOMAIN net
                                               THEN Filled(c.net[k], net[k]) ELSE c.net[k]]
  <1>1. /\ c.net \in [DOMAIN c.net -> Stanza] /\ DOMAIN c.net \subseteq Key
        /\ net \in [DOMAIN net -> Stanza]
    BY StanzasDef DEF Config
  <1>2. merged \in [DOMAIN c.net -> Stanza]
    BY <1>1, FilledFacts
  <1>3. merged \in Stanzas
    BY <1>1, <1>2, StanzasDef
  <1>4. CASE DOMAIN c.net \cap DOMAIN net = {}
    <2>1. Absorb(c, net) = c
      BY <1>4 DEF Absorb
    <2> QED
      BY <2>1, <1>4
  <1>5. CASE DOMAIN c.net \cap DOMAIN net # {}
    <2>1. Absorb(c, net) = [c EXCEPT !.dirty = TRUE, !.net = merged]
      BY <1>5 DEF Absorb
    <2> HIDE DEF merged
    <2>2. /\ Absorb(c, net) \in Config /\ Absorb(c, net).dirty /\ Absorb(c, net).net = merged
          /\ Absorb(c, net).file = c.file /\ Absorb(c, net).empty = c.empty
      BY <2>1, <1>3 DEF Config
    <2> QED
      BY <2>2, <1>5 DEF merged
  <1> QED
    BY <1>4, <1>5

\* A list has grown by a file: the configurations there were have absorbed it.
Grown(cs, f, net, rs) ==
    /\ rs \in Seq(Config)
    /\ Len(rs) = Len(cs) + 1
    /\ \A n \in DOMAIN cs : rs[n] = Absorb(cs[n], net)
    /\ rs[Len(cs) + 1].file = f
    /\ DOMAIN rs[Len(cs) + 1].net = DOMAIN net \ KeysOf(cs)
    /\ \A k \in DOMAIN net \ KeysOf(cs) : rs[Len(cs) + 1].net[k] = net[k]
    /\ rs[Len(cs) + 1].empty = (DOMAIN net \ KeysOf(cs) = {})
    /\ rs[Len(cs) + 1].dirty = (DOMAIN net \ KeysOf(cs) # DOMAIN net)

\* That is what reading one more file does.
LEMMA ReadFileFacts ==
    ASSUME NEW cs \in Seq(Config), NEW f \in Files, NEW net \in Stanzas
    PROVE  Grown(cs, f, net, ReadFile(cs, f, net))
  <1> DEFINE own == DOMAIN net \ KeysOf(cs)
             old == [n \in DOMAIN cs |-> Absorb(cs[n], net)]
             new == [file |-> f, net |-> [k \in own |-> net[k]],
                     empty |-> own = {}, dirty |-> own # DOMAIN net]
  <1>1. ReadFile(cs, f, net) = Append(old, new)
    BY DEF ReadFile
  <1>2. old \in Seq(Config) /\ Len(old) = Len(cs) /\ \A n \in DOMAIN cs : old[n] = Absorb(cs[n], net)
    <2>1. \A n \in DOMAIN cs : Absorb(cs[n], net) \in Config
      BY AbsorbFacts
    <2>2. DOMAIN cs = 1 .. Len(cs) /\ Len(cs) \in Nat
      OBVIOUS
    <2> QED
      BY <2>1, <2>2
  <1>3. new \in Config
    <2>1. net \in [DOMAIN net -> Stanza] /\ DOMAIN net \subseteq Key
      BY StanzasDef
    <2>2. [k \in own |-> net[k]] \in [own -> Stanza] /\ own \subseteq Key
      BY <2>1
    <2>3. [k \in own |-> net[k]] \in Stanzas
      BY <2>2, StanzasDef
    <2> QED
      BY <2>3 DEF Config
  <1>4. /\ new.file = f /\ DOMAIN new.net = own /\ \A k \in own : new.net[k] = net[k]
        /\ new.empty = (own = {}) /\ new.dirty = (own # DOMAIN net)
    OBVIOUS
  <1> HIDE DEF old, new
  <1>5. /\ Append(old, new) \in Seq(Config) /\ Len(Append(old, new)) = Len(cs) + 1
        /\ Append(old, new)[Len(cs) + 1] = new
        /\ \A n \in DOMAIN cs : Append(old, new)[n] = old[n]
    BY <1>2, <1>3
  <1> QED
    BY <1>1, <1>2, <1>4, <1>5 DEF Grown

\* What reading the first m files of d makes of them, but for the values.
ReadOK(d, m, cs) ==
    /\ Listed(cs)
    /\ \A n \in DOMAIN cs :
          /\ Pos(cs[n].file) <= m /\ d[cs[n].file] # Absent
          /\ DOMAIN cs[n].net \subseteq DOMAIN d[cs[n].file].net
          /\ ~cs[n].dirty => cs[n].net = d[cs[n].file].net
          /\ cs[n].dirty => Shares(d, cs[n].file)
    /\ \A f \in Files : Pos(f) <= m /\ d[f] # Absent => \E n \in DOMAIN cs : cs[n].file = f
    /\ \A f \in Files : Pos(f) <= m /\ d[f] # Absent =>
          \A k \in DOMAIN d[f].net :
              \E n \in DOMAIN cs : k \in DOMAIN cs[n].net /\ Pos(cs[n].file) <= Pos(f)

\* Their values are the first that are not empty.
ValuesOK(d, m, cs) ==
    \A n \in DOMAIN cs : \A k \in DOMAIN cs[n].net :
        \A s \in Fields : IsValue(d, m, k, s, cs[n].net[k][s])

\* A file that is not there leaves the list as it is.
LEMMA ReadAbsent ==
    ASSUME NEW d \in Directory, NEW m \in 1 .. Len(FileOrder), NEW cs,
           d[FileOrder[m]] = Absent, ReadOK(d, m - 1, cs), ValuesOK(d, m - 1, cs)
    PROVE  ReadOK(d, m, cs) /\ ValuesOK(d, m, cs)
  <1>1. \A f \in Files : d[f] # Absent => (Pos(f) <= m <=> Pos(f) <= m - 1)
    BY PosFacts
  <1>2. \A k : Sources(d, m, k) = Sources(d, m - 1, k)
    BY <1>1 DEF Sources
  <1>3. ValuesOK(d, m, cs)
    BY <1>2 DEF ValuesOK, IsValue
  <1>4. \A n \in DOMAIN cs : cs[n].file \in Files
    BY ConfigType DEF ReadOK, Listed
  <1>5. ReadOK(d, m, cs)
    BY <1>1, <1>4 DEF ReadOK
  <1> QED
    BY <1>3, <1>5

\* A file that is there is merged into the list.
LEMMA ReadPresent ==
    ASSUME NEW d \in Directory, NEW m \in 1 .. Len(FileOrder), NEW cs,
           d[FileOrder[m]] # Absent, ReadOK(d, m - 1, cs)
    PROVE  ReadOK(d, m, ReadFile(cs, FileOrder[m], d[FileOrder[m]].net))
  <1> DEFINE f == FileOrder[m]
             net == d[f].net
             rs == ReadFile(cs, f, net)
             N == Len(cs)
  <1>1. /\ f \in Files /\ Pos(f) = m /\ d[f] # Absent /\ net \in Stanzas
        /\ cs \in Seq(Config)
    BY PosFacts DEF Directory, Text, ReadOK, Listed
  <1> HIDE DEF f, net, rs
  <1>2. /\ rs \in Seq(Config) /\ Len(rs) = N + 1 /\ N \in Nat
        /\ DOMAIN cs = 1 .. N /\ DOMAIN rs = 1 .. N + 1
        /\ \A n \in 1 .. N : rs[n] = Absorb(cs[n], net) /\ cs[n] \in Config
        /\ rs[N + 1].file = f /\ DOMAIN rs[N + 1].net = DOMAIN net \ KeysOf(cs)
        /\ \A k \in DOMAIN rs[N + 1].net : rs[N + 1].net[k] = net[k]
        /\ rs[N + 1].empty = (DOMAIN rs[N + 1].net = {})
        /\ rs[N + 1].dirty = (DOMAIN net \ KeysOf(cs) # DOMAIN net)
    <2>1. N \in Nat /\ DOMAIN cs = 1 .. N /\ \A n \in 1 .. N : cs[n] \in Config
      BY <1>1
    <2>2. Grown(cs, f, net, rs)
      BY <1>1, ReadFileFacts DEF rs
    <2>3. rs \in Seq(Config) /\ Len(rs) = N + 1 /\ DOMAIN rs = 1 .. N + 1
      BY <2>1, <2>2 DEF Grown
    <2>4. \A n \in 1 .. N : rs[n] = Absorb(cs[n], net)
      BY <2>1, <2>2 DEF Grown
    <2>5. /\ rs[N + 1].file = f /\ DOMAIN rs[N + 1].net = DOMAIN net \ KeysOf(cs)
          /\ \A k \in DOMAIN rs[N + 1].net : rs[N + 1].net[k] = net[k]
          /\ rs[N + 1].empty = (DOMAIN rs[N + 1].net = {})
          /\ rs[N + 1].dirty = (DOMAIN net \ KeysOf(cs) # DOMAIN net)
      BY <2>2 DEF Grown
    <2> QED
      BY <2>1, <2>3, <2>4, <2>5
  <1>3. \A n \in 1 .. N :
            /\ rs[n].file = cs[n].file /\ rs[n].empty = cs[n].empty
            /\ DOMAIN rs[n].net = DOMAIN cs[n].net
            /\ ~rs[n].dirty => rs[n] = cs[n]
            /\ rs[n].dirty => cs[n].dirty \/ DOMAIN cs[n].net \cap DOMAIN net # {}
    BY <1>1, <1>2, AbsorbFacts
  <1>4. \A n \in 1 .. N : cs[n].file \in Files /\ Pos(cs[n].file) <= m - 1 /\ cs[n].file # f
    <2>1. \A n \in 1 .. N : Pos(cs[n].file) <= m - 1 /\ cs[n].file \in Files
      BY <1>2 DEF ReadOK, Config
    <2> QED
      BY <2>1, <1>1, PosFacts
  <1>5. Listed(rs)
    <2>1. \A n \in DOMAIN rs : rs[n].empty = (DOMAIN rs[n].net = {})
      BY <1>2, <1>3 DEF ReadOK, Listed
    <2>2. ASSUME NEW n \in DOMAIN rs, NEW l \in DOMAIN rs, n < l
          PROVE  Pos(rs[n].file) < Pos(rs[l].file)
      <3>1. CASE l = N + 1
        <4>1. Pos(cs[n].file) \in Nat
          BY <2>2, <3>1, <1>2, <1>4, PosFacts
        <4> QED
          BY <2>2, <3>1, <4>1, <1>1, <1>2, <1>3, <1>4
      <3>2. CASE l # N + 1
        BY <2>2, <3>2, <1>2, <1>3 DEF ReadOK, Listed
      <3> QED
        BY <3>1, <3>2
    <2>3. \A n \in 1 .. N : DOMAIN cs[n].net \subseteq KeysOf(cs)
      BY <1>2 DEF KeysOf
    <2>4. ASSUME NEW n \in DOMAIN rs, NEW l \in DOMAIN rs,
                 DOMAIN rs[n].net \cap DOMAIN rs[l].net # {}
          PROVE  n = l
      <3>1. CASE n \in 1 .. N /\ l \in 1 .. N
        BY <2>4, <3>1, <1>2, <1>3 DEF ReadOK, Listed
      <3>2. CASE n = N + 1 /\ l \in 1 .. N
        BY <2>3, <2>4, <3>2, <1>2, <1>3
      <3>3. CASE l = N + 1 /\ n \in 1 .. N
        BY <2>3, <2>4, <3>3, <1>2, <1>3
      <3> QED
        BY <3>1, <3>2, <3>3, <1>2
    <2> QED
      BY <1>2, <2>1, <2>2, <2>4 DEF Listed
  <1>6. ASSUME NEW n \in DOMAIN rs
        PROVE  /\ Pos(rs[n].file) <= m /\ d[rs[n].file] # Absent
               /\ DOMAIN rs[n].net \subseteq DOMAIN d[rs[n].file].net
               /\ ~rs[n].dirty => rs[n].net = d[rs[n].file].net
               /\ rs[n].dirty => Shares(d, rs[n].file)
    <2>1. CASE n = N + 1
      <3>1. rs[n].file = f /\ DOMAIN rs[n].net \subseteq DOMAIN net
        BY <2>1, <1>2
      <3>2. ASSUME ~rs[n].dirty PROVE rs[n].net = net
        <4>1. rs[n].net \in Stanzas
          BY <1>2, ConfigType
        <4>2. DOMAIN rs[n].net = DOMAIN net
          BY <2>1, <3>2, <1>2
        <4>3. rs[n].net = [k \in DOMAIN net |-> rs[n].net[k]] /\ net = [k \in DOMAIN net |-> net[k]]
          BY <4>1, <4>2, <1>1, StanzasDef
        <4> QED
          BY <4>2, <4>3, <2>1, <1>2
      <3>3. ASSUME rs[n].dirty PROVE Shares(d, f)
        <4>1. PICK k \in DOMAIN net : k \in KeysOf(cs)
          BY <2>1, <3>3, <1>2
        <4>2. PICK l \in 1 .. N : k \in DOMAIN cs[l].net
          BY <4>1, <1>2 DEF KeysOf
        <4>3. d[cs[l].file] # Absent /\ k \in DOMAIN d[cs[l].file].net
          BY <4>2, <1>2 DEF ReadOK
        <4> QED
          BY <4>1, <4>2, <4>3, <1>4 DEF Shares, net
      <3> QED
        BY <3>1, <3>2, <3>3, <1>1 DEF net
    <2>2. CASE n \in 1 .. N
      <3>1. rs[n].file = cs[n].file /\ DOMAIN rs[n].net = DOMAIN cs[n].net
        BY <2>2, <1>3
      <3>2. /\ Pos(cs[n].file) <= m - 1 /\ d[cs[n].file] # Absent
            /\ DOMAIN cs[n].net \subseteq DOMAIN d[cs[n].file].net
            /\ ~cs[n].dirty => cs[n].net = d[cs[n].file].net
            /\ cs[n].dirty => Shares(d, cs[n].file)
        BY <2>2, <1>2 DEF ReadOK
      <3>3. Pos(cs[n].file) <= m
        BY <2>2, <1>4, PosFacts
      <3>4. ASSUME DOMAIN cs[n].net \cap DOMAIN net # {} PROVE Shares(d, cs[n].file)
        BY <3>2, <3>4, <2>2, <1>1, <1>4 DEF Shares, net
      <3>5. rs[n].dirty => Shares(d, cs[n].file)
        BY <3>2, <3>4, <2>2, <1>3
      <3>6. ~rs[n].dirty => ~cs[n].dirty /\ rs[n].net = cs[n].net
        BY <2>2, <1>3
      <3> QED
        BY <3>1, <3>2, <3>3, <3>5, <3>6
    <2> QED
      BY <2>1, <2>2, <1>2
  <1>7. ASSUME NEW g \in Files, Pos(g) <= m, d[g] # Absent
        PROVE  /\ \E n \in DOMAIN rs : rs[n].file = g
               /\ \A k \in DOMAIN d[g].net :
                     \E n \in DOMAIN rs : k \in DOMAIN rs[n].net /\ Pos(rs[n].file) <= Pos(g)
    <2>1. CASE g = f
      <3>1. N + 1 \in DOMAIN rs /\ rs[N + 1].file = g
        BY <2>1, <1>2
      <3>2. ASSUME NEW k \in DOMAIN net, k \in KeysOf(cs)
            PROVE  \E n \in DOMAIN rs : k \in DOMAIN rs[n].net /\ Pos(rs[n].file) <= m
        <4>1. PICK n \in 1 .. N : k \in DOMAIN cs[n].net
          BY <3>2, <1>2 DEF KeysOf
        <4> QED
          BY <4>1, <1>2, <1>3, <1>6
      <3>3. ASSUME NEW k \in DOMAIN net, k \notin KeysOf(cs)
            PROVE  \E n \in DOMAIN rs : k \in DOMAIN rs[n].net /\ Pos(rs[n].file) <= m
        BY <3>1, <3>3, <1>1, <1>2
      <3> QED
        BY <2>1, <3>1, <3>2, <3>3, <1>1 DEF net
    <2>2. CASE g # f
      <3>1. Pos(g) <= m - 1
        BY <1>7, <2>2, PosFacts DEF f
      <3>2. \E n \in DOMAIN cs : cs[n].file = g
        BY <1>7, <3>1 DEF ReadOK
      <3>3. \A k \in DOMAIN d[g].net :
                \E n \in DOMAIN cs : k \in DOMAIN cs[n].net /\ Pos(cs[n].file) <= Pos(g)
        BY <1>7, <3>1 DEF ReadOK
      <3> QED
        BY <3>2, <3>3, <1>2, <1>3
    <2> QED
      BY <2>1, <2>2
  <1>8. ReadOK(d, m, rs)
    BY <1>5, <1>6, <1>7 DEF ReadOK
  <1> QED
    BY <1>8 DEF rs, net, f

\* Only directory entries on the list give a key, and no others.
LEMMA ReadKeys ==
    ASSUME NEW d, NEW m, NEW cs, ReadOK(d, m, cs), NEW k
    PROVE  k \in KeysOf(cs) <=> Sources(d, m, k) # {}
  <1>1. ASSUME k \in KeysOf(cs) PROVE Sources(d, m, k) # {}
    <2>1. PICK n \in DOMAIN cs : k \in DOMAIN cs[n].net
      BY <1>1 DEF KeysOf
    <2>2. cs[n].file \in Files
      BY ConfigType DEF ReadOK, Listed
    <2>3. cs[n].file \in Sources(d, m, k)
      BY <2>1, <2>2 DEF ReadOK, Sources
    <2> QED
      BY <2>3
  <1>2. ASSUME Sources(d, m, k) # {} PROVE k \in KeysOf(cs)
    <2>1. PICK f \in Files : Pos(f) <= m /\ d[f] # Absent /\ k \in DOMAIN d[f].net
      BY <1>2 DEF Sources
    <2>2. PICK n \in DOMAIN cs : k \in DOMAIN cs[n].net
      BY <2>1 DEF ReadOK
    <2> QED
      BY <2>2 DEF KeysOf
  <1> QED
    BY <1>1, <1>2

\* A value that is filled from one more file is that of one more source.
LEMMA FilledValue ==
    ASSUME NEW d, NEW m \in 1 .. Len(FileOrder), NEW f \in Files, Pos(f) = m, NEW k, NEW s, NEW x,
           Sources(d, m, k) = Sources(d, m - 1, k) \cup {f},
           IsValue(d, m - 1, k, s, x)
    PROVE  IsValue(d, m, k, s, IF x \in Empty /\ d[f].net[k][s] # Unset
                               THEN d[f].net[k][s] ELSE x)
  <1> DEFINE y == d[f].net[k][s]
             S == Sources(d, m - 1, k)
  <1>1. \A g \in S : g \in Files /\ Pos(g) < m /\ Pos(g) \in Nat
    BY PosFacts DEF Sources
  <1>2. \A g \in S \cup {f} : Pos(g) < Pos(f) <=> g \in S
    BY <1>1
  <1>3. Sources(d, m, k) = S \cup {f}
    OBVIOUS
  <1>4. \/ /\ x \notin Empty
           /\ \E g \in S : d[g].net[k][s] = x
                           /\ \A h \in S : Pos(h) < Pos(g) => d[h].net[k][s] \in Empty
        \/ /\ x = "off" /\ \A g \in S : d[g].net[k][s] \in Empty
           /\ \E g \in S : d[g].net[k][s] = "off"
        \/ x = Unset /\ \A g \in S : d[g].net[k][s] = Unset
    BY DEF IsValue
  <1> HIDE DEF S, y
  <1>5. CASE x \notin Empty
    <2>1. PICK g \in S : d[g].net[k][s] = x
                         /\ \A h \in S : Pos(h) < Pos(g) => d[h].net[k][s] \in Empty
      BY <1>4, <1>5 DEF Empty
    <2>2. ~(Pos(f) < Pos(g))
      BY <1>1
    <2>3. IsValue(d, m, k, s, x)
      BY <1>3, <1>5, <2>1, <2>2 DEF IsValue
    <2> QED
      BY <1>5, <2>3
  <1>6. CASE x \in Empty
    <2>1. \A g \in S : d[g].net[k][s] \in Empty
      BY <1>4, <1>6 DEF Empty
    <2>2. CASE y \notin Empty
      <3>1. IsValue(d, m, k, s, y)
        BY <1>2, <1>3, <2>1, <2>2 DEF IsValue, y
      <3> QED
        BY <3>1, <1>6, <2>2 DEF Empty, y
    <2>3. CASE y = "off"
      <3>1. IsValue(d, m, k, s, "off")
        BY <1>3, <2>1, <2>3 DEF IsValue, y, Empty
      <3>2. CASE y # Unset
        BY <3>1, <3>2, <1>6, <2>3 DEF y
      <3>3. CASE y = Unset
        BY <3>1, <3>3, <1>6, <2>3 DEF y, Empty
      <3> QED
        BY <3>2, <3>3
    <2>4. CASE y = Unset
      <3>1. IsValue(d, m, k, s, x)
        <4>1. CASE x = "off" /\ \E g \in S : d[g].net[k][s] = "off"
          BY <4>1, <1>3, <2>1, <2>4 DEF IsValue, y, Empty
        <4>2. CASE x = Unset /\ \A g \in S : d[g].net[k][s] = Unset
          BY <4>2, <1>3, <2>4 DEF IsValue, y
        <4> QED
          BY <4>1, <4>2, <1>4, <1>6
      <3> QED
        BY <3>1, <2>4 DEF y
    <2> QED
      BY <2>2, <2>3, <2>4 DEF Empty
  <1> QED
    BY <1>5, <1>6

\* The values of a list that absorbs one more file.
LEMMA ReadValues ==
    ASSUME NEW d \in Directory, NEW m \in 1 .. Len(FileOrder), NEW cs,
           d[FileOrder[m]] # Absent, ReadOK(d, m - 1, cs), ValuesOK(d, m - 1, cs)
    PROVE  ValuesOK(d, m, ReadFile(cs, FileOrder[m], d[FileOrder[m]].net))
  <1> DEFINE f == FileOrder[m]
             net == d[f].net
             rs == ReadFile(cs, f, net)
             N == Len(cs)
  <1>1. /\ f \in Files /\ Pos(f) = m /\ d[f] # Absent /\ net \in Stanzas
        /\ cs \in Seq(Config)
    BY PosFacts DEF Directory, Text, ReadOK, Listed
  <1>2. net \in [DOMAIN net -> Stanza]
    BY <1>1, StanzasDef
  <1> HIDE DEF f, net, rs
  <1>3. Grown(cs, f, net, rs)
    BY <1>1, ReadFileFacts DEF rs
  <1>4. N \in Nat /\ DOMAIN cs = 1 .. N /\ DOMAIN rs = 1 .. N + 1
    BY <1>1, <1>3 DEF Grown
  <1>5. \A g \in Files : Pos(g) <= m <=> Pos(g) <= m - 1 \/ g = f
    BY <1>1, PosFacts
  <1>6. \A k : Sources(d, m, k) = IF k \in DOMAIN net THEN Sources(d, m - 1, k) \cup {f}
                                  ELSE Sources(d, m - 1, k)
    BY <1>1, <1>5 DEF Sources, net
  <1>7. ASSUME NEW n \in 1 .. N, NEW k \in DOMAIN rs[n].net, NEW s \in Fields
        PROVE  IsValue(d, m, k, s, rs[n].net[k][s])
    <2>1. cs[n] \in Config /\ cs[n].net \in Stanzas /\ rs[n] = Absorb(cs[n], net)
      BY <1>1, <1>3, <1>4, ConfigType DEF Grown
    <2>2. /\ k \in DOMAIN cs[n].net
          /\ rs[n].net[k] = IF k \in DOMAIN net THEN Filled(cs[n].net[k], net[k])
                            ELSE cs[n].net[k]
      BY <1>1, <2>1, AbsorbFacts
    <2>3. IsValue(d, m - 1, k, s, cs[n].net[k][s])
      BY <2>2, <1>4 DEF ValuesOK
    <2>4. CASE k \in DOMAIN net
      <3>1. cs[n].net[k] \in Stanza /\ net[k] \in Stanza
        BY <2>1, <2>2, <2>4, <1>2, StanzasDef
      <3>2. rs[n].net[k][s] = IF cs[n].net[k][s] \in Empty /\ net[k][s] # Unset
                              THEN net[k][s] ELSE cs[n].net[k][s]
        BY <3>1, <2>2, <2>4, FilledFacts
      <3>3. Sources(d, m, k) = Sources(d, m - 1, k) \cup {f}
        BY <1>6, <2>4
      <3> QED
        BY <3>2, <3>3, <2>3, <1>1, FilledValue DEF net
    <2>5. CASE k \notin DOMAIN net
      <3>1. Sources(d, m, k) = Sources(d, m - 1, k)
        BY <1>6, <2>5
      <3> QED
        BY <3>1, <2>2, <2>3, <2>5 DEF IsValue
    <2> QED
      BY <2>4, <2>5
  <1>8. ASSUME NEW k \in DOMAIN rs[N + 1].net, NEW s \in Fields
        PROVE  IsValue(d, m, k, s, rs[N + 1].net[k][s])
    <2>1. k \in DOMAIN net \ KeysOf(cs) /\ rs[N + 1].net[k] = net[k]
      BY <1>3, <1>8 DEF Grown
    <2>2. Sources(d, m - 1, k) = {}
      BY <2>1, ReadKeys
    <2>3. Sources(d, m, k) = {f}
      BY <1>6, <2>1, <2>2
    <2>4. \A x : IsValue(d, m, k, s, x) <=>
             \/ x \notin Empty /\ net[k][s] = x /\ (Pos(f) < Pos(f) => net[k][s] \in Empty)
             \/ x = "off" /\ net[k][s] \in Empty /\ net[k][s] = "off"
             \/ x = Unset /\ net[k][s] = Unset
      BY <2>3 DEF IsValue, net
    <2>5. ~(Pos(f) < Pos(f))
      BY <1>1
    <2> QED
      BY <2>1, <2>4, <2>5 DEF Empty
  <1>9. ValuesOK(d, m, rs)
    BY <1>4, <1>7, <1>8 DEF ValuesOK
  <1> QED
    BY <1>9 DEF rs, net, f

\* Reading a directory, file after file.
LEMMA ReadFacts ==
    ASSUME NEW d \in Directory
    PROVE  LET cs == readNetplanConfigDirectory(d)
           IN  ReadOK(d, Len(FileOrder), cs) /\ ValuesOK(d, Len(FileOrder), cs)
  <1> DEFINE N == Len(FileOrder)
             T == {m \in 0 .. N : ReadOK(d, m, ReadUpTo(d)[m]) /\ ValuesOK(d, m, ReadUpTo(d)[m])}
  <1>1. 0 \in T
    <2>1. N \in Nat /\ \A f \in Files : ~(Pos(f) <= 0)
      BY PosFacts
    <2>2. ReadOK(d, 0, <<>>) /\ ValuesOK(d, 0, <<>>)
      BY <2>1 DEF ReadOK, ValuesOK, Listed
    <2> QED
      BY <2>1, <2>2, ReadEquation
  <1>2. ASSUME NEW l \in 0 .. N - 1, l \in T PROVE l + 1 \in T
    <2>1. N \in Nat /\ l + 1 \in 1 .. N /\ (l + 1) - 1 = l
      BY PosFacts
    <2> DEFINE m == l + 1
               cs == ReadUpTo(d)[l]
    <2>2. ReadUpTo(d)[m] = IF d[FileOrder[m]] = Absent THEN cs
                           ELSE ReadFile(cs, FileOrder[m], d[FileOrder[m]].net)
      BY <2>1, ReadEquation
    <2>3. ReadOK(d, m - 1, cs) /\ ValuesOK(d, m - 1, cs)
      BY <1>2, <2>1
    <2> HIDE DEF cs
    <2>4. m \in 1 .. N
      BY <2>1
    <2> HIDE DEF m
    <2>5. ReadOK(d, m, ReadUpTo(d)[m]) /\ ValuesOK(d, m, ReadUpTo(d)[m])
      BY <2>2, <2>3, <2>4, ReadAbsent, ReadPresent, ReadValues
    <2>6. m \in T
      BY <2>1, <2>4, <2>5
    <2> QED
      BY <2>6 DEF m
  <1>3. N \in Nat
    BY PosFacts
  <1>4. 0 .. N \subseteq T
    <2> HIDE DEF T
    <2> QED
      BY <1>1, <1>2, <1>3, Induction
  <1>5. N \in T
    <2> HIDE DEF T
    <2> QED
      BY <1>3, <1>4
  <1> QED
    BY <1>5 DEF readNetplanConfigDirectory

-----------------------------------------------------------------------------
(* What a directory means *)

\* No two values can be that of a setting.
LEMMA ValueUnique ==
    ASSUME NEW d, NEW m, NEW k, NEW s, NEW x, NEW y,
           IsValue(d, m, k, s, x), IsValue(d, m, k, s, y)
    PROVE  x = y
  <1> DEFINE S == Sources(d, m, k)
             at(f) == d[f].net[k][s]
  <1>1. \A f, g \in S : Pos(f) \in Nat /\ (Pos(f) < Pos(g) \/ Pos(g) < Pos(f) \/ f = g)
    BY PosFacts DEF Sources
  <1> DEFINE Is(v) ==
        \/ /\ v \notin Empty
           /\ \E f \in S : at(f) = v /\ \A g \in S : Pos(g) < Pos(f) => at(g) \in Empty
        \/ v = "off" /\ (\A f \in S : at(f) \in Empty) /\ \E f \in S : at(f) = "off"
        \/ v = Unset /\ \A f \in S : at(f) = Unset
  <1>2. Is(x) /\ Is(y)
    BY DEF IsValue
  <1> HIDE DEF S, at
  <1>3. CASE x \notin Empty /\ y \notin Empty
    BY <1>1, <1>2, <1>3 DEF Empty
  <1>4. CASE x \notin Empty /\ y \in Empty
    BY <1>2, <1>4 DEF Empty
  <1>5. CASE x \in Empty /\ y \notin Empty
    BY <1>2, <1>5 DEF Empty
  <1>6. CASE x \in Empty /\ y \in Empty
    BY <1>2, <1>6 DEF Empty
  <1> QED
    BY <1>3, <1>4, <1>5, <1>6

\* The stanza of a key is that of the one configuration with the key.
LEMMA MergedFacts ==
    ASSUME NEW cs, Listed(cs)
    PROVE  /\ DOMAIN Merged(cs) = KeysOf(cs)
           /\ Merged(cs) = [k \in KeysOf(cs) |-> Merged(cs)[k]]
           /\ \A n \in DOMAIN cs : \A k \in DOMAIN cs[n].net :
                  k \in KeysOf(cs) /\ Merged(cs)[k] = cs[n].net[k]
  <1>1. DOMAIN Merged(cs) = KeysOf(cs) /\ Merged(cs) = [k \in KeysOf(cs) |-> Merged(cs)[k]]
    BY DEF Merged
  <1>2. ASSUME NEW n \in DOMAIN cs, NEW k \in DOMAIN cs[n].net
        PROVE  k \in KeysOf(cs) /\ Merged(cs)[k] = cs[n].net[k]
    <2> DEFINE holder == CHOOSE m \in DOMAIN cs : k \in DOMAIN cs[m].net
    <2>1. holder \in DOMAIN cs /\ k \in DOMAIN cs[holder].net
      BY <1>2
    <2>2. k \in KeysOf(cs) /\ Merged(cs)[k] = cs[holder].net[k]
      BY <1>2 DEF KeysOf, Merged
    <2> HIDE DEF holder
    <2>3. holder = n
      BY <1>2, <2>1 DEF Listed
    <2> QED
      BY <2>2, <2>3
  <1> QED
    BY <1>1, <1>2

\* What a process makes of a directory it has just read.
LEMMA HeldWhenRead ==
    ASSUME NEW d \in Directory
    PROVE  LET cs == readNetplanConfigDirectory(d)
           IN  /\ Held(cs, d)
               /\ \A n \in DOMAIN cs : d[cs[n].file] # Absent
               /\ \A n \in DOMAIN cs : cs[n].dirty => Shares(d, cs[n].file)
  <1> DEFINE cs == readNetplanConfigDirectory(d)
  <1>1. ReadOK(d, Len(FileOrder), cs)
    BY ReadFacts
  <1>2. \A f \in Files : Pos(f) <= Len(FileOrder)
    BY PosFacts
  <1> HIDE DEF cs
  <1>3. Held(cs, d)
    BY <1>1, <1>2 DEF Held, ReadOK
  <1>4. \A n \in DOMAIN cs : /\ d[cs[n].file] # Absent
                             /\ cs[n].dirty => Shares(d, cs[n].file)
    BY <1>1 DEF ReadOK
  <1> QED
    BY <1>3, <1>4 DEF cs

\* The stanzas of a directory, by the files they come from.
LEMMA EffectiveFacts ==
    ASSUME NEW d \in Directory
    PROVE  /\ \A k : k \in DOMAIN Effective(d) <=> Sources(d, Len(FileOrder), k) # {}
           /\ \A k \in DOMAIN Effective(d) :
                 /\ Effective(d)[k] \in Stanza
                 /\ \A s \in Fields : IsValue(d, Len(FileOrder), k, s, Effective(d)[k][s])
  <1> DEFINE cs == readNetplanConfigDirectory(d)
  <1>1. ReadOK(d, Len(FileOrder), cs) /\ ValuesOK(d, Len(FileOrder), cs)
    BY ReadFacts
  <1>2. Effective(d) = Merged(cs)
    BY DEF Effective
  <1> HIDE DEF cs
  <1>3. Listed(cs)
    BY <1>1 DEF ReadOK
  <1>4. DOMAIN Effective(d) = KeysOf(cs)
    BY <1>2, <1>3, MergedFacts
  <1>5. \A k : k \in KeysOf(cs) <=> Sources(d, Len(FileOrder), k) # {}
    BY <1>1, ReadKeys
  <1>6. ASSUME NEW k \in KeysOf(cs)
        PROVE  /\ Effective(d)[k] \in Stanza
               /\ \A s \in Fields : IsValue(d, Len(FileOrder), k, s, Effective(d)[k][s])
    <2>1. PICK n \in DOMAIN cs : k \in DOMAIN cs[n].net
      BY <1>6 DEF KeysOf
    <2>2. Effective(d)[k] = cs[n].net[k]
      BY <1>2, <1>3, <2>1, MergedFacts
    <2>3. cs[n].net \in Stanzas
      BY <1>3, ConfigType DEF Listed
    <2>4. cs[n].net[k] \in Stanza
      BY <2>1, <2>3, StanzasDef
    <2> QED
      BY <1>1, <2>1, <2>2, <2>4 DEF ValuesOK
  <1> QED
    BY <1>4, <1>5, <1>6

\* A directory that holds just what memory does is read as it.
LEMMA CleanIsRead ==
    ASSUME NEW d \in Directory, NEW cs, Held(cs, d), \A n \in DOMAIN cs : ~cs[n].dirty
    PROVE  Effective(d) = Merged(cs)
  <1> DEFINE rs == readNetplanConfigDirectory(d)
             N == Len(FileOrder)
  <1>1. ReadOK(d, N, rs) /\ Effective(d) = Merged(rs)
    BY ReadFacts DEF Effective
  <1>2. \A f \in Files : Pos(f) <= N
    BY PosFacts
  <1> HIDE DEF rs, N
  <1>3. Listed(cs) /\ Listed(rs)
    BY <1>1 DEF Held, ReadOK
  <1>4. /\ \A n \in DOMAIN cs : cs[n].file \in Files
        /\ \A n \in DOMAIN rs : rs[n].file \in Files
    BY <1>3, ConfigType DEF Listed
  <1>5. /\ \A n \in DOMAIN cs : d[cs[n].file] # Absent /\ cs[n].net = d[cs[n].file].net
        /\ \A f \in Files : d[f] # Absent => \E n \in DOMAIN cs : cs[n].file = f
    BY DEF Held
  <1>6. ASSUME NEW f \in Files, d[f] # Absent PROVE ~Shares(d, f)
    <2> SUFFICES ASSUME NEW k \in DOMAIN d[f].net, NEW g \in Files \ {f},
                        d[g] # Absent, k \in DOMAIN d[g].net
                 PROVE  FALSE
      BY DEF Shares
    <2>1. PICK n \in DOMAIN cs : cs[n].file = f
      BY <1>5, <1>6
    <2>2. PICK m \in DOMAIN cs : cs[m].file = g
      BY <1>5
    <2>3. k \in DOMAIN cs[n].net \cap DOMAIN cs[m].net
      BY <1>5, <2>1, <2>2
    <2>4. n = m
      BY <1>3, <2>3 DEF Listed
    <2> QED
      BY <2>1, <2>2, <2>4
  <1>7. \A n \in DOMAIN rs : d[rs[n].file] # Absent /\ rs[n].net = d[rs[n].file].net
    BY <1>1, <1>4, <1>6 DEF ReadOK
  <1>8. \A f \in Files : d[f] # Absent => \E n \in DOMAIN rs : rs[n].file = f
    BY <1>1, <1>2 DEF ReadOK
  <1>9. ASSUME NEW k, k \in KeysOf(rs)
        PROVE  k \in KeysOf(cs) /\ Merged(rs)[k] = Merged(cs)[k]
    <2>1. PICK n \in DOMAIN rs : k \in DOMAIN rs[n].net
      BY <1>9 DEF KeysOf
    <2>2. PICK m \in DOMAIN cs : cs[m].file = rs[n].file
      BY <1>4, <1>5, <1>7, <2>1
    <2>3. cs[m].net = rs[n].net
      BY <1>5, <1>7, <2>1, <2>2
    <2>4. Merged(rs)[k] = rs[n].net[k]
      BY <1>3, <2>1, MergedFacts
    <2>5. k \in KeysOf(cs) /\ Merged(cs)[k] = cs[m].net[k]
      BY <1>3, <2>1, <2>3, MergedFacts
    <2> QED
      BY <2>3, <2>4, <2>5
  <1>10. ASSUME NEW k, k \in KeysOf(cs) PROVE k \in KeysOf(rs)
    <2>1. PICK m \in DOMAIN cs : k \in DOMAIN cs[m].net
      BY <1>10 DEF KeysOf
    <2>2. PICK n \in DOMAIN rs : rs[n].file = cs[m].file
      BY <1>4, <1>5, <1>8, <2>1
    <2>3. k \in DOMAIN rs[n].net
      BY <1>5, <1>7, <2>1, <2>2
    <2> QED
      BY <2>3 DEF KeysOf
  <1>11. KeysOf(rs) = KeysOf(cs)
    BY <1>9, <1>10
  <1>12. /\ Merged(rs) = [k \in KeysOf(rs) |-> Merged(rs)[k]]
         /\ Merged(cs) = [k \in KeysOf(cs) |-> Merged(cs)[k]]
    BY <1>3, MergedFacts
  <1> QED
    BY <1>1, <1>9, <1>11, <1>12

-----------------------------------------------------------------------------
(* What the invariant says at the end of a call *)

\* Only files of the list the call began with have changed.
OnlyListed == \A f \in Files : disk[f] # pre.disk[f] =>
                  \E n \in DOMAIN pre.configs : pre.configs[n].file = f

\* The stanza of another interface reads as before, the one file at risk excepted.
LEMMA OthersRead ==
    ASSUME disk \in Directory, pre.disk \in Directory, Held(pre.configs, pre.disk), OnlyListed,
           NEW c \in Nat, Progress(c),
           NEW k \in DOMAIN Effective(pre.disk), NameOf[k] # target,
           Effective(pre.disk)[k] = Merged(pre.configs)[k],
           \A n \in DOMAIN pre.configs :
               k \in DOMAIN pre.configs[n].net => pre.configs[n].file \notin Removed
    PROVE  k \in DOMAIN Effective(disk) /\ Effective(disk)[k] = Effective(pre.disk)[k]
  <1> DEFINE P == pre.configs
             N == Len(FileOrder)
             S == Sources(pre.disk, N, k)
             S1 == Sources(disk, N, k)
             v == Effective(pre.disk)[k]
  <1>1. \A f \in Files : Pos(f) <= N /\ Pos(f) \in Nat
    BY PosFacts
  <1>2. /\ S # {} /\ v \in Stanza
        /\ \A s \in Fields : IsValue(pre.disk, N, k, s, v[s])
    BY EffectiveFacts
  <1>3. /\ \A f \in Files : f \in S <=> pre.disk[f] # Absent /\ k \in DOMAIN pre.disk[f].net
        /\ \A f \in Files : f \in S1 <=> disk[f] # Absent /\ k \in DOMAIN disk[f].net
        /\ S \subseteq Files /\ S1 \subseteq Files
    BY <1>1 DEF Sources
  <1>4. Listed(P) /\ DOMAIN P \subseteq Nat /\ \A n \in DOMAIN P : P[n].file \in Files
    BY ConfigType DEF Held, Listed
  <1>5. PICK h \in DOMAIN P : k \in DOMAIN P[h].net
    BY <1>2, <1>3 DEF Held
  <1>6. v = P[h].net[k]
    BY <1>4, <1>5, MergedFacts
  <1> HIDE DEF N, S, S1, v, P
  <1> DEFINE F == P[h].file
  <1>7. F \in Files /\ \A f \in S : Pos(F) <= Pos(f)
    <2>1. ASSUME NEW f \in S PROVE Pos(F) <= Pos(f)
      <3>1. PICK n \in DOMAIN P : k \in DOMAIN P[n].net /\ Pos(P[n].file) <= Pos(f)
        BY <1>3 DEF Held, P
      <3>2. n = h
        BY <1>4, <1>5, <3>1 DEF Listed
      <3> QED
        BY <3>1, <3>2
    <2> QED
      BY <2>1, <1>4
  <1>8. \A n \in DOMAIN P : P[n].file \in S => h <= n
    <2> SUFFICES ASSUME NEW n \in DOMAIN P, P[n].file \in S, n < h PROVE FALSE
      BY <1>4
    <2>1. Pos(P[n].file) < Pos(F)
      BY <1>4 DEF Listed
    <2>2. Pos(F) <= Pos(P[n].file)
      BY <1>7
    <2> QED
      BY <2>1, <2>2, <1>1, <1>4
  <1>9. \A n \in DOMAIN P : n # h => k \notin DOMAIN P[n].net
    BY <1>4, <1>5 DEF Listed
  <1>10. \A n \in DOMAIN P : n # h /\ Saved(P[n]) => P[n].file \notin S1
    BY <1>3, <1>9 DEF Saved, AgreeOnOthers
  <1>11. disk[F] = Absent => Same(P[h])
    BY <1>5, <1>7 DEF Removed, Same, P
  <1>12. /\ \A n \in DOMAIN P : n < c => Saved(P[n])
         /\ \A n \in DOMAIN P : n > c => Same(P[n])
         /\ c \in DOMAIN P => Same(P[c]) \/ disk[P[c].file] = Absent \/ Saved(P[c])
    BY DEF Progress, P
  <1>13. \A f \in Files : disk[f] # pre.disk[f] => \E n \in DOMAIN P : P[n].file = f
    BY DEF OnlyListed, P
  <1>14. \A n \in DOMAIN P : n # h /\ ~Same(P[n]) => n <= c /\ P[n].file \notin S1
    <2> SUFFICES ASSUME NEW n \in DOMAIN P, n # h, ~Same(P[n])
                 PROVE  n <= c /\ P[n].file \notin S1
      OBVIOUS
    <2>1. n <= c
      BY <1>12, <1>4
    <2>2. Saved(P[n]) \/ disk[P[n].file] = Absent
      BY <2>1, <1>12, <1>4
    <2> QED
      BY <2>1, <2>2, <1>3, <1>4, <1>10
  <1>15. CASE Saved(P[h]) /\ disk[F] # Absent
    <2>1. F \in S1 /\ disk[F].net[k] = v
      BY <1>3, <1>5, <1>6, <1>7, <1>15 DEF Saved, AgreeOnOthers
    <2>2. ASSUME NEW f \in S1, f # F
          PROVE  f \in S /\ disk[f].net[k] = pre.disk[f].net[k] /\ ~(Pos(f) < Pos(F))
      <3>1. disk[f] = pre.disk[f]
        BY <2>2, <1>3, <1>13, <1>14 DEF Same
      <3>2. f \in S
        BY <2>2, <3>1, <1>3
      <3> QED
        BY <3>1, <3>2, <1>1, <1>3, <1>7
    <2>3. ~(Pos(F) < Pos(F))
      BY <1>1, <1>7
    <2>4. ASSUME NEW s \in Fields PROVE IsValue(disk, N, k, s, v[s])
      <3>1. IsValue(pre.disk, N, k, s, v[s])
        BY <1>2
      <3>2. CASE v[s] \notin Empty
        BY <3>2, <2>1, <2>2, <2>3 DEF IsValue, S1
      <3>3. CASE v[s] = "off" /\ \A f \in S : pre.disk[f].net[k][s] \in Empty
        BY <3>3, <2>1, <2>2 DEF IsValue, S1, Empty
      <3>4. CASE v[s] = Unset /\ \A f \in S : pre.disk[f].net[k][s] = Unset
        BY <3>4, <2>1, <2>2 DEF IsValue, S1
      <3> QED
        BY <3>1, <3>2, <3>3, <3>4 DEF IsValue, S
    <2> QED
      BY <2>1, <2>4, <1>2, EffectiveFacts, ValueUnique, StanzaFields DEF S1, N, v
  <1>16. CASE ~(Saved(P[h]) /\ disk[F] # Absent)
    <2>1. h >= c /\ Same(P[h])
      <3>1. CASE disk[F] = Absent
        <4>1. ~Saved(P[h])
          BY <3>1, <1>4, <1>5 DEF Saved, Listed
        <4> QED
          BY <3>1, <4>1, <1>4, <1>11, <1>12
      <3>2. CASE disk[F] # Absent
        <4>1. ~Saved(P[h])
          BY <3>2, <1>16
        <4>2. h >= c
          BY <4>1, <1>4, <1>12
        <4> QED
          BY <3>2, <4>1, <4>2, <1>4, <1>12
      <3> QED
        BY <3>1, <3>2
    <2>2. ASSUME NEW f \in Files, disk[f] # pre.disk[f] PROVE f \notin S /\ f \notin S1
      <3>1. PICK n \in DOMAIN P : P[n].file = f
        BY <2>2, <1>13
      <3>2. n # h /\ ~Same(P[n])
        BY <2>1, <2>2, <3>1 DEF Same
      <3>3. n <= c /\ f \notin S1
        BY <3>1, <3>2, <1>14
      <3>4. ~(h <= n)
        BY <2>1, <3>2, <3>3, <1>4
      <3> QED
        BY <3>1, <3>3, <3>4, <1>8
    <2>3. S1 = S /\ \A f \in S : disk[f].net[k] = pre.disk[f].net[k]
      <3>1. \A f \in Files : f \in S1 <=> f \in S
        BY <2>2, <1>3
      <3> QED
        BY <3>1, <2>2, <1>3
    <2>4. ASSUME NEW s \in Fields PROVE IsValue(disk, N, k, s, v[s])
      BY <1>2, <2>3 DEF IsValue, S, S1
    <2> QED
      BY <2>3, <2>4, <1>2, EffectiveFacts, ValueUnique, StanzaFields DEF S1, N, v
  <1> QED
    BY <1>15, <1>16

\* At most one file that is away was not to be removed.
LEMMA OneAway ==
    ASSUME Held(pre.configs, pre.disk), NEW c \in Nat, Progress(c),
           NEW n \in DOMAIN pre.configs, pre.configs[n].file \in Removed, ~pre.configs[n].empty
    PROVE  n = c
  BY ConfigType DEF Held, Listed, Progress, Removed, Saved, Same

-----------------------------------------------------------------------------
(* Forgetting configurations whose file was removed *)

\* Among the first m configurations, those that are kept, in the order they had.
KeptOK(cs, m, ks) ==
    /\ ks \in Seq(Config)
    /\ \A p \in DOMAIN ks : \E n \in 1 .. m : ks[p] = cs[n] /\ ~(cs[n].dirty /\ cs[n].empty)
    /\ \A n \in 1 .. m : ~(cs[n].dirty /\ cs[n].empty) => \E p \in DOMAIN ks : ks[p] = cs[n]
    /\ \A p, q \in DOMAIN ks : p < q => Pos(ks[p].file) < Pos(ks[q].file)

\* The lists of those kept are defined by their equation.
LEMMA KeptEquation ==
    ASSUME NEW cs \in Seq(Config)
    PROVE  /\ KeptUpTo(cs)[0] = <<>>
           /\ \A m \in 1 .. Len(cs) :
                KeptUpTo(cs)[m] = IF cs[m].dirty /\ cs[m].empty THEN KeptUpTo(cs)[m - 1]
                                  ELSE Append(KeptUpTo(cs)[m - 1], cs[m])
  <1> DEFINE N == Len(cs)
             step(r, m) == IF m = 0 THEN <<>>
                           ELSE IF cs[m].dirty /\ cs[m].empty THEN r[m - 1]
                           ELSE Append(r[m - 1], cs[m])
             Solves(r, M) == r = [m \in 0 .. M |-> step(r, m)]
             T == {M \in 0 .. N : \E r : Solves(r, M)}
  <1>0. N \in Nat
    OBVIOUS
  <1>1. 0 \in T
    <2> DEFINE r == [m \in 0 .. 0 |-> <<>>]
    <2>1. Solves(r, 0)
      OBVIOUS
    <2> HIDE DEF r, Solves
    <2> QED
      BY <2>1, <1>0
  <1>2. ASSUME NEW M \in 0 .. N - 1, M \in T PROVE M + 1 \in T
    <2>1. PICK r : Solves(r, M)
      BY <1>2
    <2> DEFINE q == [m \in 0 .. M + 1 |-> IF m <= M THEN r[m] ELSE step(r, m)]
    <2>2. \A m \in 0 .. M : q[m] = r[m]
      BY <1>0
    <2>3. \A m \in 1 .. M + 1 : q[m - 1] = r[m - 1]
      BY <2>2, <1>0
    <2>4. \A m \in 0 .. M + 1 : step(q, m) = step(r, m)
      BY <2>3, <1>0
    <2>5. \A m \in 0 .. M : r[m] = step(r, m)
      BY <2>1
    <2>6. \A m \in 0 .. M + 1 : q[m] = step(r, m)
      <3> HIDE DEF step
      <3> QED
        BY <2>5, <1>0
    <2>7. Solves(q, M + 1)
      <3> HIDE DEF step
      <3>1. \A m \in 0 .. M + 1 : q[m] = step(q, m)
        BY <2>4, <2>6
      <3>2. q = [m \in 0 .. M + 1 |-> q[m]]
        OBVIOUS
      <3> HIDE DEF q
      <3> QED
        BY <3>1, <3>2
    <2> HIDE DEF q, Solves
    <2> QED
      BY <2>7, <1>0
  <1>3. 0 .. N \subseteq T
    <2> HIDE DEF T
    <2> QED
      BY <1>0, <1>1, <1>2, Induction
  <1>4. Solves(KeptUpTo(cs), N)
    <2>1. \E r : Solves(r, N)
      <3> HIDE DEF Solves
      <3> QED
        BY <1>0, <1>3
    <2> DEFINE c == CHOOSE r : r = [m \in 0 .. N |-> step(r, m)]
    <2>2. KeptUpTo(cs) = c
      BY DEF KeptUpTo
    <2> QED
      BY <2>1, <2>2
  <1>5. \A m \in 0 .. N : KeptUpTo(cs)[m] = step(KeptUpTo(cs), m)
    <2> HIDE DEF step
    <2> QED
      BY <1>4
  <1>6. \A m \in 1 .. N : m \in 0 .. N /\ m # 0
    BY <1>0
  <1>7. 0 \in 0 .. N
    BY <1>0
  <1> QED
    BY <1>5, <1>6, <1>7

\* What is kept of a list.
LEMMA KeptFacts ==
    ASSUME NEW cs, Listed(cs)
    PROVE  KeptOK(cs, Len(cs), Kept(cs))
  <1> DEFINE N == Len(cs)
             T == {m \in 0 .. N : KeptOK(cs, m, KeptUpTo(cs)[m])}
  <1>0. /\ cs \in Seq(Config) /\ N \in Nat /\ DOMAIN cs = 1 .. N
        /\ \A n \in 1 .. N : cs[n] \in Config
        /\ \A n, m \in 1 .. N : n < m => Pos(cs[n].file) < Pos(cs[m].file)
    BY DEF Listed
  <1>1. 0 \in T
    <2>1. KeptOK(cs, 0, <<>>)
      BY DEF KeptOK
    <2> QED
      BY <2>1, <1>0, KeptEquation
  <1>2. ASSUME NEW l \in 0 .. N - 1, l \in T PROVE l + 1 \in T
    <2> DEFINE m == l + 1
               ks == KeptUpTo(cs)[l]
               c == cs[m]
    <2>1. m \in 1 .. N /\ m - 1 = l /\ l \in Nat
      BY <1>0
    <2>2. KeptUpTo(cs)[m] = IF c.dirty /\ c.empty THEN ks ELSE Append(ks, c)
      BY <2>1, <1>0, KeptEquation
    <2>3. KeptOK(cs, l, ks) /\ c \in Config
      BY <1>0, <1>2
    <2> HIDE DEF ks
    <2>4. CASE c.dirty /\ c.empty
      <3>1. \A n \in 1 .. m : n \in 1 .. l \/ n = m
        BY <2>1
      <3>2. \A n \in 1 .. l : n \in 1 .. m
        BY <2>1
      <3>3. KeptOK(cs, m, ks)
        BY <2>3, <2>4, <3>1, <3>2 DEF KeptOK
      <3> QED
        BY <3>3, <2>1, <2>2, <2>4, <1>0
    <2>5. CASE ~(c.dirty /\ c.empty)
      <3> DEFINE new == Append(ks, c)
      <3>1. /\ new \in Seq(Config) /\ DOMAIN new = 1 .. Len(ks) + 1 /\ new[Len(ks) + 1] = c
            /\ Len(ks) \in Nat /\ DOMAIN ks = 1 .. Len(ks)
            /\ \A p \in DOMAIN ks : new[p] = ks[p]
        BY <2>3 DEF KeptOK
      <3> HIDE DEF new
      <3>2. \A p \in DOMAIN new : \E n \in 1 .. m : new[p] = cs[n] /\ ~(cs[n].dirty /\ cs[n].empty)
        BY <3>1, <2>1, <2>3, <2>5 DEF KeptOK
      <3>3. \A n \in 1 .. m : ~(cs[n].dirty /\ cs[n].empty) => \E p \in DOMAIN new : new[p] = cs[n]
        <4>1. \A n \in 1 .. l : ~(cs[n].dirty /\ cs[n].empty) => \E p \in DOMAIN ks : ks[p] = cs[n]
          BY <2>3 DEF KeptOK
        <4>2. \A n \in 1 .. m : n \in 1 .. l \/ n = m
          BY <2>1
        <4> QED
          BY <3>1, <4>1, <4>2
      <3>4. \A p \in DOMAIN ks : Pos(ks[p].file) < Pos(c.file)
        BY <2>1, <2>3, <1>0 DEF KeptOK
      <3>5. \A p, q \in DOMAIN new : p < q => Pos(new[p].file) < Pos(new[q].file)
        <4>1. \A p, q \in DOMAIN ks : p < q => Pos(ks[p].file) < Pos(ks[q].file)
          BY <2>3 DEF KeptOK
        <4> QED
          BY <3>1, <3>4, <4>1
      <3>6. KeptOK(cs, m, new)
        BY <3>1, <3>2, <3>3, <3>5 DEF KeptOK
      <3> QED
        BY <3>6, <2>1, <2>2, <2>5 DEF new
    <2> QED
      BY <2>4, <2>5
  <1>3. 0 .. N \subseteq T
    <2> HIDE DEF T
    <2> QED
      BY <1>0, <1>1, <1>2, Induction
  <1>4. N \in T
    <2> HIDE DEF T
    <2> QED
      BY <1>0, <1>3
  <1> QED
    BY <1>4 DEF Kept

\* Forgetting what is gone leaves memory true to the directory.
LEMMA KeptHeld ==
    ASSUME NEW cs, NEW d, Held(cs, d),
           \A n \in DOMAIN cs : cs[n].dirty => cs[n].empty /\ d[cs[n].file] = Absent
    PROVE  Held(Kept(cs), d) /\ \A p \in DOMAIN Kept(cs) : ~Kept(cs)[p].dirty
  <1> DEFINE ks == Kept(cs)
  <1>1. Listed(cs) /\ KeptOK(cs, Len(cs), ks) /\ DOMAIN cs = 1 .. Len(cs)
    <2>1. Listed(cs)
      BY DEF Held
    <2>2. DOMAIN cs = 1 .. Len(cs)
      BY <2>1 DEF Listed
    <2> QED
      BY <2>1, <2>2, KeptFacts
  <1> HIDE DEF ks
  <1>2. \A p \in DOMAIN ks : \E n \in DOMAIN cs : ks[p] = cs[n] /\ ~cs[n].dirty
    BY <1>1 DEF KeptOK
  <1>3. \A n \in DOMAIN cs : ~(cs[n].dirty /\ cs[n].empty) => \E p \in DOMAIN ks : ks[p] = cs[n]
    BY <1>1 DEF KeptOK
  <1>4. /\ ks \in Seq(Config)
        /\ \A p, q \in DOMAIN ks : p < q => Pos(ks[p].file) < Pos(ks[q].file)
    BY <1>1 DEF KeptOK
  <1>5. Listed(ks)
    <2>1. \A p \in DOMAIN ks : ks[p].empty = (DOMAIN ks[p].net = {})
      BY <1>1, <1>2 DEF Listed
    <2>2. ASSUME NEW p \in DOMAIN ks, NEW q \in DOMAIN ks,
                 DOMAIN ks[p].net \cap DOMAIN ks[q].net # {}
          PROVE  p = q
      <3>1. Pos(ks[p].file) = Pos(ks[q].file) /\ Pos(ks[p].file) \in Nat
        BY <2>2, <1>1, <1>2, ConfigType, PosFacts DEF Listed
      <3>2. p \in Nat /\ q \in Nat
        BY <1>4
      <3> QED
        BY <3>1, <3>2, <1>4
    <2> QED
      BY <2>1, <2>2, <1>4 DEF Listed
  <1>6. /\ \A p \in DOMAIN ks : ~ks[p].dirty => d[ks[p].file] # Absent /\ d[ks[p].file].net = ks[p].net
        /\ \A p \in DOMAIN ks :
              d[ks[p].file] # Absent => DOMAIN ks[p].net \subseteq DOMAIN d[ks[p].file].net
    BY <1>2 DEF Held
  <1>7. \A f \in Files : d[f] # Absent => \E p \in DOMAIN ks : ks[p].file = f
    BY <1>3 DEF Held
  <1>8. ASSUME NEW f \in Files, d[f] # Absent, NEW k \in DOMAIN d[f].net
        PROVE  \E p \in DOMAIN ks : k \in DOMAIN ks[p].net /\ Pos(ks[p].file) <= Pos(f)
    <2>1. PICK n \in DOMAIN cs : k \in DOMAIN cs[n].net /\ Pos(cs[n].file) <= Pos(f)
      BY <1>8 DEF Held
    <2>2. ~cs[n].empty
      BY <2>1, <1>1 DEF Listed
    <2> QED
      BY <2>1, <2>2, <1>3
  <1>9. Held(ks, d)
    BY <1>5, <1>6, <1>7, <1>8 DEF Held
  <1> QED
    BY <1>2, <1>9 DEF ks

-----------------------------------------------------------------------------
(* What a Set* call does to memory *)

\* The list cs with the stanzas of an interface mapped by F.
Touched(cs, iface, F) ==
    [n \in DOMAIN cs |->
        IF \A k \in DOMAIN cs[n].net : NameOf[k] # iface THEN cs[n]
        ELSE [cs[n] EXCEPT !.dirty = TRUE,
                           !.net = [k \in DOMAIN cs[n].net |->
                              IF NameOf[k] = iface THEN F[cs[n].net[k]] ELSE cs[n].net[k]]]]

\* Memory after a call for an interface: only its stanzas have changed, and are marked.
Retouched(cs, new, iface) ==
    /\ new \in Seq(Config) /\ DOMAIN new = DOMAIN cs
    /\ \A n \in DOMAIN cs :
          /\ new[n].file = cs[n].file /\ new[n].empty = cs[n].empty
          /\ DOMAIN new[n].net = DOMAIN cs[n].net
          /\ \A k \in DOMAIN cs[n].net : NameOf[k] # iface => new[n].net[k] = cs[n].net[k]
          /\ IF \E k \in DOMAIN cs[n].net : NameOf[k] = iface THEN new[n].dirty
             ELSE new[n] = cs[n]

\* A call changes the stanzas of its interface only, and marks the configurations they are in.
LEMMA TouchedFacts ==
    ASSUME NEW cs, Listed(cs), NEW iface, NEW F \in [Stanza -> Stanza]
    PROVE  Retouched(cs, Touched(cs, iface, F), iface)
  <1> DEFINE net(n) == [k \in DOMAIN cs[n].net |-> IF NameOf[k] = iface THEN F[cs[n].net[k]]
                                                   ELSE cs[n].net[k]]
             new == Touched(cs, iface, F)
  <1>1. /\ cs \in Seq(Config) /\ DOMAIN cs = 1 .. Len(cs) /\ Len(cs) \in Nat
        /\ \A n \in DOMAIN cs : cs[n] \in Config /\ cs[n].net \in Stanzas
    BY ConfigType DEF Listed
  <1>2. ASSUME NEW n \in DOMAIN cs PROVE net(n) \in Stanzas /\ DOMAIN net(n) = DOMAIN cs[n].net
    <2>1. cs[n].net \in [DOMAIN cs[n].net -> Stanza] /\ DOMAIN cs[n].net \subseteq Key
      BY <1>1, <1>2, StanzasDef
    <2>2. net(n) \in [DOMAIN cs[n].net -> Stanza] /\ DOMAIN net(n) = DOMAIN cs[n].net
      BY <2>1
    <2> QED
      BY <2>1, <2>2, StanzasDef
  <1>3. ASSUME NEW n \in DOMAIN cs
        PROVE  /\ new[n] \in Config /\ new[n].file = cs[n].file /\ new[n].empty = cs[n].empty
               /\ IF \E k \in DOMAIN cs[n].net : NameOf[k] = iface
                  THEN new[n].dirty /\ new[n].net = net(n)
                  ELSE new[n] = cs[n]
    <2>1. new[n] = IF \A k \in DOMAIN cs[n].net : NameOf[k] # iface THEN cs[n]
                   ELSE [cs[n] EXCEPT !.dirty = TRUE, !.net = net(n)]
      BY <1>3 DEF Touched
    <2>2. net(n) \in Stanzas
      BY <1>2
    <2> HIDE DEF new, net
    <2>3. CASE \A k \in DOMAIN cs[n].net : NameOf[k] # iface
      BY <2>1, <2>3, <1>1
    <2>4. CASE ~(\A k \in DOMAIN cs[n].net : NameOf[k] # iface)
      <3>1. new[n] = [cs[n] EXCEPT !.dirty = TRUE, !.net = net(n)] /\ cs[n] \in Config
        BY <2>1, <2>4, <1>1
      <3>2. /\ new[n] \in Config /\ new[n].file = cs[n].file /\ new[n].empty = cs[n].empty
            /\ new[n].dirty /\ new[n].net = net(n)
        BY <3>1, <2>2 DEF Config
      <3> QED
        BY <3>2, <2>4
    <2> QED
      BY <2>3, <2>4
  <1>4. new \in Seq(Config) /\ DOMAIN new = DOMAIN cs
    <2>1. new = [n \in 1 .. Len(cs) |-> new[n]]
      BY <1>1 DEF Touched
    <2> HIDE DEF new
    <2>2. \A n \in 1 .. Len(cs) : new[n] \in Config
      BY <1>1, <1>3
    <2> QED
      BY <1>1, <2>1, <2>2
  <1>5. \A n \in DOMAIN cs : \A k \in DOMAIN cs[n].net :
            NameOf[k] # iface => net(n)[k] = cs[n].net[k]
    OBVIOUS
  <1> HIDE DEF new, net
  <1>6. Retouched(cs, new, iface)
    BY <1>2, <1>3, <1>4, <1>5 DEF Retouched
  <1> QED
    BY <1>6 DEF new

\* A call has begun for an interface.
Begun(iface) ==
    /\ Retouched(configs, configs', iface)
    /\ pre' = [disk |-> disk, configs |-> configs]
    /\ target' = iface
    /\ pc = "idle" /\ pc' = "save" /\ i' = 1 /\ ret' = "running"
    /\ UNCHANGED <<files, faulted>>

\* Each of the four calls begins that way.
LEMMA CallBegins ==
    ASSUME Listed(configs),
           SetIfaceAddresses \/ SetIfaceDHCP \/ SetIfaceRoutes \/ SetIfaceDNS
    PROVE  \E iface \in Iface : Begun(iface)
  <1>1. \A n \in DOMAIN configs : \A k \in DOMAIN configs[n].net : configs[n].net[k] \in Stanza
    BY ConfigType, StanzasDef DEF Listed
  <1>2. ASSUME NEW iface \in Iface, NEW F \in [Stanza -> Stanza],
               configs' = Touched(configs, iface, F)
        PROVE  Retouched(configs, configs', iface)
    BY <1>2, TouchedFacts
  <1>3. CASE SetIfaceAddresses
    <2>1. PICK iface \in Iface, a \in Addresses \cup {Unset}, g \in Gateways \cup {Nil} :
              Set(iface, LAMBDA s : [s EXCEPT !.addresses = a, !.gateway = TextOf(g)])
      BY <1>3 DEF SetIfaceAddresses
    <2> DEFINE F == [s \in Stanza |-> [s EXCEPT !.addresses = a, !.gateway = TextOf(g)]]
    <2>2. TextOf(g) \in Gateways \cup {Unset}
      BY DEF TextOf
    <2>3. F \in [Stanza -> Stanza]
      BY <2>2 DEF Stanza
    <2>4. configs' = Touched(configs, iface, F)
      BY <2>1, <1>1 DEF Set, Changed, Touched
    <2>5. Retouched(configs, configs', iface)
      <3> HIDE DEF F
      <3> QED
        BY <2>3, <2>4, <1>2
    <2> QED
      BY <2>1, <2>5 DEF Set, Begun
  <1>4. CASE SetIfaceDHCP
    <2>1. PICK iface \in Iface, on \in BOOLEAN :
              Set(iface, LAMBDA s : [s EXCEPT !.dhcp = SetDHCP(@, on)])
      BY <1>4 DEF SetIfaceDHCP
    <2> DEFINE F == [s \in Stanza |-> [s EXCEPT !.dhcp = SetDHCP(@, on)]]
    <2>2. \A x : SetDHCP(x, on) \in {"on", "off", Unset}
      BY DEF SetDHCP
    <2>3. F \in [Stanza -> Stanza]
      BY <2>2 DEF Stanza
    <2>4. configs' = Touched(configs, iface, F)
      BY <2>1, <1>1 DEF Set, Changed, Touched
    <2>5. Retouched(configs, configs', iface)
      <3> HIDE DEF F
      <3> QED
        BY <2>3, <2>4, <1>2
    <2> QED
      BY <2>1, <2>5 DEF Set, Begun
  <1>5. CASE SetIfaceRoutes
    <2>1. PICK iface \in Iface, r \in Routes \cup {Unset} :
              Set(iface, LAMBDA s : [s EXCEPT !.routes = r])
      BY <1>5 DEF SetIfaceRoutes
    <2> DEFINE F == [s \in Stanza |-> [s EXCEPT !.routes = r]]
    <2>3. F \in [Stanza -> Stanza]
      BY DEF Stanza
    <2>4. configs' = Touched(configs, iface, F)
      BY <2>1, <1>1 DEF Set, Changed, Touched
    <2>5. Retouched(configs, configs', iface)
      <3> HIDE DEF F
      <3> QED
        BY <2>3, <2>4, <1>2
    <2> QED
      BY <2>1, <2>5 DEF Set, Begun
  <1>6. CASE SetIfaceDNS
    <2>1. PICK iface \in Iface, d \in Servers \cup {Unset} :
              Set(iface, LAMBDA s : [s EXCEPT !.nameservers = d])
      BY <1>6 DEF SetIfaceDNS
    <2> DEFINE F == [s \in Stanza |-> [s EXCEPT !.nameservers = d]]
    <2>3. F \in [Stanza -> Stanza]
      BY DEF Stanza
    <2>4. configs' = Touched(configs, iface, F)
      BY <2>1, <1>1 DEF Set, Changed, Touched
    <2>5. Retouched(configs, configs', iface)
      <3> HIDE DEF F
      <3> QED
        BY <2>3, <2>4, <1>2
    <2> QED
      BY <2>1, <2>5 DEF Set, Begun
  <1> QED
    BY <1>3, <1>4, <1>5, <1>6

-----------------------------------------------------------------------------
(* The steps *)

\* The newest backup comes first.
LEMMA Pushed ==
    ASSUME NEW s, Sequence(s), NEW text
    PROVE  /\ Sequence(<<text>> \o s)
           /\ <<text>> \o s # <<>>
           /\ (<<text>> \o s)[1] = text
  <1>1. PICK S : s \in Seq(S)
    BY DEF Sequence
  <1>2. s \in Seq(S \cup {text}) /\ <<text>> \in Seq(S \cup {text})
    BY <1>1
  <1>3. <<text>> \o s \in Seq(S \cup {text})
    BY <1>2
  <1>4. Len(<<text>> \o s) >= 1 /\ (<<text>> \o s)[1] = text
    BY <1>2
  <1> QED
    BY <1>3, <1>4 DEF Sequence

\* Pruning keeps the newest backup.
LEMMA PrunedFacts ==
    ASSUME NEW s, Sequence(s)
    PROVE  /\ Sequence(Pruned(s))
           /\ s # <<>> => Pruned(s) # <<>> /\ Pruned(s)[1] = s[1]
  <1>1. PICK S : s \in Seq(S)
    BY DEF Sequence
  <1>2. Pruned(s) \in Seq(S)
    BY <1>1, FilesAssumption DEF Pruned
  <1>3. ASSUME s # <<>> PROVE Pruned(s) # <<>> /\ Pruned(s)[1] = s[1]
    BY <1>1, <1>3, FilesAssumption DEF Pruned
  <1> QED
    BY <1>2, <1>3 DEF Sequence

\* Memory and list of a call, place by place.
LEMMA CallFacts ==
    ASSUME NetplanInv, pc \in Calling
    PROVE  /\ Listed(configs) /\ Listed(pre.configs)
           /\ DOMAIN configs = DOMAIN pre.configs /\ DOMAIN configs = 1 .. Len(configs)
           /\ Len(configs) \in Nat /\ i \in Nat \ {0}
           /\ \A n \in DOMAIN configs :
                 /\ configs[n] \in Config /\ configs[n].file \in Files
                 /\ configs[n].file = pre.configs[n].file
                 /\ configs[n].empty = pre.configs[n].empty
                 /\ AgreeOnOthers(pre.configs[n].net, configs[n].net)
           /\ \A n, m \in DOMAIN configs : configs[n].file = configs[m].file => n = m
  <1>1. Listed(configs) /\ Listed(pre.configs) /\ i \in Nat \ {0}
    BY DEF NetplanInv, Held, TypeInv, Calling
  <1>2. DOMAIN configs = 1 .. Len(configs) /\ Len(configs) \in Nat
    BY <1>1 DEF Listed
  <1>3. \A n \in DOMAIN configs : configs[n] \in Config /\ configs[n].file \in Files
    BY <1>1, ConfigType DEF Listed
  <1>4. \A n, m \in DOMAIN configs : configs[n].file = configs[m].file => n = m
    <2>1. \A n \in DOMAIN configs : Pos(configs[n].file) \in Nat
      BY <1>3, PosFacts
    <2>2. \A n, m \in DOMAIN configs : n < m \/ m < n \/ n = m
      BY <1>2
    <2> QED
      BY <1>1, <2>1, <2>2 DEF Listed
  <1> QED
    BY <1>1, <1>2, <1>3, <1>4 DEF NetplanInv, CarriedInv

\* A process has just read the directory.
Fresh ==
    /\ disk \in Directory /\ tmp \in Directory
    /\ OnFiles(bak) /\ \A f \in Files : Sequence(bak[f])
    /\ configs = readNetplanConfigDirectory(disk)
    /\ pc = "idle" /\ i = 1 /\ faulted = FALSE /\ ret = "none"
    /\ pre = [disk |-> disk, configs |-> configs]

\* What a process that has just read the directory knows satisfies the invariant.
LEMMA FreshInv == Fresh => NetplanInv
  <1> SUFFICES ASSUME Fresh PROVE NetplanInv
    OBVIOUS
  <1>1. /\ Held(configs, disk)
        /\ \A n \in DOMAIN configs : disk[configs[n].file] # Absent
        /\ \A n \in DOMAIN configs : configs[n].dirty => Shares(disk, configs[n].file)
    BY HeldWhenRead DEF Fresh
  <1>2. pre.disk = disk /\ pre.configs = configs /\ pc = "idle" /\ ret = "none"
    BY DEF Fresh
  <1>3. Held(pre.configs, pre.disk)
    BY <1>1, <1>2
  <1>4. DOMAIN configs \subseteq Nat \ {0}
    <2>1. configs \in Seq(Config)
      BY <1>1 DEF Held, Listed
    <2> QED
      BY <2>1
  <1>5. Progress(0)
    BY <1>2, <1>4 DEF Progress, Same
  <1>6. TypeInv
    <2>1. pre = [disk |-> pre.disk, configs |-> pre.configs] /\ pre.disk \in Directory
      BY <1>2 DEF Fresh
    <2>2. i \in Nat \ {0}
      BY DEF Fresh
    <2>3. faulted \in BOOLEAN
      BY Zenon DEF Fresh
    <2> QED
      BY <2>1, <2>2, <2>3 DEF TypeInv, Calling, Fresh
  <1>7. Removed = {}
    BY <1>2 DEF Removed
  <1>8. ChangedInv
    BY <1>2, <1>7 DEF ChangedInv
  <1>9. FaultlessInv
    BY <1>1, <1>2 DEF FaultlessInv, Calling
  <1>10. CarriedInv /\ PlaceInv
    BY <1>2 DEF CarriedInv, PlaceInv, Calling
  <1> QED
    BY <1>1, <1>2, <1>3, <1>5, <1>6, <1>8, <1>9, <1>10 DEF NetplanInv, Calling

\* A call or process that stops leaves things where they are.
LEMMA StopInv ==
    ASSUME NetplanInv, UNCHANGED <<files, target, pre>>, pc' \in {"idle", "down"}, i' \in Nat \ {0},
           pc' = "idle" => UNCHANGED configs /\ ret' = "error" /\ faulted' = TRUE /\ pc # "down",
           pc' = "down" => UNCHANGED faulted /\ (ret' = "error" => ret = "error")
    PROVE  NetplanInv'
  <1>0. UNCHANGED <<disk, tmp, bak>>
    BY DEF files
  <1>1. TypeInv'
    BY <1>0 DEF NetplanInv, TypeInv, OnFiles, Calling
  <1>2. Held(pre.configs, pre.disk)' /\ (pc' # "down" => Held(configs, disk)')
    BY <1>0 DEF NetplanInv
  <1>3. \E c \in Nat : Progress(c)
    BY DEF NetplanInv, TypeInv, AtRest, Calling
  <1>4. (\E c \in Nat : Progress(c))'
    BY <1>0, <1>3 DEF Progress, Same, Saved, AgreeOnOthers
  <1>5. ChangedInv'
    BY <1>0 DEF NetplanInv, ChangedInv, Removed, Targeted
  <1>6. FaultlessInv'
    BY <1>0 DEF NetplanInv, FaultlessInv, Calling
  <1>7. CarriedInv' /\ PlaceInv' /\ pc' \notin Calling
    BY DEF CarriedInv, PlaceInv, Calling
  <1> QED
    BY <1>1, <1>2, <1>4, <1>5, <1>6, <1>7 DEF NetplanInv

\* A Set* call begins.
LEMMA BeginInv ==
    ASSUME NetplanInv, NEW iface \in Iface, Begun(iface)
    PROVE  NetplanInv'
  <1>0. /\ UNCHANGED <<disk, tmp, bak, faulted>> /\ pc = "idle" /\ pc' = "save" /\ i' = 1
        /\ pre'.disk = disk /\ pre'.configs = configs /\ target' = iface
        /\ pre' = [disk |-> disk, configs |-> configs] /\ ret' = "running"
    BY DEF Begun, files
  <1>1. Held(configs, disk)
    BY <1>0 DEF NetplanInv
  <1>2. /\ Listed(configs) /\ DOMAIN configs = 1 .. Len(configs) /\ Len(configs) \in Nat
    BY <1>1 DEF Held, Listed
  <1>3. /\ configs' \in Seq(Config) /\ DOMAIN configs' = DOMAIN configs
        /\ \A n \in DOMAIN configs :
              /\ configs'[n].file = configs[n].file /\ configs'[n].empty = configs[n].empty
              /\ DOMAIN configs'[n].net = DOMAIN configs[n].net
              /\ \A k \in DOMAIN configs[n].net :
                     NameOf[k] # iface => configs'[n].net[k] = configs[n].net[k]
              /\ (\E k \in DOMAIN configs[n].net : NameOf[k] = iface) => configs'[n].dirty
              /\ ~(\E k \in DOMAIN configs[n].net : NameOf[k] = iface) => configs'[n] = configs[n]
    BY DEF Begun, Retouched
  <1>5. Listed(configs')
    BY <1>2, <1>3 DEF Listed
  <1>6. Held(configs', disk')
    <2>1. \A n \in DOMAIN configs :
              ~configs'[n].dirty => /\ disk[configs[n].file] # Absent
                                    /\ disk[configs[n].file].net = configs'[n].net
      BY <1>1, <1>3 DEF Held
    <2>2. \A n \in DOMAIN configs :
              disk[configs[n].file] # Absent =>
                  DOMAIN configs[n].net \subseteq DOMAIN disk[configs[n].file].net
      BY <1>1 DEF Held
    <2>3. \A f \in Files : disk[f] # Absent => \E n \in DOMAIN configs : configs[n].file = f
      BY <1>1 DEF Held
    <2>4. \A f \in Files : disk[f] # Absent =>
              \A k \in DOMAIN disk[f].net : \E n \in DOMAIN configs :
                  k \in DOMAIN configs[n].net /\ Pos(configs[n].file) <= Pos(f)
      BY <1>1 DEF Held
    <2>5. \A f \in Files : disk[f] # Absent =>
              \A k \in DOMAIN disk[f].net : \E n \in DOMAIN configs' :
                  k \in DOMAIN configs'[n].net /\ Pos(configs'[n].file) <= Pos(f)
      BY <2>4, <1>3
    <2>6. \A f \in Files : disk[f] # Absent => \E n \in DOMAIN configs' : configs'[n].file = f
      BY <2>3, <1>3
    <2> QED
      BY <2>1, <2>2, <2>5, <2>6, <1>0, <1>3, <1>5 DEF Held
  <1>7. Held(pre.configs, pre.disk)'
    BY <1>0, <1>1
  <1>8. Progress(1)'
    BY <1>0, <1>2 DEF Progress, Same
  <1>9. TypeInv'
    BY <1>0 DEF NetplanInv, TypeInv, OnFiles, Calling
  <1>10. CarriedInv'
    <2>1. \A n \in DOMAIN configs :
              configs'[n].dirty <=>
                  configs[n].dirty \/ \E k \in DOMAIN configs[n].net : NameOf[k] = iface
      BY <1>3
    <2>2. \A n \in DOMAIN configs :
              /\ DOMAIN configs'[n].net = DOMAIN configs[n].net
              /\ \A k \in DOMAIN configs[n].net :
                     NameOf[k] # target' => configs'[n].net[k] = configs[n].net[k]
      BY <1>0, <1>3
    <2>3. \A n \in DOMAIN configs : ~(n < 1)
      BY <1>2
    <2> QED
      BY <2>1, <2>2, <2>3, <1>0, <1>3 DEF CarriedInv, Targeted, AgreeOnOthers
  <1>11. PlaceInv'
    BY <1>0, <1>3 DEF PlaceInv, Same
  <1>12. ChangedInv'
    BY <1>0 DEF ChangedInv, Removed
  <1>13. FaultlessInv'
    <2>1. ~faulted => \A n \in DOMAIN configs :
              disk[configs[n].file] # Absent /\ (configs[n].dirty => Shares(disk, configs[n].file))
      BY <1>0 DEF NetplanInv, FaultlessInv
    <2> QED
      BY <2>1, <1>0, <1>3 DEF FaultlessInv
  <1> QED
    BY <1>0, <1>6, <1>7, <1>8, <1>9, <1>10, <1>11, <1>12, <1>13 DEF NetplanInv, AtRest

\* What is on disk of the configurations a call has passed, and of those it has not.
Passed(c) == \A n \in DOMAIN pre.configs : n < c => Saved(pre.configs[n])
Ahead(c) == \A n \in DOMAIN pre.configs : n > c => Same(pre.configs[n])

\* A configuration that is not marked is not rewritten.
LEMMA SkipInv ==
    ASSUME NetplanInv, SkipClean
    PROVE  NetplanInv'
  <1>0. /\ UNCHANGED <<disk, tmp, bak, configs, pc, ret, faulted, target, pre>> /\ i' = i + 1
        /\ pc = "save" /\ i <= Len(configs) /\ ~configs[i].dirty
    BY DEF SkipClean, Unchanged, files, NeedsSave, config
  <1>1. pc \in Calling
    BY <1>0 DEF Calling
  <1>2. i \in DOMAIN configs /\ DOMAIN configs = DOMAIN pre.configs
        /\ DOMAIN configs = 1 .. Len(configs) /\ Len(configs) \in Nat /\ i \in Nat \ {0}
    BY <1>0, <1>1, CallFacts
  <1>3. Saved(pre.configs[i])
    <2>1. /\ configs[i].file = pre.configs[i].file
          /\ AgreeOnOthers(pre.configs[i].net, configs[i].net)
      BY <1>1, <1>2, CallFacts
    <2>2. disk[configs[i].file] # Absent /\ disk[configs[i].file].net = configs[i].net
      BY <1>0, <1>2 DEF NetplanInv, Held
    <2> QED
      BY <2>1, <2>2 DEF Saved
  <1>4. Progress(i)
    BY <1>1 DEF NetplanInv
  <1>5. Passed(i + 1) /\ Ahead(i + 1) /\ (i + 1 \in DOMAIN pre.configs => Same(pre.configs[i + 1]))
    BY <1>2, <1>3, <1>4 DEF Progress, Passed, Ahead
  <1>6. Progress(i)'
    BY <1>0, <1>5 DEF Progress, Passed, Ahead, Saved, Same, AgreeOnOthers
  <1>7. PlaceInv'
    <2>1. i + 1 \in DOMAIN configs => Same(configs[i + 1])
      BY <1>1, <1>2, <1>5, CallFacts DEF Same
    <2> QED
      BY <2>1, <1>0 DEF PlaceInv, Same
  <1>8. CarriedInv'
    BY <1>0, <1>1, <1>2 DEF NetplanInv, CarriedInv, AgreeOnOthers, Targeted
  <1>9. TypeInv' /\ ChangedInv'
    BY <1>0, <1>2 DEF NetplanInv, TypeInv, ChangedInv, OnFiles, Removed, Targeted
  <1>10. FaultlessInv'
    BY <1>0, <1>2 DEF NetplanInv, FaultlessInv, Calling
  <1>11. Held(configs, disk)' /\ Held(pre.configs, pre.disk)'
    BY <1>0 DEF NetplanInv
  <1> QED
    BY <1>0, <1>6, <1>7, <1>8, <1>9, <1>10, <1>11 DEF NetplanInv, AtRest

\* The new text is beside the file, or there is to be none.
LEMMA WriteInv ==
    ASSUME NetplanInv, WriteConfig, ~Fault
    PROVE  NetplanInv'
  <1>0. /\ UNCHANGED <<disk, bak, configs, i, ret, faulted, target, pre>>
        /\ pc = "save" /\ pc' = "backup" /\ i <= Len(configs) /\ configs[i].dirty
        /\ IF configs[i].empty THEN UNCHANGED tmp
           ELSE tmp' = [tmp EXCEPT ![configs[i].file] = Text1(configs[i])]
    BY DEF WriteConfig, WriteTmp, Go, Unchanged, files, NeedsSave, config, Text1
  <1>1. pc \in Calling
    BY <1>0 DEF Calling
  <1>2. i \in DOMAIN configs /\ configs[i].file \in Files /\ configs[i] \in Config
    BY <1>0, <1>1, CallFacts
  <1>3. tmp' \in Directory /\ (~configs[i].empty => tmp'[configs[i].file] = Text1(configs[i]))
    <2>1. Text1(configs[i]) \in Text
      BY <1>2 DEF Text1, Config, Text
    <2>2. tmp \in Directory
      BY DEF NetplanInv, TypeInv
    <2> QED
      BY <2>1, <2>2, <1>0, <1>2 DEF Directory
  <1>4. Progress(i)'
    BY <1>0, <1>1 DEF NetplanInv, Progress, Saved, Same, AgreeOnOthers
  <1>5. PlaceInv'
    BY <1>0, <1>2, <1>3 DEF NetplanInv, PlaceInv, Same, Text1
  <1>6. CarriedInv'
    BY <1>0, <1>1 DEF NetplanInv, CarriedInv, AgreeOnOthers, Targeted, Calling
  <1>7. TypeInv' /\ ChangedInv'
    BY <1>0, <1>2, <1>3
    DEF NetplanInv, TypeInv, ChangedInv, OnFiles, Removed, Targeted, Calling
  <1>8. FaultlessInv'
    BY <1>0, <1>2 DEF NetplanInv, FaultlessInv, Calling
  <1>9. Held(configs, disk)' /\ Held(pre.configs, pre.disk)'
    BY <1>0 DEF NetplanInv
  <1> QED
    BY <1>0, <1>4, <1>5, <1>6, <1>7, <1>8, <1>9 DEF NetplanInv, AtRest, Calling

\* The file is renamed to its backup.
LEMMA BackupInv ==
    ASSUME NetplanInv, Backup, ~Fault
    PROVE  NetplanInv'
  <1> DEFINE f == configs[i].file
  <1>0. /\ UNCHANGED <<tmp, configs, i, ret, faulted, target, pre>>
        /\ pc = "backup" /\ pc' = IF configs[i].empty THEN "prune" ELSE "install"
        /\ disk' = [disk EXCEPT ![f] = Absent] /\ bak' = [bak EXCEPT ![f] = <<disk[f]>> \o @]
    BY DEF Backup, MoveToBackup, Go, Unchanged, files, config
  <1>1. pc \in Calling /\ pc' \in Calling
    BY <1>0 DEF Calling
  <1>2. i \in DOMAIN configs /\ configs[i].dirty /\ i \in Nat \ {0}
        /\ DOMAIN configs \subseteq Nat /\ f \in Files
    BY <1>0, <1>1, CallFacts DEF NetplanInv, TypeInv
  <1>3. /\ disk' \in Directory /\ disk'[f] = Absent
        /\ \A g \in Files \ {f} : disk'[g] = disk[g]
    BY <1>0, <1>2 DEF NetplanInv, TypeInv, Directory
  <1>4. \A n \in DOMAIN configs : configs[n].file \in Files /\ (n # i => configs[n].file # f)
    BY <1>1, <1>2, CallFacts
  <1>5. /\ OnFiles(bak)' /\ \A g \in Files : Sequence(bak'[g])
        /\ bak'[f] # <<>> /\ bak'[f][1] = disk[f]
        /\ \A g \in Files \ {f} : bak'[g] = bak[g]
    <2>1. OnFiles(bak) /\ \A g \in Files : Sequence(bak[g])
      BY DEF NetplanInv, TypeInv
    <2>2. /\ OnFiles(bak)' /\ bak'[f] = <<disk[f]>> \o bak[f]
          /\ \A g \in Files \ {f} : bak'[g] = bak[g]
      BY <2>1, <1>0, <1>2 DEF OnFiles
    <2>3. Sequence(bak'[f]) /\ bak'[f] # <<>> /\ bak'[f][1] = disk[f]
      BY <2>1, <2>2, <1>2, Pushed
    <2> QED
      BY <2>1, <2>2, <2>3
  <1>6. /\ DOMAIN pre.configs = DOMAIN configs
        /\ \A n \in DOMAIN configs : pre.configs[n].file = configs[n].file
    BY <1>1, CallFacts
  <1>7. Progress(i)'
    <2>1. Progress(i)
      BY <1>1 DEF NetplanInv
    <2>2. ASSUME NEW n \in DOMAIN pre.configs, n # i
          PROVE  disk'[pre.configs[n].file] = disk[pre.configs[n].file]
      BY <2>2, <1>3, <1>4, <1>6
    <2>3. ASSUME NEW n \in DOMAIN pre.configs, n < i
          PROVE  Saved(pre.configs[n])'
      <3>1. Saved(pre.configs[n])
        BY <2>1, <2>3 DEF Progress
      <3>2. n # i
        BY <2>3, <1>2
      <3>3. disk'[pre.configs[n].file] = disk[pre.configs[n].file]
        BY <2>2, <3>2
      <3>4. UNCHANGED <<pre, target>>
        BY <1>0
      <3> QED
        BY <3>1, <3>3, <3>4 DEF Saved, AgreeOnOthers
    <2>4. \A n \in DOMAIN pre.configs : n > i => Same(pre.configs[n])'
      BY <2>1, <2>2, <1>0, <1>2, <1>6 DEF Progress, Same
    <2>5. disk'[pre.configs[i].file] = Absent
      BY <1>2, <1>3, <1>6
    <2> QED
      BY <2>3, <2>4, <2>5, <1>0 DEF Progress, Saved, Same, AgreeOnOthers
  <1>8. PlaceInv'
    BY <1>0, <1>3 DEF NetplanInv, PlaceInv, Text1
  <1>9. CarriedInv'
    <2>1. \A n \in DOMAIN configs : n < i /\ configs[n].dirty =>
              configs[n].empty /\ disk'[configs[n].file] = Absent
      BY <1>1, <1>2, <1>3, <1>4 DEF NetplanInv, CarriedInv
    <2> QED
      BY <2>1, <1>0, <1>1 DEF NetplanInv, CarriedInv, AgreeOnOthers, Targeted
  <1>10. TypeInv'
    BY <1>0, <1>2, <1>3, <1>5 DEF NetplanInv, TypeInv, Calling
  <1>11. ChangedInv'
    <2>1. /\ pre.configs[i].file = f /\ i \in DOMAIN pre.configs
          /\ pre.configs[i].dirty \/ Targeted(pre.configs[i])
      <3>1. configs[i].dirty <=> pre.configs[i].dirty \/ Targeted(pre.configs[i])
        BY <1>1, <1>2 DEF NetplanInv, CarriedInv
      <3> QED
        BY <3>1, <1>2, <1>6
    <2>2. \A g \in Files : disk'[g] # pre.disk[g] =>
              \E n \in DOMAIN pre.configs :
                  /\ pre.configs[n].file = g
                  /\ pre.configs[n].dirty \/ Targeted(pre.configs[n])
      BY <2>1, <1>3 DEF NetplanInv, ChangedInv
    <2>3. disk[f] = pre.disk[f]
      BY <1>0, <1>2 DEF NetplanInv, PlaceInv, Same
    <2>4. \A g \in Files : pre.disk[g] # Absent /\ disk'[g] = Absent =>
              bak'[g] # <<>> /\ bak'[g][1] = pre.disk[g]
      BY <2>3, <1>3, <1>5 DEF NetplanInv, ChangedInv, Removed
    <2> QED
      BY <2>2, <2>4, <1>0 DEF ChangedInv, Removed, Targeted
  <1>12. FaultlessInv'
    <2>1. \A n \in DOMAIN configs : n > i => disk'[configs[n].file] = disk[configs[n].file]
      BY <1>2, <1>3, <1>4
    <2> QED
      BY <2>1, <1>0, <1>1 DEF NetplanInv, FaultlessInv, Calling
  <1>13. Held(configs, disk)' /\ Held(pre.configs, pre.disk)'
    <2>1. Held(configs, disk)
      BY <1>0 DEF NetplanInv
    <2>2. \A g \in Files : disk'[g] # Absent => g # f /\ disk'[g] = disk[g]
      BY <1>3
    <2>3. \A n \in DOMAIN configs : ~configs[n].dirty =>
              disk'[configs[n].file] # Absent /\ disk'[configs[n].file].net = configs[n].net
      BY <2>1, <1>2, <1>3, <1>4 DEF Held
    <2>4. \A n \in DOMAIN configs : disk'[configs[n].file] # Absent =>
              DOMAIN configs[n].net \subseteq DOMAIN disk'[configs[n].file].net
      BY <2>1, <2>2, <1>4 DEF Held
    <2>5. \A g \in Files : disk'[g] # Absent =>
              /\ \E n \in DOMAIN configs : configs[n].file = g
              /\ \A k \in DOMAIN disk'[g].net : \E n \in DOMAIN configs :
                     k \in DOMAIN configs[n].net /\ Pos(configs[n].file) <= Pos(g)
      BY <2>1, <2>2 DEF Held
    <2>6. Held(configs, disk')
      BY <2>1, <2>3, <2>4, <2>5 DEF Held
    <2> QED
      BY <2>6, <1>0 DEF NetplanInv
  <1> QED
    BY <1>0, <1>1, <1>7, <1>8, <1>9, <1>10, <1>11, <1>12, <1>13 DEF NetplanInv, AtRest, Calling

\* The new text is renamed into place.
LEMMA InstallInv ==
    ASSUME NetplanInv, Install, ~Fault
    PROVE  NetplanInv'
  <1> DEFINE c == configs[i]
             f == c.file
  <1>0. /\ UNCHANGED <<bak, configs, i, ret, faulted, target, pre>>
        /\ pc = "install" /\ pc' = "prune" /\ tmp[f] # Absent
        /\ disk' = [disk EXCEPT ![f] = tmp[f]] /\ tmp' = [tmp EXCEPT ![f] = Absent]
    BY DEF Install, MoveInPlace, Go, Unchanged, files, config
  <1>1. pc \in Calling /\ pc' \in Calling
    BY <1>0 DEF Calling
  <1>2. /\ i \in DOMAIN configs /\ i \in Nat \ {0} /\ DOMAIN configs \subseteq Nat
        /\ c.dirty /\ c \in Config /\ f \in Files /\ ~c.empty /\ tmp[f] = Text1(c)
    BY <1>0, <1>1, CallFacts DEF NetplanInv, TypeInv, PlaceInv
  <1>3. /\ disk' \in Directory /\ disk'[f] = Text1(c) /\ disk'[f] # Absent
        /\ tmp' \in Directory /\ \A g \in Files \ {f} : disk'[g] = disk[g]
    <2>1. disk \in Directory /\ tmp \in Directory
      BY DEF NetplanInv, TypeInv
    <2> QED
      BY <2>1, <1>0, <1>2 DEF Directory
  <1>4. \A n \in DOMAIN configs : configs[n].file \in Files /\ (n # i => configs[n].file # f)
    BY <1>1, <1>2, CallFacts
  <1>5. /\ DOMAIN pre.configs = DOMAIN configs
        /\ \A n \in DOMAIN configs : pre.configs[n].file = configs[n].file
        /\ AgreeOnOthers(pre.configs[i].net, c.net)
    BY <1>1, <1>2, CallFacts
  <1>6. disk'[f].net = c.net
    BY <1>3 DEF Text1
  <1>7. Progress(i)'
    <2>1. Progress(i)
      BY <1>1 DEF NetplanInv
    <2>2. ASSUME NEW n \in DOMAIN pre.configs, n # i
          PROVE  disk'[pre.configs[n].file] = disk[pre.configs[n].file]
      BY <2>2, <1>3, <1>4, <1>5
    <2>3. ASSUME NEW n \in DOMAIN pre.configs, n < i
          PROVE  Saved(pre.configs[n])'
      <3>1. Saved(pre.configs[n])
        BY <2>1, <2>3 DEF Progress
      <3>2. n # i
        BY <2>3, <1>2
      <3>3. disk'[pre.configs[n].file] = disk[pre.configs[n].file]
        BY <2>2, <3>2
      <3>4. UNCHANGED <<pre, target>>
        BY <1>0
      <3> QED
        BY <3>1, <3>3, <3>4 DEF Saved, AgreeOnOthers
    <2>4. \A n \in DOMAIN pre.configs : n > i => Same(pre.configs[n])'
      BY <2>1, <2>2, <1>0, <1>2, <1>5 DEF Progress, Same
    <2>5. Saved(pre.configs[i])'
      BY <1>0, <1>2, <1>3, <1>5, <1>6 DEF Saved, AgreeOnOthers
    <2> QED
      BY <2>3, <2>4, <2>5, <1>0 DEF Progress
  <1>8. PlaceInv'
    BY <1>0, <1>2, <1>3 DEF PlaceInv, Text1
  <1>9. CarriedInv'
    <2>1. \A n \in DOMAIN configs : n < i /\ configs[n].dirty =>
              configs[n].empty /\ disk'[configs[n].file] = Absent
      BY <1>1, <1>2, <1>3, <1>4 DEF NetplanInv, CarriedInv
    <2> QED
      BY <2>1, <1>0, <1>1 DEF NetplanInv, CarriedInv, AgreeOnOthers, Targeted
  <1>10. TypeInv'
    BY <1>0, <1>2, <1>3 DEF NetplanInv, TypeInv, Calling, OnFiles
  <1>11. ChangedInv'
    <2>1. /\ pre.configs[i].file = f /\ i \in DOMAIN pre.configs
          /\ pre.configs[i].dirty \/ Targeted(pre.configs[i])
      <3>1. configs[i].dirty <=> pre.configs[i].dirty \/ Targeted(pre.configs[i])
        BY <1>1, <1>2 DEF NetplanInv, CarriedInv
      <3> QED
        BY <3>1, <1>2, <1>5
    <2>2. \A g \in Files : disk'[g] # pre.disk[g] =>
              \E n \in DOMAIN pre.configs :
                  /\ pre.configs[n].file = g
                  /\ pre.configs[n].dirty \/ Targeted(pre.configs[n])
      BY <2>1, <1>3 DEF NetplanInv, ChangedInv
    <2>3. \A g \in Files : pre.disk[g] # Absent /\ disk'[g] = Absent =>
              bak[g] # <<>> /\ bak[g][1] = pre.disk[g]
      BY <1>3 DEF NetplanInv, ChangedInv, Removed
    <2> QED
      BY <2>2, <2>3, <1>0 DEF ChangedInv, Removed, Targeted
  <1>12. FaultlessInv'
    <2>1. \A n \in DOMAIN configs : n > i => disk'[configs[n].file] = disk[configs[n].file]
      BY <1>2, <1>3, <1>4
    <2> QED
      BY <2>1, <1>0, <1>1 DEF NetplanInv, FaultlessInv, Calling
  <1>13. Held(configs, disk)' /\ Held(pre.configs, pre.disk)'
    <2>1. Held(configs, disk)
      BY <1>0 DEF NetplanInv
    <2>2. \A n \in DOMAIN configs : ~configs[n].dirty =>
              disk'[configs[n].file] # Absent /\ disk'[configs[n].file].net = configs[n].net
      BY <2>1, <1>2, <1>3, <1>4 DEF Held
    <2>3. \A n \in DOMAIN configs : disk'[configs[n].file] # Absent =>
              DOMAIN configs[n].net \subseteq DOMAIN disk'[configs[n].file].net
      BY <2>1, <1>3, <1>4, <1>6 DEF Held
    <2>4. ASSUME NEW g \in Files, disk'[g] # Absent
          PROVE  /\ \E n \in DOMAIN configs : configs[n].file = g
                 /\ \A k \in DOMAIN disk'[g].net : \E n \in DOMAIN configs :
                        k \in DOMAIN configs[n].net /\ Pos(configs[n].file) <= Pos(g)
      <3>1. CASE g = f
        <4>1. Pos(f) <= Pos(f)
          BY <1>2, PosFacts
        <4> QED
          BY <3>1, <4>1, <1>2, <1>6
      <3>2. CASE g # f
        BY <2>1, <2>4, <3>2, <1>3 DEF Held
      <3> QED
        BY <3>1, <3>2
    <2>5. Held(configs, disk')
      BY <2>1, <2>2, <2>3, <2>4 DEF Held
    <2> QED
      BY <2>5, <1>0 DEF NetplanInv
  <1> QED
    BY <1>0, <1>1, <1>7, <1>8, <1>9, <1>10, <1>11, <1>12, <1>13 DEF NetplanInv, AtRest, Calling

\* Old backups go and the configuration is clean, unless its file was removed.
LEMMA PruneInv ==
    ASSUME NetplanInv, PruneBackups
    PROVE  NetplanInv'
  <1> DEFINE c == configs[i]
             f == c.file
  <1>0. /\ UNCHANGED <<disk, tmp, ret, faulted, target, pre>>
        /\ pc = "prune" /\ pc' = "save" /\ i' = i + 1
        /\ bak' = [bak EXCEPT ![f] = Pruned(@)] \/ bak' = bak
        /\ configs' = [configs EXCEPT ![i].dirty = @ /\ c.empty]
    BY DEF PruneBackups, Prune, Unchanged, config
  <1>1. pc \in Calling /\ pc' \in Calling
    BY <1>0 DEF Calling
  <1>2. /\ i \in DOMAIN configs /\ i \in Nat \ {0} /\ DOMAIN configs = 1 .. Len(configs)
        /\ Len(configs) \in Nat /\ DOMAIN pre.configs = DOMAIN configs
        /\ c.dirty /\ c \in Config /\ f \in Files
        /\ IF c.empty THEN disk[f] = Absent ELSE disk[f] = Text1(c) /\ disk[f] # Absent
    BY <1>0, <1>1, CallFacts DEF NetplanInv, TypeInv, PlaceInv
  <1>3. /\ Listed(configs)
        /\ \A n \in DOMAIN configs :
              /\ configs[n] \in Config /\ configs[n].file = pre.configs[n].file
              /\ configs[n].empty = pre.configs[n].empty
              /\ AgreeOnOthers(pre.configs[n].net, configs[n].net)
        /\ \A n, m \in DOMAIN configs : configs[n].file = configs[m].file => n = m
    BY <1>1, CallFacts
  <1>4. /\ configs' \in Seq(Config) /\ DOMAIN configs' = DOMAIN configs
        /\ \A n \in DOMAIN configs :
              /\ configs'[n].file = configs[n].file /\ configs'[n].empty = configs[n].empty
              /\ configs'[n].net = configs[n].net
              /\ n # i => configs'[n].dirty = configs[n].dirty
        /\ configs'[i].dirty <=> c.empty
    <2> DEFINE new == [c EXCEPT !.dirty = @ /\ c.empty]
    <2>1. new \in Config /\ new.file = f /\ new.empty = c.empty /\ new.net = c.net
          /\ (new.dirty <=> c.empty)
      BY <1>2 DEF Config
    <2>2. configs' = [configs EXCEPT ![i] = new]
      BY <1>0
    <2> HIDE DEF new
    <2>3. configs \in Seq(Config)
      BY <1>3 DEF Listed
    <2>4. configs' \in Seq(Config) /\ DOMAIN configs' = DOMAIN configs /\ configs'[i] = new
          /\ \A n \in DOMAIN configs : n # i => configs'[n] = configs[n]
      BY <2>1, <2>2, <2>3, <1>2
    <2> QED
      BY <2>1, <2>4
  <1>5. Progress(i)
    BY <1>1 DEF NetplanInv
  <1>6. Saved(pre.configs[i])
    BY <1>2, <1>3 DEF Saved, Text1
  <1>7. Passed(i + 1) /\ Ahead(i + 1) /\ (i + 1 \in DOMAIN pre.configs => Same(pre.configs[i + 1]))
    BY <1>2, <1>5, <1>6 DEF Progress, Passed, Ahead
  <1>8. Progress(i)'
    BY <1>0, <1>7 DEF Progress, Passed, Ahead, Saved, Same, AgreeOnOthers
  <1>9. PlaceInv'
    <2>1. i + 1 \in DOMAIN configs => Same(configs[i + 1])
      BY <1>2, <1>3, <1>7 DEF Same
    <2> QED
      BY <2>1, <1>0, <1>4 DEF PlaceInv, Same
  <1>10. CarriedInv'
    <2>1. ASSUME NEW n \in DOMAIN configs, n >= i + 1
          PROVE  configs'[n].dirty <=> pre.configs[n].dirty \/ Targeted(pre.configs[n])
      <3>1. n # i /\ n >= i
        BY <2>1, <1>2
      <3>2. configs[n].dirty <=> pre.configs[n].dirty \/ Targeted(pre.configs[n])
        BY <3>1, <1>1 DEF NetplanInv, CarriedInv
      <3> QED
        BY <3>1, <3>2, <1>4
    <2>2. ASSUME NEW n \in DOMAIN configs, n < i + 1, configs'[n].dirty
          PROVE  configs[n].empty /\ disk[configs[n].file] = Absent
      <3>1. CASE n = i
        BY <2>2, <3>1, <1>2, <1>4
      <3>2. CASE n # i
        <4>1. n < i /\ configs[n].dirty
          BY <2>2, <3>2, <1>2, <1>4
        <4> QED
          BY <4>1, <1>1 DEF NetplanInv, CarriedInv
      <3> QED
        BY <3>1, <3>2
    <2>3. \A n \in DOMAIN configs :
              /\ configs'[n].file = pre.configs[n].file /\ configs'[n].empty = pre.configs[n].empty
              /\ DOMAIN configs'[n].net = DOMAIN pre.configs[n].net
              /\ \A k \in DOMAIN pre.configs[n].net :
                     NameOf[k] # target => configs'[n].net[k] = pre.configs[n].net[k]
      BY <1>3, <1>4 DEF AgreeOnOthers
    <2> QED
      BY <2>1, <2>2, <2>3, <1>0, <1>2, <1>4 DEF CarriedInv, AgreeOnOthers, Targeted
  <1>11. /\ OnFiles(bak)' /\ \A g \in Files : Sequence(bak'[g])
         /\ \A g \in Files : bak[g] # <<>> => bak'[g] # <<>> /\ bak'[g][1] = bak[g][1]
    <2>1. OnFiles(bak) /\ \A g \in Files : Sequence(bak[g])
      BY DEF NetplanInv, TypeInv
    <2>2. CASE bak' = bak
      BY <2>1, <2>2 DEF OnFiles
    <2>3. CASE bak' = [bak EXCEPT ![f] = Pruned(@)]
      <3>1. /\ OnFiles(bak)' /\ bak'[f] = Pruned(bak[f])
            /\ \A g \in Files \ {f} : bak'[g] = bak[g]
        BY <2>1, <2>3, <1>2 DEF OnFiles
      <3>2. /\ Sequence(bak'[f])
            /\ bak[f] # <<>> => bak'[f] # <<>> /\ bak'[f][1] = bak[f][1]
        BY <2>1, <3>1, <1>2, PrunedFacts
      <3> QED
        BY <2>1, <3>1, <3>2
    <2> QED
      BY <2>2, <2>3, <1>0
  <1>12. TypeInv'
    BY <1>0, <1>2, <1>11 DEF NetplanInv, TypeInv, Calling
  <1>13. ChangedInv'
    <2>1. Removed' = Removed /\ Removed \subseteq Files
      BY <1>0 DEF Removed
    <2>2. \A g \in Removed : bak'[g] # <<>> /\ bak'[g][1] = pre.disk[g]
      BY <2>1, <1>11 DEF NetplanInv, ChangedInv
    <2> QED
      BY <2>1, <2>2, <1>0 DEF NetplanInv, ChangedInv, Targeted
  <1>14. FaultlessInv'
    BY <1>0, <1>1, <1>2, <1>4 DEF NetplanInv, FaultlessInv, Calling
  <1>15. Held(configs, disk)' /\ Held(pre.configs, pre.disk)'
    <2>1. Held(configs, disk)
      BY <1>0 DEF NetplanInv
    <2>2. Listed(configs')
      BY <1>3, <1>4 DEF Listed
    <2>3. ASSUME NEW n \in DOMAIN configs, ~configs'[n].dirty
          PROVE  disk[configs[n].file] # Absent /\ disk[configs[n].file].net = configs[n].net
      <3>1. CASE n = i
        BY <2>3, <3>1, <1>2, <1>4 DEF Text1
      <3>2. CASE n # i
        BY <2>1, <2>3, <3>2, <1>4 DEF Held
      <3> QED
        BY <3>1, <3>2
    <2>4. Held(configs', disk)
      BY <2>1, <2>2, <2>3, <1>4 DEF Held
    <2> QED
      BY <2>4, <1>0 DEF NetplanInv
  <1> QED
    BY <1>0, <1>1, <1>8, <1>9, <1>10, <1>12, <1>13, <1>14, <1>15 DEF NetplanInv, AtRest, Calling

\* Every configuration is saved, and those whose file was removed are forgotten.
LEMMA CleanupInv ==
    ASSUME NetplanInv, Cleanup
    PROVE  NetplanInv'
  <1>0. /\ UNCHANGED <<disk, tmp, bak, faulted, target, pre>> /\ pc = "save" /\ pc' = "idle"
        /\ i > Len(configs) /\ configs' = Kept(configs) /\ i' = 1 /\ ret' = "ok"
    BY DEF Cleanup, Unchanged, files
  <1>1. pc \in Calling
    BY <1>0 DEF Calling
  <1>2. Held(configs, disk) /\ i \in Nat
    BY <1>0 DEF NetplanInv, TypeInv
  <1>3. \A n \in DOMAIN configs : n < i
    BY <1>0, <1>1, <1>2, CallFacts
  <1>4. \A n \in DOMAIN configs : configs[n].dirty =>
            configs[n].empty /\ disk[configs[n].file] = Absent
    BY <1>1, <1>3 DEF NetplanInv, CarriedInv
  <1>5. Held(configs', disk) /\ \A n \in DOMAIN configs' : ~configs'[n].dirty
    BY <1>0, <1>2, <1>4, KeptHeld
  <1>6. Progress(i)
    BY <1>1 DEF NetplanInv
  <1>7. (\E c \in Nat : Progress(c))'
    BY <1>0, <1>2, <1>6 DEF Progress, Saved, Same, AgreeOnOthers
  <1>8. TypeInv' /\ ChangedInv'
    BY <1>0 DEF NetplanInv, TypeInv, ChangedInv, OnFiles, Removed, Targeted, Calling
  <1>9. CarriedInv' /\ PlaceInv'
    BY <1>0 DEF CarriedInv, PlaceInv, Calling
  <1>10. \A n \in DOMAIN configs' : disk[configs'[n].file] # Absent
    BY <1>5 DEF Held
  <1>11. FaultlessInv'
    BY <1>0, <1>5, <1>10 DEF NetplanInv, FaultlessInv, Calling
  <1>12. Held(configs, disk)' /\ Held(pre.configs, pre.disk)'
    BY <1>0, <1>5 DEF NetplanInv
  <1> QED
    BY <1>0, <1>5, <1>7, <1>8, <1>9, <1>11, <1>12 DEF NetplanInv, Calling

\* A file that is not there was taken away before a fault.
LEMMA MissingInv ==
    ASSUME NetplanInv, BackupMissing
    PROVE  NetplanInv'
  <1>0. /\ UNCHANGED <<files, configs, i, faulted, target, pre>> /\ pc = "backup" /\ pc' = "idle"
        /\ ret' = "error" /\ disk[configs[i].file] = Absent
    BY DEF BackupMissing, Unchanged, config
  <1>1. i \in DOMAIN configs /\ i \in Nat \ {0} /\ faulted \in BOOLEAN
    BY <1>0 DEF NetplanInv, TypeInv
  <1>2. faulted
    BY <1>0, <1>1 DEF NetplanInv, FaultlessInv, Calling
  <1>3. faulted' = TRUE
    BY <1>0, <1>1, <1>2, Zenon
  <1> QED
    BY <1>0, <1>1, <1>3, StopInv

\* A directory is read before the first call.
LEMMA InitFresh == Init => Fresh
  <1> SUFFICES ASSUME Init PROVE Fresh
    OBVIOUS
  <1>1. disk \in Directory
    BY NetplanAssumption DEF Init, NetplanAssumption, Directory
  <1>2. tmp \in Directory /\ OnFiles(bak)
    BY DEF Init, Directory, OnFiles
  <1>3. \A f \in Files : Sequence(bak[f])
    <2>1. <<>> \in Seq({})
      OBVIOUS
    <2> QED
      BY <2>1 DEF Init, Sequence
  <1> QED
    BY <1>1, <1>2, <1>3 DEF Init, Fresh

\* So does a new process.
LEMMA RestartFresh == NetplanInv /\ newNetplan => Fresh'
  <1> SUFFICES ASSUME NetplanInv, newNetplan PROVE Fresh'
    OBVIOUS
  <1>1. UNCHANGED <<disk, tmp, bak>>
    BY DEF newNetplan, files
  <1>2. /\ disk \in Directory /\ tmp \in Directory
        /\ OnFiles(bak) /\ \A f \in Files : Sequence(bak[f])
    BY DEF NetplanInv, TypeInv
  <1> QED
    BY <1>1, <1>2 DEF newNetplan, Fresh, OnFiles

\* Every step keeps the invariant.
LEMMA NetplanStep == NetplanInv /\ [Next]_vars /\ ~newNetplan => NetplanInv'
  <1> SUFFICES ASSUME NetplanInv, [Next]_vars, ~newNetplan PROVE NetplanInv'
    OBVIOUS
  <1>1. CASE SetIfaceAddresses \/ SetIfaceDHCP \/ SetIfaceRoutes \/ SetIfaceDNS
    <2>1. pc = "idle"
      BY <1>1 DEF SetIfaceAddresses, SetIfaceDHCP, SetIfaceRoutes, SetIfaceDNS, Set
    <2>2. Listed(configs)
      BY <2>1 DEF NetplanInv, Held
    <2> QED
      BY <1>1, <2>2, CallBegins, BeginInv
  <1>2. CASE SkipClean
    BY <1>2, SkipInv
  <1>3. CASE Fault /\ pc \in Calling
    <2>1. i \in Nat \ {0} /\ pc # "down"
      BY <1>3 DEF NetplanInv, TypeInv, Calling
    <2> QED
      BY <1>3, <2>1, StopInv DEF Fault, Unchanged
  <1>4. CASE WriteConfig /\ ~Fault
    BY <1>4, WriteInv
  <1>5. CASE Backup /\ ~Fault
    BY <1>5, BackupInv
  <1>6. CASE BackupMissing
    BY <1>6, MissingInv
  <1>7. CASE Install /\ ~Fault
    BY <1>7, InstallInv
  <1>8. CASE PruneBackups
    BY <1>8, PruneInv
  <1>9. CASE Cleanup
    BY <1>9, CleanupInv
  <1>10. CASE Exit
    <2>1. /\ UNCHANGED <<files, target, pre, faulted>> /\ pc' = "down" /\ i' \in Nat \ {0}
          /\ ret' = "error" => ret = "error"
      BY <1>10 DEF Exit, Unchanged
    <2> QED
      BY <2>1, StopInv
  <1>11. CASE UNCHANGED vars
    <2>1. UNCHANGED <<disk, tmp, bak, configs, pc, i, target, ret, pre, faulted>>
      BY <1>11 DEF vars
    <2>2. TypeInv' /\ CarriedInv' /\ PlaceInv' /\ ChangedInv' /\ FaultlessInv'
      BY <2>1 DEF NetplanInv, TypeInv, CarriedInv, PlaceInv, ChangedInv, FaultlessInv, OnFiles,
                  AgreeOnOthers, Targeted, Same, Removed
    <2>3. /\ pc' \in Calling => Progress(i)'
          /\ AtRest' => (\E c \in Nat : Progress(c))'
      BY <2>1 DEF NetplanInv, Progress, Saved, Same, AgreeOnOthers, AtRest
    <2> QED
      BY <2>1, <2>2, <2>3 DEF NetplanInv
  <1> QED
    BY <1>1, <1>2, <1>3, <1>4, <1>5, <1>6, <1>7, <1>8, <1>9, <1>10, <1>11
    DEF Next, WriteConfig, Backup, Install, Calling

\* The invariant holds throughout, restarts included.
LEMMA NetplanInvariant == Spec => []NetplanInv
  <1>1. Init => NetplanInv
    BY InitFresh, FreshInv
  <1>2. NetplanInv /\ newNetplan => NetplanInv'
    BY RestartFresh, FreshInv, PTL
  <1>3. NetplanInv /\ [Next]_vars => NetplanInv'
    BY <1>2, NetplanStep
  <1> QED
    BY <1>1, <1>3, PTL DEF Spec

-----------------------------------------------------------------------------
(* The theorems *)

\* netplan.Save, newNetplan: once a Set* call returns without an error, a new process reads
\* back what this one holds.
THEOREM WhatIsSavedIsRead == Spec => []SavedIsRead
  <1>1. NetplanInv => SavedIsRead
    <2> SUFFICES ASSUME NetplanInv, pc = "idle", ret = "ok" PROVE Effective(disk) = Merged(configs)
      BY DEF SavedIsRead
    <2>1. Held(configs, disk) /\ \A n \in DOMAIN configs : ~configs[n].dirty
      BY DEF NetplanInv
    <2>2. disk \in Directory
      BY DEF NetplanInv, TypeInv
    <2> QED
      BY <2>1, <2>2, CleanIsRead
  <1> QED
    BY <1>1, NetplanInvariant, PTL

\* netplan.Save: however a call ends, a file it took away is in its newest backup, and at
\* most one of them was to stay.
THEOREM OneNetplanFileAway == Spec => []OneFileAtRisk
  <1>1. NetplanInv => OneFileAtRisk
    <2> SUFFICES ASSUME NetplanInv PROVE OneFileAtRisk
      OBVIOUS
    <2>1. PICK c \in Nat : Progress(c)
      BY DEF NetplanInv, TypeInv, AtRest, Calling
    <2>2. \A n \in DOMAIN pre.configs :
              pre.configs[n].file \in Removed /\ ~pre.configs[n].empty => n = c
      BY <2>1, OneAway DEF NetplanInv
    <2>3. \A f \in Removed : bak[f] # <<>> /\ bak[f][1] = pre.disk[f]
      BY DEF NetplanInv, ChangedInv
    <2> QED
      BY <2>2, <2>3 DEF OneFileAtRisk
  <1> QED
    BY <1>1, NetplanInvariant, PTL

\* Save and the reading of its outcome: the stanzas of other interfaces read as they did,
\* however the call ends.
THEOREM OtherStanzasKept == Spec => []OthersKept
  <1>1. NetplanInv => OthersKept
    <2> SUFFICES ASSUME NetplanInv, AtRest, NEW k \in DOMAIN Effective(pre.disk),
                        NameOf[k] # target,
                        Effective(pre.disk)[k] = Merged(pre.configs)[k],
                        \A n \in DOMAIN pre.configs :
                            k \in DOMAIN pre.configs[n].net => pre.configs[n].file \notin Removed
                 PROVE  k \in DOMAIN Effective(disk) /\ Effective(disk)[k] = Effective(pre.disk)[k]
      BY DEF OthersKept
    <2>1. PICK c \in Nat : Progress(c)
      BY DEF NetplanInv
    <2>2. /\ disk \in Directory /\ pre.disk \in Directory /\ Held(pre.configs, pre.disk)
          /\ OnlyListed
      BY DEF NetplanInv, TypeInv, ChangedInv, OnlyListed
    <2> QED
      BY <2>1, <2>2, OthersRead
  <1> QED
    BY <1>1, NetplanInvariant, PTL

\* Save: without a fault, a file a call is not about that shares no key is left alone.
THEOREM OtherFilesKept == Spec => []UntouchedFilesKept
  <1>1. NetplanInv => UntouchedFilesKept
    <2> SUFFICES ASSUME NetplanInv, ~faulted, NEW f \in Files, pre.disk[f] # Absent,
                        \A k \in DOMAIN pre.disk[f].net :
                            /\ NameOf[k] # target
                            /\ \A g \in Files \ {f} :
                                  pre.disk[g] # Absent => k \notin DOMAIN pre.disk[g].net,
                        disk[f] # pre.disk[f]
                 PROVE  FALSE
      BY DEF UntouchedFilesKept
    <2>1. PICK n \in DOMAIN pre.configs :
              pre.configs[n].file = f /\ (pre.configs[n].dirty \/ Targeted(pre.configs[n]))
      BY DEF NetplanInv, ChangedInv
    <2>2. ~Targeted(pre.configs[n])
      <3>1. DOMAIN pre.configs[n].net \subseteq DOMAIN pre.disk[f].net
        BY <2>1 DEF NetplanInv, Held
      <3> QED
        BY <3>1 DEF Targeted
    <2>3. Shares(pre.disk, f)
      BY <2>1, <2>2 DEF NetplanInv, FaultlessInv
    <2> QED
      BY <2>3 DEF Shares
  <1> QED
    BY <1>1, NetplanInvariant, PTL

\* Save: a call fails only after a system call has failed.
THEOREM ErrorsHaveFaults == Spec => []NoSpuriousError
  <1>1. NetplanInv => NoSpuriousError
    BY DEF NetplanInv, FaultlessInv, NoSpuriousError
  <1> QED
    BY <1>1, NetplanInvariant, PTL
=============================================================================
