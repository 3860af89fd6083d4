--------------------------- MODULE IfUpDownProofs ---------------------------
(****************************************************************************)
(* Proofs about IfUpDown.  What a call does to its files follows from where *)
(* each of them is at every step of Save; what it has written follows from  *)
(* the copy of a text, line by line; and what a new process makes of that,  *)
(* from memory having, between calls, every file that mentions an           *)
(* interface.                                                               *)
(****************************************************************************)
EXTENDS IfUpDown, TLAPS, WellFoundedInduction

-----------------------------------------------------------------------------
(* The invariant *)

Memory == [Iface -> Interface \cup {Nil}]
Directory == [Files -> Text \cup {Absent}]

Saving == pc \in {"write", "backup", "install", "prune"}

FilesInv == disk \in Directory /\ tmp \in Directory /\ bak \in [Files -> Seq(Text)]

TypeInv ==
    /\ FilesInv /\ pre \in Directory
    /\ ifs \in Memory
    /\ pc \in {"idle", "down"} \/ Saving
    /\ i \in Nat \ {0}
    /\ req.iface \in Iface

\* The files of an interface: the main one first, and each of them once.
Listed(list) ==
    /\ list # <<>> /\ list[1] = Base
    /\ \A m, k \in DOMAIN list : list[m] = list[k] => m = k

\* The flags of an interface know of the method its last stanza has.
Agrees(r) ==
    r.mode # Nil => (r.mode.method = "dhcp" => r.dhcp) /\ (r.mode.method = "ppp" => r.ppp)
AllAgree == \A n \in Iface : ifs[n] # Nil => Agrees(ifs[n])

ControlInv ==
    /\ \A n \in Iface : ifs[n] # Nil => Listed(ifs[n].files)
    /\ AllAgree
    /\ Saving => ifs[req.iface] # Nil
    /\ pc \in {"backup", "install", "prune"} => i <= Len(fileList)

\* The files of the interface that a call is done with.
Passed(f) == \E m \in 1 .. i - 1 : m <= Len(fileList) /\ fileList[m] = f
InHand(f) == i <= Len(fileList) /\ f = file
Done(f) == Passed(f) \/ (pc = "prune" /\ InHand(f))

Backed(f) == bak[f] # <<>> /\ bak[f][1] = pre[f]

\* What a call has done to the directory it began with.
PlaceInv ==
    Saving => \A f \in Files :
        IF Done(f) THEN disk[f] # Absent /\ (pre[f] # Absent => Backed(f))
        ELSE IF pc = "install" /\ InHand(f)
        THEN disk[f] = Absent /\ (pre[f] # Absent => Backed(f))
        ELSE disk[f] = pre[f]

\* The files a process reads.
Reached(d) ==
    {Base} \cup {d[Base][k].file : k \in {m \in DOMAIN d[Base] : d[Base][m].kind = "source"}}

Mentions(text, n) == \E k \in DOMAIN text : IsOwn(text[k], n)

\* What memory has of an interface are files of d, all that mention it among them.
HeldOf(r, d, n) ==
    /\ r # Nil => \A m \in DOMAIN r.files : d[r.files[m]] # Absent
    /\ \A f \in Reached(d) : Mentions(d[f], n) => r # Nil /\ f \in ToSet(r.files)

Held(d) == Readable(d) /\ \A n \in Iface : HeldOf(ifs[n], d, n)

\* Every line is the stanza or from the old text.
From(text, old, s) ==
    \A k \in DOMAIN text : text[k] = s \/ \E m \in DOMAIN old : text[k] = old[m]

OwnIs(text, n, s) == \A k \in DOMAIN text : IsOwn(text[k], n) => text[k] = s
Once(text, n) == \E k \in DOMAIN text : \A m \in DOMAIN text : IsOwn(text[m], n) <=> m = k

\* What is written of an interface for an old text, in the first of its files or another.
Saved(text, old, n, s, first) ==
    /\ From(text, old, s) /\ OwnIs(text, n, s)
    /\ first => Once(text, n)
    /\ Together(old, n) => Others(text, n) = Others(old, n)

SavedAs(text, f) == Saved(text, pre[f], req.iface, Write(req.iface), f = Base)

\* No interface is saved with a lease, but for what SetIfaceDHCP was asked for, or left.
LeaseAsked ==
    LET r == ifs[req.iface]
        leased == r.mode # Nil /\ r.mode.method = "dhcp"
    IN  /\ req.op = "SetIfaceDHCP" => req.on = IF leased THEN {r.mode.fam} ELSE {}
        /\ ~r.ppp
        /\ r.dhcp => leased \/ (req.op = "SetIfaceDHCP" /\ req.on = {})

ContentInv ==
    /\ pc = "idle" => Held(disk)
    /\ Saving =>
          /\ Held(pre) /\ LeaseAsked
          /\ \A f \in Files : Done(f) => SavedAs(disk[f], f)
          /\ pc \in {"backup", "install"} => SavedAs(tmp[file], file)

IfUpDownInv ==
    /\ TypeInv /\ ControlInv /\ PlaceInv /\ NothingIsLost
    /\ ~faulted => ContentInv
    /\ ReadsBackAsHeld /\ DHCPAsAsked /\ OthersKept

-----------------------------------------------------------------------------
(* Numbers *)

\* A set of numbers that is not empty has a least one.
LEMMA Least ==
    ASSUME NEW T \in SUBSET Nat, T # {}
    PROVE  \E m \in T : \A k \in T : m <= k
  <1> DEFINE R == OpToRel(<, Nat)
  <1>1. IsWellFoundedOn(R, Nat)
    BY NatLessThanWellFounded
  <1>2. \A x, y \in Nat : x < y => <<x, y>> \in R
    BY DEF OpToRel
  <1> HIDE DEF R
  <1>3. PICK m \in T : \A y \in T : ~(<<y, m>> \in R)
    BY <1>1, WFMin
  <1>4. \A k \in T : ~(k < m)
    BY <1>2, <1>3
  <1> QED
    BY <1>4

\* What holds of no element, and of one more whenever of m, holds of any number up to N.
LEMMA Induction ==
    ASSUME NEW N \in Nat, NEW T, 0 \in T, \A m \in 0 .. N - 1 : m \in T => m + 1 \in T
    PROVE  0 .. N \subseteq T
  <1> DEFINE U == (0 .. N) \ T
  <1> SUFFICES ASSUME U # {} PROVE FALSE
    OBVIOUS
  <1>1. PICK m \in U : \A k \in U : m <= k
    <2> HIDE DEF U
    <2>1. U \in SUBSET Nat
      BY DEF U
    <2> QED
      BY <2>1, Least
  <1>2. m # 0 /\ m - 1 \in 0 .. N - 1
    BY <1>1
  <1>3. m - 1 \notin U
    BY <1>1, <1>2
  <1>4. (m - 1) + 1 \in T
    BY <1>2, <1>3
  <1> QED
    BY <1>1, <1>2, <1>4


\* A sequence of N values after a first one, each by a step from the one before.
Chain(r, N, b, g) == r[0] = b /\ \A k \in 1 .. N : r[k] = g[k][r[k - 1]]

\* Steps that stay within a set have such a sequence.
LEMMA Recursion ==
    ASSUME NEW X, NEW N \in Nat, NEW b \in X, NEW g \in [1 .. N -> [X -> X]]
    PROVE  \E r \in [0 .. N -> X] : Chain(r, N, b, g)
  <1> DEFINE U == {M \in 0 .. N : \E r \in [0 .. M -> X] : Chain(r, M, b, g)}
  <1>1. 0 \in U
    <2> DEFINE r == [k \in 0 .. 0 |-> b]
    <2>1. r \in [0 .. 0 -> X] /\ Chain(r, 0, b, g)
      BY DEF Chain
    <2> HIDE DEF r
    <2> QED
      BY <2>1
  <1>2. ASSUME NEW M \in 0 .. N - 1, M \in U PROVE M + 1 \in U
    <2>1. PICK r \in [0 .. M -> X] : Chain(r, M, b, g)
      BY <1>2
    <2>2. M + 1 \in 1 .. N /\ g[M + 1] \in [X -> X] /\ r[M] \in X
      OBVIOUS
    <2> DEFINE q == [k \in 0 .. M + 1 |-> IF k <= M THEN r[k] ELSE g[M + 1][r[M]]]
    <2>3. q \in [0 .. M + 1 -> X]
      BY <2>2
    <2>4. q[M + 1] = g[M + 1][r[M]] /\ \A k \in 0 .. M : q[k] = r[k]
      OBVIOUS
    <2> HIDE DEF q
    <2>5. ASSUME NEW k \in 1 .. M + 1 PROVE q[k] = g[k][q[k - 1]]
      <3>1. CASE k = M + 1
        <4>1. q[k - 1] = r[M]
          BY <2>4, <3>1
        <4> QED
          BY <2>4, <3>1, <4>1
      <3>2. CASE k # M + 1
        <4>1. k \in 1 .. M /\ k \in 0 .. M /\ k - 1 \in 0 .. M
          BY <3>2
        <4>2. q[k] = r[k] /\ q[k - 1] = r[k - 1]
          BY <2>4, <4>1
        <4> QED
          BY <2>1, <4>1, <4>2 DEF Chain
      <3> QED
        BY <3>1, <3>2
    <2>6. Chain(q, M + 1, b, g)
      BY <2>1, <2>4, <2>5 DEF Chain
    <2> QED
      BY <2>3, <2>6
  <1>3. 0 .. N \subseteq U
    <2> HIDE DEF U
    <2> QED
      BY <1>1, <1>2, Induction
  <1> QED
    BY <1>3

\* What holds of the first value, and of each next one, holds of them all.
LEMMA Invariance ==
    ASSUME NEW X, NEW N \in Nat, NEW r, r[0] \in X,
           \A k \in 1 .. N : r[k - 1] \in X => r[k] \in X
    PROVE  \A k \in 0 .. N : r[k] \in X
  <1> DEFINE U == {k \in 0 .. N : r[k] \in X}
  <1>1. 0 \in U
    OBVIOUS
  <1>2. ASSUME NEW M \in 0 .. N - 1, M \in U PROVE M + 1 \in U
    <2>1. M + 1 \in 1 .. N /\ (M + 1) - 1 = M
      OBVIOUS
    <2>2. r[(M + 1) - 1] \in X
      <3>1. r[(M + 1) - 1] = r[M]
        BY <2>1
      <3> QED
        BY <1>2, <3>1
    <2> QED
      BY <2>1, <2>2
  <1>3. 0 .. N \subseteq U
    <2> HIDE DEF U
    <2> QED
      BY <1>1, <1>2, Induction
  <1> QED
    BY <1>3

-----------------------------------------------------------------------------
(* Lines *)

\* A line is of one of three kinds.
LEMMA LineFacts ==
    ASSUME NEW x \in Line
    PROVE  /\ x.kind \in {"iface", "auto", "source"}
           /\ x.kind = "iface" => x \in Stanza /\ x.iface \in Iface
           /\ x.kind = "source" => x.file \in Files /\ x.file # Base
  <1>1. CASE x \in Stanza
    BY <1>1 DEF Stanza
  <1>2. CASE x \in [kind : {"auto"}, names : SUBSET Iface]
    BY <1>2
  <1>3. CASE x \in [kind : {"source"}, file : Files \ {Base}]
    BY <1>3
  <1> QED
    BY <1>1, <1>2, <1>3 DEF Line

\* The lines that are not the interface's, as they are read.
LEMMA OthersEquation ==
    ASSUME NEW text \in Text, NEW n
    PROVE  /\ OthersUpTo(text, n)[0] = <<>>
           /\ \A k \in 1 .. Len(text) :
                OthersUpTo(text, n)[k] =
                    IF IsOwn(text[k], n) THEN OthersUpTo(text, n)[k - 1]
                    ELSE Append(OthersUpTo(text, n)[k - 1], text[k])
           /\ \A k \in 0 .. Len(text) : OthersUpTo(text, n)[k] \in Text
  <1> DEFINE N == Len(text)
             step(r, k) == IF IsOwn(text[k], n) THEN r[k - 1] ELSE Append(r[k - 1], text[k])
             Solves(r) == r = [k \in 0 .. N |-> IF k = 0 THEN <<>> ELSE step(r, k)]
             g == [k \in 1 .. N |->
                      [s \in Text |-> IF IsOwn(text[k], n) THEN s ELSE Append(s, text[k])]]
  <1>0. N \in Nat /\ <<>> \in Text /\ \A k \in 1 .. N : text[k] \in Line
    BY DEF Text
  <1>1. g \in [1 .. N -> [Text -> Text]]
    <2>1. \A k \in 1 .. N, s \in Text : Append(s, text[k]) \in Text
      BY <1>0 DEF Text
    <2> QED
      BY <2>1
  <1>2. PICK r \in [0 .. N -> Text] : Chain(r, N, <<>>, g)
    <2> DEFINE none == <<>>
    <2> HIDE DEF g, N, none
    <2>1. none \in Text
      BY <1>0 DEF none
    <2>2. \E r \in [0 .. N -> Text] : Chain(r, N, none, g)
      BY <1>0, <1>1, <2>1, Recursion
    <2> QED
      BY <2>2 DEF none
  <1>3. ASSUME NEW k \in 1 .. N PROVE r[k] = step(r, k)
    <2>1. r[k] = g[k][r[k - 1]] /\ r[k - 1] \in Text
      <3> HIDE DEF g
      <3> QED
        BY <1>0, <1>2 DEF Chain
    <2> QED
      BY <2>1
  <1>4. Solves(r)
    <2> HIDE DEF step
    <2>1. \A k \in 0 .. N : r[k] = IF k = 0 THEN <<>> ELSE step(r, k)
      BY <1>0, <1>2, <1>3 DEF Chain
    <2> QED
      BY <2>1
  <1> DEFINE F == CHOOSE q : q = [k \in 0 .. N |-> IF k = 0 THEN <<>> ELSE step(q, k)]
  <1>5. OthersUpTo(text, n) = F
    BY DEF OthersUpTo
  <1>6. Solves(F)
    <2> HIDE DEF step
    <2> QED
      BY <1>4
  <1> HIDE DEF F
  <1>7. F[0] = <<>> /\ \A k \in 1 .. N : F[k] = step(F, k)
    <2> HIDE DEF step
    <2> QED
      BY <1>0, <1>6
  <1>8. \A k \in 0 .. N : F[k] \in Text
    <2>1. ASSUME NEW k \in 1 .. N, F[k - 1] \in Text PROVE F[k] \in Text
      <3>1. text[k] \in Line /\ F[k] = step(F, k)
        BY <1>0, <1>7
      <3> QED
        BY <2>1, <3>1 DEF Text
    <2> HIDE DEF step, N
    <2> QED
      BY <1>0, <1>7, <2>1, Invariance
  <1> QED
    BY <1>5, <1>7, <1>8

\* A text has the lines of its beginning that are not the interface's, and no others.
LEMMA OthersAppend ==
    ASSUME NEW text \in Text, NEW x \in Line, NEW n
    PROVE  Others(Append(text, x), n) =
               IF IsOwn(x, n) THEN Others(text, n) ELSE Append(Others(text, n), x)
  <1> DEFINE N == Len(text)
             q == Append(text, x)
             F == OthersUpTo(text, n)
             G == OthersUpTo(q, n)
             U == {k \in 0 .. N : G[k] = F[k]}
  <1>1. /\ N \in Nat /\ q \in Text /\ Len(q) = N + 1 /\ q[N + 1] = x
        /\ \A k \in 1 .. N : q[k] = text[k]
    BY DEF Text
  <1> HIDE DEF q
  <1>2. /\ F[0] = <<>>
        /\ \A k \in 1 .. N : F[k] = IF IsOwn(text[k], n) THEN F[k - 1] ELSE Append(F[k - 1], text[k])
    BY OthersEquation
  <1>3. /\ G[0] = <<>>
        /\ \A k \in 1 .. N + 1 : G[k] = IF IsOwn(q[k], n) THEN G[k - 1] ELSE Append(G[k - 1], q[k])
    BY <1>1, OthersEquation
  <1> HIDE DEF F, G
  <1>4. 0 \in U
    BY <1>1, <1>2, <1>3
  <1>5. ASSUME NEW M \in 0 .. N - 1, M \in U PROVE M + 1 \in U
    <2>1. M + 1 \in 1 .. N /\ M + 1 \in 1 .. N + 1 /\ M + 1 \in 0 .. N /\ (M + 1) - 1 = M
      BY <1>1
    <2>2. F[M + 1] = IF IsOwn(text[M + 1], n) THEN F[M] ELSE Append(F[M], text[M + 1])
      BY <1>2, <2>1
    <2>3. G[M + 1] = IF IsOwn(q[M + 1], n) THEN G[M] ELSE Append(G[M], q[M + 1])
      BY <1>3, <2>1
    <2>4. q[M + 1] = text[M + 1]
      BY <1>1, <2>1
    <2> QED
      BY <1>5, <2>1, <2>2, <2>3, <2>4
  <1>6. 0 .. N \subseteq U
    <2> HIDE DEF U, N
    <2> QED
      BY <1>1, <1>4, <1>5, Induction
  <1>7. G[N] = F[N]
    BY <1>1, <1>6
  <1>8. G[N + 1] = IF IsOwn(x, n) THEN F[N] ELSE Append(F[N], x)
    <2>1. N + 1 \in 1 .. N + 1 /\ (N + 1) - 1 = N
      BY <1>1
    <2> HIDE DEF N
    <2>2. G[N + 1] = IF IsOwn(q[N + 1], n) THEN G[N] ELSE Append(G[N], q[N + 1])
      BY <1>3, <2>1
    <2> QED
      BY <1>1, <1>7, <2>2
  <1>9. Others(q, n) = G[N + 1] /\ Others(text, n) = F[N]
    BY <1>1 DEF Others, F, G
  <1> QED
    BY <1>8, <1>9 DEF q

\* What one more line adds to a text.
LEMMA AppendFacts ==
    ASSUME NEW text \in Text, NEW x \in Line, NEW n
    PROVE  /\ Append(text, x) \in Text
           /\ ~IsOwn(x, n) /\ Once(text, n) => Once(Append(text, x), n)
           /\ ~IsOwn(x, n) /\ ~Mentions(text, n) => ~Mentions(Append(text, x), n)
           /\ IsOwn(x, n) /\ ~Mentions(text, n) => Once(Append(text, x), n)
           /\ \A s : OwnIs(text, n, s) /\ (IsOwn(x, n) => x = s) => OwnIs(Append(text, x), n, s)
           /\ \A old, s : /\ From(text, old, s)
                          /\ x = s \/ \E m \in DOMAIN old : x = old[m]
                          => From(Append(text, x), old, s)
  <1> DEFINE N == Len(text)
             q == Append(text, x)
  <1>1. /\ N \in Nat /\ q \in Text /\ DOMAIN q = DOMAIN text \cup {N + 1} /\ q[N + 1] = x
        /\ N + 1 \notin DOMAIN text /\ \A k \in DOMAIN text : q[k] = text[k]
    BY DEF Text
  <1> HIDE DEF q, N
  <1>2. ~IsOwn(x, n) /\ Once(text, n) => Once(q, n)
    BY <1>1 DEF Once
  <1>3. ~IsOwn(x, n) /\ ~Mentions(text, n) => ~Mentions(q, n)
    BY <1>1 DEF Mentions
  <1>4. IsOwn(x, n) /\ ~Mentions(text, n) => Once(q, n)
    BY <1>1 DEF Mentions, Once
  <1>5. \A s : OwnIs(text, n, s) /\ (IsOwn(x, n) => x = s) => OwnIs(q, n, s)
    BY <1>1 DEF OwnIs
  <1>6. \A old, s : /\ From(text, old, s)
                    /\ x = s \/ \E m \in DOMAIN old : x = old[m]
                    => From(q, old, s)
    BY <1>1 DEF From
  <1> QED
    BY <1>1, <1>2, <1>3, <1>4, <1>5, <1>6 DEF q

-----------------------------------------------------------------------------
(* The copy of a text *)

Copy == [out : Text, found : BOOLEAN, wrote : BOOLEAN]

\* What is written for an interface is a stanza of its own.
Writable(n) == Write(n) \in Line /\ IsOwn(Write(n), n)

\* A line of an interface does not end its stanzas.
LEMMA OwnEndsNothing == ASSUME NEW x, NEW n, IsOwn(x, n) PROVE ~Ends(x, n)
  BY DEF IsOwn, Ends

\* The copy of one line.
LEMMA LineCopied ==
    ASSUME NEW a \in Copy, NEW x \in Line, NEW n, NEW first \in BOOLEAN, Writable(n)
    PROVE  LET b == CopyLine(a, x, n, first)
           IN  /\ b \in Copy
               /\ Closes(a, x, n) =>
                    /\ ~b.found /\ b.wrote
                    /\ b.out = Append(IF first THEN Append(a.out, Write(n)) ELSE a.out, x)
               /\ IsOwn(x, n) => b.found /\ b.wrote = a.wrote /\ b.out = a.out
               /\ ~Closes(a, x, n) /\ ~IsOwn(x, n) =>
                    /\ b.found = a.found /\ b.wrote = a.wrote
                    /\ b.out = IF a.found /\ x.kind # "auto" THEN a.out ELSE Append(a.out, x)
  <1> DEFINE w == Write(n)
  <1>1. /\ a.out \in Text /\ a.found \in BOOLEAN /\ a.wrote \in BOOLEAN
        /\ a = [out |-> a.out, found |-> a.found, wrote |-> a.wrote]
    BY DEF Copy
  <1>2. w \in Line
    BY DEF Writable
  <1> HIDE DEF w
  <1>3. \A t \in Text, y \in Line : Append(t, y) \in Text
    BY DEF Text
  <1>4. CASE Closes(a, x, n)
    <2>1. ~IsOwn(x, n)
      BY <1>4, OwnEndsNothing DEF Closes
    <2>2. CopyLine(a, x, n, first) =
            [out |-> Append(IF first THEN Append(a.out, w) ELSE a.out, x),
             found |-> FALSE, wrote |-> TRUE]
      BY <1>4 DEF CopyLine, w
    <2> QED
      BY <1>1, <1>2, <1>3, <1>4, <2>1, <2>2 DEF Copy, w
  <1>5. CASE ~Closes(a, x, n)
    <2> DEFINE b == [a EXCEPT !.found = @ \/ IsOwn(x, n)]
    <2>1. b = [out |-> a.out, found |-> (a.found \/ IsOwn(x, n)), wrote |-> a.wrote]
      BY <1>1
    <2>2. CopyLine(a, x, n, first) =
            IF b.found /\ x.kind # "auto" THEN b ELSE [b EXCEPT !.out = Append(@, x)]
      BY <1>5 DEF CopyLine
    <2>3. [b EXCEPT !.out = Append(@, x)] =
            [out |-> Append(a.out, x), found |-> (a.found \/ IsOwn(x, n)), wrote |-> a.wrote]
      <3> DEFINE v == a.found \/ IsOwn(x, n)
                 t == a.out
      <3>1. b = [out |-> t, found |-> v, wrote |-> a.wrote]
        BY <2>1
      <3> HIDE DEF v, t, b
      <3>2. b.out = t
        BY <3>1
      <3> DEFINE u == Append(b.out, x)
      <3> HIDE DEF u
      <3>3. [b EXCEPT !.out = u] = [out |-> u, found |-> v, wrote |-> a.wrote]
        BY <3>1
      <3> QED
        BY <3>2, <3>3 DEF u, v, t
    <2> HIDE DEF b
    <2>4. b.found = (a.found \/ IsOwn(x, n)) /\ b.out = a.out /\ b.wrote = a.wrote /\ b \in Copy
      BY <1>1, <2>1 DEF Copy
    <2>5. IsOwn(x, n) => x.kind # "auto"
      BY DEF IsOwn
    <2>6. IsOwn(x, n) \in BOOLEAN
      BY DEF IsOwn
    <2>7. CASE b.found /\ x.kind # "auto"
      BY <1>1, <1>5, <2>2, <2>4, <2>5, <2>6, <2>7
    <2>8. CASE ~(b.found /\ x.kind # "auto")
      <3>1. CopyLine(a, x, n, first) =
              [out |-> Append(a.out, x), found |-> (a.found \/ IsOwn(x, n)), wrote |-> a.wrote]
        BY <2>2, <2>3, <2>8
      <3>2. Append(a.out, x) \in Text
        BY <1>1, <1>3
      <3> QED
        BY <1>1, <1>5, <2>4, <2>5, <2>6, <2>8, <3>1, <3>2 DEF Copy
    <2> QED
      BY <2>7, <2>8
  <1> QED
    BY <1>4, <1>5

\* The copies of the first lines of a text, as they are made.
LEMMA CopyEquation ==
    ASSUME NEW text \in Text, NEW n, NEW first \in BOOLEAN, Writable(n)
    PROVE  /\ CopiedUpTo(text, n, first)[0] = [out |-> <<>>, found |-> FALSE, wrote |-> FALSE]
           /\ \A k \in 1 .. Len(text) :
                CopiedUpTo(text, n, first)[k] =
                    CopyLine(CopiedUpTo(text, n, first)[k - 1], text[k], n, first)
           /\ \A k \in 0 .. Len(text) : CopiedUpTo(text, n, first)[k] \in Copy
  <1> DEFINE N == Len(text)
             b == [out |-> <<>>, found |-> FALSE, wrote |-> FALSE]
             step(r, k) == CopyLine(r[k - 1], text[k], n, first)
             Solves(r) == r = [k \in 0 .. N |-> IF k = 0 THEN b ELSE step(r, k)]
             g == [k \in 1 .. N |-> [a \in Copy |-> CopyLine(a, text[k], n, first)]]
  <1>0. N \in Nat /\ <<>> \in Text /\ \A k \in 1 .. N : text[k] \in Line
    BY DEF Text
  <1>1. g \in [1 .. N -> [Copy -> Copy]]
    <2>1. \A k \in 1 .. N, a \in Copy : CopyLine(a, text[k], n, first) \in Copy
      BY <1>0, LineCopied
    <2> QED
      BY <2>1
  <1>2. b \in Copy
    BY <1>0 DEF Copy
  <1>3. PICK r \in [0 .. N -> Copy] : Chain(r, N, b, g)
    <2> HIDE DEF g, N, b
    <2> QED
      BY <1>0, <1>1, <1>2, Recursion
  <1> HIDE DEF b
  <1>4. ASSUME NEW k \in 1 .. N PROVE r[k] = step(r, k)
    <2>1. r[k] = g[k][r[k - 1]] /\ r[k - 1] \in Copy
      <3> HIDE DEF g
      <3> QED
        BY <1>0, <1>3 DEF Chain
    <2> QED
      BY <2>1
  <1>5. Solves(r)
    <2> HIDE DEF step
    <2>1. \A k \in 0 .. N : r[k] = IF k = 0 THEN b ELSE step(r, k)
      BY <1>0, <1>3, <1>4 DEF Chain
    <2> QED
      BY <2>1
  <1> DEFINE F == CHOOSE q : q = [k \in 0 .. N |-> IF k = 0 THEN b ELSE step(q, k)]
  <1>6. CopiedUpTo(text, n, first) = F
    BY DEF CopiedUpTo, b
  <1>7. Solves(F)
    <2> HIDE DEF step
    <2> QED
      BY <1>5
  <1> HIDE DEF F
  <1>8. F[0] = b /\ \A k \in 1 .. N : F[k] = step(F, k)
    <2> HIDE DEF step
    <2> QED
      BY <1>0, <1>7
  <1>9. \A k \in 0 .. N : F[k] \in Copy
    <2>1. ASSUME NEW k \in 1 .. N, F[k - 1] \in Copy PROVE F[k] \in Copy
      <3>1. text[k] \in Line /\ F[k] = step(F, k)
        BY <1>0, <1>8
      <3> QED
        BY <2>1, <3>1, LineCopied
    <2> HIDE DEF step, N
    <2> QED
      BY <1>0, <1>2, <1>8, <2>1, Invariance
  <1> QED
    BY <1>6, <1>8, <1>9 DEF b

\* What the copy of the first k lines has of the interface and of the others, and which
\* of those lines made it look for the end of a stanza or find one.
CopyOK(a, text, n, first, k) ==
    /\ From(a.out, text, Write(n)) /\ OwnIs(a.out, n, Write(n))
    /\ IF first /\ a.wrote THEN Once(a.out, n) ELSE ~Mentions(a.out, n)
    /\ a.wrote => \E p, e \in 1 .. k : p < e /\ IsOwn(text[p], n) /\ Ends(text[e], n)
    /\ a.found /\ ~a.wrote =>
          \E p \in 1 .. k : IsOwn(text[p], n) /\ \A c \in p .. k : ~Ends(text[c], n)
    /\ Together(text, n) => /\ ~(a.found /\ a.wrote)
                            /\ Others(a.out, n) = OthersUpTo(text, n)[k]

\* One more line.
LEMMA CopyStep ==
    ASSUME NEW text \in Text, NEW n, NEW first \in BOOLEAN, Writable(n),
           NEW k \in 1 .. Len(text), NEW a \in Copy, CopyOK(a, text, n, first, k - 1)
    PROVE  CopyOK(CopyLine(a, text[k], n, first), text, n, first, k)
  <1> DEFINE x == text[k]
             b == CopyLine(a, x, n, first)
             w == Write(n)
             o == OthersUpTo(text, n)
             have == IF first THEN Append(a.out, w) ELSE a.out
  <1>0. /\ x \in Line /\ w \in Line /\ IsOwn(w, n) /\ k \in DOMAIN text /\ DOMAIN text = 1 .. Len(text)
        /\ Len(text) \in Nat
    BY DEF Text, Writable
  <1>1. a.out \in Text /\ a.found \in BOOLEAN /\ a.wrote \in BOOLEAN
    BY DEF Copy
  <1>2. o[k] = IF IsOwn(x, n) THEN o[k - 1] ELSE Append(o[k - 1], x)
    BY OthersEquation
  <1>3. /\ Closes(a, x, n) => ~b.found /\ b.wrote /\ b.out = Append(have, x)
        /\ IsOwn(x, n) => b.found /\ b.wrote = a.wrote /\ b.out = a.out
        /\ ~Closes(a, x, n) /\ ~IsOwn(x, n) =>
             /\ b.found = a.found /\ b.wrote = a.wrote
             /\ b.out = IF a.found /\ x.kind # "auto" THEN a.out ELSE Append(a.out, x)
    BY <1>0, LineCopied
  <1>4. /\ From(a.out, text, w) /\ OwnIs(a.out, n, w)
        /\ IF first /\ a.wrote THEN Once(a.out, n) ELSE ~Mentions(a.out, n)
        /\ a.wrote => \E p, e \in 1 .. k - 1 : p < e /\ IsOwn(text[p], n) /\ Ends(text[e], n)
        /\ a.found /\ ~a.wrote =>
              \E p \in 1 .. k - 1 : IsOwn(text[p], n) /\ \A c \in p .. k - 1 : ~Ends(text[c], n)
        /\ Together(text, n) => ~(a.found /\ a.wrote) /\ Others(a.out, n) = o[k - 1]
    BY DEF CopyOK
  <1>5. IsOwn(x, n) => ~Ends(x, n)
    BY OwnEndsNothing
  <1> HIDE DEF b, o, w
  <1>6. \E m \in DOMAIN text : x = text[m]
    BY <1>0
  <1>7. a.wrote => \E p, e \in 1 .. k : p < e /\ IsOwn(text[p], n) /\ Ends(text[e], n)
    <2>1. 1 .. k - 1 \subseteq 1 .. k
      BY <1>0
    <2> QED
      BY <1>4, <2>1
  <1>8. CASE Closes(a, x, n)
    <2>1. a.found /\ ~a.wrote /\ Ends(x, n) /\ ~IsOwn(x, n)
      BY <1>5, <1>8 DEF Closes
    <2>2. ~b.found /\ b.wrote /\ b.out = Append(have, x)
      BY <1>3, <1>8
    <2>3. /\ have \in Text /\ From(have, text, w) /\ OwnIs(have, n, w)
          /\ IF first THEN Once(have, n) ELSE ~Mentions(have, n)
          /\ Others(have, n) = Others(a.out, n)
      <3>1. CASE first
        BY <1>0, <1>1, <1>4, <2>1, <3>1, AppendFacts, OthersAppend
      <3>2. CASE ~first
        BY <1>1, <1>4, <3>2
      <3> QED
        BY <3>1, <3>2
    <2> HIDE DEF have
    <2>4. /\ From(b.out, text, w) /\ OwnIs(b.out, n, w)
          /\ IF first THEN Once(b.out, n) ELSE ~Mentions(b.out, n)
          /\ Others(b.out, n) = Append(Others(have, n), x)
      BY <1>0, <1>6, <2>1, <2>2, <2>3, AppendFacts, OthersAppend
    <2>5. \E p, e \in 1 .. k : p < e /\ IsOwn(text[p], n) /\ Ends(text[e], n)
      <3>1. PICK p \in 1 .. k - 1 : IsOwn(text[p], n)
        BY <1>4, <2>1
      <3>2. p \in 1 .. k /\ k \in 1 .. k /\ p < k
        BY <1>0
      <3> QED
        BY <2>1, <3>1, <3>2
    <2>6. Together(text, n) => Others(b.out, n) = o[k]
      BY <1>2, <1>4, <2>1, <2>3, <2>4
    <2> QED
      BY <2>2, <2>4, <2>5, <2>6 DEF CopyOK, b, w, o
  <1>9. CASE IsOwn(x, n)
    <2>1. b.found /\ b.wrote = a.wrote /\ b.out = a.out
      BY <1>3, <1>9
    <2>2. \E p \in 1 .. k : IsOwn(text[p], n) /\ \A c \in p .. k : ~Ends(text[c], n)
      <3>1. k \in 1 .. k /\ \A c \in k .. k : c = k
        BY <1>0
      <3> QED
        BY <1>5, <1>9, <3>1
    <2>3. a.wrote => ~Together(text, n)
      <3> SUFFICES ASSUME a.wrote, Together(text, n) PROVE FALSE
        OBVIOUS
      <3>1. PICK p, e \in 1 .. k - 1 : p < e /\ IsOwn(text[p], n) /\ Ends(text[e], n)
        BY <1>4
      <3>2. p \in DOMAIN text /\ e \in p .. Len(text) /\ k \in e .. Len(text)
        BY <1>0, <3>1
      <3> QED
        BY <1>9, <3>1, <3>2 DEF Together
    <2>4. Together(text, n) => Others(b.out, n) = o[k]
      BY <1>2, <1>4, <1>9, <2>1
    <2> QED
      BY <1>4, <1>7, <2>1, <2>2, <2>3, <2>4 DEF CopyOK, b, w, o
  <1>10. CASE ~Closes(a, x, n) /\ ~IsOwn(x, n)
    <2>1. /\ b.found = a.found /\ b.wrote = a.wrote
          /\ b.out = IF a.found /\ x.kind # "auto" THEN a.out ELSE Append(a.out, x)
      BY <1>3, <1>10
    <2>2. /\ From(b.out, text, w) /\ OwnIs(b.out, n, w)
          /\ IF first /\ a.wrote THEN Once(b.out, n) ELSE ~Mentions(b.out, n)
      <3>1. CASE a.found /\ x.kind # "auto"
        BY <1>4, <2>1, <3>1
      <3>2. CASE ~(a.found /\ x.kind # "auto")
        <4>1. b.out = Append(a.out, x)
          BY <2>1, <3>2
        <4> QED
          BY <1>0, <1>1, <1>4, <1>6, <1>10, <4>1, AppendFacts
      <3> QED
        BY <3>1, <3>2
    <2>3. a.found /\ ~a.wrote =>
             \E p \in 1 .. k : IsOwn(text[p], n) /\ \A c \in p .. k : ~Ends(text[c], n)
      <3> SUFFICES ASSUME a.found, ~a.wrote
                   PROVE  \E p \in 1 .. k : IsOwn(text[p], n) /\ \A c \in p .. k : ~Ends(text[c], n)
        OBVIOUS
      <3>1. PICK p \in 1 .. k - 1 : IsOwn(text[p], n) /\ \A c \in p .. k - 1 : ~Ends(text[c], n)
        BY <1>4
      <3>2. ~Ends(text[k], n)
        BY <1>10 DEF Closes
      <3>3. p \in 1 .. k /\ \A c \in p .. k : c \in p .. k - 1 \/ c = k
        BY <1>0
      <3> QED
        BY <3>1, <3>2, <3>3
    <2>4. Together(text, n) => Others(b.out, n) = o[k]
      <3> SUFFICES ASSUME Together(text, n) PROVE Others(b.out, n) = o[k]
        OBVIOUS
      <3>1. ~(a.found /\ x.kind # "auto")
        <4> SUFFICES ASSUME a.found, x.kind # "auto" PROVE FALSE
          OBVIOUS
        <4>1. ~a.wrote
          BY <1>4
        <4>2. PICK p \in 1 .. k : IsOwn(text[p], n) /\ \A c \in p .. k : ~Ends(text[c], n)
          BY <2>3, <4>1
        <4>3. ~Ends(x, n)
          BY <1>10, <4>1 DEF Closes
        <4>4. x.kind = "source"
          BY <1>0, <1>10, <4>3, LineFacts DEF Ends
        <4>5. p \in DOMAIN text /\ k \in p .. Len(text)
          BY <1>0
        <4>6. \E c \in p .. k : Ends(text[c], n)
          BY <4>2, <4>4, <4>5 DEF Together
        <4> QED
          BY <4>2, <4>6
      <3>2. Others(b.out, n) = Append(Others(a.out, n), x)
        BY <1>0, <1>1, <1>10, <2>1, <3>1, OthersAppend
      <3> QED
        BY <1>2, <1>4, <1>10, <3>2
    <2> QED
      BY <1>4, <1>7, <2>1, <2>2, <2>3, <2>4 DEF CopyOK, b, w, o
  <1> QED
    BY <1>8, <1>9, <1>10

\* What a call writes for a file that is there: the stanza in place of the interface's,
\* once in the first file, and every other line where those were together.
LEMMA CopiedFacts ==
    ASSUME NEW text \in Text, NEW n, NEW first \in BOOLEAN, Writable(n)
    PROVE  /\ Copied(text, n, first) \in Text
           /\ Saved(Copied(text, n, first), text, n, Write(n), first)
  <1> DEFINE N == Len(text)
             F == CopiedUpTo(text, n, first)
             w == Write(n)
             U == {k \in 0 .. N : CopyOK(F[k], text, n, first, k)}
  <1>0. N \in Nat /\ w \in Line /\ IsOwn(w, n)
    BY DEF Text, Writable
  <1>1. /\ F[0] = [out |-> <<>>, found |-> FALSE, wrote |-> FALSE]
        /\ \A k \in 1 .. N : F[k] = CopyLine(F[k - 1], text[k], n, first)
        /\ \A k \in 0 .. N : F[k] \in Copy
    BY CopyEquation
  <1> HIDE DEF F
  <1>2. 0 \in U
    <2>1. DOMAIN <<>> = {} /\ <<>> \in Text /\ Len(<<>>) = 0
      BY DEF Text
    <2>2. Others(<<>>, n) = <<>> /\ OthersUpTo(text, n)[0] = <<>>
      BY <2>1, OthersEquation DEF Others
    <2>3. From(<<>>, text, w) /\ OwnIs(<<>>, n, w) /\ ~Mentions(<<>>, n)
      BY <2>1 DEF From, OwnIs, Mentions
    <2>4. F[0].out = <<>> /\ ~F[0].found /\ ~F[0].wrote
      BY <1>1
    <2>5. CopyOK(F[0], text, n, first, 0)
      BY <2>2, <2>3, <2>4 DEF CopyOK
    <2> QED
      BY <1>0, <2>5
  <1>3. ASSUME NEW M \in 0 .. N - 1, M \in U PROVE M + 1 \in U
    <2>1. M + 1 \in 1 .. N /\ (M + 1) - 1 = M /\ M + 1 \in 0 .. N
      BY <1>0
    <2>2. F[M] \in Copy /\ CopyOK(F[M], text, n, first, (M + 1) - 1)
      BY <1>1, <1>3, <2>1
    <2>3. F[M + 1] = CopyLine(F[M], text[M + 1], n, first)
      BY <1>1, <2>1
    <2>4. CopyOK(F[M + 1], text, n, first, M + 1)
      <3> HIDE DEF U
      <3> QED
        BY <2>1, <2>2, <2>3, CopyStep
    <2> QED
      BY <2>1, <2>4
  <1>4. 0 .. N \subseteq U
    <2> HIDE DEF U, N
    <2> QED
      BY <1>0, <1>2, <1>3, Induction
  <1> DEFINE a == F[N]
             t == Copied(text, n, first)
  <1>5. a \in Copy /\ CopyOK(a, text, n, first, N)
    BY <1>0, <1>1, <1>4
  <1>6. t = IF a.wrote THEN a.out ELSE Append(a.out, w)
    BY DEF Copied, F
  <1>7. OthersUpTo(text, n)[N] = Others(text, n)
    BY DEF Others
  <1> HIDE DEF a, t, w, N
  <1>8. a.out \in Text
    BY <1>5 DEF Copy
  <1>9. /\ From(a.out, text, w) /\ OwnIs(a.out, n, w)
        /\ IF first /\ a.wrote THEN Once(a.out, n) ELSE ~Mentions(a.out, n)
        /\ Together(text, n) => Others(a.out, n) = Others(text, n)
    BY <1>5, <1>7 DEF CopyOK, w
  <1>10. CASE a.wrote
    BY <1>6, <1>8, <1>9, <1>10 DEF Saved, t, w
  <1>11. CASE ~a.wrote
    <2>1. t = Append(a.out, w)
      BY <1>6, <1>11
    <2>2. ~Mentions(a.out, n)
      BY <1>9, <1>11
    <2>3. t \in Text /\ From(t, text, w) /\ OwnIs(t, n, w) /\ Once(t, n)
      BY <1>0, <1>8, <1>9, <2>1, <2>2, AppendFacts
    <2>4. Others(t, n) = Others(a.out, n)
      BY <1>0, <1>8, <2>1, OthersAppend
    <2> QED
      BY <1>9, <2>3, <2>4 DEF Saved, t, w
  <1> QED
    BY <1>10, <1>11

-----------------------------------------------------------------------------
(* The stanza of an interface *)

Parts == [addrs : Seq(Addresses), extra : Seq(Addresses)]

\* One more address, in one part or the other.
PartStep(p, s, k) ==
    IF IsFirst(s, k) THEN [addrs |-> Append(p.addrs, s[k]), extra |-> p.extra]
    ELSE [addrs |-> p.addrs, extra |-> Append(p.extra, s[k])]

\* It is one more address of the list.
LEMMA PartFacts ==
    ASSUME NEW s \in Seq(Addresses), NEW k \in 1 .. Len(s), NEW p \in Parts
    PROVE  LET q == PartStep(p, s, k)
           IN  /\ q \in Parts
               /\ Len(q.addrs) + Len(q.extra) = Len(p.addrs) + Len(p.extra) + 1
               /\ ToSet(q.addrs) \cup ToSet(q.extra) =
                     ToSet(p.addrs) \cup ToSet(p.extra) \cup {s[k]}
               /\ q = IF IsFirst(s, k) THEN [p EXCEPT !.addrs = Append(@, s[k])]
                      ELSE [p EXCEPT !.extra = Append(@, s[k])]
  <1> DEFINE x == s[k]
             u == p.addrs
             v == p.extra
             Q == PartStep(p, s, k)
  <1>1. x \in Addresses /\ u \in Seq(Addresses) /\ v \in Seq(Addresses)
        /\ p = [addrs |-> u, extra |-> v]
    BY DEF Parts
  <1> HIDE DEF x, u, v, Q
  <1>2. \A t \in Seq(Addresses) :
           /\ Append(t, x) \in Seq(Addresses) /\ Len(Append(t, x)) = Len(t) + 1 /\ Len(t) \in Nat
           /\ ToSet(Append(t, x)) = ToSet(t) \cup {x}
    <2>1. ASSUME NEW t \in Seq(Addresses) PROVE ToSet(Append(t, x)) = ToSet(t) \cup {x}
      <3> DEFINE q == Append(t, x)
      <3>1. DOMAIN q = DOMAIN t \cup {Len(t) + 1} /\ q[Len(t) + 1] = x
            /\ \A m \in DOMAIN t : q[m] = t[m]
        BY <1>1, <2>1
      <3> HIDE DEF q
      <3>2. ToSet(q) = ToSet(t) \cup {x}
        BY <3>1 DEF ToSet
      <3> QED
        BY <3>2 DEF q
    <2> QED
      BY <1>1, <2>1
  <1>3. p.addrs = u /\ p.extra = v /\ s[k] = x
    BY DEF u, v, x
  <1>4. CASE IsFirst(s, k)
    <2> DEFINE z == Append(u, x)
    <2> HIDE DEF z
    <2>1. PartStep(p, s, k) = [addrs |-> z, extra |-> v]
      BY <1>3, <1>4 DEF PartStep, z
    <2>2. [p EXCEPT !.addrs = z] = [addrs |-> z, extra |-> v]
      BY <1>1
    <2>3. [p EXCEPT !.addrs = Append(@, s[k])] = [p EXCEPT !.addrs = z]
      BY <1>3 DEF z
    <2>4. z \in Seq(Addresses) /\ Len(z) = Len(u) + 1 /\ Len(u) \in Nat /\ Len(v) \in Nat
          /\ ToSet(z) = ToSet(u) \cup {x}
      BY <1>1, <1>2 DEF z
    <2>5. Q = [addrs |-> z, extra |-> v] /\ Q.addrs = z /\ Q.extra = v
      BY <2>1 DEF Q
    <2>6. Q \in Parts
      BY <1>1, <2>4, <2>5 DEF Parts
    <2>7. Q = [p EXCEPT !.addrs = Append(@, s[k])]
      BY <2>2, <2>3, <2>5
    <2>8. Len(Q.addrs) + Len(Q.extra) = Len(u) + Len(v) + 1
      BY <2>4, <2>5
    <2>9. ToSet(Q.addrs) \cup ToSet(Q.extra) = ToSet(u) \cup ToSet(v) \cup {x}
      BY <2>4, <2>5
    <2> QED
      BY <1>3, <1>4, <2>6, <2>7, <2>8, <2>9 DEF Q
  <1>5. CASE ~IsFirst(s, k)
    <2> DEFINE z == Append(v, x)
    <2> HIDE DEF z
    <2>1. PartStep(p, s, k) = [addrs |-> u, extra |-> z]
      BY <1>3, <1>5 DEF PartStep, z
    <2>2. [p EXCEPT !.extra = z] = [addrs |-> u, extra |-> z]
      BY <1>1
    <2>3. [p EXCEPT !.extra = Append(@, s[k])] = [p EXCEPT !.extra = z]
      BY <1>3 DEF z
    <2>4. z \in Seq(Addresses) /\ Len(z) = Len(v) + 1 /\ Len(u) \in Nat /\ Len(v) \in Nat
          /\ ToSet(z) = ToSet(v) \cup {x}
      BY <1>1, <1>2 DEF z
    <2>5. Q = [addrs |-> u, extra |-> z] /\ Q.addrs = u /\ Q.extra = z
      BY <2>1 DEF Q
    <2>6. Q \in Parts
      BY <1>1, <2>4, <2>5 DEF Parts
    <2>7. Q = [p EXCEPT !.extra = Append(@, s[k])]
      BY <2>2, <2>3, <2>5
    <2>8. Len(Q.addrs) + Len(Q.extra) = Len(u) + Len(v) + 1
      BY <2>4, <2>5
    <2>9. ToSet(Q.addrs) \cup ToSet(Q.extra) = ToSet(u) \cup ToSet(v) \cup {x}
      BY <2>4, <2>5
    <2> QED
      BY <1>3, <1>5, <2>6, <2>7, <2>8, <2>9 DEF Q
  <1> QED
    BY <1>4, <1>5

\* The parts of the first k addresses, as they are made.
LEMMA PartedEquation ==
    ASSUME NEW s \in Seq(Addresses)
    PROVE  /\ PartedUpTo(s)[0] = [addrs |-> <<>>, extra |-> <<>>]
           /\ \A k \in 1 .. Len(s) : PartedUpTo(s)[k] = PartStep(PartedUpTo(s)[k - 1], s, k)
           /\ \A k \in 0 .. Len(s) : PartedUpTo(s)[k] \in Parts
  <1> DEFINE N == Len(s)
             b == [addrs |-> <<>>, extra |-> <<>>]
             change(p, k) == IF IsFirst(s, k) THEN [p EXCEPT !.addrs = Append(@, s[k])]
                             ELSE [p EXCEPT !.extra = Append(@, s[k])]
             step(r, k) == change(r[k - 1], k)
             Solves(r) == r = [k \in 0 .. N |-> IF k = 0 THEN b ELSE step(r, k)]
             g == [k \in 1 .. N |-> [p \in Parts |-> PartStep(p, s, k)]]
  <1>0. N \in Nat /\ <<>> \in Seq(Addresses)
    OBVIOUS
  <1>1. \A k \in 1 .. N, p \in Parts : PartStep(p, s, k) \in Parts /\ PartStep(p, s, k) = change(p, k)
    BY PartFacts
  <1>2. g \in [1 .. N -> [Parts -> Parts]]
    BY <1>1
  <1>3. b \in Parts
    BY <1>0 DEF Parts
  <1> HIDE DEF change
  <1>4. PICK r \in [0 .. N -> Parts] : Chain(r, N, b, g)
    <2> HIDE DEF g, N, b
    <2> QED
      BY <1>0, <1>2, <1>3, Recursion
  <1> HIDE DEF b
  <1>5. ASSUME NEW k \in 1 .. N PROVE r[k] = step(r, k)
    <2>1. r[k] = g[k][r[k - 1]] /\ r[k - 1] \in Parts
      <3> HIDE DEF g
      <3> QED
        BY <1>0, <1>4 DEF Chain
    <2> QED
      BY <1>1, <2>1
  <1>6. Solves(r)
    <2> HIDE DEF step
    <2>1. \A k \in 0 .. N : r[k] = IF k = 0 THEN b ELSE step(r, k)
      BY <1>0, <1>4, <1>5 DEF Chain
    <2> QED
      BY <2>1
  <1> DEFINE F == CHOOSE q : q = [k \in 0 .. N |-> IF k = 0 THEN b ELSE step(q, k)]
  <1>7. PartedUpTo(s) = F
    BY DEF PartedUpTo, b, change
  <1>8. Solves(F)
    <2> HIDE DEF step
    <2> QED
      BY <1>6
  <1> HIDE DEF F
  <1>9. F[0] = b /\ \A k \in 1 .. N : F[k] = step(F, k)
    <2> HIDE DEF step
    <2> QED
      BY <1>0, <1>8
  <1>10. \A k \in 0 .. N : F[k] \in Parts
    <2>1. ASSUME NEW k \in 1 .. N, F[k - 1] \in Parts PROVE F[k] \in Parts
      BY <1>1, <1>9, <2>1
    <2> HIDE DEF step, N
    <2> QED
      BY <1>0, <1>3, <1>9, <2>1, Invariance
  <1>11. \A k \in 1 .. N : F[k] = PartStep(F[k - 1], s, k)
    <2>1. \A k \in 1 .. N : k - 1 \in 0 .. N
      BY <1>0
    <2> QED
      BY <1>1, <1>9, <1>10, <2>1
  <1> QED
    BY <1>7, <1>9, <1>10, <1>11 DEF b

\* Every address is in one part, as often as in the list.
LEMMA PartedFacts ==
    ASSUME NEW s \in Seq(Addresses)
    PROVE  /\ Parted(s) \in Parts
           /\ Len(Parted(s).addrs) + Len(Parted(s).extra) = Len(s)
           /\ ToSet(Parted(s).addrs) \cup ToSet(Parted(s).extra) = ToSet(s)
  <1> DEFINE N == Len(s)
             F == PartedUpTo(s)
             OK(p, k) == /\ Len(p.addrs) + Len(p.extra) = k
                         /\ ToSet(p.addrs) \cup ToSet(p.extra) = {s[m] : m \in 1 .. k}
             U == {k \in 0 .. N : OK(F[k], k)}
  <1>0. N \in Nat /\ DOMAIN s = 1 .. N
    OBVIOUS
  <1> HIDE DEF OK
  <1>1. /\ F[0] = [addrs |-> <<>>, extra |-> <<>>]
        /\ \A k \in 1 .. N : F[k] = PartStep(F[k - 1], s, k)
        /\ \A k \in 0 .. N : F[k] \in Parts
    BY PartedEquation
  <1> HIDE DEF F
  <1>2. 0 \in U
    <2>1. F[0].addrs = <<>> /\ F[0].extra = <<>> /\ Len(<<>>) = 0 /\ DOMAIN <<>> = {}
      BY <1>1
    <2>2. ToSet(<<>>) = {} /\ {s[m] : m \in 1 .. 0} = {}
      BY <2>1 DEF ToSet
    <2>3. Len(F[0].addrs) + Len(F[0].extra) = 0
      BY <2>1
    <2>4. ToSet(F[0].addrs) \cup ToSet(F[0].extra) = {}
      BY <2>1, <2>2
    <2>5. OK(F[0], 0)
      BY <2>2, <2>3, <2>4 DEF OK
    <2> QED
      BY <1>0, <2>5
  <1>3. ASSUME NEW M \in 0 .. N - 1, M \in U PROVE M + 1 \in U
    <2>1. M + 1 \in 1 .. N /\ (M + 1) - 1 = M /\ M + 1 \in 0 .. N
      BY <1>0
    <2>2. F[M] \in Parts /\ OK(F[M], M)
      BY <1>1, <1>3, <2>1
    <2>3. F[M + 1] = PartStep(F[M], s, M + 1)
      BY <1>1, <2>1
    <2> DEFINE p == F[M]
               q == F[M + 1]
    <2> HIDE DEF p, q
    <2>4. /\ Len(q.addrs) + Len(q.extra) = Len(p.addrs) + Len(p.extra) + 1
          /\ ToSet(q.addrs) \cup ToSet(q.extra) = ToSet(p.addrs) \cup ToSet(p.extra) \cup {s[M + 1]}
      <3>1. p \in Parts /\ q = PartStep(p, s, M + 1)
        BY <2>2, <2>3 DEF p, q
      <3> QED
        BY <2>1, <3>1, PartFacts
    <2>5. {s[m] : m \in 1 .. M + 1} = {s[m] : m \in 1 .. M} \cup {s[M + 1]}
      BY <1>0
    <2>6. OK(q, M + 1)
      BY <2>2, <2>4, <2>5 DEF p, OK
    <2> QED
      BY <2>1, <2>6 DEF q
  <1>4. 0 .. N \subseteq U
    <2> HIDE DEF U, N
    <2> QED
      BY <1>0, <1>2, <1>3, Induction
  <1>5. OK(F[N], N) /\ F[N] \in Parts
    BY <1>0, <1>1, <1>4
  <1>6. Parted(s) = F[N]
    BY DEF Parted, F
  <1>7. ToSet(s) = {s[m] : m \in 1 .. N}
    BY <1>0 DEF ToSet
  <1> QED
    BY <1>5, <1>6, <1>7 DEF OK

\* Two sequences one after the other.
LEMMA ConcatFacts ==
    ASSUME NEW S, NEW u \in Seq(S), NEW v \in Seq(S)
    PROVE  /\ u \o v \in Seq(S)
           /\ Len(u \o v) = Len(u) + Len(v)
           /\ ToSet(u \o v) = ToSet(u) \cup ToSet(v)
  <1> DEFINE t == u \o v
             N == Len(u)
             M == Len(v)
  <1>1. N \in Nat /\ M \in Nat /\ DOMAIN u = 1 .. N /\ DOMAIN v = 1 .. M
    OBVIOUS
  <1>2. /\ t \in Seq(S) /\ Len(t) = N + M /\ DOMAIN t = 1 .. N + M
        /\ \A k \in 1 .. N + M : t[k] = IF k <= N THEN u[k] ELSE v[k - N]
    OBVIOUS
  <1> HIDE DEF t, N, M
  <1>3. ASSUME NEW x \in ToSet(t) PROVE x \in ToSet(u) \cup ToSet(v)
    <2>1. PICK k \in 1 .. N + M : x = t[k]
      BY <1>2 DEF ToSet
    <2>2. CASE k <= N
      <3>1. x = u[k] /\ k \in 1 .. N
        BY <1>1, <1>2, <2>1, <2>2
      <3> QED
        BY <1>1, <3>1 DEF ToSet
    <2>3. CASE ~(k <= N)
      <3>1. x = v[k - N] /\ k - N \in 1 .. M
        BY <1>1, <1>2, <2>1, <2>3
      <3> QED
        BY <1>1, <3>1 DEF ToSet
    <2> QED
      BY <2>2, <2>3
  <1>4. ASSUME NEW x \in ToSet(u) PROVE x \in ToSet(t)
    <2>1. PICK k \in 1 .. N : x = u[k]
      BY <1>1 DEF ToSet
    <2>2. k \in 1 .. N + M /\ t[k] = x
      BY <1>1, <1>2, <2>1
    <2> QED
      BY <1>2, <2>2 DEF ToSet
  <1>5. ASSUME NEW x \in ToSet(v) PROVE x \in ToSet(t)
    <2>1. PICK k \in 1 .. M : x = v[k]
      BY <1>1 DEF ToSet
    <2>2. N + k \in 1 .. N + M /\ ~(N + k <= N) /\ (N + k) - N = k
      BY <1>1
    <2>3. t[N + k] = v[(N + k) - N]
      BY <1>2, <2>2
    <2>4. t[N + k] = x
      BY <2>1, <2>2, <2>3
    <2> QED
      BY <1>2, <2>2, <2>4 DEF ToSet
  <1> QED
    BY <1>2, <1>3, <1>4, <1>5 DEF t, N, M

\* What a stanza's addresses are, in the order they are read.
LEMMA AddressesFacts ==
    ASSUME NEW s, s.addrs \in Seq(Addresses), s.extra \in Seq(Addresses)
    PROVE  /\ AddressesOf(s) \in Seq(Addresses)
           /\ Len(AddressesOf(s)) = Len(s.addrs) + Len(s.extra)
           /\ ToSet(AddressesOf(s)) = ToSet(s.addrs) \cup ToSet(s.extra)
  <1> DEFINE u == s.addrs
             v == s.extra
             N == Len(u)
  <1>1. u \in Seq(Addresses) /\ v \in Seq(Addresses) /\ N \in Nat /\ DOMAIN u = 1 .. N
        /\ Len(v) \in Nat
    OBVIOUS
  <1>2. CASE u = <<>>
    <2>1. AddressesOf(s) = v /\ N = 0 /\ DOMAIN u = {}
      BY <1>2 DEF AddressesOf
    <2> QED
      BY <1>1, <2>1 DEF ToSet
  <1>3. CASE u # <<>>
    <2>1. N >= 1
      BY <1>1, <1>3
    <2> DEFINE q == Front(u)
               l == <<Last(u)>>
               z == q \o v
    <2>2. /\ q \in Seq(Addresses) /\ Len(q) = N - 1 /\ DOMAIN q = 1 .. N - 1
          /\ \A k \in 1 .. N - 1 : q[k] = u[k]
      BY <1>1, <2>1 DEF Front
    <2>3. l \in Seq(Addresses) /\ Len(l) = 1 /\ DOMAIN l = {1} /\ l[1] = u[N]
      BY <1>1, <2>1 DEF Last
    <2>4. AddressesOf(s) = z \o l
      BY <1>3 DEF AddressesOf
    <2> HIDE DEF q, l, N
    <2>5. 1 .. N = 1 .. N - 1 \cup {N}
      BY <1>1, <2>1
    <2>6. ToSet(q) \cup ToSet(l) = ToSet(u)
      BY <1>1, <2>2, <2>3, <2>5 DEF ToSet
    <2> HIDE DEF u, v
    <2>7. z \in Seq(Addresses) /\ Len(z) = N - 1 + Len(v) /\ ToSet(z) = ToSet(q) \cup ToSet(v)
      BY <1>1, <2>2, ConcatFacts
    <2> HIDE DEF z
    <2>8. /\ z \o l \in Seq(Addresses) /\ Len(z \o l) = Len(z) + Len(l)
          /\ ToSet(z \o l) = ToSet(z) \cup ToSet(l)
      <3>1. z \in Seq(Addresses) /\ l \in Seq(Addresses)
        BY <2>3, <2>7
      <3> QED
        BY <3>1, ConcatFacts
    <2>9. Len(z \o l) = N + Len(v)
      BY <1>1, <2>3, <2>7, <2>8
    <2> QED
      BY <2>4, <2>6, <2>7, <2>8, <2>9 DEF u, v, N
  <1> QED
    BY <1>2, <1>3

-----------------------------------------------------------------------------
(* Reading a stanza *)

Opened(v) == IF v = Nil THEN NewInterface ELSE v
Fuller(v, f, s) == Extended(Opened(v), f, s)

\* A file is listed once.
LEMMA WithFileFacts ==
    ASSUME NEW fs \in Seq(Files), NEW f \in Files
    PROVE  /\ WithFile(fs, f) \in Seq(Files)
           /\ ToSet(WithFile(fs, f)) = ToSet(fs) \cup {f}
           /\ Listed(fs) => Listed(WithFile(fs, f))
  <1> DEFINE q == Append(fs, f)
  <1>1. CASE f \in ToSet(fs)
    BY <1>1 DEF WithFile
  <1>2. CASE f \notin ToSet(fs)
    <2>1. WithFile(fs, f) = q
      BY <1>2 DEF WithFile
    <2>2. /\ q \in Seq(Files) /\ DOMAIN q = DOMAIN fs \cup {Len(fs) + 1} /\ q[Len(fs) + 1] = f
          /\ Len(fs) \in Nat /\ DOMAIN fs = 1 .. Len(fs) /\ q # <<>>
          /\ \A k \in DOMAIN fs : q[k] = fs[k]
      OBVIOUS
    <2> HIDE DEF q
    <2>3. ToSet(q) = ToSet(fs) \cup {f}
      BY <2>2 DEF ToSet
    <2>4. \A k \in DOMAIN fs : fs[k] # f
      BY <1>2 DEF ToSet
    <2>5. ASSUME Listed(fs) PROVE Listed(q)
      <3>1. 1 \in DOMAIN fs
        BY <2>2, <2>5 DEF Listed
      <3>2. q[1] = Base
        BY <2>2, <2>5, <3>1 DEF Listed
      <3>3. \A m, k \in DOMAIN q : q[m] = q[k] => m = k
        BY <2>2, <2>4, <2>5 DEF Listed
      <3> QED
        BY <2>2, <3>2, <3>3 DEF Listed
    <2> QED
      BY <2>1, <2>2, <2>3, <2>5
  <1> QED
    BY <1>1, <1>2

\* A new interface is of the main file.
LEMMA NewFacts ==
    /\ NewInterface \in Interface /\ NewInterface # Nil
    /\ Listed(NewInterface.files) /\ ToSet(NewInterface.files) = {Base}
  <1> DEFINE l == <<Base>>
  <1>1. Base \in Files /\ Nil \notin Interface
    BY IfUpDownAssumption
  <1>2. l \in Seq(Files) /\ <<>> \in Seq(Addresses) /\ <<>> \in Seq(Servers) /\ <<>> \in Seq(Routes)
        /\ DOMAIN l = {1} /\ l[1] = Base /\ l # <<>>
    BY <1>1
  <1> HIDE DEF l
  <1>3. NewInterface \in Interface /\ NewInterface.files = l
    BY <1>2 DEF NewInterface, Interface, l
  <1>4. Listed(l) /\ ToSet(l) = {Base}
    BY <1>2 DEF Listed, ToSet
  <1> QED
    BY <1>1, <1>3, <1>4

\* One more stanza of an interface.
LEMMA ExtendedFacts ==
    ASSUME NEW r \in Interface, NEW f \in Files, NEW s \in Stanza
    PROVE  /\ Extended(r, f, s) \in Interface
           /\ Extended(r, f, s).files = WithFile(r.files, f)
  <1> DEFINE e == Extended(r, f, s)
  <1>1. /\ r.files \in Seq(Files) /\ r.addrs \in Seq(Addresses) /\ r.dns \in Seq(Servers)
        /\ r.routes \in Seq(Routes) /\ r.gateway \in Gateways \cup {Nil}
        /\ r.dhcp \in BOOLEAN /\ r.ppp \in BOOLEAN
    BY DEF Interface
  <1>2. /\ s.mode \in Mode \cup {Nil} /\ s.addrs \in Seq(Addresses) /\ s.extra \in Seq(Addresses)
        /\ s.gateway \in Gateways \cup {Nil} /\ s.dns \in Seq(Servers) /\ s.routes \in Seq(Routes)
    BY DEF Stanza
  <1>3. AddressesOf(s) \in Seq(Addresses)
    BY <1>2, AddressesFacts
  <1>4. WithFile(r.files, f) \in Seq(Files)
    BY <1>1, WithFileFacts
  <1>5. /\ r.addrs \o AddressesOf(s) \in Seq(Addresses)
        /\ r.dns \o s.dns \in Seq(Servers) /\ r.routes \o s.routes \in Seq(Routes)
    BY <1>1, <1>2, <1>3
  <1> QED
    BY <1>1, <1>2, <1>4, <1>5 DEF Extended, Interface

\* The stanza goes to its interface and to no other.
LEMMA StanzaFacts ==
    ASSUME NEW m \in Memory, NEW f \in Files, NEW s \in Stanza
    PROVE  /\ ReadStanza(m, f, s) \in Memory
           /\ ReadStanza(m, f, s)[s.iface] = Fuller(m[s.iface], f, s)
           /\ \A n \in Iface \ {s.iface} : ReadStanza(m, f, s)[n] = m[n]
           /\ Fuller(m[s.iface], f, s) \in Interface
  <1> DEFINE h == s.iface
             o == Opened(m[h])
             e == Extended(o, f, s)
             q == Ensured(m, h)
  <1>1. h \in Iface
    BY DEF Stanza
  <1>2. o \in Interface
    BY <1>1, NewFacts DEF Opened, Memory
  <1>3. e \in Interface
    BY <1>2, ExtendedFacts
  <1>4. q \in Memory /\ q[h] = o /\ \A n \in Iface \ {h} : q[n] = m[n]
    BY <1>1, NewFacts DEF Ensured, Opened, Memory
  <1>5. ReadStanza(m, f, s) = [q EXCEPT ![h] = Extended(q[h], f, s)]
    BY DEF ReadStanza
  <1>6. ReadStanza(m, f, s) = [q EXCEPT ![h] = e]
    BY <1>4, <1>5
  <1>7. e = Fuller(m[h], f, s)
    BY DEF Fuller
  <1> HIDE DEF h, q, e
  <1>8. [q EXCEPT ![h] = e] \in Memory /\ [q EXCEPT ![h] = e][h] = e
        /\ \A n \in Iface \ {h} : [q EXCEPT ![h] = e][n] = m[n]
    BY <1>1, <1>3, <1>4 DEF Memory
  <1> QED
    BY <1>3, <1>6, <1>7, <1>8 DEF h

-----------------------------------------------------------------------------
(* Reading the files *)

\* The interfaces read from a sourced file, line by line.
LEMMA ReadEquation ==
    ASSUME NEW m \in Memory, NEW f \in Files, NEW text \in Text
    PROVE  /\ ReadUpTo(m, f, text)[0] = m
           /\ \A k \in 1 .. Len(text) :
                ReadUpTo(m, f, text)[k] =
                    IF text[k].kind = "iface"
                    THEN ReadStanza(ReadUpTo(m, f, text)[k - 1], f, text[k])
                    ELSE ReadUpTo(m, f, text)[k - 1]
           /\ \A k \in 0 .. Len(text) : ReadUpTo(m, f, text)[k] \in Memory
  <1> DEFINE N == Len(text)
             line(q, k) == IF text[k].kind = "iface" THEN ReadStanza(q, f, text[k]) ELSE q
             step(r, k) == line(r[k - 1], k)
             Solves(r) == r = [k \in 0 .. N |-> IF k = 0 THEN m ELSE step(r, k)]
             g == [k \in 1 .. N |-> [q \in Memory |-> line(q, k)]]
  <1>0. N \in Nat
    BY DEF Text
  <1>1. \A k \in 1 .. N, q \in Memory : line(q, k) \in Memory
    <2>1. \A k \in 1 .. N : text[k] \in Line
      BY DEF Text
    <2> QED
      BY <2>1, LineFacts, StanzaFacts
  <1> HIDE DEF line
  <1>2. g \in [1 .. N -> [Memory -> Memory]]
    BY <1>1
  <1>3. PICK r \in [0 .. N -> Memory] : Chain(r, N, m, g)
    <2> HIDE DEF g, N
    <2> QED
      BY <1>0, <1>2, Recursion
  <1>4. ASSUME NEW k \in 1 .. N PROVE r[k] = step(r, k)
    <2>1. r[k] = g[k][r[k - 1]] /\ r[k - 1] \in Memory
      <3> HIDE DEF g
      <3> QED
        BY <1>0, <1>3 DEF Chain
    <2> QED
      BY <2>1
  <1>5. Solves(r)
    <2> HIDE DEF step
    <2>1. \A k \in 0 .. N : r[k] = IF k = 0 THEN m ELSE step(r, k)
      BY <1>0, <1>3, <1>4 DEF Chain
    <2> QED
      BY <2>1
  <1> DEFINE F == CHOOSE q : q = [k \in 0 .. N |-> IF k = 0 THEN m ELSE step(q, k)]
  <1>6. ReadUpTo(m, f, text) = F
    BY DEF ReadUpTo, line
  <1>7. Solves(F)
    <2> HIDE DEF step
    <2> QED
      BY <1>5
  <1> HIDE DEF F
  <1>8. F[0] = m /\ \A k \in 1 .. N : F[k] = step(F, k)
    <2> HIDE DEF step
    <2> QED
      BY <1>0, <1>7
  <1>9. \A k \in 0 .. N : F[k] \in Memory
    <2>1. ASSUME NEW k \in 1 .. N, F[k - 1] \in Memory PROVE F[k] \in Memory
      BY <1>1, <1>8, <2>1
    <2> HIDE DEF step, N
    <2> QED
      BY <1>0, <1>8, <2>1, Invariance
  <1> QED
    BY <1>6, <1>8, <1>9 DEF line

\* Every stanza of n in the lines from a to b takes values of I to values of I.
Keeps(I, n, f, text, a, b) ==
    \A k \in a .. b, v \in I : IsOwn(text[k], n) => Fuller(v, f, text[k]) \in I

\* What one line of a text that is read makes of an interface.
LEMMA LineRead ==
    ASSUME NEW m \in Memory, NEW f \in Files, NEW x \in Line, NEW n \in Iface, x.kind = "iface"
    PROVE  /\ IsOwn(x, n) => ReadStanza(m, f, x)[n] = Fuller(m[n], f, x)
           /\ ~IsOwn(x, n) => ReadStanza(m, f, x)[n] = m[n]
  <1>1. x \in Stanza
    BY LineFacts
  <1> QED
    BY <1>1, StanzaFacts DEF IsOwn

\* What is read of an interface from the lines of a sourced file after the a-th.
LEMMA SourcedFrom ==
    ASSUME NEW m \in Memory, NEW f \in Files, NEW text \in Text, NEW n \in Iface, NEW I,
           NEW a \in 0 .. Len(text), ReadUpTo(m, f, text)[a][n] \in I,
           Keeps(I, n, f, text, a + 1, Len(text))
    PROVE  ReadSourced(m, f, text) \in Memory /\ ReadSourced(m, f, text)[n] \in I
  <1> DEFINE N == Len(text)
             F == ReadUpTo(m, f, text)
             U == {k \in 0 .. N : k >= a => F[k][n] \in I}
  <1>0. N \in Nat /\ a \in Nat /\ a <= N /\ \A k \in 1 .. N : text[k] \in Line
    BY DEF Text
  <1>1. /\ F[0] = m
        /\ \A k \in 1 .. N : F[k] = IF text[k].kind = "iface" THEN ReadStanza(F[k - 1], f, text[k])
                                    ELSE F[k - 1]
        /\ \A k \in 0 .. N : F[k] \in Memory
    BY ReadEquation
  <1>2. F[a][n] \in I
    OBVIOUS
  <1> HIDE DEF F
  <1>3. 0 \in U
    BY <1>0, <1>2
  <1>4. ASSUME NEW M \in 0 .. N - 1, M \in U PROVE M + 1 \in U
    <2> DEFINE x == text[M + 1]
    <2>1. M + 1 \in 1 .. N /\ (M + 1) - 1 = M /\ M + 1 \in 0 .. N /\ M \in 0 .. N
      BY <1>0
    <2>2. F[M + 1] = IF x.kind = "iface" THEN ReadStanza(F[M], f, x) ELSE F[M]
      BY <1>1, <2>1
    <2>3. x \in Line /\ F[M] \in Memory
      BY <1>0, <1>1, <2>1
    <2>4. IsOwn(x, n) => x.kind = "iface"
      BY DEF IsOwn
    <2>5. F[M + 1][n] = IF IsOwn(x, n) THEN Fuller(F[M][n], f, x) ELSE F[M][n]
      <3> HIDE DEF x
      <3> QED
        BY <2>2, <2>3, <2>4, LineRead
    <2>6. ASSUME M + 1 >= a PROVE F[M + 1][n] \in I
      <3>1. CASE M + 1 = a
        BY <1>2, <3>1
      <3>2. CASE M >= a
        <4>1. F[M][n] \in I /\ M + 1 \in a + 1 .. N
          BY <1>0, <1>4, <3>2
        <4> QED
          BY <2>5, <4>1 DEF Keeps
      <3> QED
        BY <1>0, <2>6, <3>1, <3>2
    <2> QED
      BY <2>1, <2>6
  <1>5. 0 .. N \subseteq U
    <2> HIDE DEF U, N
    <2> QED
      BY <1>0, <1>3, <1>4, Induction
  <1>6. F[N] \in Memory /\ F[N][n] \in I
    BY <1>0, <1>1, <1>5
  <1> QED
    BY <1>6 DEF ReadSourced, F

\* What is read of an interface from a sourced file.
LEMMA SourcedRead ==
    ASSUME NEW m \in Memory, NEW f \in Files, NEW text \in Text, NEW n \in Iface, NEW I,
           m[n] \in I, Keeps(I, n, f, text, 1, Len(text))
    PROVE  ReadSourced(m, f, text)[n] \in I
  <1>1. ReadUpTo(m, f, text)[0] = m
    BY ReadEquation
  <1>2. 0 \in 0 .. Len(text) /\ 0 + 1 = 1
    BY DEF Text
  <1> QED
    BY <1>1, <1>2, SourcedFrom

\* A sourced file with a stanza of an interface is one of its files.
LEMMA SourcedHit ==
    ASSUME NEW m \in Memory, NEW f \in Files, NEW text \in Text, NEW n \in Iface,
           Mentions(text, n)
    PROVE  ReadSourced(m, f, text)[n] \in {r \in Interface : f \in ToSet(r.files)}
  <1> DEFINE K == {r \in Interface : f \in ToSet(r.files)}
             F == ReadUpTo(m, f, text)
  <1>1. PICK a \in DOMAIN text : IsOwn(text[a], n)
    BY DEF Mentions
  <1>2. /\ a \in 1 .. Len(text) /\ a - 1 \in 0 .. Len(text) /\ a \in 0 .. Len(text)
        /\ Len(text) \in Nat /\ \A k \in 1 .. Len(text) : text[k] \in Line
    BY DEF Text
  <1>3. ASSUME NEW x \in Line, IsOwn(x, n), NEW v \in Interface \cup {Nil}
        PROVE  Fuller(v, f, x) \in K
    <2>1. x \in Stanza
      BY <1>3, LineFacts DEF IsOwn
    <2>2. Opened(v) \in Interface
      BY NewFacts DEF Opened
    <2>3. /\ Fuller(v, f, x) \in Interface
          /\ Fuller(v, f, x).files = WithFile(Opened(v).files, f)
      BY <2>1, <2>2, ExtendedFacts DEF Fuller
    <2>4. Opened(v).files \in Seq(Files)
      BY <2>2 DEF Interface
    <2> QED
      BY <2>3, <2>4, WithFileFacts
  <1>4. F[a][n] \in K
    <2>1. F[a] = ReadStanza(F[a - 1], f, text[a]) /\ F[a - 1] \in Memory /\ text[a] \in Line
      BY <1>1, <1>2, ReadEquation DEF IsOwn
    <2>2. F[a][n] = Fuller(F[a - 1][n], f, text[a])
      <3> HIDE DEF F
      <3> QED
        BY <1>1, <2>1, LineRead DEF IsOwn
    <2>3. F[a - 1][n] \in Interface \cup {Nil}
      BY <2>1 DEF Memory
    <2> HIDE DEF K, F
    <2> QED
      BY <1>1, <1>3, <2>1, <2>2, <2>3
  <1>5. Keeps(K, n, f, text, a + 1, Len(text))
    <2>1. \A k \in a + 1 .. Len(text) : text[k] \in Line
      BY <1>2
    <2>2. K \subseteq Interface
      OBVIOUS
    <2> HIDE DEF K
    <2> QED
      BY <1>3, <2>1, <2>2 DEF Keeps
  <1> HIDE DEF K
  <1>6. ReadSourced(m, f, text)[n] \in K
    BY <1>2, <1>4, <1>5, SourcedFrom
  <1> QED
    BY <1>6 DEF K

\* What one line of the main file makes of the interfaces.
MainLine(m, d, x) ==
    CASE x.kind = "iface" -> ReadStanza(m, Base, x)
      [] x.kind = "source" -> ReadSourced(m, x.file, d[x.file])
      [] x.kind = "auto" -> m

\* The files that are read have texts.
LEMMA ReachedFacts ==
    ASSUME NEW d \in Directory, Readable(d)
    PROVE  /\ Base \in Files /\ d[Base] \in Text /\ Reached(d) \subseteq Files
           /\ \A f \in Reached(d) : d[f] \in Text /\ d[f] # Absent
           /\ \A k \in DOMAIN d[Base] : d[Base][k].kind = "source" =>
                 d[Base][k].file \in Reached(d) /\ d[Base][k].file # Base
           /\ \A f \in Reached(d) : f = Base \/ \E k \in DOMAIN d[Base] :
                 d[Base][k].kind = "source" /\ d[Base][k].file = f
  <1>1. Base \in Files /\ d[Base] # Absent
    BY IfUpDownAssumption DEF Readable
  <1>2. d[Base] \in Text
    BY <1>1 DEF Directory
  <1>3. \A k \in DOMAIN d[Base] : d[Base][k] \in Line
    BY <1>2 DEF Text
  <1>4. \A k \in DOMAIN d[Base] : d[Base][k].kind = "source" =>
           /\ d[Base][k].file \in Files /\ d[Base][k].file # Base
           /\ d[d[Base][k].file] # Absent
    BY <1>3, LineFacts DEF Readable
  <1>5. \A f \in Reached(d) : f \in Files /\ d[f] # Absent
    BY <1>1, <1>4 DEF Reached
  <1>6. \A f \in Reached(d) : d[f] \in Text
    BY <1>5 DEF Directory
  <1>7. /\ \A k \in DOMAIN d[Base] : d[Base][k].kind = "source" => d[Base][k].file \in Reached(d)
        /\ \A f \in Reached(d) : f = Base \/ \E k \in DOMAIN d[Base] :
              d[Base][k].kind = "source" /\ d[Base][k].file = f
    BY DEF Reached
  <1> QED
    BY <1>1, <1>2, <1>4, <1>5, <1>6, <1>7

\* The interfaces read from the files, line by line of the main one.
LEMMA MainEquation ==
    ASSUME NEW d \in Directory, Readable(d)
    PROVE  /\ ReadMainUpTo(d)[0] = [n \in Iface |-> Nil]
           /\ \A k \in 1 .. Len(d[Base]) :
                ReadMainUpTo(d)[k] = MainLine(ReadMainUpTo(d)[k - 1], d, d[Base][k])
           /\ \A k \in 0 .. Len(d[Base]) : ReadMainUpTo(d)[k] \in Memory
  <1> DEFINE N == Len(d[Base])
             m == [n \in Iface |-> Nil]
             line(q, k) == CASE d[Base][k].kind = "iface" -> ReadStanza(q, Base, d[Base][k])
                             [] d[Base][k].kind = "source" ->
                                    ReadSourced(q, d[Base][k].file, d[d[Base][k].file])
                             [] d[Base][k].kind = "auto" -> q
             step(r, k) == line(r[k - 1], k)
             Solves(r) == r = [k \in 0 .. N |-> IF k = 0 THEN m ELSE step(r, k)]
             g == [k \in 1 .. N |-> [q \in Memory |-> line(q, k)]]
  <1>0. d[Base] \in Text /\ N \in Nat /\ Base \in Files
    BY ReachedFacts DEF Text
  <1>1. m \in Memory
    BY DEF Memory
  <1>2. \A k \in 1 .. N, q \in Memory : line(q, k) \in Memory
    <2> SUFFICES ASSUME NEW k \in 1 .. N, NEW q \in Memory PROVE line(q, k) \in Memory
      OBVIOUS
    <2> DEFINE x == d[Base][k]
    <2>1. k \in DOMAIN d[Base] /\ x \in Line
      BY <1>0 DEF Text
    <2>2. CASE x.kind = "iface"
      <3>1. ReadStanza(q, Base, x) \in Memory
        BY <1>0, <2>1, <2>2, LineFacts, StanzaFacts
      <3> QED
        BY <2>2, <3>1
    <2>3. CASE x.kind = "source"
      <3>1. x.file \in Reached(d)
        BY <2>1, <2>3, ReachedFacts
      <3>2. x.file \in Files /\ d[x.file] \in Text
        BY <3>1, ReachedFacts
      <3>3. Len(d[x.file]) \in 0 .. Len(d[x.file])
        BY <3>2 DEF Text
      <3>4. ReadSourced(q, x.file, d[x.file]) \in Memory
        <4> HIDE DEF x
        <4> QED
          BY <3>2, <3>3, ReadEquation DEF ReadSourced
      <3> QED
        BY <2>3, <3>4
    <2>4. CASE x.kind = "auto"
      BY <2>4
    <2> HIDE DEF line
    <2> QED
      BY <2>1, <2>2, <2>3, <2>4, LineFacts
  <1> HIDE DEF line
  <1>3. g \in [1 .. N -> [Memory -> Memory]]
    BY <1>2
  <1> HIDE DEF m
  <1>4. PICK r \in [0 .. N -> Memory] : Chain(r, N, m, g)
    <2> HIDE DEF g, N
    <2> QED
      BY <1>0, <1>1, <1>3, Recursion
  <1>5. ASSUME NEW k \in 1 .. N PROVE r[k] = step(r, k)
    <2>1. r[k] = g[k][r[k - 1]] /\ r[k - 1] \in Memory
      <3> HIDE DEF g
      <3> QED
        BY <1>0, <1>4 DEF Chain
    <2> QED
      BY <2>1
  <1>6. Solves(r)
    <2> HIDE DEF step
    <2>1. \A k \in 0 .. N : r[k] = IF k = 0 THEN m ELSE step(r, k)
      BY <1>0, <1>4, <1>5 DEF Chain
    <2> QED
      BY <2>1
  <1> DEFINE F == CHOOSE q : q = [k \in 0 .. N |-> IF k = 0 THEN m ELSE step(q, k)]
  <1>7. ReadMainUpTo(d) = F
    BY DEF ReadMainUpTo, line, m
  <1>8. Solves(F)
    <2> HIDE DEF step
    <2> QED
      BY <1>6
  <1> HIDE DEF F
  <1>9. F[0] = m /\ \A k \in 1 .. N : F[k] = step(F, k)
    <2>1. F = [k \in 0 .. N |-> IF k = 0 THEN m ELSE step(F, k)]
      BY <1>8
    <2> HIDE DEF step, N
    <2> QED
      BY <1>0, <2>1
  <1>10. \A k \in 0 .. N : F[k] \in Memory
    <2>1. ASSUME NEW k \in 1 .. N, F[k - 1] \in Memory PROVE F[k] \in Memory
      BY <1>2, <1>9, <2>1
    <2> HIDE DEF step, N
    <2> QED
      BY <1>0, <1>1, <1>9, <2>1, Invariance
  <1>11. \A k \in 1 .. N : step(F, k) = MainLine(F[k - 1], d, d[Base][k])
    BY DEF line, MainLine
  <1> QED
    BY <1>7, <1>9, <1>10, <1>11 DEF m

\* The lines of the main file from a to b, and the files they source, take values of I
\* to values of I.
MainKeeps(I, n, d, a, b) ==
    /\ Keeps(I, n, Base, d[Base], a, b)
    /\ \A k \in a .. b : d[Base][k].kind = "source" =>
          Keeps(I, n, d[Base][k].file, d[d[Base][k].file], 1, Len(d[d[Base][k].file]))

\* What is read of an interface from the a-th line of the main file to the b-th.
LEMMA MainFrom ==
    ASSUME NEW d \in Directory, Readable(d), NEW n \in Iface, NEW I,
           NEW a \in 0 .. Len(d[Base]), NEW b \in a .. Len(d[Base]),
           ReadMainUpTo(d)[a][n] \in I, MainKeeps(I, n, d, a + 1, b)
    PROVE  ReadMainUpTo(d)[b][n] \in I
  <1> DEFINE F == ReadMainUpTo(d)
             U == {k \in 0 .. b : k >= a => F[k][n] \in I}
  <1>0. /\ d[Base] \in Text /\ Len(d[Base]) \in Nat /\ Base \in Files /\ a \in Nat /\ b \in Nat
        /\ DOMAIN d[Base] = 1 .. Len(d[Base]) /\ \A k \in DOMAIN d[Base] : d[Base][k] \in Line
    BY ReachedFacts DEF Text
  <1>1. /\ \A k \in 1 .. Len(d[Base]) : F[k] = MainLine(F[k - 1], d, d[Base][k])
        /\ \A k \in 0 .. Len(d[Base]) : F[k] \in Memory
    BY MainEquation
  <1>2. F[a][n] \in I
    OBVIOUS
  <1> HIDE DEF F
  <1>3. 0 \in U
    BY <1>0, <1>2
  <1>4. ASSUME NEW M \in 0 .. b - 1, M \in U PROVE M + 1 \in U
    <2> DEFINE x == d[Base][M + 1]
    <2>1. /\ M + 1 \in 1 .. Len(d[Base]) /\ (M + 1) - 1 = M /\ M + 1 \in 0 .. b
          /\ M \in 0 .. Len(d[Base])
      BY <1>0
    <2>2. F[M + 1] = MainLine(F[M], d, x) /\ F[M] \in Memory /\ x \in Line
      BY <1>0, <1>1, <2>1
    <2> SUFFICES ASSUME M + 1 >= a PROVE F[M + 1][n] \in I
      BY <2>1
    <2>3. CASE M + 1 = a
      BY <1>2, <2>3
    <2>4. CASE M + 1 # a
      <3>1. F[M][n] \in I /\ M + 1 \in a + 1 .. b
        BY <1>0, <1>4, <2>4
      <3>2. CASE x.kind = "iface"
        <4>1. F[M + 1] = ReadStanza(F[M], Base, x)
          BY <2>2, <3>2 DEF MainLine
        <4>2. F[M + 1][n] = IF IsOwn(x, n) THEN Fuller(F[M][n], Base, x) ELSE F[M][n]
          <5> HIDE DEF x
          <5> QED
            BY <1>0, <2>2, <3>2, <4>1, LineRead
        <4> QED
          BY <3>1, <4>2 DEF MainKeeps, Keeps
      <3>3. CASE x.kind = "source"
        <4>1. F[M + 1] = ReadSourced(F[M], x.file, d[x.file])
          BY <2>2, <3>3 DEF MainLine
        <4>2. x.file \in Files /\ d[x.file] \in Text
          BY <1>0, <2>1, <3>3, ReachedFacts
        <4>3. Keeps(I, n, x.file, d[x.file], 1, Len(d[x.file]))
          BY <3>1, <3>3 DEF MainKeeps
        <4> HIDE DEF x
        <4> QED
          BY <2>2, <3>1, <4>1, <4>2, <4>3, SourcedRead
      <3>4. CASE x.kind = "auto"
        <4>1. F[M + 1] = F[M]
          BY <2>2, <3>4 DEF MainLine
        <4> QED
          BY <3>1, <4>1
      <3> QED
        BY <2>2, <3>2, <3>3, <3>4, LineFacts
    <2> QED
      BY <2>3, <2>4
  <1>5. 0 .. b \subseteq U
    <2> HIDE DEF U
    <2> QED
      BY <1>0, <1>3, <1>4, Induction
  <1>6. b \in U
    BY <1>0, <1>5
  <1> QED
    BY <1>0, <1>6 DEF F

\* What is read of an interface from all the files, if every stanza of it keeps to a set.
LEMMA AllRead ==
    ASSUME NEW d \in Directory, Readable(d), NEW n \in Iface, NEW I, Nil \in I,
           \A f \in Reached(d) : Keeps(I, n, f, d[f], 1, Len(d[f]))
    PROVE  ReadFile(d)[n] \in I
  <1>1. d[Base] \in Text /\ Len(d[Base]) \in Nat /\ DOMAIN d[Base] = 1 .. Len(d[Base])
    BY ReachedFacts DEF Text
  <1>2. MainKeeps(I, n, d, 0 + 1, Len(d[Base]))
    <2>1. Base \in Reached(d)
      BY DEF Reached
    <2>2. \A k \in 1 .. Len(d[Base]) : d[Base][k].kind = "source" => d[Base][k].file \in Reached(d)
      BY <1>1, ReachedFacts
    <2> QED
      BY <2>1, <2>2 DEF MainKeeps
  <1>3. ReadMainUpTo(d)[0][n] \in I
    BY MainEquation
  <1>4. 0 \in 0 .. Len(d[Base]) /\ Len(d[Base]) \in 0 .. Len(d[Base])
    BY <1>1
  <1> QED
    BY <1>2, <1>3, <1>4, MainFrom DEF ReadFile

\* A stanza of a file makes an interface one of that file and of those it was of.
LEMMA FullerFacts ==
    ASSUME NEW v \in Interface \cup {Nil}, NEW f \in Files, NEW x \in Line, NEW n, IsOwn(x, n)
    PROVE  /\ Fuller(v, f, x) \in Interface
           /\ ToSet(Fuller(v, f, x).files) = ToSet(Opened(v).files) \cup {f}
           /\ (v # Nil => Listed(v.files)) => Listed(Fuller(v, f, x).files)
           /\ Agrees(Fuller(v, f, x))
  <1>1. x \in Stanza
    BY LineFacts DEF IsOwn
  <1>2. Opened(v) \in Interface /\ ((v # Nil => Listed(v.files)) => Listed(Opened(v).files))
    BY NewFacts DEF Opened
  <1>3. Fuller(v, f, x) \in Interface /\ Fuller(v, f, x).files = WithFile(Opened(v).files, f)
    BY <1>1, <1>2, ExtendedFacts DEF Fuller
  <1>4. Opened(v).files \in Seq(Files)
    BY <1>2 DEF Interface
  <1>5. Agrees(Fuller(v, f, x))
    BY DEF Agrees, Fuller, Extended
  <1> QED
    BY <1>2, <1>3, <1>4, <1>5, WithFileFacts

\* A file of the directory that mentions an interface is one of its files when read.
LEMMA FileIsFound ==
    ASSUME NEW d \in Directory, Readable(d), NEW n \in Iface, NEW f \in Reached(d),
           Mentions(d[f], n)
    PROVE  ReadFile(d)[n] \in {r \in Interface : f \in ToSet(r.files)}
  <1> DEFINE K == {r \in Interface : f \in ToSet(r.files)}
             F == ReadMainUpTo(d)
             N == Len(d[Base])
  <1>0. /\ d[Base] \in Text /\ N \in Nat /\ DOMAIN d[Base] = 1 .. N /\ Base \in Files
        /\ f \in Files /\ d[f] \in Text /\ \A k \in 1 .. N : d[Base][k] \in Line
    BY ReachedFacts DEF Text
  <1>1. ASSUME NEW v \in Interface \cup {Nil}, NEW x \in Line, IsOwn(x, n)
        PROVE  Fuller(v, f, x) \in K
    <2>1. Fuller(v, f, x) \in Interface /\ ToSet(Fuller(v, f, x).files) = ToSet(Opened(v).files) \cup {f}
      BY <1>0, <1>1, FullerFacts
    <2> QED
      BY <2>1
  <1>2. \A g \in Reached(d) : Keeps(K, n, g, d[g], 1, Len(d[g]))
    <2> SUFFICES ASSUME NEW g \in Reached(d), NEW k \in 1 .. Len(d[g]), NEW v \in K,
                        IsOwn(d[g][k], n)
                 PROVE  Fuller(v, g, d[g][k]) \in K
      BY DEF Keeps
    <2>1. g \in Files /\ d[g][k] \in Line
      BY ReachedFacts DEF Text
    <2>2. v \in Interface /\ v # Nil /\ f \in ToSet(v.files)
      BY IfUpDownAssumption
    <2>3. Opened(v) = v
      BY <2>2 DEF Opened
    <2> DEFINE x == d[g][k]
    <2> HIDE DEF x
    <2>4. x \in Line /\ IsOwn(x, n)
      BY <2>1 DEF x
    <2>5. Fuller(v, g, x) \in Interface /\ f \in ToSet(Fuller(v, g, x).files)
      <3>1. v \in Interface \cup {Nil}
        BY <2>2
      <3>2. /\ Fuller(v, g, x) \in Interface
            /\ ToSet(Fuller(v, g, x).files) = ToSet(Opened(v).files) \cup {g}
        BY <2>1, <2>4, <3>1, FullerFacts
      <3> QED
        BY <2>2, <2>3, <3>2
    <2> QED
      BY <2>5 DEF x
  <1>3. \A a \in 0 .. N : MainKeeps(K, n, d, a + 1, N)
    <2> SUFFICES ASSUME NEW a \in 0 .. N PROVE MainKeeps(K, n, d, a + 1, N)
      OBVIOUS
    <2>1. \A k \in a + 1 .. N : k \in 1 .. N
      BY <1>0
    <2>2. Keeps(K, n, Base, d[Base], a + 1, N)
      <3>1. Keeps(K, n, Base, d[Base], 1, N)
        BY <1>2 DEF Reached
      <3> QED
        BY <2>1, <3>1 DEF Keeps
    <2>3. \A k \in 1 .. N : d[Base][k].kind = "source" => d[Base][k].file \in Reached(d)
      BY <1>0, ReachedFacts
    <2> QED
      BY <1>2, <2>1, <2>2, <2>3 DEF MainKeeps
  <1>4. /\ \A k \in 1 .. N : F[k] = MainLine(F[k - 1], d, d[Base][k])
        /\ \A k \in 0 .. N : F[k] \in Memory
    BY MainEquation
  <1>5. \E a \in 1 .. N : F[a][n] \in K
    <2>1. CASE f = Base
      <3>1. PICK a \in 1 .. N : IsOwn(d[Base][a], n)
        BY <1>0, <2>1 DEF Mentions
      <3> DEFINE x == d[Base][a]
      <3>2. F[a] = MainLine(F[a - 1], d, x) /\ F[a - 1] \in Memory /\ x \in Line
        BY <1>0, <1>4
      <3>3. x.kind = "iface" /\ IsOwn(x, n)
        BY <3>1 DEF IsOwn
      <3> HIDE DEF x, F, K
      <3>4. F[a] = ReadStanza(F[a - 1], Base, x)
        BY <3>2, <3>3 DEF MainLine
      <3>5. F[a][n] = Fuller(F[a - 1][n], f, x)
        BY <1>0, <2>1, <3>2, <3>3, <3>4, LineRead
      <3>6. F[a - 1][n] \in Interface \cup {Nil}
        BY <3>2 DEF Memory
      <3> QED
        BY <1>1, <3>2, <3>3, <3>5, <3>6
    <2>2. CASE f # Base
      <3>1. PICK a \in 1 .. N : d[Base][a].kind = "source" /\ d[Base][a].file = f
        BY <1>0, <2>2, ReachedFacts
      <3> DEFINE x == d[Base][a]
      <3>2. F[a] = MainLine(F[a - 1], d, x) /\ F[a - 1] \in Memory
        BY <1>0, <1>4
      <3>3. x.kind = "source" /\ x.file = f
        BY <3>1
      <3> HIDE DEF x, F
      <3>4. F[a] = ReadSourced(F[a - 1], f, d[f])
        BY <3>2, <3>3 DEF MainLine
      <3> QED
        BY <1>0, <3>2, <3>4, SourcedHit
    <2> QED
      BY <2>1, <2>2
  <1>6. PICK a \in 1 .. N : F[a][n] \in K
    BY <1>5
  <1>7. a \in 0 .. N /\ N \in a .. N
    BY <1>0
  <1> HIDE DEF K
  <1>8. F[N][n] \in K
    BY <1>3, <1>6, <1>7, MainFrom
  <1> QED
    BY <1>8 DEF ReadFile, K

\* What a process reads of a directory is what is there.
LEMMA ReadHeld ==
    ASSUME NEW d \in Directory, Readable(d)
    PROVE  /\ ReadFile(d) \in Memory
           /\ \A n \in Iface : ReadFile(d)[n] # Nil =>
                 Listed(ReadFile(d)[n].files) /\ Agrees(ReadFile(d)[n])
           /\ \A n \in Iface : HeldOf(ReadFile(d)[n], d, n)
  <1> DEFINE m == ReadFile(d)
  <1>1. m \in Memory
    <2>1. Len(d[Base]) \in 0 .. Len(d[Base])
      BY ReachedFacts DEF Text
    <2> QED
      BY <2>1, MainEquation DEF ReadFile
  <1> DEFINE L == {r \in Interface : /\ Listed(r.files) /\ Agrees(r)
                                    /\ \A f \in ToSet(r.files) : d[f] # Absent}
             I == L \cup {Nil}
  <1>2. ASSUME NEW n \in Iface PROVE m[n] \in I
    <2>1. \A f \in Reached(d) : Keeps(I, n, f, d[f], 1, Len(d[f]))
      <3> SUFFICES ASSUME NEW f \in Reached(d), NEW k \in 1 .. Len(d[f]), NEW v \in I,
                          IsOwn(d[f][k], n)
                   PROVE  Fuller(v, f, d[f][k]) \in I
        BY DEF Keeps
      <3> DEFINE x == d[f][k]
      <3>1. f \in Files /\ x \in Line /\ d[f] # Absent /\ d[Base] # Absent
        BY ReachedFacts DEF Text, Readable
      <3>2. v \in Interface \cup {Nil} /\ (v # Nil => Listed(v.files))
        OBVIOUS
      <3>3. \A g \in ToSet(Opened(v).files) : d[g] # Absent
        BY <3>1, NewFacts DEF Opened
      <3> HIDE DEF x, I
      <3>4. /\ Fuller(v, f, x) \in Interface /\ Listed(Fuller(v, f, x).files)
            /\ Agrees(Fuller(v, f, x))
            /\ ToSet(Fuller(v, f, x).files) = ToSet(Opened(v).files) \cup {f}
        BY <3>1, <3>2, FullerFacts DEF x
      <3>5. Fuller(v, f, x) \in L
        BY <3>1, <3>3, <3>4
      <3> QED
        BY <3>5 DEF x, I
    <2> HIDE DEF L
    <2>2. Nil \in I
      OBVIOUS
    <2> HIDE DEF I
    <2> QED
      BY <2>1, <2>2, AllRead
  <1>3. ASSUME NEW n \in Iface, m[n] # Nil
        PROVE  /\ Listed(m[n].files) /\ Agrees(m[n])
               /\ \A k \in DOMAIN m[n].files : d[m[n].files[k]] # Absent
    <2> HIDE DEF m
    <2>1. m[n] \in L
      BY <1>2, <1>3
    <2> QED
      BY <2>1 DEF ToSet
  <1>4. ASSUME NEW n \in Iface, NEW f \in Reached(d), Mentions(d[f], n)
        PROVE  m[n] # Nil /\ f \in ToSet(m[n].files)
    <2>1. m[n] \in {r \in Interface : f \in ToSet(r.files)}
      BY <1>4, FileIsFound
    <2> QED
      BY <2>1, IfUpDownAssumption
  <1> QED
    BY <1>1, <1>3, <1>4 DEF HeldOf

-----------------------------------------------------------------------------
(* Reading what was written *)

\* What is written of an interface says what memory does.
LEMMA WriteFacts ==
    ASSUME ifs \in Memory, NEW n \in Iface, ifs[n] # Nil
    PROVE  /\ Writable(n) /\ Write(n) \in Stanza
           /\ Write(n).mode = ifs[n].mode /\ Write(n).gateway = ifs[n].gateway
           /\ Write(n).dns = ifs[n].dns /\ Write(n).routes = ifs[n].routes
           /\ AddressesOf(Write(n)) \in Seq(Addresses)
           /\ Len(AddressesOf(Write(n))) = Len(ifs[n].addrs)
           /\ ToSet(AddressesOf(Write(n))) = ToSet(ifs[n].addrs)
  <1> DEFINE r == ifs[n]
             p == Parted(r.addrs)
             w == Write(n)
  <1>1. r \in Interface
    BY DEF Memory
  <1>2. /\ r.mode \in Mode \cup {Nil} /\ r.addrs \in Seq(Addresses)
        /\ r.gateway \in Gateways \cup {Nil} /\ r.dns \in Seq(Servers) /\ r.routes \in Seq(Routes)
    BY <1>1 DEF Interface
  <1>3. /\ p \in Parts /\ Len(p.addrs) + Len(p.extra) = Len(r.addrs)
        /\ ToSet(p.addrs) \cup ToSet(p.extra) = ToSet(r.addrs)
    <2> HIDE DEF r
    <2> QED
      BY <1>2, PartedFacts
  <1>4. p.addrs \in Seq(Addresses) /\ p.extra \in Seq(Addresses)
    BY <1>3 DEF Parts
  <1>5. w = [kind |-> "iface", iface |-> n, mode |-> r.mode, addrs |-> p.addrs,
             extra |-> p.extra, gateway |-> r.gateway, dns |-> r.dns, routes |-> r.routes]
    BY DEF Write
  <1> HIDE DEF r, p, w
  <1>6. w \in Stanza
    BY <1>2, <1>4, <1>5 DEF Stanza
  <1>7. w.kind = "iface" /\ w.iface = n /\ w.addrs = p.addrs /\ w.extra = p.extra
        /\ w.mode = r.mode /\ w.gateway = r.gateway /\ w.dns = r.dns /\ w.routes = r.routes
    BY <1>5
  <1>8. Writable(n)
    BY <1>6, <1>7 DEF Writable, IsOwn, Line, w
  <1>9. /\ AddressesOf(w) \in Seq(Addresses)
        /\ Len(AddressesOf(w)) = Len(w.addrs) + Len(w.extra)
        /\ ToSet(AddressesOf(w)) = ToSet(w.addrs) \cup ToSet(w.extra)
    BY <1>4, <1>7, AddressesFacts
  <1> QED
    BY <1>3, <1>6, <1>7, <1>8, <1>9 DEF r, w

\* If all stanzas of an interface say the same, that is how it is read.
LEMMA RereadMode ==
    ASSUME NEW d \in Directory, Readable(d), NEW n \in Iface, NEW s,
           Mentions(d[Base], n), \A f \in Reached(d) : OwnIs(d[f], n, s)
    PROVE  /\ ReadFile(d)[n].mode = s.mode
           /\ ReadFile(d)[n].dhcp <=> s.mode # Nil /\ s.mode.method = "dhcp"
           /\ ReadFile(d)[n].ppp <=> s.mode # Nil /\ s.mode.method = "ppp"
  <1> DEFINE b == s.mode # Nil /\ s.mode.method = "dhcp"
             c == s.mode # Nil /\ s.mode.method = "ppp"
             L == {r \in Interface : r.mode = s.mode /\ (r.dhcp <=> b) /\ (r.ppp <=> c)}
             I == L \cup {Nil}
  <1>1. \A f \in Reached(d) : Keeps(I, n, f, d[f], 1, Len(d[f]))
    <2> SUFFICES ASSUME NEW f \in Reached(d), NEW k \in 1 .. Len(d[f]), NEW v \in I,
                        IsOwn(d[f][k], n)
                 PROVE  Fuller(v, f, d[f][k]) \in I
      BY DEF Keeps
    <2>1. f \in Files /\ d[f][k] \in Line /\ k \in DOMAIN d[f]
      BY ReachedFacts DEF Text
    <2>2. d[f][k] = s
      BY <2>1 DEF OwnIs
    <2>3. s \in Line /\ IsOwn(s, n)
      BY <2>1, <2>2
    <2> HIDE DEF b, c
    <2>4. v \in Interface \cup {Nil} /\ (Opened(v).dhcp => b) /\ (Opened(v).ppp => c)
      BY DEF Opened, NewInterface
    <2>5. Fuller(v, f, s) \in Interface
      BY <2>1, <2>3, <2>4, FullerFacts
    <2>6. /\ Fuller(v, f, s).mode = s.mode
          /\ Fuller(v, f, s).dhcp <=> Opened(v).dhcp \/ b
          /\ Fuller(v, f, s).ppp <=> Opened(v).ppp \/ c
      BY DEF Fuller, Extended, b, c
    <2> QED
      BY <2>2, <2>4, <2>5, <2>6
  <1>2. Nil \in I
    OBVIOUS
  <1>3. ReadFile(d)[n] \in I
    <2> HIDE DEF I
    <2> QED
      BY <1>1, <1>2, AllRead
  <1>4. ReadFile(d)[n] # Nil
    <2>1. Base \in Reached(d)
      BY DEF Reached
    <2> QED
      BY <2>1, FileIsFound, IfUpDownAssumption
  <1> QED
    BY <1>3, <1>4

\* A stanza that is the only one of its interface is read as it is.
LEMMA RereadOnce ==
    ASSUME NEW d \in Directory, Readable(d), NEW n \in Iface, NEW s,
           Once(d[Base], n), OwnIs(d[Base], n, s),
           \A f \in Reached(d) \ {Base} : ~Mentions(d[f], n)
    PROVE  ReadFile(d)[n] = Extended(NewInterface, Base, s)
  <1> DEFINE F == ReadMainUpTo(d)
             N == Len(d[Base])
             X == Extended(NewInterface, Base, s)
  <1>1. PICK a \in DOMAIN d[Base] : \A m \in DOMAIN d[Base] : IsOwn(d[Base][m], n) <=> m = a
    BY DEF Once
  <1>2. /\ d[Base] \in Text /\ N \in Nat /\ DOMAIN d[Base] = 1 .. N /\ Base \in Files
        /\ \A k \in 1 .. N : d[Base][k] \in Line
    BY ReachedFacts DEF Text
  <1>3. d[Base][a] = s /\ IsOwn(s, n)
    BY <1>1 DEF OwnIs
  <1>4. ASSUME NEW I, NEW k \in 1 .. N, d[Base][k].kind = "source"
        PROVE  Keeps(I, n, d[Base][k].file, d[d[Base][k].file], 1, Len(d[d[Base][k].file]))
    <2> DEFINE f == d[Base][k].file
    <2>1. f \in Reached(d) \ {Base}
      BY <1>2, <1>4, ReachedFacts
    <2> HIDE DEF f
    <2>2. d[f] \in Text /\ DOMAIN d[f] = 1 .. Len(d[f])
      BY <2>1, ReachedFacts DEF Text
    <2>3. Keeps(I, n, f, d[f], 1, Len(d[f]))
      BY <2>1, <2>2 DEF Keeps, Mentions
    <2> QED
      BY <2>3 DEF f
  <1>5. ASSUME NEW I, NEW b \in 0 .. N, NEW c \in 0 .. N, a \notin b + 1 .. c
        PROVE  MainKeeps(I, n, d, b + 1, c)
    <2>1. \A k \in b + 1 .. c : k \in 1 .. N /\ k # a
      BY <1>2, <1>5
    <2>2. Keeps(I, n, Base, d[Base], b + 1, c)
      BY <1>1, <1>2, <2>1 DEF Keeps
    <2> QED
      BY <1>4, <2>1, <2>2 DEF MainKeeps
  <1>6. /\ F[0] = [h \in Iface |-> Nil]
        /\ F[a] = MainLine(F[a - 1], d, d[Base][a]) /\ F[a - 1] \in Memory
    BY <1>1, <1>2, MainEquation
  <1>7. a \in 1 .. N /\ a - 1 \in 0 .. N /\ 0 \in 0 .. N /\ a \in 0 .. N /\ N \in a .. N
        /\ N \in 0 .. N /\ a - 1 \in 0 .. a - 1 /\ a \notin 0 + 1 .. a - 1 /\ a \notin a + 1 .. N
    BY <1>1, <1>2
  <1>8. F[a - 1][n] \in {Nil}
    <2>1. F[0][n] \in {Nil}
      BY <1>6
    <2>2. MainKeeps({Nil}, n, d, 0 + 1, a - 1)
      BY <1>5, <1>7
    <2>3. a - 1 \in 0 .. Len(d[Base]) /\ 0 \in 0 .. Len(d[Base])
      BY <1>7
    <2> HIDE DEF F, N
    <2> QED
      BY <1>7, <2>1, <2>2, <2>3, MainFrom DEF F
  <1>9. F[a][n] \in {X}
    <2>1. s.kind = "iface" /\ s \in Line
      BY <1>1, <1>2, <1>3 DEF IsOwn
    <2>2. F[a] = ReadStanza(F[a - 1], Base, s)
      BY <1>3, <1>6, <2>1 DEF MainLine
    <2>3. F[a][n] = Fuller(F[a - 1][n], Base, s)
      <3> HIDE DEF F
      <3> QED
        BY <1>2, <1>3, <1>6, <2>1, <2>2, LineRead
    <2> QED
      BY <1>8, <2>3 DEF Fuller, Opened
  <1>10. F[N][n] \in {X}
    <2>1. MainKeeps({X}, n, d, a + 1, N)
      BY <1>5, <1>7
    <2> HIDE DEF X
    <2> QED
      BY <1>7, <1>9, <2>1, MainFrom
  <1> QED
    BY <1>10 DEF ReadFile

\* Read as a new interface's only stanza, what was written is what memory has.
LEMMA ExtendedNew ==
    ASSUME ifs \in Memory, NEW n \in Iface, ifs[n] # Nil
    PROVE  LET r == Extended(NewInterface, Base, Write(n))
           IN  /\ r.mode = ifs[n].mode /\ r.gateway = ifs[n].gateway
               /\ r.dns = ifs[n].dns /\ r.routes = ifs[n].routes
               /\ ToSet(r.addrs) = ToSet(ifs[n].addrs) /\ Len(r.addrs) = Len(ifs[n].addrs)
  <1> DEFINE w == Write(n)
             r == Extended(NewInterface, Base, w)
  <1>1. /\ w \in Stanza /\ w.mode = ifs[n].mode /\ w.gateway = ifs[n].gateway
        /\ w.dns = ifs[n].dns /\ w.routes = ifs[n].routes
        /\ AddressesOf(w) \in Seq(Addresses) /\ Len(AddressesOf(w)) = Len(ifs[n].addrs)
        /\ ToSet(AddressesOf(w)) = ToSet(ifs[n].addrs)
    BY WriteFacts
  <1> HIDE DEF w
  <1>2. w.dns \in Seq(Servers) /\ w.routes \in Seq(Routes)
    BY <1>1 DEF Stanza
  <1>3. <<>> \o AddressesOf(w) = AddressesOf(w) /\ <<>> \o w.dns = w.dns /\ <<>> \o w.routes = w.routes
    BY <1>1, <1>2
  <1>4. /\ r.mode = w.mode /\ r.gateway = w.gateway
        /\ r.addrs = <<>> \o AddressesOf(w) /\ r.dns = <<>> \o w.dns /\ r.routes = <<>> \o w.routes
    BY DEF Extended, NewInterface
  <1> QED
    BY <1>1, <1>3, <1>4 DEF w

-----------------------------------------------------------------------------
(* What a system call does to the files *)

\* The newest backup comes first.
LEMMA Pushed ==
    ASSUME NEW S, NEW s \in Seq(S), NEW x \in S
    PROVE  <<x>> \o s \in Seq(S) /\ <<x>> \o s # <<>> /\ (<<x>> \o s)[1] = x
  <1>1. <<x>> \in Seq(S)
    OBVIOUS
  <1>2. <<x>> \o s \in Seq(S)
    BY <1>1
  <1>3. Len(<<x>> \o s) >= 1 /\ (<<x>> \o s)[1] = x
    OBVIOUS
  <1> QED
    BY <1>2, <1>3

\* A text is written beside a file.
LEMMA WrittenFacts ==
    ASSUME FilesInv, NEW f \in Files, NEW text \in Text, WriteTmp(f, text)
    PROVE  FilesInv' /\ disk' = disk /\ bak' = bak /\ tmp'[f] = text
  BY DEF FilesInv, Directory, WriteTmp

\* A file becomes its newest backup.
LEMMA MovedFacts ==
    ASSUME FilesInv, NEW f \in Files, MoveToBackup(f)
    PROVE  /\ FilesInv' /\ tmp' = tmp
           /\ disk[f] # Absent /\ disk'[f] = Absent
           /\ bak'[f] # <<>> /\ bak'[f][1] = disk[f]
           /\ \A g \in Files \ {f} : disk'[g] = disk[g] /\ bak'[g] = bak[g]
  <1> DEFINE b == <<disk[f]>> \o bak[f]
  <1>1. /\ disk' = [disk EXCEPT ![f] = Absent] /\ bak' = [bak EXCEPT ![f] = b]
        /\ tmp' = tmp /\ disk[f] # Absent
    BY DEF MoveToBackup
  <1>2. disk[f] \in Text /\ bak[f] \in Seq(Text)
    BY <1>1 DEF FilesInv, Directory
  <1>3. b \in Seq(Text) /\ b # <<>> /\ b[1] = disk[f]
    BY <1>2, Pushed
  <1> HIDE DEF b
  <1>4. disk' \in Directory /\ disk'[f] = Absent /\ \A g \in Files \ {f} : disk'[g] = disk[g]
    BY <1>1 DEF FilesInv, Directory
  <1>5. bak' \in [Files -> Seq(Text)] /\ bak'[f] = b /\ \A g \in Files \ {f} : bak'[g] = bak[g]
    BY <1>1, <1>3 DEF FilesInv
  <1> QED
    BY <1>1, <1>3, <1>4, <1>5 DEF FilesInv

\* The new text becomes the file.
LEMMA InstalledFacts ==
    ASSUME FilesInv, NEW f \in Files, MoveInPlace(f)
    PROVE  /\ FilesInv' /\ bak' = bak
           /\ tmp[f] # Absent /\ disk'[f] = tmp[f]
           /\ \A g \in Files \ {f} : disk'[g] = disk[g]
  BY DEF FilesInv, Directory, MoveInPlace

\* Pruning leaves the newest backup where it was.
LEMMA PruneFacts ==
    ASSUME FilesInv, NEW f \in Files, Prune(f)
    PROVE  /\ FilesInv' /\ disk' = disk
           /\ \A g \in Files : bak[g] # <<>> => bak'[g] # <<>> /\ bak'[g][1] = bak[g][1]
  <1> DEFINE s == bak[f]
             p == Pruned(s)
  <1>1. disk' = disk /\ tmp' = tmp /\ (bak' = [bak EXCEPT ![f] = p] \/ bak' = bak)
    BY DEF Prune
  <1>2. s \in Seq(Text) /\ Len(s) \in Nat
    BY DEF FilesInv
  <1>3. p \in Seq(Text) /\ (s # <<>> => p # <<>> /\ p[1] = s[1])
    <2> HIDE DEF s
    <2>1. CASE Retention = 0 \/ Len(s) <= Retention
      BY <1>2, <2>1 DEF Pruned
    <2>2. CASE ~(Retention = 0 \/ Len(s) <= Retention)
      <3>1. p = SubSeq(s, 1, Retention)
        BY <2>2 DEF Pruned
      <3>2. Retention \in Nat \ {0} /\ Retention <= Len(s)
        BY <1>2, <2>2, FilesAssumption
      <3> HIDE DEF p
      <3>3. p \in Seq(Text) /\ Len(p) = Retention /\ p[1] = s[1]
        BY <1>2, <3>1, <3>2
      <3>4. p # <<>>
        BY <3>2, <3>3
      <3> QED
        BY <3>3, <3>4
    <2> QED
      BY <2>1, <2>2
  <1> HIDE DEF p
  <1>4. CASE bak' = bak
    BY <1>1, <1>4 DEF FilesInv
  <1>5. CASE bak' = [bak EXCEPT ![f] = p]
    <2>1. bak' \in [Files -> Seq(Text)] /\ bak'[f] = p /\ \A g \in Files \ {f} : bak'[g] = bak[g]
      BY <1>3, <1>5 DEF FilesInv
    <2> QED
      BY <1>1, <1>3, <2>1 DEF FilesInv
  <1> QED
    BY <1>1, <1>4, <1>5

-----------------------------------------------------------------------------
(* The files of a call *)

\* The file a call is at is not one it is done with, and the main one comes first.
LEMMA FileFacts ==
    ASSUME TypeInv, ControlInv, Saving
    PROVE  /\ fileList \in Seq(Files) /\ Len(fileList) \in Nat \ {0} /\ i \in Nat \ {0}
           /\ \A f : Passed(f) => f \in Files
           /\ i <= Len(fileList) => file \in Files /\ ~Passed(file) /\ (i = 1 <=> file = Base)
           /\ i > 1 => Passed(Base)
  <1> DEFINE l == fileList
  <1>1. ifs[req.iface] # Nil /\ req.iface \in Iface /\ i \in Nat \ {0}
    BY DEF TypeInv, ControlInv
  <1>2. ifs[req.iface] \in Interface /\ Listed(l)
    BY <1>1 DEF TypeInv, Memory, ControlInv, fileList
  <1>3. l \in Seq(Files)
    BY <1>2 DEF Interface, fileList
  <1>4. file = l[i]
    BY DEF file
  <1>5. \A f : Passed(f) <=> \E m \in 1 .. i - 1 : m <= Len(l) /\ l[m] = f
    BY DEF Passed
  <1> HIDE DEF l
  <1>6. Len(l) \in Nat \ {0} /\ DOMAIN l = 1 .. Len(l) /\ 1 \in DOMAIN l
    BY <1>2, <1>3 DEF Listed
  <1>7. \A f : Passed(f) => f \in Files
    <2>1. \A m \in DOMAIN l : l[m] \in Files
      BY <1>3
    <2> QED
      BY <1>1, <1>5, <1>6, <2>1
  <1>8. ASSUME i <= Len(l) PROVE file \in Files /\ ~Passed(file) /\ (i = 1 <=> file = Base)
    <2>1. i \in DOMAIN l
      BY <1>1, <1>6, <1>8
    <2>2. \A m \in 1 .. i - 1 : m \in DOMAIN l /\ m # i
      BY <1>1, <1>6, <1>8
    <2> QED
      BY <1>2, <1>3, <1>4, <1>5, <1>6, <2>1, <2>2 DEF Listed
  <1>9. ASSUME i > 1 PROVE Passed(Base)
    <2>1. 1 \in 1 .. i - 1 /\ 1 <= Len(l)
      BY <1>1, <1>6, <1>9
    <2> QED
      BY <1>2, <1>5, <2>1 DEF Listed
  <1> QED
    BY <1>1, <1>3, <1>6, <1>7, <1>8, <1>9 DEF l

\* In the next state of a call, the same files have been passed, and the one it was at.
LEMMA PassedNext ==
    ASSUME TypeInv, ifs' = ifs, req' = req
    PROVE  /\ fileList' = fileList
           /\ i' = i => file' = file /\ \A f : (Passed(f)' <=> Passed(f)) /\ (InHand(f)' <=> InHand(f))
           /\ i' = i + 1 /\ i <= Len(fileList) => \A f : Passed(f)' <=> Passed(f) \/ f = file
  <1> DEFINE l == fileList
  <1>0. i \in Nat \ {0}
    BY DEF TypeInv
  <1>1. l' = l /\ file = l[i] /\ file' = l'[i']
    BY DEF fileList, file
  <1>2. \A f : /\ Passed(f) <=> \E m \in 1 .. i - 1 : m <= Len(l) /\ l[m] = f
               /\ InHand(f) <=> i <= Len(l) /\ f = file
    BY DEF Passed, InHand
  <1>3. \A f : /\ Passed(f)' <=> \E m \in 1 .. i' - 1 : m <= Len(l') /\ l'[m] = f
               /\ InHand(f)' <=> i' <= Len(l') /\ f = file'
    BY DEF Passed, InHand
  <1>4. l = fileList /\ l' = fileList'
    OBVIOUS
  <1> HIDE DEF l
  <1>5. i' = i => file' = file /\ \A f : (Passed(f)' <=> Passed(f)) /\ (InHand(f)' <=> InHand(f))
    BY <1>1, <1>2, <1>3
  <1>6. ASSUME i' = i + 1, i <= Len(l), NEW f PROVE Passed(f)' <=> Passed(f) \/ f = file
    <2>1. \A m : m \in 1 .. (i + 1) - 1 <=> m \in 1 .. i - 1 \/ m = i
      BY <1>0
    <2>2. Passed(f)' <=> \E m \in 1 .. (i + 1) - 1 : m <= Len(l) /\ l[m] = f
      BY <1>1, <1>3, <1>6
    <2> QED
      BY <1>1, <1>2, <1>6, <2>1, <2>2
  <1> QED
    BY <1>1, <1>4, <1>5, <1>6

-----------------------------------------------------------------------------
(* The steps *)

\* Nothing has been done to the directory yet.
LEMMA Fresh ==
    ASSUME disk = pre
    PROVE  NothingIsLost /\ OthersKept
  BY DEF NothingIsLost, OthersKept

\* The files are read before the first call.
LEMMA InitInv == ASSUME Init PROVE IfUpDownInv
  <1>1. disk \in Directory /\ Readable(disk) /\ pre = disk
    BY IfUpDownAssumption DEF Init, Directory
  <1>2. FilesInv
    BY <1>1 DEF Init, FilesInv, Directory
  <1>3. /\ ifs \in Memory /\ \A n \in Iface : ifs[n] # Nil => Listed(ifs[n].files)
        /\ Held(disk) /\ AllAgree
    <2>1. ifs = ReadFile(disk)
      BY DEF Init
    <2> QED
      BY <1>1, <2>1, ReadHeld DEF Held, AllAgree
  <1>4. req.iface \in Iface
    BY IfUpDownAssumption DEF Init
  <1>5. TypeInv
    BY <1>1, <1>2, <1>3, <1>4 DEF Init, TypeInv
  <1>6. ControlInv /\ PlaceInv /\ ContentInv
    BY <1>3 DEF Init, ControlInv, PlaceInv, ContentInv, Saving
  <1>7. ~Succeeded
    BY DEF Init, Succeeded
  <1> QED
    BY <1>1, <1>5, <1>6, <1>7, Fresh DEF IfUpDownInv, ReadsBackAsHeld, DHCPAsAsked

\* What a call makes of memory: an interface it has keeps its files, and one more is of
\* the main file.
Grown ==
    /\ ifs' \in Memory /\ AllAgree'
    /\ \A n \in Iface : IF ifs[n] = Nil THEN ifs'[n] # Nil => ifs'[n].files = <<Base>>
                        ELSE ifs'[n] # Nil /\ ifs'[n].files = ifs[n].files

\* Memory still has the files of a directory.
LEMMA GrownHeld ==
    ASSUME Grown, NEW d, Held(d)
    PROVE  \A n \in Iface : HeldOf(ifs'[n], d, n)
  <1> SUFFICES ASSUME NEW n \in Iface PROVE HeldOf(ifs'[n], d, n)
    OBVIOUS
  <1>1. HeldOf(ifs[n], d, n) /\ d[Base] # Absent
    BY DEF Held, Readable
  <1>2. CASE ifs[n] # Nil
    BY <1>1, <1>2 DEF Grown, HeldOf
  <1>3. CASE ifs[n] = Nil
    <2> DEFINE l == <<Base>>
    <2>1. DOMAIN l = {1} /\ l[1] = Base
      OBVIOUS
    <2> HIDE DEF l
    <2>2. ifs'[n] # Nil => ifs'[n].files = l
      BY <1>3 DEF Grown, l
    <2>3. \A k \in DOMAIN l : d[l[k]] # Absent
      BY <1>1, <2>1
    <2> QED
      BY <1>1, <1>3, <2>2, <2>3 DEF HeldOf
  <1> QED
    BY <1>2, <1>3

\* A call that is refused, has nothing to do or begins to save.
LEMMA BeginKeeps ==
    ASSUME IfUpDownInv, NEW op, NEW n \in Iface, NEW on, Begin(op, n, on), Grown,
           \/ pc' = pc /\ ret' = "refused"
           \/ pc' = pc /\ ifs'[n] = Nil /\ op # "SetIfaceDHCP"
           \/ pc' = "write" /\ ifs'[n] # Nil /\ LeaseAsked'
    PROVE  IfUpDownInv'
  <1>1. /\ pc = "idle" /\ req' = [op |-> op, iface |-> n, on |-> on] /\ pre' = disk /\ i' = 1
        /\ disk' = disk /\ tmp' = tmp /\ bak' = bak /\ faulted' = faulted
    BY DEF Begin, files
  <1>2. req'.iface = n /\ req'.op = op
    BY <1>1
  <1>3. TypeInv'
    BY <1>1, <1>2 DEF IfUpDownInv, TypeInv, FilesInv, Grown, Saving
  <1>4. ControlInv'
    <2>1. ASSUME NEW m \in Iface, ifs'[m] # Nil PROVE Listed(ifs'[m].files)
      <3>1. CASE ifs[m] = Nil
        <4>1. ifs'[m].files = NewInterface.files
          BY <2>1, <3>1 DEF Grown, NewInterface
        <4> QED
          BY <4>1, NewFacts
      <3>2. CASE ifs[m] # Nil
        BY <3>2 DEF Grown, IfUpDownInv, ControlInv
      <3> QED
        BY <3>1, <3>2
    <2>2. pc' \in {"idle", "write"}
      BY <1>1
    <2>3. pc' = "write" => ifs'[n] # Nil
      BY <1>1
    <2>4. AllAgree'
      BY DEF Grown
    <2> QED
      BY <1>2, <2>1, <2>2, <2>3, <2>4 DEF ControlInv, Saving
  <1>5. \A f : ~Done(f)' /\ pc' \in {"idle", "write"}
    <2>1. \A m : m \notin 1 .. i' - 1
      BY <1>1
    <2> QED
      BY <1>1, <2>1 DEF Done, Passed
  <1>6. PlaceInv'
    BY <1>1, <1>5 DEF PlaceInv
  <1>7. ~faulted => ContentInv'
    <2> SUFFICES ASSUME ~faulted PROVE ContentInv'
      OBVIOUS
    <2>1. Held(disk)
      BY <1>1 DEF IfUpDownInv, ContentInv
    <2>2. Held(disk)' /\ Held(pre)'
      BY <1>1, <2>1, GrownHeld DEF Held
    <2>3. pc' = "write" => LeaseAsked'
      BY <1>1
    <2> QED
      BY <1>5, <2>2, <2>3 DEF ContentInv, Saving
  <1>8. NothingIsLost' /\ OthersKept'
    <2>1. disk' = pre'
      BY <1>1
    <2>2. (disk = pre)' => NothingIsLost' /\ OthersKept'
      BY Fresh, PTL
    <2> QED
      BY <2>1, <2>2
  <1>9. ReadsBackAsHeld' /\ DHCPAsAsked'
    BY <1>1, <1>2 DEF ReadsBackAsHeld, DHCPAsAsked, Succeeded
  <1> QED
    BY <1>1, <1>3, <1>4, <1>6, <1>7, <1>8, <1>9 DEF IfUpDownInv

\* A field of one interface is set.
LEMMA SetFacts ==
    ASSUME ifs \in Memory, AllAgree, NEW n \in Iface, NEW r \in Interface, Agrees(r),
           IF ifs[n] = Nil THEN r.files = <<Base>> ELSE r.files = ifs[n].files
    PROVE  ifs' = [ifs EXCEPT ![n] = r] => Grown /\ ifs'[n] = r /\ r # Nil
  <1>1. r # Nil
    BY IfUpDownAssumption
  <1>2. /\ [ifs EXCEPT ![n] = r] \in Memory /\ [ifs EXCEPT ![n] = r][n] = r
        /\ \A m \in Iface \ {n} : [ifs EXCEPT ![n] = r][m] = ifs[m]
    BY DEF Memory
  <1>3. ASSUME ifs' = [ifs EXCEPT ![n] = r] PROVE AllAgree'
    <2>1. \A m \in Iface : ifs'[m] = r \/ ifs'[m] = ifs[m]
      BY <1>2, <1>3
    <2> QED
      BY <2>1 DEF AllAgree
  <1> QED
    BY <1>1, <1>2, <1>3 DEF Grown

\* An interface is there once it is ensured.
LEMMA EnsuredFacts ==
    ASSUME ifs \in Memory, AllAgree, NEW n \in Iface
    PROVE  /\ Agrees(Opened(ifs[n]))
           /\ Ensured(ifs, n) \in Memory /\ Ensured(ifs, n)[n] = Opened(ifs[n])
           /\ Ensured(ifs, n) = [ifs EXCEPT ![n] = Opened(ifs[n])]
           /\ Opened(ifs[n]) \in Interface
           /\ IF ifs[n] = Nil THEN Opened(ifs[n]).files = <<Base>>
              ELSE Opened(ifs[n]).files = ifs[n].files
  <1>1. CASE ifs[n] = Nil
    <2>1. Opened(ifs[n]) = NewInterface /\ Ensured(ifs, n) = [ifs EXCEPT ![n] = NewInterface]
      BY <1>1 DEF Opened, Ensured
    <2>2. NewInterface.files = <<Base>> /\ Agrees(NewInterface)
      BY DEF NewInterface, Agrees
    <2> QED
      BY <1>1, <2>1, <2>2, NewFacts DEF Memory
  <1>2. CASE ifs[n] # Nil
    <2>1. Opened(ifs[n]) = ifs[n] /\ Ensured(ifs, n) = ifs
      BY <1>2 DEF Opened, Ensured
    <2>2. ifs[n] \in Interface /\ [ifs EXCEPT ![n] = ifs[n]] = ifs /\ Agrees(ifs[n])
      BY <1>2 DEF Memory, AllAgree
    <2> QED
      BY <1>2, <2>1, <2>2
  <1> QED
    BY <1>1, <1>2

\* The addresses and gateway of an interface are set.
LEMMA SetIfaceAddressesKeeps == ASSUME IfUpDownInv, SetIfaceAddresses PROVE IfUpDownInv'
  <1>1. PICK n \in Iface, addrs \in AddressLists, g \in Gateways \cup {Nil} :
          /\ Begin("SetIfaceAddresses", n, {})
          /\ \/ ifs[n] = Nil /\ ret' = "ok" /\ UNCHANGED <<ifs, pc>>
             \/ ifs[n] # Nil /\ Leased(ifs[n]) /\ Refuse(ifs)
             \/ /\ ifs[n] # Nil /\ ~Leased(ifs[n])
                /\ SaveWith([ifs EXCEPT ![n].addrs = addrs, ![n].gateway = g])
    BY DEF SetIfaceAddresses
  <1>2. ifs \in Memory /\ AllAgree
    BY DEF IfUpDownInv, TypeInv, ControlInv
  <1>3. CASE ifs' = ifs /\ pc' = pc
    <2>1. Grown
      BY <1>2, <1>3 DEF Grown, Memory, AllAgree
    <2>2. CASE ret' = "refused"
      BY <1>1, <1>3, <2>1, <2>2, BeginKeeps
    <2>3. CASE ifs[n] = Nil
      BY <1>1, <1>3, <2>1, <2>3, BeginKeeps
    <2>4. ret' = "refused" \/ ifs[n] = Nil
      BY <1>1, <1>3 DEF Refuse, SaveWith, Begin
    <2> QED
      BY <2>2, <2>3, <2>4
  <1>4. CASE ifs[n] # Nil /\ ~Leased(ifs[n]) /\ SaveWith([ifs EXCEPT ![n].addrs = addrs, ![n].gateway = g])
    <2> DEFINE q == ifs[n]
               r == [q EXCEPT !.addrs = addrs, !.gateway = g]
    <2>1. q \in Interface
      BY <1>2, <1>4 DEF Memory
    <2>2. addrs \in Seq(Addresses)
      BY IfUpDownAssumption
    <2>3. /\ r \in Interface /\ r.files = q.files
          /\ r.mode = q.mode /\ r.dhcp = q.dhcp /\ r.ppp = q.ppp
      <3> HIDE DEF q
      <3> QED
        BY <2>1, <2>2 DEF Interface
    <2>4. ifs' = [ifs EXCEPT ![n] = r]
      BY <1>4 DEF SaveWith
    <2> HIDE DEF r
    <2>5. Agrees(r) /\ ~r.dhcp /\ ~r.ppp
      BY <1>2, <1>4, <2>3 DEF AllAgree, Agrees, Leased
    <2>6. Grown /\ ifs'[n] # Nil /\ ifs'[n] = r
      BY <1>2, <1>4, <2>3, <2>4, <2>5, SetFacts
    <2>7. LeaseAsked'
      BY <1>1, <2>5, <2>6 DEF Begin, LeaseAsked
    <2> QED
      BY <1>1, <1>4, <2>6, <2>7, BeginKeeps DEF SaveWith
  <1> QED
    BY <1>1, <1>3, <1>4 DEF Refuse

\* The routes of an interface are set.
LEMMA SetIfaceRoutesKeeps == ASSUME IfUpDownInv, SetIfaceRoutes PROVE IfUpDownInv'
  <1>1. PICK n \in Iface, routes \in RouteLists :
          /\ Begin("SetIfaceRoutes", n, {})
          /\ \/ ifs[n] = Nil /\ ret' = "ok" /\ UNCHANGED <<ifs, pc>>
             \/ ifs[n] # Nil /\ Leased(ifs[n]) /\ Refuse(ifs)
             \/ /\ ifs[n] # Nil /\ ~Leased(ifs[n])
                /\ SaveWith([ifs EXCEPT ![n].routes = routes])
    BY DEF SetIfaceRoutes
  <1>2. ifs \in Memory /\ AllAgree
    BY DEF IfUpDownInv, TypeInv, ControlInv
  <1>3. CASE ifs' = ifs /\ pc' = pc
    <2>1. Grown
      BY <1>2, <1>3 DEF Grown, Memory, AllAgree
    <2>2. CASE ret' = "refused"
      BY <1>1, <1>3, <2>1, <2>2, BeginKeeps
    <2>3. CASE ifs[n] = Nil
      BY <1>1, <1>3, <2>1, <2>3, BeginKeeps
    <2>4. ret' = "refused" \/ ifs[n] = Nil
      BY <1>1, <1>3 DEF Refuse, SaveWith, Begin
    <2> QED
      BY <2>2, <2>3, <2>4
  <1>4. CASE ifs[n] # Nil /\ ~Leased(ifs[n]) /\ SaveWith([ifs EXCEPT ![n].routes = routes])
    <2> DEFINE q == ifs[n]
               r == [q EXCEPT !.routes = routes]
    <2>1. q \in Interface
      BY <1>2, <1>4 DEF Memory
    <2>2. routes \in Seq(Routes)
      BY IfUpDownAssumption
    <2>3. /\ r \in Interface /\ r.files = q.files
          /\ r.mode = q.mode /\ r.dhcp = q.dhcp /\ r.ppp = q.ppp
      <3> HIDE DEF q
      <3> QED
        BY <2>1, <2>2 DEF Interface
    <2>4. ifs' = [ifs EXCEPT ![n] = r]
      BY <1>4 DEF SaveWith
    <2> HIDE DEF r
    <2>5. Agrees(r) /\ ~r.dhcp /\ ~r.ppp
      BY <1>2, <1>4, <2>3 DEF AllAgree, Agrees, Leased
    <2>6. Grown /\ ifs'[n] # Nil /\ ifs'[n] = r
      BY <1>2, <1>4, <2>3, <2>4, <2>5, SetFacts
    <2>7. LeaseAsked'
      BY <1>1, <2>5, <2>6 DEF Begin, LeaseAsked
    <2> QED
      BY <1>1, <1>4, <2>6, <2>7, BeginKeeps DEF SaveWith
  <1> QED
    BY <1>1, <1>3, <1>4 DEF Refuse

\* A call that ensures its interface and is refused.
LEMMA RefusedKeeps ==
    ASSUME IfUpDownInv, NEW op, NEW n \in Iface, NEW on, Begin(op, n, on),
           Refuse(Ensured(ifs, n))
    PROVE  IfUpDownInv'
  <1>1. /\ ifs \in Memory /\ AllAgree
        /\ ifs' = Ensured(ifs, n) /\ ret' = "refused" /\ pc' = pc
    BY DEF IfUpDownInv, TypeInv, ControlInv, Refuse
  <1>2. Grown
    BY <1>1, EnsuredFacts, SetFacts
  <1> QED
    BY <1>1, <1>2, BeginKeeps

\* One that is not sets what it has of the interface.
LEMMA SavedKeeps ==
    ASSUME IfUpDownInv, NEW op, NEW n \in Iface, NEW on, Begin(op, n, on),
           NEW r \in Interface, r.files = Opened(ifs[n]).files, Agrees(r),
           SaveWith([Ensured(ifs, n) EXCEPT ![n] = r]), LeaseAsked'
    PROVE  IfUpDownInv'
  <1>1. ifs \in Memory /\ AllAgree
    BY DEF IfUpDownInv, TypeInv, ControlInv
  <1>2. [Ensured(ifs, n) EXCEPT ![n] = r] = [ifs EXCEPT ![n] = r]
    <2> DEFINE o == Opened(ifs[n])
    <2>1. Ensured(ifs, n) = [ifs EXCEPT ![n] = o]
      BY <1>1, EnsuredFacts
    <2> HIDE DEF o
    <2> QED
      BY <1>1, <2>1 DEF Memory
  <1>3. ifs' = [ifs EXCEPT ![n] = r] /\ pc' = "write"
    BY <1>2 DEF SaveWith
  <1>4. IF ifs[n] = Nil THEN r.files = <<Base>> ELSE r.files = ifs[n].files
    BY <1>1, EnsuredFacts
  <1>5. Grown /\ ifs'[n] # Nil
    BY <1>1, <1>3, <1>4, SetFacts
  <1> QED
    BY <1>3, <1>5, BeginKeeps

\* The servers of an interface are set.
LEMMA SetIfaceDNSKeeps == ASSUME IfUpDownInv, SetIfaceDNS PROVE IfUpDownInv'
  <1>1. PICK n \in Iface, servers \in ServerLists :
          /\ Begin("SetIfaceDNS", n, {})
          /\ \/ Refuse(Ensured(ifs, n))
             \/ /\ ~Leased(Ensured(ifs, n)[n])
                /\ SaveWith([Ensured(ifs, n) EXCEPT ![n].dns = servers])
    BY DEF SetIfaceDNS
  <1>2. CASE Refuse(Ensured(ifs, n))
    BY <1>1, <1>2, RefusedKeeps
  <1>3. CASE /\ ~Leased(Ensured(ifs, n)[n])
             /\ SaveWith([Ensured(ifs, n) EXCEPT ![n].dns = servers])
    <2> DEFINE q == Opened(ifs[n])
               r == [q EXCEPT !.dns = servers]
    <2>1. q \in Interface /\ Ensured(ifs, n)[n] = q /\ Agrees(q) /\ ifs \in Memory /\ AllAgree
      BY EnsuredFacts DEF IfUpDownInv, TypeInv, ControlInv
    <2>2. servers \in Seq(Servers)
      BY IfUpDownAssumption
    <2> HIDE DEF q
    <2>3. /\ r \in Interface /\ r.files = q.files
          /\ r.mode = q.mode /\ r.dhcp = q.dhcp /\ r.ppp = q.ppp
      BY <2>1, <2>2 DEF Interface
    <2>4. SaveWith([Ensured(ifs, n) EXCEPT ![n] = r])
      <3>1. [Ensured(ifs, n) EXCEPT ![n].dns = servers] = [Ensured(ifs, n) EXCEPT ![n] = r]
        BY <2>1
      <3> QED
        BY <1>3, <3>1
    <2>5. Agrees(r) /\ ~r.dhcp /\ ~r.ppp
      BY <1>3, <2>1, <2>3 DEF Agrees, Leased
    <2> HIDE DEF r
    <2>6. LeaseAsked'
      <3>1. req'.iface = n /\ req'.op = "SetIfaceDNS"
        BY <1>1 DEF Begin
      <3>2. ifs'[n] = r
        BY <2>1, <2>4, EnsuredFacts DEF SaveWith, Memory
      <3> QED
        BY <2>5, <3>1, <3>2 DEF LeaseAsked
    <2> QED
      BY <1>1, <2>3, <2>4, <2>5, <2>6, SavedKeeps DEF q
  <1> QED
    BY <1>1, <1>2, <1>3

\* What a request that is not refused makes of an interface is what was asked.
LEMMA SwitchedFacts ==
    ASSUME NEW r \in Interface, NEW on \in SUBSET Families, ~Refuses(r, on), Agrees(r)
    PROVE  LET q == Switched(r, on)
           IN  /\ q \in Interface /\ q.files = r.files
               /\ on = IF q.mode # Nil /\ q.mode.method = "dhcp" THEN {q.mode.fam} ELSE {}
               /\ Agrees(q) /\ ~q.ppp
               /\ q.dhcp => on = {} \/ (q.mode # Nil /\ q.mode.method = "dhcp")
  <1> DEFINE q == Switched(r, on)
  <1>1. r.mode \in Mode \cup {Nil} /\ Nil \notin Mode /\ ~r.ppp
    BY IfUpDownAssumption DEF Interface, Refuses
  <1>2. CASE r.mode = Nil
    <2> DEFINE v == IF on = {} THEN [fam |-> "inet", method |-> "static"]
                    ELSE [fam |-> CHOOSE f \in on : TRUE, method |-> "dhcp"]
               h == on # {}
    <2>1. on # Families
      BY <1>2 DEF Refuses
    <2>2. /\ v \in Mode /\ v.method # "ppp"
          /\ on = IF v.method = "dhcp" THEN {v.fam} ELSE {}
      <3>1. CASE on = {}
        BY <3>1 DEF Mode, Families
      <3>2. CASE on # {}
        <4>1. (CHOOSE f \in on : TRUE) \in on
          BY <3>2
        <4>2. on = {CHOOSE f \in on : TRUE}
          BY <2>1, <4>1 DEF Families
        <4> QED
          BY <3>2, <4>1, <4>2 DEF Mode
      <3> QED
        BY <3>1, <3>2
    <2>3. q = [r EXCEPT !.mode = v, !.dhcp = h]
      BY <1>2 DEF Switched
    <2>4. h \in BOOLEAN /\ (h <=> on # {})
      OBVIOUS
    <2> HIDE DEF v, h, q
    <2>5. /\ q \in Interface /\ q.files = r.files /\ q.mode = v
          /\ q.dhcp = h /\ q.ppp = r.ppp
      BY <2>2, <2>3, <2>4 DEF Interface
    <2>6. Agrees(q) /\ ~q.ppp /\ (q.dhcp => on = {} \/ (q.mode # Nil /\ q.mode.method = "dhcp"))
      BY <1>1, <2>2, <2>4, <2>5 DEF Agrees
    <2> QED
      BY <1>1, <2>2, <2>5, <2>6 DEF q
  <1>3. CASE r.mode # Nil
    <2> DEFINE m == r.mode
    <2>1. m \in Mode /\ m.fam \in Families /\ m.method \in {"static", "dhcp"} /\ on \subseteq {m.fam}
      BY <1>1, <1>3 DEF Refuses, Mode
    <2>2. CASE on # {} /\ m.method # "dhcp"
      <3> DEFINE v == [m EXCEPT !.method = "dhcp"]
      <3>1. v \in Mode /\ v.fam = m.fam /\ v.method = "dhcp"
        <4> HIDE DEF m
        <4> QED
          BY <2>1 DEF Mode
      <3>2. q = [r EXCEPT !.mode.method = "dhcp", !.dhcp = TRUE]
        BY <1>3, <2>2 DEF Switched
      <3>3. q = [r EXCEPT !.mode = v, !.dhcp = TRUE]
        BY <3>2
      <3> HIDE DEF v, q, m
      <3>4. /\ q \in Interface /\ q.files = r.files /\ q.mode = v
            /\ q.dhcp = TRUE /\ q.ppp = r.ppp
        BY <3>1, <3>3 DEF Interface
      <3>5. Agrees(q) /\ ~q.ppp /\ q.mode # Nil /\ q.mode.method = "dhcp"
        BY <1>1, <3>1, <3>4 DEF Agrees
      <3> QED
        BY <1>1, <2>1, <2>2, <3>1, <3>4, <3>5 DEF q
    <2>3. CASE on = {} /\ m.method = "dhcp"
      <3> DEFINE v == [m EXCEPT !.method = "static"]
      <3>1. v \in Mode /\ v.method = "static"
        <4> HIDE DEF m
        <4> QED
          BY <2>1 DEF Mode
      <3>2. q = [r EXCEPT !.mode.method = "static", !.dhcp = FALSE]
        BY <1>3, <2>3 DEF Switched
      <3>3. q = [r EXCEPT !.mode = v, !.dhcp = FALSE]
        BY <3>2
      <3> HIDE DEF v, q, m
      <3>4. /\ q \in Interface /\ q.files = r.files /\ q.mode = v
            /\ q.ppp = r.ppp
        BY <3>1, <3>3 DEF Interface
      <3>5. Agrees(q) /\ ~q.ppp
        BY <1>1, <3>1, <3>4 DEF Agrees
      <3> QED
        BY <1>1, <2>3, <3>1, <3>4, <3>5 DEF q
    <2>4. CASE ~(on # {} /\ m.method # "dhcp") /\ ~(on = {} /\ m.method = "dhcp")
      <3>1. q = r
        BY <1>3, <2>4 DEF Switched
      <3> QED
        BY <1>1, <1>3, <2>1, <2>4, <3>1
    <2> QED
      BY <2>2, <2>3, <2>4
  <1> QED
    BY <1>2, <1>3

\* DHCP is switched.
LEMMA SetIfaceDHCPKeeps == ASSUME IfUpDownInv, SetIfaceDHCP PROVE IfUpDownInv'
  <1>1. PICK n \in Iface, on \in SUBSET Families :
          LET m == Ensured(ifs, n)
              r == Switched(m[n], on)
          IN  /\ Begin("SetIfaceDHCP", n, on)
              /\ \/ Refuses(m[n], on) /\ Refuse(m)
                 \/ /\ ~Refuses(m[n], on)
                    /\ SaveWith([m EXCEPT ![n] = IF on = {} THEN r
                          ELSE [r EXCEPT !.addrs = <<>>, !.gateway = Nil]])
    BY DEF SetIfaceDHCP
  <1> DEFINE m == Ensured(ifs, n)
             s == Switched(m[n], on)
             r == IF on = {} THEN s ELSE [s EXCEPT !.addrs = <<>>, !.gateway = Nil]
  <1>2. Begin("SetIfaceDHCP", n, on)
    BY <1>1
  <1>3. CASE Refuse(m)
    BY <1>2, <1>3, RefusedKeeps
  <1>4. CASE ~Refuses(m[n], on) /\ SaveWith([m EXCEPT ![n] = r])
    <2>1. /\ ifs \in Memory /\ AllAgree
          /\ m[n] = Opened(ifs[n]) /\ m[n] \in Interface /\ Agrees(m[n])
      BY EnsuredFacts DEF IfUpDownInv, TypeInv, ControlInv
    <2>2. /\ s \in Interface /\ s.files = m[n].files
          /\ on = IF s.mode # Nil /\ s.mode.method = "dhcp" THEN {s.mode.fam} ELSE {}
          /\ Agrees(s) /\ ~s.ppp
          /\ s.dhcp => on = {} \/ (s.mode # Nil /\ s.mode.method = "dhcp")
      <3> HIDE DEF m
      <3> QED
        BY <1>4, <2>1, SwitchedFacts
    <2>3. /\ r \in Interface /\ r.files = s.files
          /\ r.mode = s.mode /\ r.dhcp = s.dhcp /\ r.ppp = s.ppp
      <3> DEFINE none == <<>>
                 t == [s EXCEPT !.addrs = none, !.gateway = Nil]
      <3>1. none \in Seq(Addresses)
        OBVIOUS
      <3> HIDE DEF s, none
      <3>2. /\ t \in Interface /\ t.files = s.files
            /\ t.mode = s.mode /\ t.dhcp = s.dhcp /\ t.ppp = s.ppp
        BY <2>2, <3>1 DEF Interface
      <3>3. r = IF on = {} THEN s ELSE t
        BY DEF none
      <3> HIDE DEF r, t
      <3> QED
        BY <2>2, <3>2, <3>3
    <2>4. LeaseAsked'
      <3>1. req'.iface = n /\ req'.on = on /\ req'.op = "SetIfaceDHCP"
        BY <1>2 DEF Begin
      <3>2. ifs'[n] = r
        BY <1>4, <2>1, EnsuredFacts DEF SaveWith, Memory
      <3> HIDE DEF r, s
      <3> QED
        BY <2>2, <2>3, <3>1, <3>2 DEF LeaseAsked
    <2>5. Agrees(r)
      <3> HIDE DEF r, s
      <3> QED
        BY <2>2, <2>3 DEF Agrees
    <2> HIDE DEF r, s
    <2> QED
      BY <1>2, <1>4, <2>1, <2>2, <2>3, <2>4, <2>5, SavedKeeps
  <1> QED
    BY <1>1, <1>3, <1>4

\* A step that leaves the files and memory alone and ends the call in error.
LEMMA StopKeeps ==
    ASSUME IfUpDownInv, UNCHANGED <<files, i, ifs, req, pre>>, pc' = "idle", ret' # "ok",
           faulted' = TRUE
    PROVE  IfUpDownInv'
  <1>1. TypeInv'
    BY DEF IfUpDownInv, TypeInv, FilesInv, files, Saving
  <1>2. ControlInv' /\ PlaceInv'
    BY DEF IfUpDownInv, ControlInv, AllAgree, PlaceInv, Saving
  <1>3. NothingIsLost'
    BY DEF IfUpDownInv, NothingIsLost, files
  <1>4. ReadsBackAsHeld' /\ DHCPAsAsked' /\ OthersKept'
    BY DEF ReadsBackAsHeld, DHCPAsAsked, OthersKept, Succeeded
  <1> QED
    BY <1>1, <1>2, <1>3, <1>4 DEF IfUpDownInv

\* The error of a system call is returned.
LEMMA FaultKeeps == ASSUME IfUpDownInv, Fault PROVE IfUpDownInv'
  BY StopKeeps DEF Fault, Frame

\* At most the file in hand is away.
LEMMA PlaceLosesNothing ==
    ASSUME TypeInv, PlaceInv, Saving
    PROVE  NothingIsLost
  <1>1. ASSUME NEW f \in Files, pre[f] # Absent, disk[f] # pre[f] PROVE Backed(f)
    BY <1>1 DEF PlaceInv
  <1>2. ASSUME NEW f \in Files, pre[f] # Absent, disk[f] = Absent PROVE f = file
    BY <1>2 DEF PlaceInv, InHand
  <1> QED
    BY <1>1, <1>2 DEF NothingIsLost, Backed

\* In a step of a call, what is to be written and what was there stay.
LEMMA FrameFacts ==
    ASSUME ifs' = ifs, req' = req, pre' = pre
    PROVE  /\ \A text, f : SavedAs(text, f)' <=> SavedAs(text, f)
           /\ LeaseAsked' <=> LeaseAsked
           /\ Held(pre)' <=> Held(pre)
  <1>1. req.iface' = req.iface /\ Write(req.iface)' = Write(req.iface)
    BY DEF Write
  <1> QED
    BY <1>1 DEF SavedAs, LeaseAsked, Held

\* A step within a call keeps what does not depend on it.
LEMMA SavingKeeps ==
    ASSUME IfUpDownInv, Saving, Frame, FilesInv',
           pc' \in {"write", "backup", "install", "prune"},
           i' \in Nat \ {0}, pc' # "write" => i' <= Len(fileList),
           PlaceInv', ~faulted' => ContentInv'
    PROVE  IfUpDownInv'
  <1>1. ifs' = ifs /\ req' = req /\ pre' = pre /\ Saving'
    BY DEF Frame, Saving
  <1>2. TypeInv'
    BY <1>1 DEF IfUpDownInv, TypeInv
  <1>3. ControlInv'
    BY <1>1, PassedNext DEF IfUpDownInv, ControlInv, AllAgree
  <1>4. NothingIsLost'
    <2>1. TypeInv' /\ PlaceInv' /\ Saving' => NothingIsLost'
      BY PlaceLosesNothing, PTL
    <2> QED
      BY <1>1, <1>2, <2>1
  <1>5. ReadsBackAsHeld' /\ DHCPAsAsked' /\ OthersKept'
    BY DEF ReadsBackAsHeld, DHCPAsAsked, OthersKept, Succeeded
  <1> QED
    BY <1>2, <1>3, <1>4, <1>5 DEF IfUpDownInv

\* What is written, whole or short.
LEMMA WriteConfigKeeps == ASSUME IfUpDownInv, WriteConfig PROVE IfUpDownInv'
  <1> DEFINE text == NewText(file, req.iface, i = 1)
             next == IF disk[file] = Absent THEN "install" ELSE "backup"
  <1>0. pc = "write" /\ i <= Len(fileList) /\ Saving /\ TypeInv /\ ControlInv /\ PlaceInv
    BY DEF WriteConfig, IfUpDownInv, Saving
  <1>1. file \in Files /\ ~Passed(file) /\ (i = 1 <=> file = Base) /\ i \in Nat \ {0}
    BY <1>0, FileFacts
  <1>2. disk[file] = pre[file] /\ InHand(file) /\ FilesInv
    BY <1>0, <1>1 DEF PlaceInv, Done, InHand, TypeInv
  <1>3. /\ Writable(req.iface) /\ req.iface \in Iface
        /\ ifs \in Memory /\ ifs[req.iface] # Nil
    <2>1. ifs \in Memory /\ req.iface \in Iface /\ ifs[req.iface] # Nil
      BY <1>0 DEF TypeInv, ControlInv
    <2> QED
      BY <2>1, WriteFacts
  <1>4. /\ text \in Text
        /\ pre[file] # Absent => SavedAs(text, file)
    <2>1. CASE disk[file] # Absent
      <3>1. disk[file] \in Text
        BY <1>1, <1>2, <2>1 DEF FilesInv, Directory
      <3>2. text = Copied(disk[file], req.iface, i = 1)
        BY <2>1 DEF NewText
      <3> DEFINE o == disk[file]
                 first == i = 1
                 n == req.iface
      <3>3. first \in BOOLEAN /\ (first <=> file = Base)
        BY <1>1
      <3> HIDE DEF o, first, n
      <3>4. Copied(o, n, first) \in Text /\ Saved(Copied(o, n, first), o, n, Write(n), first)
        BY <1>3, <3>1, <3>3, CopiedFacts DEF o, n
      <3>5. first = (file = Base)
        BY <3>3
      <3> QED
        BY <1>2, <3>2, <3>4, <3>5 DEF SavedAs, o, first, n
    <2>2. CASE disk[file] = Absent
      <3>1. [kind |-> "auto", names |-> {req.iface}] \in Line /\ Write(req.iface) \in Line
        BY <1>3 DEF Line, Writable
      <3> DEFINE x == [kind |-> "auto", names |-> {req.iface}]
                 y == Write(req.iface)
      <3>2. text = IF i = 1 THEN <<x, y>> ELSE <<>>
        BY <2>2 DEF NewText
      <3> HIDE DEF x, y
      <3>3. <<x, y>> \in Seq(Line) /\ <<>> \in Seq(Line)
        BY <3>1 DEF x, y
      <3> QED
        BY <1>2, <2>2, <3>2, <3>3 DEF Text
    <2> QED
      BY <2>1, <2>2
  <1> HIDE DEF text
  <1>5. ASSUME NEW t \in Text, WriteTmp(file, t), Go(next), ~faulted' => t = text /\ ~faulted
        PROVE  IfUpDownInv'
    <2>1. FilesInv' /\ disk' = disk /\ bak' = bak /\ tmp'[file] = t
      BY <1>1, <1>2, <1>5, WrittenFacts
    <2>2. pc' = next /\ i' = i /\ Frame /\ ifs' = ifs /\ req' = req /\ pre' = pre
      BY <1>5 DEF Go, Frame
    <2>3. /\ file' = file /\ fileList' = fileList
          /\ \A f : (Passed(f)' <=> Passed(f)) /\ (InHand(f)' <=> InHand(f))
      BY <1>0, <2>2, PassedNext
    <2>4. \A f : (Done(f)' <=> Passed(f)) /\ (Done(f) <=> Passed(f)) /\ (InHand(f) <=> f = file)
      BY <1>0, <2>2, <2>3 DEF Done, InHand
    <2>5. PlaceInv'
      <3> SUFFICES ASSUME NEW f \in Files
                   PROVE  IF Done(f)' THEN disk'[f] # Absent /\ (pre'[f] # Absent => Backed(f)')
                          ELSE IF pc' = "install" /\ InHand(f)'
                          THEN disk'[f] = Absent /\ (pre'[f] # Absent => Backed(f)')
                          ELSE disk'[f] = pre'[f]
        BY DEF PlaceInv
      <3>1. Backed(f)' <=> Backed(f)
        BY <2>1, <2>2 DEF Backed
      <3>2. CASE Passed(f)
        BY <1>0, <2>1, <2>2, <2>4, <3>1, <3>2 DEF PlaceInv
      <3>3. CASE ~Passed(f)
        <4>1. disk[f] = pre[f]
          BY <1>0, <2>4, <3>3 DEF PlaceInv
        <4>2. pc' = "install" /\ InHand(f)' => disk[f] = Absent
          BY <2>2, <2>3, <2>4
        <4> QED
          BY <2>1, <2>2, <2>4, <3>3, <4>1, <4>2
      <3> QED
        BY <3>2, <3>3
    <2>6. ASSUME ~faulted' PROVE ContentInv'
      <3>1. ~faulted /\ t = text /\ ContentInv
        BY <1>5, <2>6 DEF IfUpDownInv
      <3>2. Held(pre) /\ LeaseAsked /\ \A f \in Files : Done(f) => SavedAs(disk[f], f)
        BY <1>0, <3>1 DEF ContentInv
      <3>3. pre[file] # Absent
        <4>1. HeldOf(ifs[req.iface], pre, req.iface)
          BY <1>3, <3>2 DEF Held
        <4>2. i \in DOMAIN ifs[req.iface].files
          BY <1>0, <1>1, FileFacts DEF fileList
        <4> QED
          BY <1>3, <4>1, <4>2 DEF HeldOf, file, fileList
      <3>4. SavedAs(tmp'[file], file)
        BY <1>4, <2>1, <3>1, <3>3
      <3>5. Held(pre)' /\ LeaseAsked' /\ \A s, f : SavedAs(s, f)' <=> SavedAs(s, f)
        BY <2>2, <3>2, FrameFacts
      <3>6. SavedAs(tmp[file], file)' /\ \A f \in Files : Done(f)' => SavedAs(disk[f], f)'
        BY <2>1, <2>3, <2>4, <3>2, <3>4, <3>5 DEF SavedAs
      <3>7. pc' # "idle"
        BY <2>2
      <3> QED
        BY <3>5, <3>6, <3>7 DEF ContentInv
    <2> QED
      BY <1>0, <1>1, <2>1, <2>2, <2>5, <2>6, SavingKeeps
  <1>6. CASE WriteTmp(file, text) /\ Go(next) /\ UNCHANGED faulted
    BY <1>4, <1>5, <1>6
  <1>7. CASE /\ \E k \in 0 .. Len(text) - 1 : WriteTmp(file, SubSeq(text, 1, k))
             /\ Go(next) /\ faulted' = TRUE
    <2>1. PICK k \in 0 .. Len(text) - 1 : WriteTmp(file, SubSeq(text, 1, k))
      BY <1>7
    <2>2. SubSeq(text, 1, k) \in Text
      BY <1>4 DEF Text
    <2> QED
      BY <1>5, <1>7, <2>1, <2>2
  <1>8. CASE Fault
    BY <1>8, FaultKeeps
  <1> QED
    BY <1>6, <1>7, <1>8 DEF WriteConfig, text

\* The file in hand becomes a backup.
LEMMA BackupKeeps == ASSUME IfUpDownInv, Backup PROVE IfUpDownInv'
  <1>0. pc = "backup" /\ Saving /\ TypeInv /\ ControlInv /\ PlaceInv /\ i <= Len(fileList)
    BY DEF Backup, IfUpDownInv, Saving, ControlInv
  <1>1. file \in Files /\ ~Passed(file) /\ i \in Nat \ {0}
    BY <1>0, FileFacts
  <1>2. disk[file] = pre[file] /\ FilesInv
    BY <1>0, <1>1 DEF PlaceInv, Done, TypeInv
  <1>3. CASE Fault
    BY <1>3, FaultKeeps
  <1>4. CASE MoveToBackup(file) /\ Go("install") /\ UNCHANGED faulted
    <2>1. /\ FilesInv' /\ tmp' = tmp /\ disk'[file] = Absent
          /\ bak'[file] # <<>> /\ bak'[file][1] = disk[file]
          /\ \A f \in Files \ {file} : disk'[f] = disk[f] /\ bak'[f] = bak[f]
      BY <1>1, <1>2, <1>4, MovedFacts
    <2>2. pc' = "install" /\ i' = i /\ Frame /\ ifs' = ifs /\ req' = req /\ pre' = pre
      BY <1>4 DEF Go, Frame
    <2>3. file' = file /\ \A f : (Passed(f)' <=> Passed(f)) /\ (InHand(f)' <=> InHand(f))
      BY <1>0, <2>2, PassedNext
    <2>4. \A f : (Done(f)' <=> Passed(f)) /\ (Done(f) <=> Passed(f)) /\ (InHand(f) <=> f = file)
      BY <1>0, <2>2, <2>3 DEF Done, InHand
    <2>5. PlaceInv'
      <3> SUFFICES ASSUME NEW f \in Files
                   PROVE  IF Done(f)' THEN disk'[f] # Absent /\ (pre'[f] # Absent => Backed(f)')
                          ELSE IF pc' = "install" /\ InHand(f)'
                          THEN disk'[f] = Absent /\ (pre'[f] # Absent => Backed(f)')
                          ELSE disk'[f] = pre'[f]
        BY DEF PlaceInv
      <3>1. CASE f = file
        <4>1. Backed(f)'
          BY <1>2, <2>1, <2>2, <3>1 DEF Backed
        <4> QED
          BY <1>1, <2>1, <2>2, <2>3, <2>4, <3>1, <4>1
      <3>2. CASE f # file
        <4>1. disk'[f] = disk[f] /\ (Backed(f)' <=> Backed(f))
          BY <2>1, <2>2, <3>2 DEF Backed
        <4>2. IF Passed(f) THEN disk[f] # Absent /\ (pre[f] # Absent => Backed(f))
              ELSE disk[f] = pre[f]
          BY <1>0, <2>4 DEF PlaceInv
        <4> QED
          BY <2>2, <2>3, <2>4, <3>2, <4>1, <4>2
      <3> QED
        BY <3>1, <3>2
    <2>6. ASSUME ~faulted' PROVE ContentInv'
      <3>1. ~faulted /\ ContentInv
        BY <1>4, <2>6 DEF IfUpDownInv
      <3>2. /\ Held(pre) /\ LeaseAsked /\ SavedAs(tmp[file], file)
            /\ \A f \in Files : Done(f) => SavedAs(disk[f], f)
        BY <1>0, <3>1 DEF ContentInv
      <3>3. Held(pre)' /\ LeaseAsked' /\ \A s, f : SavedAs(s, f)' <=> SavedAs(s, f)
        BY <2>2, <3>2, FrameFacts
      <3>4. SavedAs(tmp[file], file)'
        BY <2>1, <2>3, <3>2, <3>3 DEF SavedAs
      <3>5. ASSUME NEW f \in Files, Done(f)' PROVE SavedAs(disk[f], f)'
        <4>1. f # file /\ Done(f)
          BY <1>1, <2>4, <3>5
        <4>2. disk'[f] = disk[f] /\ SavedAs(disk[f], f)
          BY <2>1, <3>2, <4>1
        <4> QED
          BY <3>3, <4>2 DEF SavedAs
      <3> QED
        BY <2>2, <3>3, <3>4, <3>5 DEF ContentInv
    <2> QED
      BY <1>0, <1>1, <2>1, <2>2, <2>5, <2>6, SavingKeeps
  <1> QED
    BY <1>3, <1>4 DEF Backup

\* The new text is the file in hand.
LEMMA InstallKeeps == ASSUME IfUpDownInv, Install PROVE IfUpDownInv'
  <1>0. pc = "install" /\ Saving /\ TypeInv /\ ControlInv /\ PlaceInv /\ i <= Len(fileList)
    BY DEF Install, IfUpDownInv, Saving, ControlInv
  <1>1. file \in Files /\ ~Passed(file) /\ i \in Nat \ {0}
    BY <1>0, FileFacts
  <1>2. (pre[file] # Absent => Backed(file)) /\ FilesInv
    BY <1>0, <1>1 DEF PlaceInv, Done, InHand, TypeInv
  <1>3. CASE Fault
    BY <1>3, FaultKeeps
  <1>4. CASE MoveInPlace(file) /\ Go("prune") /\ UNCHANGED faulted
    <2>1. /\ FilesInv' /\ bak' = bak /\ tmp[file] # Absent /\ disk'[file] = tmp[file]
          /\ \A f \in Files \ {file} : disk'[f] = disk[f]
      BY <1>1, <1>2, <1>4, InstalledFacts
    <2>2. pc' = "prune" /\ i' = i /\ Frame /\ ifs' = ifs /\ req' = req /\ pre' = pre
      BY <1>4 DEF Go, Frame
    <2>3. file' = file /\ \A f : (Passed(f)' <=> Passed(f)) /\ (InHand(f)' <=> InHand(f))
      BY <1>0, <2>2, PassedNext
    <2>4. \A f : (Done(f)' <=> Passed(f) \/ f = file) /\ (Done(f) <=> Passed(f))
                 /\ (InHand(f) <=> f = file)
      BY <1>0, <2>2, <2>3 DEF Done, InHand
    <2>5. \A f : Backed(f)' <=> Backed(f)
      BY <2>1, <2>2 DEF Backed
    <2>6. PlaceInv'
      <3> SUFFICES ASSUME NEW f \in Files
                   PROVE  IF Done(f)' THEN disk'[f] # Absent /\ (pre'[f] # Absent => Backed(f)')
                          ELSE disk'[f] = pre'[f]
        BY <2>2 DEF PlaceInv
      <3>1. CASE f = file
        BY <1>2, <2>1, <2>2, <2>4, <2>5, <3>1
      <3>2. CASE f # file
        <4>1. IF Passed(f) THEN disk[f] # Absent /\ (pre[f] # Absent => Backed(f))
              ELSE disk[f] = pre[f]
          BY <1>0, <2>4, <3>2 DEF PlaceInv
        <4> QED
          BY <2>1, <2>2, <2>4, <2>5, <3>2, <4>1
      <3> QED
        BY <3>1, <3>2
    <2>7. ASSUME ~faulted' PROVE ContentInv'
      <3>1. ~faulted /\ ContentInv
        BY <1>4, <2>7 DEF IfUpDownInv
      <3>2. /\ Held(pre) /\ LeaseAsked /\ SavedAs(tmp[file], file)
            /\ \A f \in Files : Done(f) => SavedAs(disk[f], f)
        BY <1>0, <3>1 DEF ContentInv
      <3>3. Held(pre)' /\ LeaseAsked' /\ \A s, f : SavedAs(s, f)' <=> SavedAs(s, f)
        BY <2>2, <3>2, FrameFacts
      <3>4. ASSUME NEW f \in Files, Done(f)' PROVE SavedAs(disk[f], f)'
        <4>1. SavedAs(disk'[f], f)
          BY <2>1, <2>4, <3>2, <3>4
        <4> QED
          BY <3>3, <4>1 DEF SavedAs
      <3> QED
        BY <2>2, <3>3, <3>4 DEF ContentInv
    <2> QED
      BY <1>0, <1>1, <2>1, <2>2, <2>6, <2>7, SavingKeeps
  <1> QED
    BY <1>3, <1>4 DEF Install

\* The next file's turn comes.
LEMMA PruneBackupsKeeps == ASSUME IfUpDownInv, PruneBackups PROVE IfUpDownInv'
  <1>0. pc = "prune" /\ Saving /\ TypeInv /\ ControlInv /\ PlaceInv /\ i <= Len(fileList)
    BY DEF PruneBackups, IfUpDownInv, Saving, ControlInv
  <1>1. file \in Files /\ i \in Nat \ {0} /\ FilesInv
    BY <1>0, FileFacts DEF TypeInv
  <1>2. /\ Prune(file) /\ i' = i + 1 /\ pc' = "write" /\ faulted' = faulted
        /\ Frame /\ ifs' = ifs /\ req' = req /\ pre' = pre
    BY DEF PruneBackups, Frame
  <1>3. /\ FilesInv' /\ disk' = disk
        /\ \A f \in Files : bak[f] # <<>> => bak'[f] # <<>> /\ bak'[f][1] = bak[f][1]
    BY <1>1, <1>2, PruneFacts
  <1>4. \A f : Passed(f)' <=> Passed(f) \/ f = file
    BY <1>0, <1>2, PassedNext
  <1>5. \A f : (Done(f)' <=> Done(f))
    BY <1>0, <1>2, <1>4 DEF Done, InHand
  <1>6. \A f \in Files : Backed(f) => Backed(f)'
    BY <1>2, <1>3 DEF Backed
  <1>7. PlaceInv'
    <2> SUFFICES ASSUME NEW f \in Files
                 PROVE  IF Done(f)' THEN disk'[f] # Absent /\ (pre'[f] # Absent => Backed(f)')
                        ELSE disk'[f] = pre'[f]
      BY <1>2 DEF PlaceInv
    <2>1. IF Done(f) THEN disk[f] # Absent /\ (pre[f] # Absent => Backed(f))
          ELSE disk[f] = pre[f]
      BY <1>0 DEF PlaceInv
    <2> QED
      BY <1>2, <1>3, <1>5, <1>6, <2>1
  <1>8. ASSUME ~faulted' PROVE ContentInv'
    <2>1. ~faulted /\ ContentInv
      BY <1>2, <1>8 DEF IfUpDownInv
    <2>2. Held(pre) /\ LeaseAsked /\ \A f \in Files : Done(f) => SavedAs(disk[f], f)
      BY <1>0, <2>1 DEF ContentInv
    <2>3. Held(pre)' /\ LeaseAsked' /\ \A s, f : SavedAs(s, f)' <=> SavedAs(s, f)
      BY <1>2, <2>2, FrameFacts
    <2>4. \A f \in Files : Done(f)' => SavedAs(disk[f], f)'
      BY <1>3, <1>5, <2>2, <2>3 DEF SavedAs
    <2> QED
      BY <1>2, <2>3, <2>4 DEF ContentInv
  <1> QED
    BY <1>0, <1>1, <1>2, <1>3, <1>7, <1>8, SavingKeeps

\* The process ends, and memory with it.
LEMMA ExitKeeps == ASSUME IfUpDownInv, Exit PROVE IfUpDownInv'
  <1>1. /\ pc' = "down" /\ ifs' = [n \in Iface |-> Nil] /\ i' = 1
        /\ disk' = disk /\ tmp' = tmp /\ bak' = bak /\ pre' = pre /\ req' = req
    BY DEF Exit, files
  <1>2. TypeInv'
    BY <1>1 DEF IfUpDownInv, TypeInv, FilesInv, Memory
  <1>3. ControlInv' /\ PlaceInv' /\ ContentInv'
    BY <1>1 DEF ControlInv, AllAgree, PlaceInv, ContentInv, Saving
  <1>4. NothingIsLost'
    BY <1>1 DEF IfUpDownInv, NothingIsLost
  <1>5. ReadsBackAsHeld' /\ DHCPAsAsked' /\ OthersKept'
    BY <1>1 DEF ReadsBackAsHeld, DHCPAsAsked, OthersKept, Succeeded
  <1> QED
    BY <1>2, <1>3, <1>4, <1>5 DEF IfUpDownInv

\* The next process reads the files.
LEMMA NewKeeps == ASSUME IfUpDownInv, newIfUpDown PROVE IfUpDownInv'
  <1>1. /\ pc' = "idle" /\ ret' = "none" /\ faulted' = FALSE /\ pre' = disk
        /\ ifs' = ReadFile(disk) /\ Readable(disk) /\ i' = i /\ req' = req
        /\ disk' = disk /\ tmp' = tmp /\ bak' = bak
    BY DEF newIfUpDown, files
  <1>2. disk \in Directory
    BY DEF IfUpDownInv, TypeInv, FilesInv
  <1>3. /\ ifs' \in Memory /\ \A n \in Iface : ifs'[n] # Nil => Listed(ifs'[n].files)
        /\ Held(disk)' /\ AllAgree'
    BY <1>1, <1>2, ReadHeld DEF Held, AllAgree
  <1>4. TypeInv'
    BY <1>1, <1>2, <1>3 DEF IfUpDownInv, TypeInv, FilesInv
  <1>5. ControlInv' /\ PlaceInv' /\ ContentInv'
    BY <1>1, <1>3 DEF ControlInv, PlaceInv, ContentInv, Saving
  <1>6. NothingIsLost' /\ OthersKept'
    <2>1. (disk = pre)' => NothingIsLost' /\ OthersKept'
      BY Fresh, PTL
    <2> QED
      BY <1>1, <2>1
  <1>7. ReadsBackAsHeld' /\ DHCPAsAsked'
    BY <1>1 DEF ReadsBackAsHeld, DHCPAsAsked, Succeeded
  <1> QED
    BY <1>4, <1>5, <1>6, <1>7 DEF IfUpDownInv

\* What a call has done when it is through with the files of the interface.
LEMMA Finished ==
    ASSUME IfUpDownInv, pc = "write", i > Len(fileList), ~faulted
    PROVE  LET n == req.iface
           IN  /\ Held(disk) /\ LeaseAsked
               /\ ifs \in Memory /\ n \in Iface /\ ifs[n] # Nil /\ disk \in Directory
               /\ \A f \in Reached(disk) : OwnIs(disk[f], n, Write(n))
               /\ \A f \in Reached(disk) : Mentions(disk[f], n) => f \in ToSet(ifs[n].files)
               /\ Once(disk[Base], n)
               /\ \A f \in Files : pre[f] # Absent /\ Together(pre[f], n) =>
                     disk[f] # Absent /\ Others(disk[f], n) = Others(pre[f], n)
  <1> DEFINE n == req.iface
             w == Write(n)
             l == ifs[n].files
  <1>0. Saving /\ TypeInv /\ ControlInv /\ PlaceInv /\ ContentInv
    BY DEF IfUpDownInv, Saving
  <1>1. n \in Iface /\ ifs[n] # Nil /\ ifs \in Memory
    BY <1>0 DEF TypeInv, ControlInv
  <1>2. Held(pre) /\ LeaseAsked /\ \A f \in Files : Passed(f) => SavedAs(disk[f], f)
    BY <1>0 DEF ContentInv, Done
  <1>3. \A f \in Files : IF Passed(f) THEN disk[f] # Absent ELSE disk[f] = pre[f]
    BY <1>0 DEF PlaceInv, Done
  <1>4. \A f : Passed(f) <=> f \in ToSet(l)
    <2>1. l = fileList /\ l \in Seq(Files) /\ Len(l) \in Nat /\ i \in Nat /\ i > Len(l)
      BY <1>0, FileFacts DEF fileList
    <2>2. \A f : Passed(f) <=> \E m \in 1 .. i - 1 : m <= Len(l) /\ l[m] = f
      BY <2>1 DEF Passed
    <2> HIDE DEF l
    <2>3. DOMAIN l = 1 .. Len(l) /\ \A m : m \in 1 .. i - 1 /\ m <= Len(l) <=> m \in 1 .. Len(l)
      BY <2>1
    <2> QED
      BY <2>2, <2>3 DEF ToSet
  <1>5. Passed(Base) /\ Base \in Files
    <2>1. i > 1
      BY <1>0, FileFacts
    <2> QED
      BY <1>0, <2>1, FileFacts
  <1>6. w \in Line /\ IsOwn(w, n)
    BY <1>1, WriteFacts DEF Writable
  <1>7. disk \in Directory /\ pre \in Directory /\ Readable(pre)
    BY <1>0, <1>2 DEF TypeInv, FilesInv, Held
  <1>8. \A f \in Files : Passed(f) => /\ From(disk[f], pre[f], w) /\ OwnIs(disk[f], n, w)
                                      /\ f = Base => Once(disk[f], n)
                                      /\ Together(pre[f], n) => Others(disk[f], n) = Others(pre[f], n)
    BY <1>2 DEF SavedAs, Saved
  <1> HIDE DEF w
  <1>9. ASSUME NEW k \in DOMAIN disk[Base], disk[Base][k].kind = "source"
        PROVE  disk[Base][k].file \in Reached(pre) /\ disk[Base][k].file \in Files
               /\ disk[disk[Base][k].file] # Absent
    <2>1. disk[Base][k] # w
      BY <1>6, <1>9 DEF IsOwn
    <2>2. PICK m \in DOMAIN pre[Base] : disk[Base][k] = pre[Base][m]
      BY <1>5, <1>8, <2>1 DEF From
    <2>3. disk[Base][k].file \in Reached(pre)
      BY <1>9, <2>2 DEF Reached
    <2>4. disk[Base][k].file \in Files /\ pre[disk[Base][k].file] # Absent
      BY <1>7, <2>3, ReachedFacts
    <2> QED
      BY <1>3, <2>3, <2>4
  <1>10. Readable(disk)
    BY <1>3, <1>5, <1>9 DEF Readable
  <1>11. Reached(disk) \subseteq Reached(pre) /\ Reached(disk) \subseteq Files
    BY <1>5, <1>9 DEF Reached
  <1>12. \A f \in Reached(pre) : Mentions(pre[f], n) => f \in ToSet(l)
    BY <1>1, <1>2 DEF Held, HeldOf
  <1>13. \A f \in Reached(disk) : Mentions(disk[f], n) => f \in ToSet(l)
    BY <1>3, <1>4, <1>11, <1>12
  <1>14. \A f \in Reached(disk) : OwnIs(disk[f], n, w)
    <2> SUFFICES ASSUME NEW f \in Reached(disk) PROVE OwnIs(disk[f], n, w)
      OBVIOUS
    <2>1. CASE Passed(f)
      BY <1>8, <1>11, <2>1
    <2>2. CASE ~Passed(f)
      <3>1. ~Mentions(disk[f], n)
        BY <1>4, <1>13, <2>2
      <3> QED
        BY <3>1 DEF Mentions, OwnIs
    <2> QED
      BY <2>1, <2>2
  <1>15. ASSUME NEW m \in Iface PROVE HeldOf(ifs[m], disk, m)
    <2>1. HeldOf(ifs[m], pre, m)
      BY <1>2 DEF Held
    <2>2. ASSUME ifs[m] # Nil, NEW k \in DOMAIN ifs[m].files PROVE disk[ifs[m].files[k]] # Absent
      <3>1. ifs[m].files \in Seq(Files)
        BY <1>1, <2>2 DEF Memory, Interface
      <3>2. ifs[m].files[k] \in Files /\ pre[ifs[m].files[k]] # Absent
        BY <2>1, <2>2, <3>1 DEF HeldOf
      <3> QED
        BY <1>3, <3>2
    <2>3. ASSUME NEW f \in Reached(disk), Mentions(disk[f], m)
          PROVE  ifs[m] # Nil /\ f \in ToSet(ifs[m].files)
      <3>1. CASE m = n
        BY <1>1, <1>13, <2>3, <3>1
      <3>2. CASE m # n
        <4>1. CASE Passed(f)
          <5>1. PICK k \in DOMAIN disk[f] : IsOwn(disk[f][k], m)
            BY <2>3 DEF Mentions
          <5>2. disk[f][k] # w
            BY <1>6, <3>2, <5>1 DEF IsOwn
          <5>3. \E h \in DOMAIN pre[f] : disk[f][k] = pre[f][h]
            BY <1>8, <1>11, <4>1, <5>2 DEF From
          <5>4. Mentions(pre[f], m)
            BY <5>1, <5>3 DEF Mentions
          <5> QED
            BY <1>11, <2>1, <5>4 DEF HeldOf
        <4>2. CASE ~Passed(f)
          <5>1. disk[f] = pre[f]
            BY <1>3, <1>11, <4>2
          <5> QED
            BY <1>11, <2>1, <2>3, <5>1 DEF HeldOf
        <4> QED
          BY <4>1, <4>2
      <3> QED
        BY <3>1, <3>2
    <2> QED
      BY <2>2, <2>3 DEF HeldOf
  <1>16. Held(disk)
    BY <1>10, <1>15 DEF Held
  <1>17. \A f \in Files : pre[f] # Absent /\ Together(pre[f], n) =>
            disk[f] # Absent /\ Others(disk[f], n) = Others(pre[f], n)
    BY <1>3, <1>8
  <1>18. Once(disk[Base], n)
    BY <1>5, <1>8
  <1> QED
    BY <1>1, <1>2, <1>7, <1>13, <1>14, <1>16, <1>17, <1>18 DEF w

\* A call that is through with its files without a fault has done what was asked.
LEMMA ReturnKeeps == ASSUME IfUpDownInv, Return PROVE IfUpDownInv'
  <1> DEFINE n == req.iface
             r == ReadFile(disk)[n]
  <1>0. pc = "write" /\ i > Len(fileList)
    BY DEF Return
  <1>1. /\ pc' = "idle" /\ ret' = "ok" /\ disk' = disk /\ tmp' = tmp /\ bak' = bak /\ i' = i
        /\ faulted' = faulted /\ ifs' = ifs /\ req' = req /\ pre' = pre
    BY DEF Return, Frame, files
  <1>2. TypeInv'
    BY <1>1 DEF IfUpDownInv, TypeInv, FilesInv
  <1>3. ControlInv' /\ PlaceInv'
    BY <1>1 DEF IfUpDownInv, ControlInv, AllAgree, PlaceInv, Saving
  <1>4. NothingIsLost'
    BY <1>1 DEF IfUpDownInv, NothingIsLost
  <1>5. CASE faulted
    <2>1. ~Succeeded'
      BY <1>1, <1>5 DEF Succeeded
    <2> QED
      BY <1>1, <1>2, <1>3, <1>4, <1>5, <2>1
      DEF IfUpDownInv, ReadsBackAsHeld, DHCPAsAsked, OthersKept
  <1>6. CASE ~faulted
    <2>1. /\ Held(disk) /\ LeaseAsked
          /\ ifs \in Memory /\ n \in Iface /\ ifs[n] # Nil /\ disk \in Directory
          /\ \A f \in Reached(disk) : OwnIs(disk[f], n, Write(n))
          /\ \A f \in Reached(disk) : Mentions(disk[f], n) => f \in ToSet(ifs[n].files)
          /\ Once(disk[Base], n)
          /\ \A f \in Files : pre[f] # Absent /\ Together(pre[f], n) =>
                disk[f] # Absent /\ Others(disk[f], n) = Others(pre[f], n)
      BY <1>0, <1>6, Finished
    <2>2. Readable(disk) /\ Base \in Reached(disk)
      BY <2>1 DEF Held, Reached
    <2>3. ContentInv'
      BY <1>1, <2>1 DEF ContentInv, Held, Saving
    <2>4. ASSUME ifs[n].files = <<Base>>
          PROVE  LET held == ifs[n]
                 IN  /\ r.mode = held.mode /\ r.gateway = held.gateway
                     /\ r.dns = held.dns /\ r.routes = held.routes
                     /\ ToSet(r.addrs) = ToSet(held.addrs) /\ Len(r.addrs) = Len(held.addrs)
      <3>1. ToSet(<<Base>>) = {Base}
        BY DEF ToSet
      <3>2. \A f \in Reached(disk) \ {Base} : ~Mentions(disk[f], n)
        BY <2>1, <2>4, <3>1
      <3>3. OwnIs(disk[Base], n, Write(n))
        BY <2>1, <2>2
      <3> HIDE DEF n
      <3>4. r = Extended(NewInterface, Base, Write(n))
        BY <2>1, <2>2, <3>2, <3>3, RereadOnce
      <3> HIDE DEF r
      <3> QED
        BY <2>1, <3>4, ExtendedNew
    <2>5. /\ r.mode = ifs[n].mode
          /\ r.dhcp <=> ifs[n].mode # Nil /\ ifs[n].mode.method = "dhcp"
          /\ r.ppp <=> ifs[n].mode # Nil /\ ifs[n].mode.method = "ppp"
      <3>1. Mentions(disk[Base], n)
        BY <2>1 DEF Once, Mentions
      <3>2. Write(n).mode = ifs[n].mode
        BY <2>1, WriteFacts
      <3> DEFINE w == Write(n)
      <3> HIDE DEF w, n
      <3>3. /\ r.mode = w.mode /\ (r.dhcp <=> w.mode # Nil /\ w.mode.method = "dhcp")
            /\ r.ppp <=> w.mode # Nil /\ w.mode.method = "ppp"
        BY <2>1, <2>2, <3>1, RereadMode DEF w
      <3> QED
        BY <3>2, <3>3 DEF w
    <2>6. req'.iface = n /\ Reread' = r
      BY <1>1 DEF Reread
    <2>7. ReadsBackAsHeld'
      <3>1. Agrees(ifs[n])
        BY <2>1 DEF IfUpDownInv, ControlInv, AllAgree
      <3>2. /\ (r.ppp <=> ifs[n].ppp) /\ (r.dhcp => ifs[n].dhcp)
            /\ ifs[n].dhcp => r.dhcp \/ (req.op = "SetIfaceDHCP" /\ req.on = {})
        BY <2>1, <2>5, <3>1 DEF Agrees, LeaseAsked
      <3> QED
        BY <1>1, <2>4, <2>6, <3>2 DEF ReadsBackAsHeld
    <2>8. DHCPAsAsked'
      BY <1>1, <2>1, <2>5, <2>6 DEF DHCPAsAsked, LeaseAsked
    <2>9. OthersKept'
      BY <1>1, <2>1 DEF OthersKept
    <2> QED
      BY <1>2, <1>3, <1>4, <2>3, <2>7, <2>8, <2>9 DEF IfUpDownInv
  <1> QED
    BY <1>5, <1>6

-----------------------------------------------------------------------------
(* The theorems *)

\* Every step keeps the invariant.
LEMMA NextKeeps == ASSUME IfUpDownInv, [Next]_vars PROVE IfUpDownInv'
  <1>1. CASE UNCHANGED vars
    <2>1. /\ disk' = disk /\ tmp' = tmp /\ bak' = bak /\ ifs' = ifs /\ pc' = pc /\ i' = i
          /\ req' = req /\ ret' = ret /\ pre' = pre /\ faulted' = faulted
      BY <1>1 DEF vars
    <2>2. TypeInv' /\ ControlInv'
      BY <2>1, PassedNext DEF IfUpDownInv, TypeInv, FilesInv, ControlInv, AllAgree, Saving
    <2>3. PlaceInv'
      <3>1. \A f : (Done(f)' <=> Done(f)) /\ (InHand(f)' <=> InHand(f)) /\ (Backed(f)' <=> Backed(f))
        BY <2>1, PassedNext DEF IfUpDownInv, Done, Backed
      <3> QED
        BY <2>1, <3>1 DEF IfUpDownInv, PlaceInv, Saving
    <2>4. ~faulted' => ContentInv'
      <3>1. \A f : (Done(f)' <=> Done(f)) /\ file' = file
        BY <2>1, PassedNext DEF IfUpDownInv, Done
      <3>2. \A text, f : SavedAs(text, f)' <=> SavedAs(text, f)
        BY <2>1, FrameFacts
      <3>3. \A f : (SavedAs(disk[f], f)' <=> SavedAs(disk[f], f))
        BY <2>1, <3>2 DEF SavedAs
      <3>4. SavedAs(tmp[file], file)' <=> SavedAs(tmp[file], file)
        BY <2>1, <3>1, <3>2 DEF SavedAs
      <3>5. (LeaseAsked' <=> LeaseAsked) /\ (Held(pre)' <=> Held(pre)) /\ (Held(disk)' <=> Held(disk))
        BY <2>1 DEF LeaseAsked, Held
      <3> QED
        BY <2>1, <3>1, <3>3, <3>4, <3>5 DEF IfUpDownInv, ContentInv, Saving
    <2>5. NothingIsLost' /\ OthersKept'
      BY <2>1 DEF IfUpDownInv, NothingIsLost, OthersKept, Succeeded
    <2>6. ReadsBackAsHeld' /\ DHCPAsAsked'
      <3>1. Reread' = Reread
        BY <2>1 DEF Reread
      <3> QED
        BY <2>1, <3>1 DEF IfUpDownInv, ReadsBackAsHeld, DHCPAsAsked, Succeeded
    <2> QED
      BY <2>2, <2>3, <2>4, <2>5, <2>6 DEF IfUpDownInv
  <1>2. CASE Next
    BY <1>2, SetIfaceAddressesKeeps, SetIfaceRoutesKeeps, SetIfaceDNSKeeps, SetIfaceDHCPKeeps,
       WriteConfigKeeps, BackupKeeps, InstallKeeps, PruneBackupsKeeps, ReturnKeeps, ExitKeeps,
       NewKeeps DEF Next
  <1> QED
    BY <1>1, <1>2

\* The invariant holds of every state.
LEMMA Invariant == Spec => []IfUpDownInv
  <1>1. Init => IfUpDownInv
    BY InitInv
  <1>2. IfUpDownInv /\ [Next]_vars => IfUpDownInv'
    BY NextKeeps
  <1> QED
    BY <1>1, <1>2, PTL DEF Spec

\* However a call of the ifupdown backend ends, what a file it changed said is its newest
\* backup, and at most the file it is at is away (ifupdown.go's Save with utils.go's
\* fileMove): whatever the files of the interface, and whatever failed before.
THEOREM NoFileIsLost == Spec => []NothingIsLost
  <1>1. IfUpDownInv => NothingIsLost
    BY DEF IfUpDownInv
  <1> QED
    BY <1>1, Invariant, PTL

\* Save copies every line of the interface's files that is not its own, in order, where
\* its stanzas are together (ifupdown.go's copying loop).
THEOREM OtherLinesAreKept == Spec => []OthersKept
  <1>1. IfUpDownInv => OthersKept
    BY DEF IfUpDownInv
  <1> QED
    BY <1>1, Invariant, PTL

\* After a successful call, a new process reads what this one has of an interface of the
\* main file, its leases included, but for the order of the addresses and for a lease that
\* setDHCP leaves set in memory when it is asked for none.
THEOREM SavedIsReadBack == Spec => []ReadsBackAsHeld
  <1>1. IfUpDownInv => ReadsBackAsHeld
    BY DEF IfUpDownInv
  <1> QED
    BY <1>1, Invariant, PTL

\* A successful SetIfaceDHCP leaves files that lease exactly the families asked for,
\* however many stanzas and files the interface had.
THEOREM LeaseIsAsAsked == Spec => []DHCPAsAsked
  <1>1. IfUpDownInv => DHCPAsAsked
    BY DEF IfUpDownInv
  <1> QED
    BY <1>1, Invariant, PTL
=============================================================================
