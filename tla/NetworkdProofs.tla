--------------------------- MODULE NetworkdProofs ---------------------------
(****************************************************************************)
(* Proofs about Networkd: however a Save ends, and wherever the process     *)
(* dies, at most one file is away and its text is its newest backup; and a  *)
(* call that returns without error has made its files say what was asked    *)
(* for, and kept what else they said.  What the edits do to a text of any   *)
(* length is by induction on its sections.                                  *)
(****************************************************************************)
EXTENDS Networkd, TLAPS, WellFoundedInduction, SequenceTheorems, FiniteSetTheorems

Sequence(s) == \E S : s \in Seq(S)
OnFiles(f) == f = [x \in Files |-> f[x]]

\* A call has not come to the files from n on.
Untouched(n) == \A k \in n..Len(FileOrder) : disk[FileOrder[k]] = pre.disk[FileOrder[k]]

Working == {"write", "backup", "install", "prune"}

\* The files a call has passed are in place, the ones before it are as they were, and the
\* one it is at is away only between the two renames.
RiskInv ==
    /\ OnFiles(disk) /\ OnFiles(tmp) /\ OnFiles(bak)
    /\ \A f \in Files : Sequence(bak[f])
    /\ pc \in Working \cup {"idle", "loop", "down"}
    /\ i \in Nat \ {0}
    /\ pc \in Working => i <= Len(FileOrder)
    /\ pc \in {"loop", "write", "backup"} => Gone = {} /\ Untouched(i)
    /\ pc \in {"install", "prune"} => Untouched(i + 1)
    /\ pc = "install" => Gone \subseteq {file} /\ bak[file] # <<>>
                         /\ bak[file][1] = pre.disk[file]
    /\ pc = "prune" => Gone = {}
    /\ OneFileAtRisk

-----------------------------------------------------------------------------
(* Backups *)

\* The newest backup comes first.
LEMMA Pushed ==
    ASSUME NEW s, Sequence(s), NEW text
    PROVE  /\ Sequence(<<text>> \o s)
           /\ <<text>> \o s # <<>>
           /\ (<<text>> \o s)[1] = text
  <1>1. PICK S : s \in Seq(S)
    BY DEF Sequence
  <1>2. s \in Seq(S \cup {text}) /\ <<text>> \in Seq(S \cup {text})
    BY <1>1
  <1>3. <<text>> \o s \in Seq(S \cup {text})
    BY <1>2
  <1>4. Len(<<text>> \o s) >= 1 /\ (<<text>> \o s)[1] = text
    BY <1>2
  <1> QED
    BY <1>3, <1>4 DEF Sequence

\* Pruning leaves a sequence of backups.
LEMMA PrunedType ==
    ASSUME NEW s, Sequence(s)
    PROVE  Sequence(Pruned(s))
  <1>1. PICK S : s \in Seq(S)
    BY DEF Sequence
  <1>2. Pruned(s) \in Seq(S)
    BY <1>1, FilesAssumption DEF Pruned
  <1> QED
    BY <1>2 DEF Sequence

\* The walk over the directory comes to every file once.
LEMMA FileOnce ==
    ASSUME i \in Nat \ {0}, i <= Len(FileOrder)
    PROVE  /\ file \in Files
           /\ \A k \in i + 1..Len(FileOrder) :
                  FileOrder[k] \in Files /\ FileOrder[k] # file
  BY NetworkdAssumption DEF NetworkdAssumption, file

-----------------------------------------------------------------------------
(* The invariant *)

\* The directory is read before the first call, with nothing away.
LEMMA RiskInit == Init => RiskInv
  <1> SUFFICES ASSUME Init PROVE RiskInv
    OBVIOUS
  <1>1. OnFiles(disk) /\ OnFiles(tmp) /\ OnFiles(bak)
    <2>1. PICK d \in Dirs : disk = d.main
      BY DEF Init
    <2>2. OnFiles(disk)
      BY <2>1, NetworkdAssumption DEF NetworkdAssumption, OnFiles
    <2> QED
      BY <2>2 DEF Init, OnFiles
  <1>2. \A f \in Files : Sequence(bak[f])
    <2>1. <<>> \in Seq({})
      OBVIOUS
    <2> QED
      BY <2>1 DEF Init, Sequence
  <1>3. Gone = {}
    BY DEF Init, Gone
  <1> QED
    BY <1>1, <1>2, <1>3 DEF Init, RiskInv, OneFileAtRisk, Working

\* A step that starts a call, or a process, begins with what is on disk.
LEMMA RiskFresh ==
    ASSUME RiskInv, UNCHANGED files, pre'.disk = disk, pc' \in {"loop", "idle"}, i' = 1
    PROVE  RiskInv'
  <1>1. Gone' = {}
    BY DEF Gone, files
  <1>2. Untouched(i)'
    BY DEF Untouched, files
  <1> QED
    BY <1>1, <1>2 DEF RiskInv, OneFileAtRisk, Working, files

\* A step that leaves the call, if any, keeps what OneFileAtRisk says of every step.
LEMMA RiskLeave ==
    ASSUME RiskInv, UNCHANGED <<files, pre>>, pc' \in {"idle", "down"}, i' \in Nat \ {0}
    PROVE  RiskInv'
  BY DEF RiskInv, OneFileAtRisk, Gone, Working, files

\* No step of a call, and no end of one, puts a second file at risk.
LEMMA RiskStep == RiskInv /\ [Next]_vars => RiskInv'
  <1> SUFFICES ASSUME RiskInv, [Next]_vars PROVE RiskInv'
    OBVIOUS
  <1>1. CASE SetIfaceAddresses \/ SetIfaceDHCP \/ SetIfaceRoutes \/ SetIfaceDNS
    BY <1>1, RiskFresh
    DEF SetIfaceAddresses, SetIfaceDHCP, SetIfaceRoutes, SetIfaceDNS, Call
  <1>2. CASE newNetworkd
    BY <1>2, RiskFresh DEF newNetworkd
  <1>3. CASE Exit \/ Return \/ BackupDropIn \/ BackupMissing \/ Fault
    <2>1. i' \in Nat \ {0}
      BY <1>3 DEF RiskInv, Exit, Return, BackupDropIn, BackupMissing, Fault, Fails
    <2> QED
      BY <1>3, <2>1, RiskLeave
      DEF Exit, Return, BackupDropIn, BackupMissing, Fault, Fails, Frame
  <1>4. CASE SkipNetwork \/ EditNetwork
    <2>1. /\ UNCHANGED <<files, pre>> /\ pc = "loop" /\ pc' \in {"loop", "write"}
          /\ i' \in {i, i + 1} /\ (pc' = "write" => i' = i /\ i <= Len(FileOrder))
      BY <1>4 DEF SkipNetwork, EditNetwork, Frame
    <2>2. Untouched(i)' /\ Gone' = {}
      BY <2>1 DEF RiskInv, Untouched, Gone, files, Working
    <2> QED
      BY <2>1, <2>2 DEF RiskInv, OneFileAtRisk, files, Working
  <1>5. CASE WriteConfig /\ ~Fault
    <2>1. /\ UNCHANGED <<disk, bak, pre, i>> /\ pc = "write" /\ pc' = "backup"
          /\ OnFiles(tmp)'
      BY <1>5 DEF WriteConfig, WriteTmp, Go, Frame, RiskInv, OnFiles
    <2>2. Untouched(i)' /\ Gone' = {}
      BY <2>1 DEF RiskInv, Untouched, Gone
    <2> QED
      BY <2>1, <2>2 DEF RiskInv, OneFileAtRisk, Working, OnFiles
  <1>6. CASE Backup /\ ~Fault
    <2>1. /\ MoveToBackup(file) /\ UNCHANGED <<pre, i>> /\ pc = "backup" /\ pc' = "install"
      BY <1>6 DEF Backup, Go, Frame
    <2>2. /\ file \in Files /\ file' = file
          /\ \A k \in i + 1..Len(FileOrder) : FileOrder[k] \in Files /\ FileOrder[k] # file
      BY <2>1, FileOnce DEF RiskInv, Working, file
    <2>3. /\ disk[file] = pre.disk[file]
          /\ \A k \in i + 1..Len(FileOrder) : disk[FileOrder[k]] = pre.disk[FileOrder[k]]
      BY <2>1 DEF RiskInv, Untouched, file, Working
    <2>4. /\ OnFiles(disk)' /\ OnFiles(tmp)' /\ OnFiles(bak)'
          /\ \A f \in Files \ {file} : disk'[f] = disk[f] /\ bak'[f] = bak[f]
          /\ bak'[file] = <<disk[file]>> \o bak[file]
      BY <2>1, <2>2 DEF RiskInv, OnFiles, MoveToBackup
    <2>5. /\ \A f \in Files : Sequence(bak'[f])
          /\ bak'[file] # <<>> /\ bak'[file][1] = pre.disk[file]
      <3>1. Sequence(bak[file])
        BY <2>2 DEF RiskInv
      <3>2. /\ Sequence(bak'[file]) /\ bak'[file] # <<>>
            /\ bak'[file][1] = disk[file]
        BY <2>4, <3>1, Pushed
      <3>3. \A f \in Files \ {file} : Sequence(bak'[f])
        BY <2>4 DEF RiskInv
      <3> QED
        BY <2>3, <3>2, <3>3
    <2>6. Gone' \subseteq {file}
      BY <2>1, <2>4 DEF RiskInv, Gone
    <2>7. Untouched(i + 1)'
      BY <2>1, <2>2, <2>3, <2>4 DEF Untouched
    <2> QED
      BY <2>1, <2>2, <2>4, <2>5, <2>6, <2>7 DEF RiskInv, OneFileAtRisk, Working
  <1>7. CASE Install /\ ~Fault
    <2>1. /\ MoveInPlace(file) /\ UNCHANGED <<pre, i>> /\ pc = "install" /\ pc' = "prune"
      BY <1>7 DEF Install, Go, Frame
    <2>2. /\ file \in Files
          /\ \A k \in i + 1..Len(FileOrder) : FileOrder[k] \in Files /\ FileOrder[k] # file
      BY <2>1, FileOnce DEF RiskInv, Working
    <2>3. /\ OnFiles(disk)' /\ OnFiles(tmp)' /\ OnFiles(bak)' /\ bak' = bak
          /\ \A f \in Files \ {file} : disk'[f] = disk[f]
          /\ disk'[file] # Absent
      BY <2>1, <2>2 DEF RiskInv, OnFiles, MoveInPlace
    <2>4. Gone' = {}
      BY <2>1, <2>3 DEF RiskInv, Gone
    <2>5. Untouched(i + 1)'
      BY <2>1, <2>2, <2>3 DEF RiskInv, Untouched
    <2> QED
      BY <2>1, <2>3, <2>4, <2>5 DEF RiskInv, OneFileAtRisk, Working
  <1>8. CASE PruneBackups
    <2>1. /\ Prune(file) /\ UNCHANGED <<disk, tmp, pre>> /\ i' = i + 1
          /\ pc = "prune" /\ pc' = "loop"
      BY <1>8 DEF PruneBackups, Frame, Prune
    <2>2. OnFiles(bak)' /\ \A f \in Files : Sequence(bak'[f])
      BY <2>1, PrunedType DEF RiskInv, OnFiles, Prune
    <2>3. Untouched(i)' /\ Gone' = {}
      BY <2>1 DEF RiskInv, Untouched, Gone
    <2> QED
      BY <2>1, <2>2, <2>3 DEF RiskInv, OneFileAtRisk, Working, OnFiles
  <1>9. CASE UNCHANGED vars
    BY <1>9 DEF vars, RiskInv, OnFiles, Untouched, Gone, OneFileAtRisk, file
  <1> QED
    BY <1>1, <1>2, <1>3, <1>4, <1>5, <1>6, <1>7, <1>8, <1>9
    DEF Next, WriteConfig, Backup, Install

\* Networkd.Save: a failed call, or a process that died in one, leaves at most one file
\* missing, and its newest backup holds what it said.
THEOREM AtMostOneAway == Spec => []OneFileAtRisk
  <1>1. RiskInv => OneFileAtRisk
    BY DEF RiskInv
  <1> QED
    BY <1>1, RiskInit, RiskStep, PTL DEF Spec

-----------------------------------------------------------------------------
(* Numbers *)

\* A set of numbers that is not empty has a least one.
LEMMA Least ==
    ASSUME NEW T \in SUBSET Nat, T # {}
    PROVE  \E m \in T : \A k \in T : m <= k
  <1> DEFINE R == OpToRel(<, Nat)
  <1>1. IsWellFoundedOn(R, Nat)
    BY NatLessThanWellFounded
  <1>2. \A x, y \in Nat : x < y => <<x, y>> \in R
    BY DEF OpToRel
  <1> HIDE DEF R
  <1>3. PICK m \in T : \A y \in T : ~(<<y, m>> \in R)
    BY <1>1, WFMin
  <1>4. \A k \in T : ~(k < m)
    BY <1>2, <1>3
  <1> QED
    BY <1>4

\* What holds of no element, and of one more whenever of m, holds of any number up to N.
LEMMA Induction ==
    ASSUME NEW N \in Nat, NEW T, 0 \in T, \A m \in 0 .. N - 1 : m \in T => m + 1 \in T
    PROVE  0 .. N \subseteq T
  <1> DEFINE U == (0 .. N) \ T
  <1> SUFFICES ASSUME U # {} PROVE FALSE
    OBVIOUS
  <1>1. PICK m \in U : \A k \in U : m <= k
    <2> HIDE DEF U
    <2>1. U \in SUBSET Nat
      BY DEF U
    <2> QED
      BY <2>1, Least
  <1>2. m # 0 /\ m - 1 \in 0 .. N - 1
    BY <1>1
  <1>3. m - 1 \notin U
    BY <1>1, <1>2
  <1>4. (m - 1) + 1 \in T
    BY <1>2, <1>3
  <1> QED
    BY <1>1, <1>2, <1>4

-----------------------------------------------------------------------------
(* Picking elements of a list *)

-----------------------------------------------------------------------------
(* Sequences *)

\* A set that has the empty sequence, and with each sequence the ones longer by one, has
\* them all.
LEMMA SequenceInduction ==
    ASSUME NEW S, NEW T, <<>> \in T, \A s \in Seq(S) : s \in T => \A x \in S : Append(s, x) \in T
    PROVE  Seq(S) \subseteq T
  <1> SUFFICES ASSUME NEW t \in Seq(S) PROVE t \in T
    OBVIOUS
  <1> DEFINE N == Len(t)
             part(m) == [n \in 1 .. m |-> t[n]]
             U == {m \in 0 .. N : part(m) \in T}
  <1>0. N \in Nat /\ DOMAIN t = 1 .. N /\ \A n \in 1 .. N : t[n] \in S
    OBVIOUS
  <1>1. \A m \in 0 .. N : part(m) \in Seq(S) /\ Len(part(m)) = m
    <2> SUFFICES ASSUME NEW m \in 0 .. N PROVE part(m) \in Seq(S) /\ Len(part(m)) = m
      OBVIOUS
    <2>1. m \in Nat /\ \A n \in 1 .. m : t[n] \in S
      BY <1>0
    <2> QED
      BY <2>1
  <1>2. 0 \in U
    <2>1. part(0) = <<>>
      BY <1>0, <1>1
    <2> QED
      BY <2>1, <1>0
  <1>3. ASSUME NEW m \in 0 .. N - 1, m \in U PROVE m + 1 \in U
    <2>1. part(m + 1) = Append(part(m), t[m + 1])
      <3>1. m \in Nat /\ m \in 0 .. N /\ m + 1 \in 0 .. N /\ m + 1 \in 1 .. N
        BY <1>0
      <3>2. part(m) \in Seq(S) /\ Len(part(m)) = m
        BY <1>1, <3>1
      <3>3. part(m + 1) \in Seq(S) /\ Len(part(m + 1)) = m + 1
        BY <1>1, <3>1
      <3>4. \A n \in 1 .. m : part(m)[n] = t[n] /\ part(m + 1)[n] = t[n]
        BY <3>1
      <3>5. part(m + 1)[m + 1] = t[m + 1]
        BY <3>1
      <3> HIDE DEF part
      <3>6. /\ Append(part(m), t[m + 1]) \in Seq(S)
            /\ Len(Append(part(m), t[m + 1])) = m + 1
            /\ \A n \in 1 .. m : Append(part(m), t[m + 1])[n] = part(m)[n]
            /\ Append(part(m), t[m + 1])[m + 1] = t[m + 1]
        BY <3>1, <3>2, <1>0
      <3>7. \A n \in 1 .. m + 1 : Append(part(m), t[m + 1])[n] = part(m + 1)[n]
        BY <3>1, <3>4, <3>5, <3>6
      <3> QED
        BY <3>3, <3>6, <3>7, SeqEqual
    <2>2. part(m) \in T /\ part(m) \in Seq(S)
      BY <1>0, <1>1, <1>3
    <2> HIDE DEF part
    <2>3. t[m + 1] \in S /\ m + 1 \in 0 .. N
      BY <1>0
    <2>4. Append(part(m), t[m + 1]) \in T
      BY <2>2, <2>3
    <2>5. part(m + 1) \in T
      BY <2>1, <2>4
    <2> QED
      BY <2>3, <2>5
  <1>4. 0 .. N \subseteq U
    <2> HIDE DEF U
    <2> QED
      BY <1>0, <1>2, <1>3, Induction
  <1>5. part(N) = t
    BY <1>0
  <1> QED
    BY <1>0, <1>4, <1>5

\* What FlattenSeq(parts) has come to at each part.
Flat(parts) ==
    CHOOSE r : r = [n \in 1 .. Len(parts) |-> IF n = 1 THEN parts[n] ELSE r[n - 1] \o parts[n]]

\* It is defined by its equation.
LEMMA FlatEquation ==
    ASSUME NEW parts, Len(parts) \in Nat
    PROVE  \A n \in 1 .. Len(parts) :
               Flat(parts)[n] = IF n = 1 THEN parts[1] ELSE Flat(parts)[n - 1] \o parts[n]
  <1> DEFINE N == Len(parts)
             step(r, m) == IF m = 1 THEN parts[m] ELSE r[m - 1] \o parts[m]
             Solves(r, M) == r = [m \in 1 .. M |-> step(r, m)]
             U == {M \in 0 .. N : \E r : Solves(r, M)}
  <1>0. N \in Nat
    OBVIOUS
  <1>1. 0 \in U
    <2> DEFINE r == [m \in 1 .. 0 |-> <<>>]
    <2>1. Solves(r, 0)
      OBVIOUS
    <2> HIDE DEF r, Solves
    <2> QED
      BY <2>1, <1>0
  <1>2. ASSUME NEW M \in 0 .. N - 1, M \in U PROVE M + 1 \in U
    <2>1. PICK r : Solves(r, M)
      BY <1>2
    <2> DEFINE q == [m \in 1 .. M + 1 |-> IF m <= M THEN r[m] ELSE step(r, m)]
    <2>2. \A m \in 1 .. M : q[m] = r[m]
      BY <1>0
    <2>3. \A m \in 1 .. M + 1 : m # 1 => q[m - 1] = r[m - 1]
      BY <2>2, <1>0
    <2>4. \A m \in 1 .. M + 1 : step(q, m) = step(r, m)
      BY <2>3, <1>0
    <2>5. \A m \in 1 .. M : r[m] = step(r, m)
      BY <2>1
    <2>6. \A m \in 1 .. M + 1 : q[m] = step(r, m)
      <3> HIDE DEF step
      <3> QED
        BY <2>5, <1>0
    <2>7. Solves(q, M + 1)
      <3> HIDE DEF step
      <3>1. \A m \in 1 .. M + 1 : q[m] = step(q, m)
        BY <2>4, <2>6
      <3>2. q = [m \in 1 .. M + 1 |-> q[m]]
        OBVIOUS
      <3> HIDE DEF q
      <3> QED
        BY <3>1, <3>2
    <2> HIDE DEF q, Solves
    <2> QED
      BY <2>7, <1>0
  <1>3. 0 .. N \subseteq U
    <2> HIDE DEF U
    <2> QED
      BY <1>0, <1>1, <1>2, Induction
  <1>4. Solves(Flat(parts), N)
    <2>1. \E r : Solves(r, N)
      <3> HIDE DEF Solves
      <3> QED
        BY <1>0, <1>3
    <2> DEFINE c == CHOOSE r : r = [m \in 1 .. N |-> step(r, m)]
    <2>2. Flat(parts) = c
      BY DEF Flat
    <2> QED
      BY <2>1, <2>2
  <1>5. \A m \in 1 .. N : Flat(parts)[m] = step(Flat(parts), m)
    <2> HIDE DEF step
    <2> QED
      BY <1>4
  <1> QED
    BY <1>5

\* FlattenSeq reads it at the last part.
LEMMA FlattenIsFlat ==
    /\ FlattenSeq(<<>>) = <<>>
    /\ \A parts : Len(parts) # 0 => FlattenSeq(parts) = Flat(parts)[Len(parts)]
  BY DEF FlattenSeq, Flat

\* It depends on the parts up to each.
LEMMA FlatSame ==
    ASSUME NEW p, NEW q, Len(p) \in Nat, Len(q) \in Nat, NEW N \in Nat, N <= Len(p), N <= Len(q),
           \A n \in 1 .. N : p[n] = q[n]
    PROVE  \A n \in 1 .. N : Flat(p)[n] = Flat(q)[n]
  <1> DEFINE T == {m \in 0 .. N : m # 0 => Flat(p)[m] = Flat(q)[m]}
  <1>1. 0 \in T
    OBVIOUS
  <1>2. ASSUME NEW m \in 0 .. N - 1, m \in T PROVE m + 1 \in T
    <2>1. m + 1 \in 1 .. Len(p) /\ m + 1 \in 1 .. Len(q) /\ m + 1 \in 1 .. N /\ (m + 1) - 1 = m
          /\ m + 1 \in 0 .. N
      OBVIOUS
    <2>2. /\ Flat(p)[m + 1] = IF m + 1 = 1 THEN p[1] ELSE Flat(p)[m] \o p[m + 1]
          /\ Flat(q)[m + 1] = IF m + 1 = 1 THEN q[1] ELSE Flat(q)[m] \o q[m + 1]
      BY <2>1, FlatEquation
    <2>3. p[m + 1] = q[m + 1] /\ (m + 1 = 1 => p[1] = q[1])
      BY <2>1
    <2>4. m + 1 # 1 => Flat(p)[m] = Flat(q)[m]
      BY <1>2
    <2> QED
      BY <2>1, <2>2, <2>3, <2>4
  <1>3. 0 .. N \subseteq T
    <2> HIDE DEF T
    <2> QED
      BY <1>1, <1>2, Induction
  <1> QED
    BY <1>3

\* One more part is added at the end.
LEMMA FlattenSnoc ==
    ASSUME NEW V, NEW s \in Seq(Seq(V)), NEW x \in Seq(V)
    PROVE  FlattenSeq(Append(s, x)) = FlattenSeq(s) \o x
  <1> DEFINE N == Len(s)
             t == Append(s, x)
  <1>1. /\ N \in Nat /\ t \in Seq(Seq(V)) /\ Len(t) = N + 1 /\ t[N + 1] = x
        /\ \A n \in 1 .. N : t[n] = s[n]
    OBVIOUS
  <1>2. FlattenSeq(t) = Flat(t)[N + 1]
    <2> HIDE DEF t
    <2> QED
      BY <1>1, FlattenIsFlat
  <1> HIDE DEF t
  <1>3. CASE N = 0
    <2>1. s = <<>>
      BY <1>3
    <2>2. <<>> \o x = x
      OBVIOUS
    <2>3. Flat(t)[1] = t[1]
      BY <1>1, <1>3, FlatEquation
    <2> QED
      BY <1>1, <1>2, <1>3, <2>1, <2>2, <2>3, FlattenIsFlat DEF t
  <1>4. CASE N # 0
    <2>1. Flat(t)[N + 1] = Flat(t)[N] \o x
      <3>1. N + 1 \in 1 .. Len(t) /\ N + 1 # 1 /\ (N + 1) - 1 = N
        BY <1>1, <1>4
      <3>2. \A n \in 1 .. Len(t) : Flat(t)[n] = IF n = 1 THEN t[1] ELSE Flat(t)[n - 1] \o t[n]
        <4>1. Len(t) \in Nat
          BY <1>1
        <4> QED
          BY <4>1, FlatEquation
      <3>3. Flat(t)[N + 1] = Flat(t)[(N + 1) - 1] \o t[N + 1]
        BY <3>1, <3>2
      <3> QED
        BY <1>1, <3>1, <3>3
    <2>2. Flat(t)[N] = Flat(s)[N]
      <3>1. N \in 1 .. N /\ N <= Len(t) /\ Len(t) \in Nat /\ N <= Len(s) /\ N \in Nat
        BY <1>1, <1>4
      <3>2. \A n \in 1 .. N : t[n] = s[n]
        BY <1>1
      <3>3. Len(s) \in Nat
        OBVIOUS
      <3> HIDE DEF N
      <3>4. \A n \in 1 .. N : Flat(t)[n] = Flat(s)[n]
        BY <3>1, <3>2, <3>3, FlatSame
      <3> QED
        BY <3>1, <3>4
    <2>3. FlattenSeq(s) = Flat(s)[N]
      BY <1>4, FlattenIsFlat
    <2> QED
      BY <1>2, <2>1, <2>2, <2>3 DEF t
  <1> QED
    BY <1>3, <1>4

\* What it returns is a sequence of what the parts have.
LEMMA FlattenType ==
    ASSUME NEW V, NEW s \in Seq(Seq(V))
    PROVE  FlattenSeq(s) \in Seq(V)
  <1> DEFINE T == {t \in Seq(Seq(V)) : FlattenSeq(t) \in Seq(V)}
  <1>1. <<>> \in T
    <2>1. <<>> \in Seq(Seq(V)) /\ <<>> \in Seq(V)
      OBVIOUS
    <2> QED
      BY <2>1, FlattenIsFlat
  <1>2. ASSUME NEW t \in Seq(Seq(V)), t \in T, NEW x \in Seq(V) PROVE Append(t, x) \in T
    <2>1. FlattenSeq(Append(t, x)) = FlattenSeq(t) \o x
      BY FlattenSnoc
    <2>2. Append(t, x) \in Seq(Seq(V))
      OBVIOUS
    <2>3. FlattenSeq(t) \in Seq(V)
      BY <1>2
    <2>4. FlattenSeq(t) \o x \in Seq(V)
      BY <2>3
    <2> QED
      BY <2>1, <2>2, <2>4
  <1>3. Seq(Seq(V)) \subseteq T
    <2> HIDE DEF T
    <2> QED
      BY <1>1, <1>2, SequenceInduction
  <1> QED
    BY <1>3

\* A sequence that is g and then x.
LEMMA Longer ==
    ASSUME NEW S, NEW g \in Seq(S), NEW x \in S, NEW f, DOMAIN f = 1 .. Len(g) + 1,
           f = [n \in DOMAIN f |-> f[n]],
           \A n \in 1 .. Len(g) : f[n] = g[n], f[Len(g) + 1] = x
    PROVE  f = Append(g, x)
  <1> DEFINE t == Append(g, x)
  <1>0. t \in Seq(S) /\ Len(t) = Len(g) + 1 /\ Len(g) \in Nat
    OBVIOUS
  <1>1. /\ Len(g) \in Nat /\ DOMAIN t = 1 .. Len(g) + 1
        /\ t[Len(g) + 1] = x /\ \A n \in 1 .. Len(g) : t[n] = g[n]
    BY <1>0
  <1>2. \A n \in 1 .. Len(g) + 1 : n \in 1 .. Len(g) \/ n = Len(g) + 1
    BY <1>1
  <1> HIDE DEF t
  <1>3. \A n \in 1 .. Len(g) + 1 : f[n] = t[n]
    BY <1>1, <1>2
  <1>4. f = t
    <2>1. \A n \in 1 .. Len(g) + 1 : f[n] \in S
      BY <1>0, <1>1, <1>3
    <2>2. f \in Seq(S) /\ Len(f) = Len(g) + 1
      BY <1>0, <2>1
    <2> QED
      BY <1>0, <1>3, <2>2, SeqEqual
  <1> QED
    BY <1>4 DEF t

-----------------------------------------------------------------------------
(* What the sections of a text say *)

Value == Addresses \cup Gateways \cup Servers \cup Routes \cup {"on", "off"}

\* The keys a section has.
LEMMA SectionFacts ==
    ASSUME NEW s \in Section
    PROVE  /\ s.kind \in {"Network", "Address", "Route"}
           /\ s.kind = "Route" => s.route \in Routes
           /\ s.kind # "Route" =>
                 /\ s.addrs \in Seq(Addresses) /\ s.gws \in Seq(Gateways)
                 /\ s.dns \in Seq(Servers) /\ s.dhcp \in {"on", "off", Nil}
           /\ s.kind = "Address" => s.dhcp = Nil
  BY DEF Section

\* They have sequences of values.
LEMMA ValuesType ==
    ASSUME NEW s \in Section, NEW key
    PROVE  Values(s, key) \in Seq(Value)
  <1>1. /\ s.kind = "Route" => s.route \in Value
        /\ s.kind # "Route" => /\ s.addrs \in Seq(Value) /\ s.gws \in Seq(Value)
                               /\ s.dns \in Seq(Value) /\ (s.dhcp # Nil => s.dhcp \in Value)
    <2>1. /\ s.kind = "Route" => s.route \in Value
          /\ s.kind # "Route" => (s.dhcp # Nil => s.dhcp \in Value)
      BY SectionFacts DEF Value
    <2>2. Addresses \subseteq Value /\ Gateways \subseteq Value /\ Servers \subseteq Value
      BY DEF Value
    <2>3. s.kind # "Route" => s.addrs \in Seq(Value) /\ s.gws \in Seq(Value) /\ s.dns \in Seq(Value)
      BY <2>2, SectionFacts, SeqMonotonic
    <2> QED
      BY <2>1, <2>3
  <1>2. s.kind = "Route" => <<s.route>> \in Seq(Value)
    BY <1>1
  <1>3. s.kind # "Route" => (s.dhcp # Nil => <<s.dhcp>> \in Seq(Value))
    BY <1>1
  <1>4. <<>> \in Seq(Value)
    OBVIOUS
  <1> QED
    BY <1>1, <1>2, <1>3, <1>4 DEF Values

Parts(text, key) == [n \in DOMAIN text |-> Values(text[n], key)]

\* The parts of a text, and of one that is longer by a section.
LEMMA PartsFacts ==
    ASSUME NEW text \in Text, NEW key
    PROVE  /\ Parts(text, key) \in Seq(Seq(Value)) /\ Len(Parts(text, key)) = Len(text)
           /\ \A s \in Section :
                Parts(Append(text, s), key) = Append(Parts(text, key), Values(s, key))
  <1>0. text \in Seq(Section) /\ Len(text) \in Nat /\ DOMAIN text = 1 .. Len(text)
    BY DEF Text
  <1>1. \A t \in Text : Parts(t, key) \in Seq(Seq(Value)) /\ Len(Parts(t, key)) = Len(t)
    <2> SUFFICES ASSUME NEW t \in Text
                 PROVE  Parts(t, key) \in Seq(Seq(Value)) /\ Len(Parts(t, key)) = Len(t)
      OBVIOUS
    <2>1. t \in Seq(Section) /\ Len(t) \in Nat /\ DOMAIN t = 1 .. Len(t)
      BY DEF Text
    <2>2. \A n \in 1 .. Len(t) : Values(t[n], key) \in Seq(Value)
      BY <2>1, ValuesType
    <2>3. Parts(t, key) = [n \in 1 .. Len(t) |-> Values(t[n], key)]
      BY <2>1 DEF Parts
    <2> QED
      BY <2>1, <2>2, <2>3
  <1>2. ASSUME NEW s \in Section
        PROVE  Parts(Append(text, s), key) = Append(Parts(text, key), Values(s, key))
    <2> DEFINE t == Append(text, s)
               g == Parts(text, key)
               f == Parts(t, key)
               x == Values(s, key)
    <2>1. /\ t \in Text /\ DOMAIN t = 1 .. Len(text) + 1 /\ t[Len(text) + 1] = s
          /\ \A n \in 1 .. Len(text) : t[n] = text[n]
      BY <1>0 DEF Text
    <2> HIDE DEF t
    <2>2. DOMAIN f = 1 .. Len(text) + 1 /\ f = [n \in DOMAIN f |-> f[n]]
      BY <2>1 DEF Parts
    <2>3. \A n \in 1 .. Len(text) : f[n] = g[n]
      <3>1. \A n \in 1 .. Len(text) : n \in DOMAIN t /\ n \in DOMAIN text
        BY <1>0, <2>1
      <3> QED
        BY <2>1, <3>1 DEF Parts
    <2>4. f[Len(text) + 1] = x
      <3>1. Len(text) + 1 \in DOMAIN t
        BY <1>0, <2>1
      <3> QED
        BY <2>1, <3>1 DEF Parts
    <2>5. g \in Seq(Seq(Value)) /\ Len(g) = Len(text) /\ x \in Seq(Value)
      BY <1>1, ValuesType
    <2> HIDE DEF f, g, x
    <2>6. f = Append(g, x)
      BY <2>2, <2>3, <2>4, <2>5, Longer
    <2> QED
      BY <2>6 DEF f, g, x, t
  <1> QED
    BY <1>1, <1>2

\* An empty text says nothing, and one more section adds its values.
LEMMA SaidFacts ==
    ASSUME NEW key
    PROVE  /\ Said(<<>>, key) = <<>>
           /\ \A text \in Text : Said(text, key) \in Seq(Value)
           /\ \A text \in Text, s \in Section :
                Said(Append(text, s), key) = Said(text, key) \o Values(s, key)
  <1>1. Said(<<>>, key) = <<>>
    <2>1. [n \in DOMAIN <<>> |-> Values(<<>>[n], key)] = <<>>
      OBVIOUS
    <2> QED
      BY <2>1, FlattenIsFlat DEF Said
  <1>2. \A text : Said(text, key) = FlattenSeq(Parts(text, key))
    BY DEF Said, Parts
  <1>3. ASSUME NEW text \in Text PROVE Said(text, key) \in Seq(Value)
    BY <1>2, PartsFacts, FlattenType
  <1>4. ASSUME NEW text \in Text, NEW s \in Section
        PROVE  Said(Append(text, s), key) = Said(text, key) \o Values(s, key)
    <2>1. Parts(Append(text, s), key) = Append(Parts(text, key), Values(s, key))
      BY PartsFacts
    <2>2. Parts(text, key) \in Seq(Seq(Value)) /\ Values(s, key) \in Seq(Value)
      BY PartsFacts, ValuesType
    <2>3. FlattenSeq(Append(Parts(text, key), Values(s, key)))
              = FlattenSeq(Parts(text, key)) \o Values(s, key)
      BY <2>2, FlattenSnoc
    <2> QED
      BY <1>2, <2>1, <2>3
  <1> QED
    BY <1>1, <1>3, <1>4

\* Texts whose sections have the same values for a key say the same.
LEMMA SameSaid ==
    ASSUME NEW t, NEW u, NEW key, DOMAIN t = DOMAIN u,
           \A n \in DOMAIN t : Values(t[n], key) = Values(u[n], key)
    PROVE  Said(t, key) = Said(u, key)
  BY DEF Said

\* Where at most one section has values for the key, they are what the text says.
LEMMA OnlySaid ==
    ASSUME NEW text \in Text, NEW key, NEW p,
           \A n \in DOMAIN text : n # p => Values(text[n], key) = <<>>
    PROVE  Said(text, key) = IF p \in DOMAIN text THEN Values(text[p], key) ELSE <<>>
  <1> DEFINE Alone(t) == \A n \in DOMAIN t : n # p => Values(t[n], key) = <<>>
             Right(t) == Said(t, key) = IF p \in DOMAIN t THEN Values(t[p], key) ELSE <<>>
             T == {t \in Seq(Section) : Alone(t) => Right(t)}
  <1>1. <<>> \in T
    BY SaidFacts
  <1>2. ASSUME NEW t \in Seq(Section), t \in T, NEW s \in Section PROVE Append(t, s) \in T
    <2> DEFINE u == Append(t, s)
    <2>1. /\ u \in Seq(Section) /\ DOMAIN u = 1 .. Len(t) + 1 /\ u[Len(t) + 1] = s
          /\ Len(t) \in Nat /\ DOMAIN t = 1 .. Len(t) /\ \A n \in DOMAIN t : u[n] = t[n]
      OBVIOUS
    <2>2. Said(u, key) = Said(t, key) \o Values(s, key)
      BY SaidFacts DEF Text
    <2> HIDE DEF u
    <2> SUFFICES ASSUME Alone(u) PROVE Right(u)
      BY <2>1 DEF u
    <2>3. Alone(t)
      BY <2>1
    <2>4. Right(t)
      BY <1>2, <2>3
    <2>5. Values(s, key) \in Seq(Value) /\ Said(t, key) \in Seq(Value)
      BY ValuesType, SaidFacts DEF Text
    <2>6. CASE p = Len(t) + 1
      <3>1. Said(t, key) = <<>>
        BY <2>1, <2>4, <2>6
      <3>2. <<>> \o Values(s, key) = Values(s, key)
        BY <2>5
      <3> QED
        BY <2>1, <2>2, <2>6, <3>1, <3>2
    <2>7. CASE p # Len(t) + 1
      <3>1. Values(s, key) = <<>>
        BY <2>1, <2>7
      <3>2. Said(t, key) \o <<>> = Said(t, key)
        BY <2>5
      <3>3. p \in DOMAIN u <=> p \in DOMAIN t
        BY <2>1, <2>7
      <3> QED
        BY <2>1, <2>2, <2>4, <3>1, <3>2, <3>3
    <2> QED
      BY <2>6, <2>7
  <1>3. Seq(Section) \subseteq T
    <2> HIDE DEF T
    <2> QED
      BY <1>1, <1>2, SequenceInduction
  <1> QED
    BY <1>3 DEF Text

\* Two texts, one after the other, say what the one says and then what the other does.
LEMMA JoinedSaid ==
    ASSUME NEW text \in Text, NEW more \in Text, NEW key
    PROVE  Said(text \o more, key) = Said(text, key) \o Said(more, key)
  <1> DEFINE T == {t \in Seq(Section) : Said(text \o t, key) = Said(text, key) \o Said(t, key)}
  <1>1. <<>> \in T
    <2>1. text \o <<>> = text /\ Said(text, key) \o <<>> = Said(text, key)
      BY SaidFacts, ConcatEmptySeq DEF Text
    <2> QED
      BY <2>1, SaidFacts
  <1>2. ASSUME NEW t \in Seq(Section), t \in T, NEW s \in Section PROVE Append(t, s) \in T
    <2>1. text \o Append(t, s) = Append(text \o t, s) /\ text \o t \in Text
          /\ Append(t, s) \in Seq(Section)
      <3>1. text \in Seq(Section)
        BY DEF Text
      <3>2. <<s>> \in Seq(Section) /\ text \o t \in Seq(Section)
        BY <3>1
      <3>3. Append(t, s) = t \o <<s>> /\ Append(text \o t, s) = (text \o t) \o <<s>>
        BY <3>2, AppendIsConcat
      <3>4. (text \o t) \o <<s>> = text \o (t \o <<s>>)
        BY <3>1, <3>2, ConcatAssociative
      <3> QED
        BY <3>2, <3>3, <3>4 DEF Text
    <2>2. Said(text \o Append(t, s), key) = Said(text \o t, key) \o Values(s, key)
      BY <2>1, SaidFacts
    <2>3. Said(text \o t, key) = Said(text, key) \o Said(t, key)
      BY <1>2
    <2>4. Said(Append(t, s), key) = Said(t, key) \o Values(s, key)
      BY SaidFacts DEF Text
    <2>5. /\ Said(text, key) \in Seq(Value) /\ Said(t, key) \in Seq(Value)
          /\ Values(s, key) \in Seq(Value)
      BY SaidFacts, ValuesType DEF Text
    <2>6. (Said(text, key) \o Said(t, key)) \o Values(s, key)
              = Said(text, key) \o (Said(t, key) \o Values(s, key))
      BY <2>5, ConcatAssociative
    <2> QED
      BY <2>1, <2>2, <2>3, <2>4, <2>6
  <1>3. Seq(Section) \subseteq T
    <2> HIDE DEF T
    <2> QED
      BY <1>1, <1>2, SequenceInduction
  <1> QED
    BY <1>3 DEF Text

-----------------------------------------------------------------------------
(* Leaving out the sections of a kind *)

Pieces(text, kind) ==
    [n \in DOMAIN text |-> IF text[n].kind = kind THEN <<>> ELSE <<text[n]>>]

\* What is left of a text, and of one that is longer by a section.
LEMMA WithoutFacts ==
    ASSUME NEW kind
    PROVE  /\ Without(<<>>, kind) = <<>>
           /\ \A text \in Text : Without(text, kind) \in Text
           /\ \A text \in Text, s \in Section :
                Without(Append(text, s), kind) =
                    IF s.kind = kind THEN Without(text, kind)
                    ELSE Append(Without(text, kind), s)
  <1>1. Without(<<>>, kind) = <<>>
    <2>1. Pieces(<<>>, kind) = <<>>
      BY DEF Pieces
    <2> QED
      BY <2>1, FlattenIsFlat DEF Without, Pieces
  <1>2. \A t : Without(t, kind) = FlattenSeq(Pieces(t, kind))
    BY DEF Without, Pieces
  <1>3. ASSUME NEW t \in Text
        PROVE  Pieces(t, kind) \in Seq(Seq(Section)) /\ Len(Pieces(t, kind)) = Len(t)
    <2> DEFINE piece(n) == IF t[n].kind = kind THEN <<>> ELSE <<t[n]>>
    <2>1. t \in Seq(Section) /\ Len(t) \in Nat /\ DOMAIN t = 1 .. Len(t)
      BY DEF Text
    <2>2. \A n \in 1 .. Len(t) : piece(n) \in Seq(Section)
      BY <2>1
    <2>3. Pieces(t, kind) = [n \in 1 .. Len(t) |-> piece(n)]
      BY <2>1 DEF Pieces
    <2> HIDE DEF piece
    <2> QED
      BY <2>1, <2>2, <2>3
  <1>4. ASSUME NEW text \in Text PROVE Without(text, kind) \in Text
    BY <1>2, <1>3, FlattenType DEF Text
  <1>5. ASSUME NEW text \in Text, NEW s \in Section
        PROVE  Without(Append(text, s), kind) =
                   IF s.kind = kind THEN Without(text, kind) ELSE Append(Without(text, kind), s)
    <2> DEFINE t == Append(text, s)
               g == Pieces(text, kind)
               f == Pieces(t, kind)
               x == IF s.kind = kind THEN <<>> ELSE <<s>>
    <2>0. text \in Seq(Section) /\ Len(text) \in Nat /\ DOMAIN text = 1 .. Len(text)
      BY DEF Text
    <2>1. /\ t \in Text /\ DOMAIN t = 1 .. Len(text) + 1 /\ t[Len(text) + 1] = s
          /\ \A n \in 1 .. Len(text) : t[n] = text[n]
      BY <2>0 DEF Text
    <2> HIDE DEF t
    <2>2. DOMAIN f = 1 .. Len(text) + 1 /\ f = [n \in DOMAIN f |-> f[n]]
      BY <2>1 DEF Pieces
    <2>3. \A n \in 1 .. Len(text) : f[n] = g[n]
      <3>1. \A n \in 1 .. Len(text) : n \in DOMAIN t /\ n \in DOMAIN text
        BY <2>0, <2>1
      <3> QED
        BY <2>1, <3>1 DEF Pieces
    <2>4. f[Len(text) + 1] = x
      <3>1. Len(text) + 1 \in DOMAIN t
        BY <2>0, <2>1
      <3> QED
        BY <2>1, <3>1 DEF Pieces
    <2>5. g \in Seq(Seq(Section)) /\ Len(g) = Len(text) /\ x \in Seq(Section)
      <3>1. x \in Seq(Section)
        OBVIOUS
      <3> QED
        BY <1>3, <3>1
    <2>6. f = Append(g, x)
      <3> HIDE DEF f, g, x
      <3> QED
        BY <2>2, <2>3, <2>4, <2>5, Longer
    <2>7. Without(t, kind) = Without(text, kind) \o x
      <3>1. FlattenSeq(Append(g, x)) = FlattenSeq(g) \o x
        <4> HIDE DEF g, x
        <4> QED
          BY <2>5, FlattenSnoc
      <3>2. Without(t, kind) = FlattenSeq(f) /\ Without(text, kind) = FlattenSeq(g)
        BY <1>2
      <3> HIDE DEF f, g, x
      <3> QED
        BY <2>6, <3>1, <3>2
    <2>8. Without(text, kind) \in Seq(Section)
      BY <1>4 DEF Text
    <2>9. /\ Without(text, kind) \o <<>> = Without(text, kind)
          /\ Without(text, kind) \o <<s>> = Append(Without(text, kind), s)
      BY <2>8, ConcatEmptySeq, AppendIsConcat
    <2> QED
      BY <2>7, <2>9 DEF t
  <1> QED
    BY <1>1, <1>4, <1>5

\* If they have no values for a key, the others say what all of them say.
LEMMA WithoutSaid ==
    ASSUME NEW text \in Text, NEW kind, NEW key,
           \A s \in Section : s.kind = kind => Values(s, key) = <<>>
    PROVE  Said(Without(text, kind), key) = Said(text, key)
  <1> DEFINE T == {t \in Seq(Section) : Said(Without(t, kind), key) = Said(t, key)}
  <1>1. <<>> \in T
    BY WithoutFacts
  <1>2. ASSUME NEW t \in Seq(Section), t \in T, NEW s \in Section PROVE Append(t, s) \in T
    <2>1. t \in Text /\ Append(t, s) \in Seq(Section) /\ Without(t, kind) \in Text
      <3>1. t \in Text /\ Append(t, s) \in Seq(Section)
        BY DEF Text
      <3> QED
        BY <3>1, WithoutFacts
    <2>2. Said(Append(t, s), key) = Said(t, key) \o Values(s, key)
      BY <2>1, SaidFacts
    <2>3. Said(Without(t, kind), key) = Said(t, key)
      BY <1>2
    <2>4. CASE s.kind = kind
      <3>1. Values(s, key) = <<>> /\ Without(Append(t, s), kind) = Without(t, kind)
        BY <2>1, <2>4, WithoutFacts
      <3>2. Said(t, key) \o <<>> = Said(t, key)
        BY <2>1, SaidFacts, ConcatEmptySeq
      <3> QED
        BY <2>1, <2>2, <2>3, <3>1, <3>2
    <2>5. CASE s.kind # kind
      <3>1. Without(Append(t, s), kind) = Append(Without(t, kind), s)
        BY <2>1, <2>5, WithoutFacts
      <3>2. Said(Append(Without(t, kind), s), key) = Said(Without(t, kind), key) \o Values(s, key)
        BY <2>1, SaidFacts
      <3> QED
        BY <2>1, <2>2, <2>3, <3>1, <3>2
    <2> QED
      BY <2>4, <2>5
  <1>3. Seq(Section) \subseteq T
    <2> HIDE DEF T
    <2> QED
      BY <1>1, <1>2, SequenceInduction
  <1> QED
    BY <1>3 DEF Text

\* None of them is left.
LEMMA WithoutNone ==
    ASSUME NEW text \in Text, NEW kind
    PROVE  \A n \in DOMAIN Without(text, kind) : Without(text, kind)[n].kind # kind
  <1> DEFINE None(t) == \A n \in DOMAIN t : t[n].kind # kind
             T == {t \in Seq(Section) : None(Without(t, kind))}
  <1>1. <<>> \in T
    BY WithoutFacts
  <1>2. ASSUME NEW t \in Seq(Section), t \in T, NEW s \in Section PROVE Append(t, s) \in T
    <2> DEFINE w == Without(t, kind)
    <2>1. /\ Append(t, s) \in Seq(Section) /\ w \in Seq(Section) /\ None(w)
          /\ Without(Append(t, s), kind) = IF s.kind = kind THEN w ELSE Append(w, s)
      <3>1. t \in Text /\ Append(t, s) \in Seq(Section)
        BY DEF Text
      <3>2. None(w)
        BY <1>2
      <3>3. w \in Seq(Section)
        BY <3>1, WithoutFacts DEF Text
      <3>4. Without(Append(t, s), kind) = IF s.kind = kind THEN w ELSE Append(w, s)
        BY <3>1, WithoutFacts
      <3> QED
        BY <3>1, <3>2, <3>3, <3>4
    <2> HIDE DEF w
    <2>2. ASSUME s.kind # kind PROVE None(Append(w, s))
      <3>1. /\ DOMAIN Append(w, s) = 1 .. Len(w) + 1 /\ Append(w, s)[Len(w) + 1] = s
            /\ DOMAIN w = 1 .. Len(w) /\ Len(w) \in Nat
            /\ \A n \in DOMAIN w : Append(w, s)[n] = w[n]
        BY <2>1
      <3>2. \A n \in 1 .. Len(w) + 1 : n \in DOMAIN w \/ n = Len(w) + 1
        BY <3>1
      <3> QED
        BY <2>1, <2>2, <3>1, <3>2
    <2> QED
      BY <2>1, <2>2
  <1>3. Seq(Section) \subseteq T
    <2> HIDE DEF T
    <2> QED
      BY <1>1, <1>2, SequenceInduction
  <1> QED
    BY <1>3 DEF Text

-----------------------------------------------------------------------------
(* [Network] sections *)

\* One more section is a [Network] section or not.
LEMMA NetworksSnoc ==
    ASSUME NEW t \in Seq(Section), NEW s \in Section
    PROVE  /\ Networks(t) \subseteq 1 .. Len(t) /\ Len(t) \in Nat
           /\ Networks(Append(t, s)) = IF s.kind = "Network" THEN Networks(t) \cup {Len(t) + 1}
                                       ELSE Networks(t)
  <1> DEFINE u == Append(t, s)
  <1>1. /\ DOMAIN u = 1 .. Len(t) + 1 /\ u[Len(t) + 1] = s /\ Len(t) \in Nat
        /\ DOMAIN t = 1 .. Len(t) /\ \A n \in 1 .. Len(t) : u[n] = t[n]
    OBVIOUS
  <1>2. \A n : n \in 1 .. Len(t) + 1 <=> n \in 1 .. Len(t) \/ n = Len(t) + 1
    BY <1>1
  <1> HIDE DEF u
  <1>3. \A n : n \in Networks(u) <=> n \in Networks(t) \/ (n = Len(t) + 1 /\ s.kind = "Network")
    <2>1. Len(t) + 1 \notin 1 .. Len(t)
      BY <1>1
    <2> QED
      BY <1>1, <1>2, <2>1 DEF Networks
  <1>4. Networks(u) = IF s.kind = "Network" THEN Networks(t) \cup {Len(t) + 1} ELSE Networks(t)
    BY <1>3
  <1> QED
    BY <1>1, <1>4 DEF u, Networks

\* Leaving out sections of another kind leaves as many of them.
LEMMA WithoutNetworks ==
    ASSUME NEW text \in Text, NEW kind, kind # "Network"
    PROVE  /\ Networks(text) # {} => Networks(Without(text, kind)) # {}
           /\ (\E p : Networks(text) = {p}) => \E q : Networks(Without(text, kind)) = {q}
  <1> DEFINE Like(t, w) == /\ Networks(t) = {} <=> Networks(w) = {}
                           /\ (\E p : Networks(t) = {p}) => \E q : Networks(w) = {q}
             T == {t \in Seq(Section) : Like(t, Without(t, kind))}
  <1>1. <<>> \in T
    BY WithoutFacts
  <1>2. ASSUME NEW t \in Seq(Section), t \in T, NEW s \in Section PROVE Append(t, s) \in T
    <2> DEFINE w == Without(t, kind)
    <2>1. t \in Text /\ Append(t, s) \in Seq(Section)
      BY DEF Text
    <2>2. w \in Seq(Section)
      BY <2>1, WithoutFacts DEF Text
    <2>3. Without(Append(t, s), kind) = IF s.kind = kind THEN w ELSE Append(w, s)
      BY <2>1, WithoutFacts
    <2>4. Like(t, w)
      BY <1>2
    <2> HIDE DEF w
    <2>5. CASE s.kind # "Network"
      <3>1. Networks(Append(t, s)) = Networks(t) /\ Networks(Append(w, s)) = Networks(w)
        BY <2>2, <2>5, NetworksSnoc
      <3>2. Like(Append(t, s), Without(Append(t, s), kind))
        BY <2>3, <2>4, <3>1
      <3> QED
        BY <2>1, <3>2
    <2>6. CASE s.kind = "Network"
      <3>1. /\ Networks(Append(t, s)) = Networks(t) \cup {Len(t) + 1}
            /\ Networks(Append(w, s)) = Networks(w) \cup {Len(w) + 1}
            /\ Networks(t) \subseteq 1 .. Len(t) /\ Len(t) \in Nat
            /\ Without(Append(t, s), kind) = Append(w, s)
        BY <2>2, <2>3, <2>6, NetworksSnoc
      <3>2. ASSUME NEW p, Networks(Append(t, s)) = {p} PROVE \E q : Networks(Append(w, s)) = {q}
        <4>1. Len(t) + 1 \notin Networks(t) /\ p = Len(t) + 1
          BY <3>1, <3>2
        <4>2. Networks(t) = {}
          BY <3>1, <3>2, <4>1
        <4> QED
          BY <2>4, <3>1, <4>2
      <3>3. Like(Append(t, s), Append(w, s))
        BY <3>1, <3>2
      <3> QED
        BY <2>1, <3>1, <3>3
    <2> QED
      BY <2>5, <2>6
  <1>3. Seq(Section) \subseteq T
    <2> HIDE DEF T
    <2> QED
      BY <1>1, <1>2, SequenceInduction
  <1> QED
    BY <1>3 DEF Text

\* The first one is one of them.
LEMMA FirstFacts ==
    ASSUME NEW text \in Text, Networks(text) # {}
    PROVE  /\ FirstNetwork(text) \in Networks(text) /\ FirstNetwork(text) \in DOMAIN text
           /\ text[FirstNetwork(text)] \in Section /\ text[FirstNetwork(text)].kind = "Network"
           /\ \A p : Networks(text) = {p} => FirstNetwork(text) = p
  <1>1. Networks(text) \in SUBSET Nat
    BY DEF Networks, Text
  <1>2. \E n \in Networks(text) : \A m \in Networks(text) : n <= m
    BY <1>1, Least
  <1>3. FirstNetwork(text) \in Networks(text)
    BY <1>2 DEF FirstNetwork
  <1> QED
    BY <1>3 DEF Networks, Text

Readdressed(s, a, g, d) == [s EXCEPT !.addrs = a, !.gws = g, !.dns = d]

\* A [Network] section is edited and stays one.
LEMMA SectionEdited ==
    ASSUME NEW s \in Section, s.kind = "Network", NEW a \in Seq(Addresses),
           NEW g \in Seq(Gateways), NEW d \in Seq(Servers)
    PROVE  LET r == Readdressed(s, a, g, d)
           IN  /\ r \in Section /\ r.kind = "Network" /\ r.addrs = a /\ r.gws = g /\ r.dns = d
               /\ r.dhcp = s.dhcp
  BY DEF Section, Readdressed

\* Its DHCP= key is, or goes.
LEMMA ClientEdited ==
    ASSUME NEW s \in Section, s.kind = "Network", NEW h \in {"on", "off", Nil}
    PROVE  LET r == [s EXCEPT !.dhcp = h]
           IN  /\ r \in Section /\ r.kind = "Network" /\ r.dhcp = h
               /\ r.addrs = s.addrs /\ r.gws = s.gws /\ r.dns = s.dns
  BY DEF Section

\* The servers of a section are changed, and it stays what it is.
LEMMA ServersEdited ==
    ASSUME NEW s \in Section, s.kind # "Route", NEW d \in Seq(Servers)
    PROVE  LET r == [s EXCEPT !.dns = d]
           IN  /\ r \in Section /\ r.kind = s.kind /\ r.addrs = s.addrs /\ r.gws = s.gws
               /\ r.dns = d /\ r.dhcp = s.dhcp
  BY DEF Section

\* A text with one of them edited.
LEMMA TextEdited ==
    ASSUME NEW text \in Text, NEW p \in Networks(text), NEW s \in Section, s.kind = "Network"
    PROVE  LET u == [text EXCEPT ![p] = s]
           IN  /\ u \in Text /\ DOMAIN u = DOMAIN text /\ u[p] = s /\ p \in DOMAIN text
               /\ \A n \in DOMAIN text : n # p => u[n] = text[n]
               /\ Networks(u) = Networks(text)
  <1> DEFINE u == [text EXCEPT ![p] = s]
  <1>1. p \in DOMAIN text /\ text[p].kind = "Network"
    BY DEF Networks
  <1>2. /\ u \in Text /\ DOMAIN u = DOMAIN text /\ u[p] = s
        /\ \A n \in DOMAIN text : n # p => u[n] = text[n]
    BY <1>1 DEF Text
  <1> HIDE DEF u
  <1>3. Networks(u) = Networks(text)
    BY <1>1, <1>2 DEF Networks
  <1> QED
    BY <1>1, <1>2, <1>3 DEF u

\* The sections name servers under DNS=.
LEMMA ServersType ==
    ASSUME NEW text \in Text
    PROVE  Said(text, "dns") \in Seq(Servers)
  <1> DEFINE T == {t \in Seq(Section) : Said(t, "dns") \in Seq(Servers)}
  <1>1. <<>> \in T
    <2>1. <<>> \in Seq(Section) /\ <<>> \in Seq(Servers)
      OBVIOUS
    <2> QED
      BY <2>1, SaidFacts
  <1>2. ASSUME NEW t \in Seq(Section), t \in T, NEW s \in Section PROVE Append(t, s) \in T
    <2>1. Said(Append(t, s), "dns") = Said(t, "dns") \o Values(s, "dns")
      BY SaidFacts DEF Text
    <2>2. Values(s, "dns") \in Seq(Servers)
      <3>1. <<>> \in Seq(Servers)
        OBVIOUS
      <3> QED
        BY <3>1, SectionFacts DEF Values
    <2>3. Said(t, "dns") \in Seq(Servers) /\ Append(t, s) \in Seq(Section)
      BY <1>2
    <2>4. Said(t, "dns") \o Values(s, "dns") \in Seq(Servers)
      BY <2>2, <2>3
    <2> QED
      BY <2>1, <2>3, <2>4
  <1>3. Seq(Section) \subseteq T
    <2> HIDE DEF T
    <2> QED
      BY <1>1, <1>2, SequenceInduction
  <1> QED
    BY <1>3 DEF Text

-----------------------------------------------------------------------------
(* [Route] sections *)

RouteSections(routes) == [n \in DOMAIN routes |-> [kind |-> "Route", route |-> routes[n]]]

\* They say the routes, and nothing else.
LEMMA RouteSectionsFacts ==
    ASSUME NEW routes \in Seq(Routes)
    PROVE  /\ RouteSections(routes) \in Text
           /\ Said(RouteSections(routes), "route") = routes
           /\ \A key : key # "route" => Said(RouteSections(routes), key) = <<>>
           /\ Networks(RouteSections(routes)) = {}
  <1>1. \A r \in Seq(Routes) : RouteSections(r) \in Seq(Section) /\ Len(RouteSections(r)) = Len(r)
    <2> SUFFICES ASSUME NEW r \in Seq(Routes)
                 PROVE  RouteSections(r) \in Seq(Section) /\ Len(RouteSections(r)) = Len(r)
      OBVIOUS
    <2>1. Len(r) \in Nat /\ DOMAIN r = 1 .. Len(r)
      OBVIOUS
    <2>2. \A n \in 1 .. Len(r) : [kind |-> "Route", route |-> r[n]] \in Section
      BY DEF Section
    <2>3. RouteSections(r) = [n \in 1 .. Len(r) |-> [kind |-> "Route", route |-> r[n]]]
      BY <2>1 DEF RouteSections
    <2> QED
      BY <2>1, <2>2, <2>3
  <1>2. \A n \in DOMAIN RouteSections(routes) : RouteSections(routes)[n].kind = "Route"
    BY DEF RouteSections
  <1>3. ASSUME NEW key, key # "route" PROVE Said(RouteSections(routes), key) = <<>>
    <2> DEFINE t == RouteSections(routes)
    <2>1. \A n \in DOMAIN t : Values(t[n], key) = <<>>
      BY <1>2, <1>3 DEF Values
    <2>2. t \in Text /\ 0 \notin DOMAIN t
      BY <1>1 DEF Text
    <2> HIDE DEF t
    <2>3. Said(t, key) = IF 0 \in DOMAIN t THEN Values(t[0], key) ELSE <<>>
      BY <2>1, <2>2, OnlySaid
    <2> QED
      BY <2>2, <2>3 DEF t
  <1>4. Said(RouteSections(routes), "route") = routes
    <2> DEFINE T == {r \in Seq(Routes) : Said(RouteSections(r), "route") = r}
    <2>1. <<>> \in T
      <3>1. RouteSections(<<>>) = <<>>
        BY DEF RouteSections
      <3> QED
        BY <3>1, SaidFacts
    <2>2. ASSUME NEW r \in Seq(Routes), r \in T, NEW x \in Routes PROVE Append(r, x) \in T
      <3> DEFINE s == [kind |-> "Route", route |-> x]
                 g == RouteSections(r)
                 f == RouteSections(Append(r, x))
      <3>1. s \in Section /\ Values(s, "route") = <<x>>
        BY DEF Section, Values
      <3>2. g \in Seq(Section) /\ Len(g) = Len(r) /\ Len(r) \in Nat
        BY <1>1
      <3>3. /\ DOMAIN f = 1 .. Len(r) + 1 /\ f = [n \in DOMAIN f |-> f[n]]
            /\ \A n \in 1 .. Len(r) : f[n] = g[n]
            /\ f[Len(r) + 1] = s
        <4>1. /\ DOMAIN Append(r, x) = 1 .. Len(r) + 1 /\ DOMAIN r = 1 .. Len(r)
              /\ \A n \in 1 .. Len(r) : Append(r, x)[n] = r[n]
              /\ Append(r, x)[Len(r) + 1] = x
          OBVIOUS
        <4>2. \A n \in 1 .. Len(r) : n \in 1 .. Len(r) + 1
          BY <3>2
        <4>3. Len(r) + 1 \in 1 .. Len(r) + 1
          BY <3>2
        <4> QED
          BY <4>1, <4>2, <4>3 DEF RouteSections
      <3> HIDE DEF f, g, s
      <3>4. f = Append(g, s)
        BY <3>1, <3>2, <3>3, Longer
      <3>5. Said(f, "route") = Said(g, "route") \o <<x>>
        BY <3>1, <3>2, <3>4, SaidFacts DEF Text
      <3>6. Said(g, "route") = r
        BY <2>2 DEF g
      <3>7. r \o <<x>> = Append(r, x) /\ Append(r, x) \in Seq(Routes)
        BY AppendIsConcat
      <3> QED
        BY <3>5, <3>6, <3>7 DEF f
    <2>3. Seq(Routes) \subseteq T
      <3> HIDE DEF T
      <3> QED
        BY <2>1, <2>2, SequenceInduction
    <2> QED
      BY <2>3
  <1> QED
    BY <1>1, <1>2, <1>3, <1>4 DEF Text, Networks

-----------------------------------------------------------------------------
(* The edits *)

GatewayList(gateway) == IF gateway = Nil THEN <<>> ELSE <<gateway>>

\* The addresses and the gateway become the ones asked for, and nothing else changes.
LEMMA AddressesEdit ==
    ASSUME NEW text \in Text, Networks(text) # {}, NEW addrs \in Seq(Addresses),
           NEW gateway \in Gateways \cup {Nil}
    PROVE  LET u == WithAddresses(text, addrs, gateway)
           IN  /\ u \in Text /\ Networks(u) # {}
               /\ (\E p : Networks(text) = {p}) =>
                     /\ Said(u, "addrs") = addrs /\ Said(u, "gws") = GatewayList(gateway)
                     /\ Said(u, "dns") = Said(text, "dns")
                     /\ Said(u, "dhcp") = Said(text, "dhcp")
                     /\ Said(u, "route") = Said(text, "route")
  <1> DEFINE kept == Without(text, "Address")
             p == FirstNetwork(kept)
             d == Said(text, "dns")
             g == GatewayList(gateway)
             s == Readdressed(kept[p], addrs, g, d)
             u == [kept EXCEPT ![p] = s]
  <1>1. kept \in Text /\ Networks(kept) # {}
    BY WithoutFacts, WithoutNetworks
  <1>2. g \in Seq(Gateways) /\ d \in Seq(Servers)
    <2>1. gateway # Nil => <<gateway>> \in Seq(Gateways)
      OBVIOUS
    <2>2. <<>> \in Seq(Gateways)
      OBVIOUS
    <2> QED
      BY <2>1, <2>2, ServersType DEF GatewayList
  <1>3. WithAddresses(text, addrs, gateway) = u
    BY DEF WithAddresses, GatewayList, Readdressed
  <1>4. p \in Networks(kept) /\ kept[p] \in Section /\ kept[p].kind = "Network"
    <2> HIDE DEF kept
    <2> QED
      BY <1>1, FirstFacts
  <1>5. /\ s \in Section /\ s.kind = "Network" /\ s.addrs = addrs /\ s.gws = g /\ s.dns = d
        /\ s.dhcp = kept[p].dhcp
    <2> HIDE DEF kept, p, g, d
    <2> QED
      BY <1>2, <1>4, SectionEdited
  <1> HIDE DEF s
  <1>6. /\ u \in Text /\ DOMAIN u = DOMAIN kept /\ u[p] = s /\ p \in DOMAIN kept
        /\ \A n \in DOMAIN kept : n # p => u[n] = kept[n]
        /\ Networks(u) = Networks(kept)
    <2> HIDE DEF kept, p
    <2> QED
      BY <1>1, <1>4, <1>5, TextEdited
  <1> HIDE DEF u
  <1>7. ASSUME NEW x, Networks(text) = {x}
        PROVE  /\ Said(u, "addrs") = addrs /\ Said(u, "gws") = g /\ Said(u, "dns") = d
               /\ Said(u, "dhcp") = Said(text, "dhcp") /\ Said(u, "route") = Said(text, "route")
    <2>1. \A n \in DOMAIN kept : n # p => kept[n].kind = "Route"
      <3>1. \E q : Networks(kept) = {q}
        BY <1>7, WithoutNetworks
      <3>2. Networks(kept) = {p}
        BY <1>4, <3>1
      <3>3. \A n \in DOMAIN kept : n # p => kept[n].kind # "Network"
        BY <3>2 DEF Networks
      <3>4. \A n \in DOMAIN kept : kept[n].kind # "Address"
        BY WithoutNone
      <3>5. \A n \in DOMAIN kept : kept[n].kind \in {"Network", "Address", "Route"}
        <4> HIDE DEF kept
        <4> QED
          BY <1>1, SectionFacts DEF Text
      <3> QED
        BY <3>3, <3>4, <3>5
    <2> HIDE DEF kept, p
    <2>2. ASSUME NEW key, key # "route" PROVE Said(u, key) = Values(s, key)
      <3>1. \A n \in DOMAIN u : n # p => Values(u[n], key) = <<>>
        BY <1>6, <2>1, <2>2 DEF Values
      <3>2. Said(u, key) = IF p \in DOMAIN u THEN Values(u[p], key) ELSE <<>>
        BY <1>6, <3>1, OnlySaid
      <3> QED
        BY <1>6, <3>2
    <2>3. Said(u, "addrs") = addrs /\ Said(u, "gws") = g /\ Said(u, "dns") = d
      BY <1>5, <2>2 DEF Values
    <2>4. Said(u, "dhcp") = Said(kept, "dhcp") /\ Said(u, "route") = Said(kept, "route")
      <3>1. /\ Values(s, "dhcp") = Values(kept[p], "dhcp")
            /\ Values(s, "route") = Values(kept[p], "route")
        BY <1>4, <1>5 DEF Values
      <3>2. \A n \in DOMAIN u : /\ Values(u[n], "dhcp") = Values(kept[n], "dhcp")
                                /\ Values(u[n], "route") = Values(kept[n], "route")
        BY <1>6, <3>1
      <3> QED
        BY <1>6, <3>2, SameSaid
    <2>5. Said(kept, "dhcp") = Said(text, "dhcp") /\ Said(kept, "route") = Said(text, "route")
      <3>1. ASSUME NEW e \in Section, e.kind = "Address"
            PROVE  Values(e, "dhcp") = <<>> /\ Values(e, "route") = <<>>
        BY <3>1, SectionFacts DEF Values
      <3> QED
        BY <3>1, WithoutSaid DEF kept
    <2> QED
      BY <2>3, <2>4, <2>5
  <1> QED
    BY <1>1, <1>3, <1>6, <1>7

\* So does the DHCP client.
LEMMA DHCPEdit ==
    ASSUME NEW text \in Text, Networks(text) # {}, NEW on \in BOOLEAN
    PROVE  LET u == WithDHCP(text, on)
           IN  /\ u \in Text /\ Networks(u) # {}
               /\ \A key : key # "dhcp" => Said(u, key) = Said(text, key)
               /\ (\E p : Networks(text) = {p}) =>
                     Said(u, "dhcp") = IF on THEN <<"on">> ELSE <<>>
  <1> DEFINE p == FirstNetwork(text)
             h == IF on THEN "on" ELSE Nil
             s == [text[p] EXCEPT !.dhcp = h]
             u == [text EXCEPT ![p] = s]
  <1>1. WithDHCP(text, on) = u
    BY DEF WithDHCP
  <1>2. p \in Networks(text) /\ text[p] \in Section /\ text[p].kind = "Network"
    BY FirstFacts
  <1>3. h \in {"on", "off", Nil}
    OBVIOUS
  <1>4. /\ s \in Section /\ s.kind = "Network" /\ s.dhcp = h
        /\ s.addrs = text[p].addrs /\ s.gws = text[p].gws /\ s.dns = text[p].dns
    <2> HIDE DEF p, h
    <2> QED
      BY <1>2, <1>3, ClientEdited
  <1> HIDE DEF s
  <1>5. /\ u \in Text /\ DOMAIN u = DOMAIN text /\ u[p] = s /\ p \in DOMAIN text
        /\ \A n \in DOMAIN text : n # p => u[n] = text[n]
        /\ Networks(u) = Networks(text)
    <2> HIDE DEF p
    <2> QED
      BY <1>2, <1>4, TextEdited
  <1> HIDE DEF u
  <1>6. ASSUME NEW key, key # "dhcp" PROVE Said(u, key) = Said(text, key)
    <2>1. Values(s, key) = Values(text[p], key)
      BY <1>2, <1>4, <1>6 DEF Values
    <2>2. \A n \in DOMAIN u : Values(u[n], key) = Values(text[n], key)
      BY <1>5, <2>1
    <2> QED
      BY <1>5, <2>2, SameSaid
  <1>7. ASSUME NEW x, Networks(text) = {x} PROVE Said(u, "dhcp") = IF on THEN <<"on">> ELSE <<>>
    <2>1. \A n \in DOMAIN text : n # p => text[n].kind # "Network"
      BY <1>2, <1>7 DEF Networks
    <2>2. \A n \in DOMAIN u : n # p => Values(u[n], "dhcp") = <<>>
      <3> TAKE n \in DOMAIN u
      <3> HAVE n # p
      <3>1. n \in DOMAIN text /\ u[n] = text[n] /\ text[n] \in Section
        BY <1>5 DEF Text
      <3> QED
        BY <2>1, <3>1, SectionFacts DEF Values
    <2>3. Said(u, "dhcp") = Values(s, "dhcp")
      <3> HIDE DEF p
      <3>1. Said(u, "dhcp") = IF p \in DOMAIN u THEN Values(u[p], "dhcp") ELSE <<>>
        BY <1>5, <2>2, OnlySaid
      <3> QED
        BY <1>5, <3>1
    <2>4. Nil # "on"
      BY NetworkdAssumption DEF NetworkdAssumption
    <2> QED
      BY <1>4, <2>3, <2>4 DEF Values
  <1> QED
    BY <1>1, <1>2, <1>5, <1>6, <1>7

\* And the routes.
LEMMA RoutesEdit ==
    ASSUME NEW text \in Text, Networks(text) # {}, NEW routes \in Seq(Routes)
    PROVE  LET u == WithRoutes(text, routes)
           IN  /\ u \in Text /\ Networks(u) # {}
               /\ \A key : key # "route" => Said(u, key) = Said(text, key)
               /\ Said(u, "route") = routes
  <1> DEFINE kept == Without(text, "Route")
             more == RouteSections(routes)
             u == kept \o more
  <1>1. WithRoutes(text, routes) = u
    BY DEF WithRoutes, RouteSections
  <1>2. /\ kept \in Text /\ Networks(kept) # {} /\ more \in Text /\ u \in Text
    <2>1. kept \in Text /\ Networks(kept) # {} /\ more \in Text
      BY WithoutFacts, WithoutNetworks, RouteSectionsFacts
    <2> HIDE DEF kept, more
    <2>2. u \in Text
      BY <2>1 DEF Text
    <2> QED
      BY <2>1, <2>2
  <1>3. Networks(u) # {}
    <2> HIDE DEF kept, more
    <2>1. PICK n \in DOMAIN kept : kept[n].kind = "Network"
      BY <1>2 DEF Networks
    <2>2. n \in DOMAIN u /\ u[n] = kept[n]
      BY <1>2 DEF Text
    <2> QED
      BY <2>1, <2>2 DEF Networks
  <1>4. ASSUME NEW key PROVE Said(u, key) = Said(kept, key) \o Said(more, key)
    <2> HIDE DEF kept, more
    <2> QED
      BY <1>2, JoinedSaid
  <1>5. ASSUME NEW key, key # "route" PROVE Said(u, key) = Said(text, key)
    <2>1. \A e \in Section : e.kind = "Route" => Values(e, key) = <<>>
      BY <1>5 DEF Values
    <2>2. Said(kept, key) = Said(text, key)
      BY <2>1, WithoutSaid
    <2>3. Said(more, key) = <<>>
      BY <1>5, RouteSectionsFacts
    <2>4. Said(text, key) \o <<>> = Said(text, key)
      BY SaidFacts, ConcatEmptySeq
    <2> QED
      BY <1>4, <2>2, <2>3, <2>4
  <1>6. Said(u, "route") = routes
    <2>1. Said(kept, "route") = <<>>
      <3>1. \A n \in DOMAIN kept : kept[n].kind # "Route"
        BY WithoutNone
      <3> HIDE DEF kept
      <3>2. \A n \in DOMAIN kept : n # 0 => Values(kept[n], "route") = <<>>
        BY <3>1 DEF Values
      <3>3. 0 \notin DOMAIN kept
        BY <1>2 DEF Text
      <3>4. Said(kept, "route") = IF 0 \in DOMAIN kept THEN Values(kept[0], "route") ELSE <<>>
        BY <1>2, <3>2, OnlySaid
      <3> QED
        BY <3>3, <3>4
    <2>2. Said(more, "route") = routes
      BY RouteSectionsFacts
    <2>3. <<>> \o routes = routes
      OBVIOUS
    <2> QED
      BY <1>4, <2>1, <2>2, <2>3
  <1> QED
    BY <1>1, <1>2, <1>3, <1>5, <1>6

\* And the servers.
LEMMA ServersEdit ==
    ASSUME NEW text \in Text, Networks(text) # {}, NEW servers \in Seq(Servers)
    PROVE  LET u == WithServers(text, servers)
           IN  /\ u \in Text /\ Networks(u) # {}
               /\ \A key : key # "dns" => Said(u, key) = Said(text, key)
               /\ Said(u, "dns") = servers
  <1> DEFINE p == FirstNetwork(text)
             new(n) == IF n = p THEN servers ELSE <<>>
             sec(n) == IF text[n].kind = "Route" THEN text[n]
                       ELSE [text[n] EXCEPT !.dns = new(n)]
             u == [n \in DOMAIN text |-> sec(n)]
  <1>1. WithServers(text, servers) = u
    BY DEF WithServers
  <1>2. p \in DOMAIN text /\ p \in Networks(text) /\ text[p].kind = "Network"
    BY FirstFacts
  <1>3. ASSUME NEW n \in DOMAIN text
        PROVE  /\ text[n] \in Section /\ sec(n) \in Section /\ sec(n).kind = text[n].kind
               /\ text[n].kind # "Route" =>
                     /\ sec(n).addrs = text[n].addrs /\ sec(n).gws = text[n].gws
                     /\ sec(n).dns = new(n) /\ sec(n).dhcp = text[n].dhcp
               /\ text[n].kind = "Route" => sec(n) = text[n]
    <2>1. text[n] \in Section /\ new(n) \in Seq(Servers)
      <3>1. <<>> \in Seq(Servers)
        OBVIOUS
      <3> QED
        BY <3>1 DEF Text
    <2> HIDE DEF new
    <2>2. CASE text[n].kind = "Route"
      BY <2>1, <2>2
    <2>3. CASE text[n].kind # "Route"
      BY <2>1, <2>3, ServersEdited
    <2> QED
      BY <2>2, <2>3
  <1> HIDE DEF sec
  <1>4. u \in Text /\ DOMAIN u = DOMAIN text /\ \A n \in DOMAIN text : u[n] = sec(n)
    <2>1. DOMAIN text = 1 .. Len(text) /\ Len(text) \in Nat
      BY DEF Text
    <2>2. u = [n \in 1 .. Len(text) |-> sec(n)]
      BY <2>1
    <2> QED
      BY <1>3, <2>1, <2>2 DEF Text
  <1> HIDE DEF u
  <1>5. Networks(u) # {}
    BY <1>2, <1>3, <1>4 DEF Networks
  <1>6. ASSUME NEW key, key # "dns" PROVE Said(u, key) = Said(text, key)
    <2>1. \A n \in DOMAIN u : Values(u[n], key) = Values(text[n], key)
      BY <1>3, <1>4, <1>6 DEF Values
    <2> QED
      BY <1>4, <2>1, SameSaid
  <1>7. Said(u, "dns") = servers
    <2>1. \A n \in DOMAIN u : n # p => Values(u[n], "dns") = <<>>
      BY <1>3, <1>4 DEF Values
    <2>2. Values(u[p], "dns") = servers
      BY <1>2, <1>3, <1>4 DEF Values
    <2> HIDE DEF p
    <2>3. Said(u, "dns") = IF p \in DOMAIN u THEN Values(u[p], "dns") ELSE <<>>
      BY <1>4, <2>1, OnlySaid
    <2> QED
      BY <1>2, <1>4, <2>2, <2>3
  <1> QED
    BY <1>1, <1>4, <1>5, <1>6, <1>7

\* What a call may ask for.
LEMMA RequestFacts ==
    ASSUME req \in Requests
    PROVE  \/ /\ req.op = "SetIfaceAddresses" /\ req.addrs \in Seq(Addresses)
              /\ req.gateway \in Gateways \cup {Nil}
           \/ req.op = "SetIfaceDHCP" /\ req.on \in BOOLEAN
           \/ req.op = "SetIfaceRoutes" /\ req.routes \in Seq(Routes)
           \/ req.op = "SetIfaceDNS" /\ req.servers \in Seq(Servers)
  BY NetworkdAssumption DEF NetworkdAssumption, Requests

\* One [Network] section.
LEMMA OneNetwork ==
    ASSUME NEW text \in Text, Cardinality(Networks(text)) = 1
    PROVE  \E p : Networks(text) = {p}
  <1>1. IsFiniteSet(1 .. Len(text)) /\ Networks(text) \subseteq 1 .. Len(text)
    <2>1. Len(text) \in Nat
      BY DEF Text
    <2>2. IsFiniteSet(1 .. Len(text))
      BY <2>1, FS_Interval
    <2> QED
      BY <2>2 DEF Networks, Text
  <1>2. IsFiniteSet(Networks(text))
    BY <1>1, FS_Subset
  <1> QED
    BY <1>2, FS_Singleton

ClientOn(text) == Said(text, "dhcp") # <<>> /\ Last(Said(text, "dhcp")) = "on"

\* An edit leaves a text with a [Network] section, and with one of them it does what the
\* call asks for and nothing else.
LEMMA EditedFacts ==
    ASSUME NEW text \in Text, Networks(text) # {}, req \in Requests
    PROVE  /\ Edited(text) \in Text /\ Networks(Edited(text)) # {}
           /\ Cardinality(Networks(text)) = 1 => Configured(Edited(text)) = Asked(Configured(text))
  <1> DEFINE One == \E p : Networks(text) = {p}
             Say(t) == [addrs |-> Said(t, "addrs"), gws |-> Said(t, "gws"), dns |-> Said(t, "dns"),
                        dhcp |-> ClientOn(t), routes |-> Said(t, "route")]
  <1>1. Cardinality(Networks(text)) = 1 => One
    BY OneNetwork
  <1>2. \A t : Configured(t) = Say(t)
    BY DEF Configured, ClientOn
  <1>3. CASE req.op = "SetIfaceAddresses"
    <2> DEFINE u == WithAddresses(text, req.addrs, req.gateway)
    <2>1. req.addrs \in Seq(Addresses) /\ req.gateway \in Gateways \cup {Nil}
      BY <1>3, RequestFacts
    <2>2. /\ u \in Text /\ Networks(u) # {}
          /\ One => /\ Said(u, "addrs") = req.addrs /\ Said(u, "gws") = GatewayList(req.gateway)
                    /\ Said(u, "dns") = Said(text, "dns") /\ Said(u, "dhcp") = Said(text, "dhcp")
                    /\ Said(u, "route") = Said(text, "route")
      BY <2>1, AddressesEdit
    <2>3. Edited(text) = u
      BY <1>3 DEF Edited
    <2> HIDE DEF u
    <2> DEFINE g == GatewayList(req.gateway)
               want == [addrs |-> req.addrs, gws |-> g, dns |-> Said(text, "dns"),
                        dhcp |-> ClientOn(text), routes |-> Said(text, "route")]
    <2>4. One => Say(u) = want
      BY <2>2 DEF ClientOn
    <2>5. Asked(Say(text)) = [Say(text) EXCEPT !.addrs = req.addrs, !.gws = g]
      BY <1>3 DEF Asked, GatewayList
    <2>6. [Say(text) EXCEPT !.addrs = req.addrs, !.gws = g] = want
      <3> DEFINE a == Said(text, "addrs")
                 b == Said(text, "gws")
                 d == Said(text, "dns")
                 h == ClientOn(text)
                 r == Said(text, "route")
                 x == req.addrs
      <3> HIDE DEF a, b, d, h, r, x, g
      <3> DEFINE old == [addrs |-> a, gws |-> b, dns |-> d, dhcp |-> h, routes |-> r]
                 once == [old EXCEPT !.addrs = x]
                 half == [addrs |-> x, gws |-> b, dns |-> d, dhcp |-> h, routes |-> r]
                 new == [addrs |-> x, gws |-> g, dns |-> d, dhcp |-> h, routes |-> r]
      <3>1. once = half
        OBVIOUS
      <3> HIDE DEF old
      <3>2. [old EXCEPT !.addrs = x, !.gws = g] = [once EXCEPT !.gws = g]
        OBVIOUS
      <3> HIDE DEF once
      <3>3. [half EXCEPT !.gws = g] = new
        OBVIOUS
      <3>4. Say(text) = old /\ want = new /\ x = req.addrs
        BY DEF old, a, b, d, h, r, x
      <3> HIDE DEF half, new, Say, want
      <3> QED
        BY <3>1, <3>2, <3>3, <3>4
    <2> HIDE DEF Say, want
    <2> QED
      BY <1>1, <1>2, <2>2, <2>3, <2>4, <2>5, <2>6
  <1>4. CASE req.op = "SetIfaceDHCP"
    <2> DEFINE u == WithDHCP(text, req.on)
    <2>1. req.on \in BOOLEAN
      BY <1>4, RequestFacts
    <2>2. /\ u \in Text /\ Networks(u) # {}
          /\ \A key : key # "dhcp" => Said(u, key) = Said(text, key)
          /\ One => Said(u, "dhcp") = IF req.on THEN <<"on">> ELSE <<>>
      BY <2>1, DHCPEdit
    <2>3. Edited(text) = u
      BY <1>4 DEF Edited
    <2> HIDE DEF u
    <2>4. One => ClientOn(u) = req.on
      <3>1. <<"on">> # <<>> /\ Last(<<"on">>) = "on"
        BY DEF Last
      <3> QED
        BY <2>1, <2>2, <3>1 DEF ClientOn
    <2>5. One => Say(u) = [Say(text) EXCEPT !.dhcp = req.on]
      <3>1. /\ Said(u, "addrs") = Said(text, "addrs") /\ Said(u, "gws") = Said(text, "gws")
            /\ Said(u, "dns") = Said(text, "dns") /\ Said(u, "route") = Said(text, "route")
        BY <2>2
      <3> QED
        BY <2>4, <3>1
    <2>6. \A old : Asked(old) = [old EXCEPT !.dhcp = req.on]
      BY <1>4 DEF Asked
    <2> HIDE DEF Say
    <2> QED
      BY <1>1, <1>2, <2>2, <2>3, <2>5, <2>6
  <1>5. CASE req.op = "SetIfaceRoutes"
    <2> DEFINE u == WithRoutes(text, req.routes)
    <2>1. req.routes \in Seq(Routes)
      BY <1>5, RequestFacts
    <2>2. /\ u \in Text /\ Networks(u) # {}
          /\ \A key : key # "route" => Said(u, key) = Said(text, key)
          /\ Said(u, "route") = req.routes
      BY <2>1, RoutesEdit
    <2>3. Edited(text) = u
      BY <1>5 DEF Edited
    <2> HIDE DEF u
    <2>4. Say(u) = [Say(text) EXCEPT !.routes = req.routes]
      <3>1. /\ Said(u, "addrs") = Said(text, "addrs") /\ Said(u, "gws") = Said(text, "gws")
            /\ Said(u, "dns") = Said(text, "dns") /\ Said(u, "dhcp") = Said(text, "dhcp")
        BY <2>2
      <3> QED
        BY <2>2, <3>1 DEF ClientOn
    <2>5. \A old : Asked(old) = [old EXCEPT !.routes = req.routes]
      BY <1>5 DEF Asked
    <2> HIDE DEF Say
    <2> QED
      BY <1>2, <2>2, <2>3, <2>4, <2>5
  <1>6. CASE req.op = "SetIfaceDNS"
    <2> DEFINE u == WithServers(text, req.servers)
    <2>1. req.servers \in Seq(Servers)
      BY <1>6, RequestFacts
    <2>2. /\ u \in Text /\ Networks(u) # {}
          /\ \A key : key # "dns" => Said(u, key) = Said(text, key)
          /\ Said(u, "dns") = req.servers
      BY <2>1, ServersEdit
    <2>3. Edited(text) = u
      BY <1>6 DEF Edited
    <2> HIDE DEF u
    <2>4. Say(u) = [Say(text) EXCEPT !.dns = req.servers]
      <3>1. /\ Said(u, "addrs") = Said(text, "addrs") /\ Said(u, "gws") = Said(text, "gws")
            /\ Said(u, "route") = Said(text, "route") /\ Said(u, "dhcp") = Said(text, "dhcp")
        BY <2>2
      <3> QED
        BY <2>2, <3>1 DEF ClientOn
    <2>5. \A old : Asked(old) = [old EXCEPT !.dns = req.servers]
      BY <1>6 DEF Asked
    <2> HIDE DEF Say
    <2> QED
      BY <1>2, <2>2, <2>3, <2>4, <2>5
  <1> QED
    BY <1>3, <1>4, <1>5, <1>6, RequestFacts

-----------------------------------------------------------------------------
(* What a call writes *)

\* What is read of a file is its text and how many drop-ins it has.
Known(ns) ==
    \A f \in Files : ns[f] # Nil =>
        /\ ns[f] = [text |-> ns[f].text, subs |-> ns[f].subs]
        /\ ns[f].text \in Text /\ ns[f].subs \in Nat /\ Networks(ns[f].text) # {}

\* What the call makes of a file, and that the file has it.
Wanted(f) == Edited(pre.networks[f].text)
Written(f) == disk[f] = Wanted(f)

\* Every text that is on disk or in memory is one, and has a [Network] section in memory.
TextInv ==
    /\ OnFiles(networks) /\ Known(networks) /\ Known(pre.networks)
    /\ \A f \in Files : networks[f] # Nil => pre.networks[f] # Nil
    /\ \A f \in Files : disk[f] \in Text \cup {Absent} /\ tmp[f] \in Text \cup {Absent}
    /\ dropins \in [Files -> Seq(Text)]
    /\ req \in Requests

\* The networks before the one a call is at are saved, and the ones after it are to be
\* edited yet.
PassedInv ==
    pc \in Working \cup {"loop"} =>
        \A n \in 1 .. Len(FileOrder) :
            /\ n < i /\ Mine(FileOrder[n]) => Written(FileOrder[n])
            /\ n > i => networks[FileOrder[n]] = pre.networks[FileOrder[n]]

\* The one it is at has the text it is to have, in memory, beside the file, in its place.
SavingInv ==
    /\ pc = "loop" /\ i <= Len(FileOrder) => network = pre.networks[file]
    /\ pc \in Working => Mine(file) /\ network.text = Wanted(file)
    /\ pc \in {"backup", "install"} => tmp[file] = Wanted(file)
    /\ pc = "prune" => Written(file)

DoneInv == pc = "idle" /\ ret = "ok" => \A f \in Files : Mine(f) => Written(f)

NetworkdInv == RiskInv /\ TextInv /\ PassedInv /\ SavingInv /\ DoneInv

\* Every file is at a place of the walk, and at no other.
LEMMA Places ==
    /\ Len(FileOrder) \in Nat
    /\ \A n \in 1 .. Len(FileOrder) : FileOrder[n] \in Files
    /\ \A n, m \in 1 .. Len(FileOrder) : n # m => FileOrder[n] # FileOrder[m]
    /\ \A f \in Files : \E n \in 1 .. Len(FileOrder) : FileOrder[n] = f
  BY NetworkdAssumption DEF NetworkdAssumption

\* What a call wants does not change while it runs.
LEMMA SameWanted ==
    ASSUME UNCHANGED <<req, pre>>
    PROVE  \A f : Wanted(f)' = Wanted(f)
  BY DEF Wanted, Edited

\* It is a text, with a [Network] section.
LEMMA WantedFacts ==
    ASSUME TextInv, NEW f \in Files, networks[f] # Nil
    PROVE  Wanted(f) \in Text /\ Networks(Wanted(f)) # {}
  BY EditedFacts DEF TextInv, Known, Wanted

\* What is read of the directory.
LEMMA ReadFacts ==
    ASSUME \A f \in Files : disk[f] \in Text \cup {Absent}, dropins \in [Files -> Seq(Text)],
           Readable
    PROVE  OnFiles(readNetworkdConfigDirectory) /\ Known(readNetworkdConfigDirectory)
  <1> DEFINE ns == readNetworkdConfigDirectory
  <1>1. ASSUME NEW f \in Files, disk[f] # Absent PROVE Parsed(f) \in Text
    <2>1. disk[f] \in Seq(Section) /\ dropins[f] \in Seq(Seq(Section))
      BY <1>1 DEF Text
    <2>2. FlattenSeq(dropins[f]) \in Seq(Section)
      BY <2>1, FlattenType
    <2> QED
      BY <2>1, <2>2 DEF Parsed, Text
  <1>2. ASSUME NEW f \in Files, ns[f] # Nil
        PROVE  /\ ns[f] = [text |-> Parsed(f), subs |-> Len(dropins[f])]
               /\ disk[f] # Absent
    BY <1>2 DEF readNetworkdConfigDirectory
  <1>3. ASSUME NEW f \in Files, ns[f] # Nil
        PROVE  /\ ns[f] = [text |-> ns[f].text, subs |-> ns[f].subs]
               /\ ns[f].text \in Text /\ ns[f].subs \in Nat /\ Networks(ns[f].text) # {}
    <2>1. Parsed(f) \in Text /\ Networks(Parsed(f)) # {}
      BY <1>1, <1>2, <1>3 DEF Readable
    <2>2. ns[f] = [text |-> Parsed(f), subs |-> Len(dropins[f])]
      BY <1>2, <1>3
    <2>3. Len(dropins[f]) \in Nat
      OBVIOUS
    <2> HIDE DEF ns
    <2> QED
      BY <2>1, <2>2, <2>3
  <1>4. OnFiles(ns)
    BY DEF OnFiles, readNetworkdConfigDirectory
  <1> QED
    BY <1>3, <1>4 DEF Known

\* The directory a process begins with.
LEMMA PartInit == Init => NetworkdInv
  <1> SUFFICES ASSUME Init PROVE NetworkdInv
    OBVIOUS
  <1>1. RiskInv
    BY RiskInit
  <1>2. (\A f \in Files : disk[f] \in Text \cup {Absent}) /\ dropins \in [Files -> Seq(Text)]
    <2>1. PICK d \in Dirs : disk = d.main /\ dropins = d.dropins
      BY DEF Init
    <2> QED
      BY <2>1, NetworkdAssumption DEF NetworkdAssumption
  <1>3. Readable /\ networks = readNetworkdConfigDirectory /\ pre.networks = networks
    BY DEF Init
  <1>4. OnFiles(networks) /\ Known(networks) /\ Known(pre.networks)
    BY <1>2, <1>3, ReadFacts
  <1>5. req \in Requests
    <2>1. PICK f \in Files : NameOf[f] # Nil
      BY <1>3 DEF Readable
    <2>2. NameOf[f] \in Iface
      BY <2>1, NetworkdAssumption DEF NetworkdAssumption
    <2>3. [op |-> "SetIfaceDHCP", iface |-> NameOf[f], on |-> TRUE] \in Requests
      BY <2>2 DEF Requests
    <2>4. \E r \in Requests : r.op = "SetIfaceDHCP"
      BY <2>3
    <2> QED
      BY <2>4 DEF Init
  <1>6. TextInv
    BY <1>2, <1>3, <1>4, <1>5 DEF Init, TextInv
  <1> QED
    BY <1>1, <1>6 DEF Init, NetworkdInv, PassedInv, SavingInv, DoneInv, Working

\* A step that edits no text and renames no file keeps the texts.
LEMMA TextKept ==
    ASSUME NetworkdInv, UNCHANGED <<disk, tmp, dropins, networks, pre, req>>
    PROVE  TextInv'
  BY DEF NetworkdInv, TextInv

\* A call begins, with nothing edited.
LEMMA CallPart ==
    ASSUME NetworkdInv, \E op : Call(op)
    PROVE  TextInv' /\ PassedInv' /\ SavingInv' /\ DoneInv'
  <1>1. /\ UNCHANGED <<disk, tmp, dropins, networks>> /\ pre'.networks = networks
        /\ req' \in Requests /\ pc' = "loop" /\ i' = 1
    BY DEF Call, files
  <1>2. TextInv'
    BY <1>1 DEF NetworkdInv, TextInv
  <1>3. PassedInv'
    BY <1>1, Places DEF PassedInv
  <1>4. SavingInv' /\ DoneInv'
    BY <1>1 DEF SavingInv, DoneInv, Working, network, file
  <1> QED
    BY <1>2, <1>3, <1>4

\* A process begins with what is on disk.
LEMMA ReadPart ==
    ASSUME NetworkdInv, newNetworkd
    PROVE  TextInv' /\ PassedInv' /\ SavingInv' /\ DoneInv'
  <1>1. /\ UNCHANGED <<disk, tmp, dropins, req>> /\ networks' = readNetworkdConfigDirectory
        /\ pre'.networks = networks' /\ pc' = "idle" /\ ret' = "none" /\ Readable
    BY DEF newNetworkd, files
  <1>2. OnFiles(networks') /\ Known(networks')
    BY <1>1, ReadFacts DEF NetworkdInv, TextInv
  <1>3. TextInv'
    BY <1>1, <1>2 DEF NetworkdInv, TextInv
  <1> QED
    BY <1>1, <1>3 DEF PassedInv, SavingInv, DoneInv, Working

\* A call ends in an error, or the process ends.
LEMMA LeavePart ==
    ASSUME NetworkdInv, Exit \/ BackupDropIn \/ BackupMissing \/ Fault
    PROVE  TextInv' /\ PassedInv' /\ SavingInv' /\ DoneInv'
  <1>1. /\ UNCHANGED <<disk, tmp, dropins, req, pre>> /\ pc' \in {"down", "idle"}
        /\ pc' = "idle" => ret' = "error" /\ networks' = networks
        /\ networks' = networks \/ networks' = [f \in Files |-> Nil]
    BY DEF Exit, BackupDropIn, BackupMissing, Fault, Fails, Frame, files
  <1>2. TextInv'
    BY <1>1 DEF NetworkdInv, TextInv, OnFiles, Known
  <1> QED
    BY <1>1, <1>2 DEF PassedInv, SavingInv, DoneInv, Working

\* The walk passes a network of another interface.
LEMMA SkipPart ==
    ASSUME NetworkdInv, SkipNetwork
    PROVE  TextInv' /\ PassedInv' /\ SavingInv' /\ DoneInv'
  <1>1. /\ UNCHANGED <<disk, tmp, dropins, networks, pre, req>> /\ pc = "loop" /\ pc' = "loop"
        /\ i \in Nat \ {0} /\ i <= Len(FileOrder) /\ i' = i + 1 /\ ~Mine(file)
    BY DEF SkipNetwork, Frame, files, NetworkdInv, RiskInv
  <1>2. TextInv'
    BY <1>1, TextKept
  <1>3. /\ \A f : Mine(f)' <=> Mine(f)
        /\ \A f : Written(f)' <=> Written(f)
    BY <1>1, SameWanted DEF Mine, Written
  <1>4. PassedInv'
    <2>1. ASSUME NEW n \in 1 .. Len(FileOrder)
          PROVE  /\ n < i' /\ Mine(FileOrder[n])' => Written(FileOrder[n])'
                 /\ n > i' => networks'[FileOrder[n]] = pre'.networks[FileOrder[n]]
      <3>1. n < i' => n < i \/ n = i
        BY <1>1, Places
      <3>2. n > i' => n > i
        BY <1>1, Places
      <3>3. n = i => ~Mine(FileOrder[n])
        BY <1>1 DEF file
      <3>4. n < i /\ Mine(FileOrder[n]) => Written(FileOrder[n])
        BY <1>1 DEF NetworkdInv, PassedInv
      <3>5. n > i => networks[FileOrder[n]] = pre.networks[FileOrder[n]]
        BY <1>1 DEF NetworkdInv, PassedInv
      <3> QED
        BY <1>1, <1>3, <3>1, <3>2, <3>3, <3>4, <3>5
    <2> QED
      BY <2>1 DEF PassedInv
  <1>5. SavingInv' /\ DoneInv'
    <2>1. i + 1 <= Len(FileOrder) => networks[FileOrder[i + 1]] = pre.networks[FileOrder[i + 1]]
      <3>1. i + 1 <= Len(FileOrder) => i + 1 \in 1 .. Len(FileOrder) /\ i + 1 > i
        BY <1>1, Places
      <3> QED
        BY <1>1, <3>1 DEF NetworkdInv, PassedInv
    <2> QED
      BY <1>1, <2>1 DEF SavingInv, DoneInv, Working, network, file
  <1> QED
    BY <1>2, <1>4, <1>5

\* The steps of a call about one file.
AtFile ==
    /\ pc \in Working \cup {"loop"} /\ pc' \in Working
    /\ i \in 1 .. Len(FileOrder) /\ UNCHANGED <<i, req, pre, dropins>>
    /\ \A f \in Files : f # file => UNCHANGED <<disk[f], networks[f]>>
    /\ networks'[file] # Nil => networks[file] # Nil

\* They leave the other files and networks as they were.
LEMMA AtFilePart ==
    ASSUME NetworkdInv, AtFile
    PROVE  /\ PassedInv' /\ DoneInv' /\ file' = file /\ file \in Files
           /\ Wanted(file)' = Wanted(file)
           /\ \A f \in Files : f # file => (Mine(f)' <=> Mine(f)) /\ (Written(f)' <=> Written(f))
  <1>1. file' = file /\ file \in Files /\ \A f : Wanted(f)' = Wanted(f)
    BY SameWanted, Places DEF AtFile, file
  <1>2. \A f \in Files : f # file => (Mine(f)' <=> Mine(f)) /\ (Written(f)' <=> Written(f))
    BY <1>1 DEF AtFile, Mine, Written
  <1>3. PassedInv'
    <2>1. ASSUME NEW n \in 1 .. Len(FileOrder), n # i
          PROVE  /\ n < i /\ Mine(FileOrder[n])' => Written(FileOrder[n])'
                 /\ n > i => networks'[FileOrder[n]] = pre.networks[FileOrder[n]]
      <3>1. FileOrder[n] \in Files /\ FileOrder[n] # file
        BY <2>1, Places DEF AtFile, file
      <3>2. networks'[FileOrder[n]] = networks[FileOrder[n]]
        BY <3>1 DEF AtFile
      <3>3. /\ n < i /\ Mine(FileOrder[n]) => Written(FileOrder[n])
            /\ n > i => networks[FileOrder[n]] = pre.networks[FileOrder[n]]
        BY DEF NetworkdInv, PassedInv, AtFile
      <3> QED
        BY <1>2, <3>1, <3>2, <3>3
    <2>2. i' = i /\ pre' = pre /\ i \in Nat
      BY Places DEF AtFile
    <2>3. ASSUME NEW n \in 1 .. Len(FileOrder)
          PROVE  /\ n < i' /\ Mine(FileOrder[n])' => Written(FileOrder[n])'
                 /\ n > i' => networks'[FileOrder[n]] = pre'.networks[FileOrder[n]]
      BY <2>1, <2>2, Places
    <2> QED
      BY <2>3 DEF PassedInv
  <1>4. DoneInv'
    BY DEF AtFile, DoneInv, Working
  <1> QED
    BY <1>1, <1>2, <1>3, <1>4

\* The network is edited in memory.
LEMMA EditPart ==
    ASSUME NetworkdInv, EditNetwork
    PROVE  TextInv' /\ PassedInv' /\ SavingInv' /\ DoneInv'
  <1>1. /\ UNCHANGED <<disk, tmp, dropins, pre, req, i>> /\ pc = "loop" /\ pc' = "write"
        /\ i \in 1 .. Len(FileOrder) /\ Mine(file)
        /\ networks' = [networks EXCEPT ![file].text = Edited(@)]
    BY Places DEF EditNetwork, Frame, files, NetworkdInv, RiskInv
  <1>2. file \in Files /\ OnFiles(networks) /\ networks[file] = pre.networks[file]
        /\ networks[file] # Nil
    BY <1>1, Places DEF NetworkdInv, TextInv, SavingInv, file, network, Mine
  <1>3. /\ OnFiles(networks') /\ \A f \in Files \ {file} : networks'[f] = networks[f]
        /\ networks'[file] = [networks[file] EXCEPT !.text = Edited(networks[file].text)]
    BY <1>1, <1>2 DEF OnFiles
  <1>4. networks'[file] = [text |-> Wanted(file), subs |-> networks[file].subs]
    <2>1. networks[file] = [text |-> networks[file].text, subs |-> networks[file].subs]
      BY <1>2 DEF NetworkdInv, TextInv, Known
    <2>2. Edited(networks[file].text) = Wanted(file)
      BY <1>2 DEF Wanted
    <2> QED
      BY <1>3, <2>1, <2>2
  <1>5. AtFile
    BY <1>1, <1>2, <1>3 DEF AtFile, Working
  <1>6. /\ PassedInv' /\ DoneInv' /\ file' = file /\ Wanted(file)' = Wanted(file)
    BY <1>5, AtFilePart
  <1>7. /\ Wanted(file) \in Text /\ Networks(Wanted(file)) # {}
        /\ networks[file].subs \in Nat
    BY <1>2, WantedFacts DEF NetworkdInv, TextInv, Known
  <1>8. Known(networks')
    <2>1. ASSUME NEW f \in Files, networks'[f] # Nil
          PROVE  /\ networks'[f] = [text |-> networks'[f].text, subs |-> networks'[f].subs]
                 /\ networks'[f].text \in Text /\ networks'[f].subs \in Nat
                 /\ Networks(networks'[f].text) # {}
      <3>1. CASE f = file
        BY <1>4, <1>7, <3>1
      <3>2. CASE f # file
        BY <1>3, <2>1, <3>2 DEF NetworkdInv, TextInv, Known
      <3> QED
        BY <3>1, <3>2
    <2> QED
      BY <2>1 DEF Known
  <1>9. TextInv'
    <2>1. \A f \in Files : networks'[f] # Nil => pre.networks[f] # Nil
      BY <1>2, <1>3 DEF NetworkdInv, TextInv
    <2> QED
      BY <1>1, <1>3, <1>8, <2>1 DEF NetworkdInv, TextInv
  <1>10. SavingInv'
    <2>1. network' = networks'[file]
      BY <1>6 DEF network
    <2>2. networks'[file] # Nil
      BY <1>4, <1>7, NetworkdAssumption DEF NetworkdAssumption
    <2> QED
      BY <1>1, <1>4, <1>6, <2>1, <2>2 DEF SavingInv, Working, Mine
  <1> QED
    BY <1>6, <1>9, <1>10

\* A step of a call that leaves the networks in memory alone.
LEMMA SavePart ==
    ASSUME NetworkdInv, AtFile, UNCHANGED networks, pc \in Working,
           \A f \in Files : disk'[f] \in Text \cup {Absent} /\ tmp'[f] \in Text \cup {Absent}
    PROVE  /\ TextInv' /\ PassedInv' /\ DoneInv' /\ Mine(file)'
           /\ network' = network /\ network.text = Wanted(file)
           /\ file' = file /\ file \in Files /\ Wanted(file)' = Wanted(file)
  <1>1. /\ PassedInv' /\ DoneInv' /\ file' = file /\ file \in Files
        /\ Wanted(file)' = Wanted(file)
    BY AtFilePart
  <1>2. Mine(file) /\ network.text = Wanted(file)
    BY DEF NetworkdInv, SavingInv
  <1>3. TextInv'
    BY DEF NetworkdInv, TextInv, AtFile
  <1> QED
    BY <1>1, <1>2, <1>3 DEF Mine, network, AtFile

\* Save: the new text is beside the file.
LEMMA WritePart ==
    ASSUME NetworkdInv, WriteConfig, ~Fault
    PROVE  TextInv' /\ PassedInv' /\ SavingInv' /\ DoneInv'
  <1>1. /\ UNCHANGED <<disk, dropins, networks, pre, req, i>> /\ pc = "write" /\ pc' = "backup"
        /\ tmp' = [tmp EXCEPT ![file] = network.text] /\ i \in 1 .. Len(FileOrder)
    BY Places DEF WriteConfig, WriteTmp, Go, Frame, NetworkdInv, RiskInv, Working
  <1>2. AtFile /\ file \in Files
    BY <1>1, Places DEF AtFile, Working, file
  <1>3. network.text = Wanted(file) /\ Wanted(file) \in Text /\ Mine(file)
    <2>1. network.text = Wanted(file) /\ Mine(file)
      BY <1>1 DEF NetworkdInv, SavingInv, Working
    <2> QED
      BY <1>2, <2>1, WantedFacts DEF NetworkdInv, Mine
  <1>4. /\ \A f \in Files : tmp'[f] \in Text \cup {Absent} /\ disk'[f] \in Text \cup {Absent}
        /\ tmp'[file] = Wanted(file)
    BY <1>1, <1>2, <1>3 DEF NetworkdInv, TextInv, RiskInv, OnFiles
  <1>5. /\ TextInv' /\ PassedInv' /\ DoneInv' /\ Mine(file)' /\ network' = network
        /\ file' = file /\ Wanted(file)' = Wanted(file)
    BY <1>1, <1>2, <1>4, SavePart DEF Working
  <1>6. SavingInv'
    BY <1>1, <1>3, <1>4, <1>5 DEF SavingInv, Working
  <1> QED
    BY <1>5, <1>6

\* The old file becomes a backup.
LEMMA BackupPart ==
    ASSUME NetworkdInv, Backup, ~Fault
    PROVE  TextInv' /\ PassedInv' /\ SavingInv' /\ DoneInv'
  <1>1. /\ UNCHANGED <<tmp, dropins, networks, pre, req, i>> /\ pc = "backup" /\ pc' = "install"
        /\ disk' = [disk EXCEPT ![file] = Absent] /\ i \in 1 .. Len(FileOrder)
    BY Places DEF Backup, MoveToBackup, Go, Frame, NetworkdInv, RiskInv, Working
  <1>2. /\ AtFile /\ file \in Files
        /\ \A f \in Files : disk'[f] \in Text \cup {Absent} /\ tmp'[f] \in Text \cup {Absent}
    <2>1. file \in Files
      BY <1>1, Places DEF file
    <2>2. \A f \in Files : disk'[f] = IF f = file THEN Absent ELSE disk[f]
      BY <1>1, <2>1 DEF NetworkdInv, RiskInv, OnFiles
    <2> QED
      BY <1>1, <2>1, <2>2 DEF AtFile, Working, NetworkdInv, TextInv
  <1>3. /\ TextInv' /\ PassedInv' /\ DoneInv' /\ Mine(file)' /\ network' = network
        /\ network.text = Wanted(file) /\ file' = file /\ Wanted(file)' = Wanted(file)
    BY <1>1, <1>2, SavePart DEF Working
  <1>4. tmp[file] = Wanted(file)
    BY <1>1 DEF NetworkdInv, SavingInv
  <1>5. SavingInv'
    BY <1>1, <1>3, <1>4 DEF SavingInv, Working
  <1> QED
    BY <1>3, <1>5

\* The new text takes its place.
LEMMA InstallPart ==
    ASSUME NetworkdInv, Install, ~Fault
    PROVE  TextInv' /\ PassedInv' /\ SavingInv' /\ DoneInv'
  <1>1. /\ UNCHANGED <<dropins, networks, pre, req, i>> /\ pc = "install" /\ pc' = "prune"
        /\ disk' = [disk EXCEPT ![file] = tmp[file]]
        /\ tmp' = [tmp EXCEPT ![file] = Absent] /\ i \in 1 .. Len(FileOrder)
    BY Places DEF Install, MoveInPlace, Go, Frame, NetworkdInv, RiskInv, Working
  <1>2. /\ AtFile /\ file \in Files /\ disk'[file] = tmp[file]
        /\ \A f \in Files : disk'[f] \in Text \cup {Absent} /\ tmp'[f] \in Text \cup {Absent}
    <2>1. file \in Files
      BY <1>1, Places DEF file
    <2>2. \A f \in Files : /\ disk'[f] = IF f = file THEN tmp[file] ELSE disk[f]
                           /\ tmp'[f] = IF f = file THEN Absent ELSE tmp[f]
      BY <1>1, <2>1 DEF NetworkdInv, RiskInv, OnFiles
    <2> QED
      BY <1>1, <2>1, <2>2 DEF AtFile, Working, NetworkdInv, TextInv
  <1>3. /\ TextInv' /\ PassedInv' /\ DoneInv' /\ Mine(file)' /\ network' = network
        /\ network.text = Wanted(file) /\ file' = file /\ Wanted(file)' = Wanted(file)
    BY <1>1, <1>2, SavePart DEF Working
  <1>4. tmp[file] = Wanted(file)
    BY <1>1 DEF NetworkdInv, SavingInv
  <1>5. SavingInv'
    BY <1>1, <1>2, <1>3, <1>4 DEF SavingInv, Working, Written
  <1> QED
    BY <1>3, <1>5

\* Old backups go, and the walk goes on.
LEMMA PrunePart ==
    ASSUME NetworkdInv, PruneBackups
    PROVE  TextInv' /\ PassedInv' /\ SavingInv' /\ DoneInv'
  <1>1. /\ UNCHANGED <<disk, tmp, dropins, pre, req>> /\ pc = "prune" /\ pc' = "loop"
        /\ i \in 1 .. Len(FileOrder) /\ i' = i + 1
        /\ networks' = [networks EXCEPT ![file].subs = 0]
    BY Places DEF PruneBackups, Prune, Frame, NetworkdInv, RiskInv, Working
  <1>2. /\ file \in Files /\ OnFiles(networks) /\ networks[file] # Nil
        /\ Mine(file) /\ Written(file)
    BY <1>1, Places DEF NetworkdInv, TextInv, SavingInv, Working, Mine, file
  <1>3. /\ OnFiles(networks') /\ \A f \in Files : f # file => networks'[f] = networks[f]
        /\ networks'[file] = [networks[file] EXCEPT !.subs = 0]
    BY <1>1, <1>2 DEF OnFiles
  <1>4. /\ networks'[file] = [text |-> networks[file].text, subs |-> 0]
        /\ networks[file].text \in Text /\ Networks(networks[file].text) # {}
    <2>1. /\ networks[file] = [text |-> networks[file].text, subs |-> networks[file].subs]
          /\ networks[file].text \in Text /\ Networks(networks[file].text) # {}
      BY <1>2 DEF NetworkdInv, TextInv, Known
    <2> QED
      BY <1>3, <2>1
  <1>5. Known(networks')
    <2>1. ASSUME NEW f \in Files, networks'[f] # Nil
          PROVE  /\ networks'[f] = [text |-> networks'[f].text, subs |-> networks'[f].subs]
                 /\ networks'[f].text \in Text /\ networks'[f].subs \in Nat
                 /\ Networks(networks'[f].text) # {}
      <3>1. CASE f = file
        BY <1>4, <3>1
      <3>2. CASE f # file
        BY <1>3, <2>1, <3>2 DEF NetworkdInv, TextInv, Known
      <3> QED
        BY <3>1, <3>2
    <2> QED
      BY <2>1 DEF Known
  <1>6. TextInv'
    <2>1. \A f \in Files : networks'[f] # Nil => pre.networks[f] # Nil
      BY <1>2, <1>3 DEF NetworkdInv, TextInv
    <2> QED
      BY <1>1, <1>3, <1>5, <2>1 DEF NetworkdInv, TextInv
  <1>7. /\ \A f : Written(f)' <=> Written(f)
        /\ \A f \in Files : f # file => (Mine(f)' <=> Mine(f))
    BY <1>1, <1>3, SameWanted DEF Mine, Written
  <1>8. ASSUME NEW n \in 1 .. Len(FileOrder)
        PROVE  /\ n < i' /\ Mine(FileOrder[n])' => Written(FileOrder[n])'
               /\ n >= i' => networks'[FileOrder[n]] = pre'.networks[FileOrder[n]]
    <2>1. CASE n = i
      <3>1. FileOrder[n] = file /\ ~(n >= i')
        BY <1>1, <2>1, Places DEF file
      <3> QED
        BY <1>2, <1>7, <3>1
    <2>2. CASE n # i
      <3>1. FileOrder[n] \in Files /\ FileOrder[n] # file
        BY <1>1, <2>2, Places DEF file
      <3>2. (n < i' => n < i) /\ (n >= i' => n > i)
        BY <1>1, <2>2, Places
      <3>3. /\ n < i /\ Mine(FileOrder[n]) => Written(FileOrder[n])
            /\ n > i => networks[FileOrder[n]] = pre.networks[FileOrder[n]]
        BY <1>1 DEF NetworkdInv, PassedInv, Working
      <3> QED
        BY <1>1, <1>3, <1>7, <3>1, <3>2, <3>3
    <2> QED
      BY <2>1, <2>2
  <1>9. PassedInv'
    <2>1. \A n \in 1 .. Len(FileOrder) : n > i' => n >= i'
      BY <1>1, Places
    <2> QED
      BY <1>8, <2>1 DEF PassedInv
  <1>10. SavingInv' /\ DoneInv'
    <2>1. i' <= Len(FileOrder) => i' \in 1 .. Len(FileOrder) /\ i' >= i'
      BY <1>1, Places
    <2>2. i' <= Len(FileOrder) => networks'[FileOrder[i']] = pre'.networks[FileOrder[i']]
      BY <1>8, <2>1
    <2> QED
      BY <1>1, <2>2 DEF SavingInv, DoneInv, Working, network, file
  <1> QED
    BY <1>6, <1>9, <1>10

\* The walk is over and the call returns.
LEMMA ReturnPart ==
    ASSUME NetworkdInv, Return
    PROVE  TextInv' /\ PassedInv' /\ SavingInv' /\ DoneInv'
  <1>1. /\ UNCHANGED <<disk, tmp, dropins, networks, pre, req>> /\ pc = "loop" /\ pc' = "idle"
        /\ i \in Nat /\ i > Len(FileOrder)
    BY DEF Return, Frame, files, NetworkdInv, RiskInv
  <1>2. TextInv'
    BY <1>1, TextKept
  <1>3. \A f \in Files : Mine(f) => Written(f)
    <2> SUFFICES ASSUME NEW f \in Files PROVE Mine(f) => Written(f)
      OBVIOUS
    <2>1. PICK n \in 1 .. Len(FileOrder) : FileOrder[n] = f
      BY Places
    <2>2. n < i
      BY <1>1, Places
    <2> QED
      BY <1>1, <2>1, <2>2 DEF NetworkdInv, PassedInv
  <1>4. \A f \in Files : Mine(f)' => Written(f)'
    BY <1>1, <1>3, SameWanted DEF Mine, Written
  <1> QED
    BY <1>1, <1>2, <1>4 DEF PassedInv, SavingInv, DoneInv, Working

\* Every step keeps it.
LEMMA PartStep == NetworkdInv /\ [Next]_vars => NetworkdInv'
  <1> SUFFICES ASSUME NetworkdInv, [Next]_vars PROVE NetworkdInv'
    OBVIOUS
  <1>1. RiskInv'
    BY RiskStep DEF NetworkdInv
  <1>2. CASE SetIfaceAddresses \/ SetIfaceDHCP \/ SetIfaceRoutes \/ SetIfaceDNS
    BY <1>1, <1>2, CallPart
    DEF NetworkdInv, SetIfaceAddresses, SetIfaceDHCP, SetIfaceRoutes, SetIfaceDNS
  <1>3. CASE newNetworkd
    BY <1>1, <1>3, ReadPart DEF NetworkdInv
  <1>4. CASE Exit \/ BackupDropIn \/ BackupMissing \/ Fault
    BY <1>1, <1>4, LeavePart DEF NetworkdInv
  <1>5. CASE SkipNetwork \/ EditNetwork \/ Return \/ PruneBackups
    BY <1>1, <1>5, SkipPart, EditPart, ReturnPart, PrunePart DEF NetworkdInv
  <1>6. CASE (WriteConfig \/ Backup \/ Install) /\ ~Fault
    BY <1>1, <1>6, WritePart, BackupPart, InstallPart DEF NetworkdInv
  <1>7. CASE UNCHANGED vars
    <2>1. UNCHANGED <<disk, tmp, dropins, networks, pc, i, req, ret, pre>>
      BY <1>7 DEF vars
    <2>2. TextInv'
      BY <2>1, TextKept
    <2>3. /\ \A f : Wanted(f)' = Wanted(f)
          /\ \A f : (Written(f)' <=> Written(f)) /\ (Mine(f)' <=> Mine(f))
      BY <2>1, SameWanted DEF Written, Mine
    <2>4. file' = file /\ network' = network
      BY <2>1 DEF file, network
    <2>5. PassedInv' /\ DoneInv'
      BY <2>1, <2>3 DEF NetworkdInv, PassedInv, DoneInv
    <2>6. SavingInv'
      BY <2>1, <2>3, <2>4 DEF NetworkdInv, SavingInv
    <2> QED
      BY <1>1, <2>2, <2>5, <2>6 DEF NetworkdInv
  <1> QED
    BY <1>2, <1>3, <1>4, <1>5, <1>6, <1>7 DEF Next

\* Networkd.SetIface*: a call that returns without error has put what was asked for into
\* the files of its interface with one [Network] section, and kept what else they said.
THEOREM FilesSayWhatWasAsked == Spec => []CallDoesItsPart
  <1>1. NetworkdInv => CallDoesItsPart
    <2> SUFFICES ASSUME NetworkdInv, pc = "idle", ret = "ok", NEW f \in Files, Mine(f),
                        Cardinality(Networks(pre.networks[f].text)) = 1
                 PROVE  WrittenAsAsked(f)
      BY DEF CallDoesItsPart
    <2>1. disk[f] = Edited(pre.networks[f].text)
      BY DEF NetworkdInv, DoneInv, Written, Wanted
    <2>2. pre.networks[f].text \in Text /\ Networks(pre.networks[f].text) # {} /\ req \in Requests
      BY DEF NetworkdInv, TextInv, Known, Mine
    <2> QED
      BY <2>1, <2>2, EditedFacts DEF WrittenAsAsked
  <1> QED
    BY <1>1, PartInit, PartStep, PTL DEF Spec
=============================================================================
