------------------------- MODULE NetworkScriptsProofs -------------------------
(****************************************************************************)
(* Proofs about NetworkScripts.  What a call changes or takes away is in    *)
(* its newest backup, and a call errs only after a fault: both rest on what *)
(* memory knows of the directory, exactly the files that are there, between *)
(* calls that have not failed.  After a call without a failure a process    *)
(* started now reports what was asked and the rest as before: that rests on *)
(* memory being what the directory reads as, and on files that share no key *)
(* saying merged what they said one after the other.                        *)
(****************************************************************************)
EXTENDS NetworkScripts, TLAPS, WellFoundedInduction

Sequence(s) == \E S : s \in Seq(S)

-----------------------------------------------------------------------------
(* The invariant *)

OnFiles(f) == f = [x \in Files |-> f[x]]

IfLabels == {"write", "backup", "prune"}
RouteLabels == {"writeRoutes", "backupRoutes", "installRoutes", "pruneRoutes"}

\* The files memory has of an interface are some of those that configure it, each once.
Listed(list, n) ==
    /\ Sequence(list)
    /\ \A m \in DOMAIN list : list[m].name \in IfFiles /\ OwnerOf[list[m].name] = n
    /\ \A m, k \in DOMAIN list : list[m].name = list[k].name => m = k

FilesInv ==
    /\ OnFiles(disk) /\ OnFiles(tmp) /\ OnFiles(bak)
    /\ \A f \in Files : Sequence(bak[f])
    /\ \A n \in Iface : RoutesSaid(disk, n) /\ RoutesSaid(tmp, n)

MemoryInv ==
    /\ ifFiles = [n \in Iface |-> ifFiles[n]] /\ \A n \in Iface : Listed(ifFiles[n], n)
    /\ routeFiles = [n \in Iface |-> routeFiles[n]]

ControlInv ==
    /\ pc \in {"idle", "down"} \cup IfLabels \cup RouteLabels
    /\ j \in Nat \ {0}
    /\ pc \in IfLabels \cup RouteLabels => name \in Iface
    /\ pc \in RouteLabels => j \in {1, 2} /\ new[4] # Absent /\ new[6] # Absent
    /\ pre.faulted => faulted

\* Memory has the files of a directory d.
Known(d) ==
    \A n \in Iface :
        /\ \A m \in DOMAIN ifFiles[n] : d[ifFiles[n][m].name] # Absent
        /\ \A f \in IfFiles : OwnerOf[f] = n /\ d[f] # Absent =>
              \E m \in DOMAIN ifFiles[n] : ifFiles[n][m].name = f
        /\ \A f \in {4, 6} : routeFiles[n][f] = Absent <=> d[RouteFile[n][f]] = Absent

Same(f) == disk[f] = pre.disk[f]
Backed(f) == bak[f] # <<>> /\ bak[f][1] = pre.disk[f]
Moved(f) == disk[f] = Absent /\ Backed(f)

RouteOf(k) == RouteFile[name][Family[k]]

\* The files a call has come to, of its interface or of the routes.
OldUpTo(f, m) == \E k \in 1 .. m - 1 : k <= Len(ifFiles[name]) /\ ifFiles[name][k].name = f
HadRoutes(f, m) == \E k \in {1, 2} : k < m /\ HasFile(Family[k]) /\ f = RouteOf(k)
GetsRoutes(f, m) == \E k \in {1, 2} : k < m /\ new[Family[k]] # {} /\ f = RouteOf(k)

\* What a call has done to the directory it began with.
CallInv ==
    /\ pc \in {"write", "backup", "writeRoutes", "backupRoutes", "installRoutes"} =>
          Known(pre.disk)
    /\ pc \in {"prune", "pruneRoutes"} => Known(disk)
    /\ pc \in {"write", "writeRoutes"} => \A f \in Files : Same(f)
    /\ pc = "backup" => \A f \in Files : IF OldUpTo(f, j) THEN Moved(f) ELSE Same(f)
    /\ pc = "backupRoutes" => \A f \in Files : IF HadRoutes(f, j) THEN Moved(f) ELSE Same(f)
    /\ pc = "installRoutes" => \A f \in Files :
          IF GetsRoutes(f, j) THEN disk[f] # Absent /\ (Backed(f) \/ pre.disk[f] = Absent)
          ELSE IF HadRoutes(f, 3) THEN Moved(f) ELSE Same(f)

ScriptsInv ==
    /\ FilesInv /\ MemoryInv /\ ControlInv
    /\ ~pre.faulted => CallInv
    /\ pc = "idle" /\ ~faulted => Known(disk)
    /\ NothingIsLost
    /\ NoSpuriousError

-----------------------------------------------------------------------------
(* Numbers *)

\* A set of numbers that is not empty has a least one.
LEMMA Least ==
    ASSUME NEW T \in SUBSET Nat, T # {}
    PROVE  \E m \in T : \A k \in T : m <= k
  <1> DEFINE R == OpToRel(<, Nat)
  <1>1. IsWellFoundedOn(R, Nat)
    BY NatLessThanWellFounded
  <1>2. \A x, y \in Nat : x < y => <<x, y>> \in R
    BY DEF OpToRel
  <1> HIDE DEF R
  <1>3. PICK m \in T : \A y \in T : ~(<<y, m>> \in R)
    BY <1>1, WFMin
  <1>4. \A k \in T : ~(k < m)
    BY <1>2, <1>3
  <1> QED
    BY <1>4

\* What holds of no element, and of one more whenever of m, holds of any number up to N.
LEMMA Induction ==
    ASSUME NEW N \in Nat, NEW T, 0 \in T, \A m \in 0 .. N - 1 : m \in T => m + 1 \in T
    PROVE  0 .. N \subseteq T
  <1> DEFINE U == (0 .. N) \ T
  <1> SUFFICES ASSUME U # {} PROVE FALSE
    OBVIOUS
  <1>1. PICK m \in U : \A k \in U : m <= k
    <2> HIDE DEF U
    <2>1. U \in SUBSET Nat
      BY DEF U
    <2> QED
      BY <2>1, Least
  <1>2. m # 0 /\ m - 1 \in 0 .. N - 1
    BY <1>1
  <1>3. m - 1 \notin U
    BY <1>1, <1>2
  <1>4. (m - 1) + 1 \in T
    BY <1>2, <1>3
  <1> QED
    BY <1>1, <1>2, <1>4

-----------------------------------------------------------------------------
(* Backups *)

\* The newest backup comes first.
LEMMA Pushed ==
    ASSUME NEW s, Sequence(s), NEW text
    PROVE  /\ Sequence(<<text>> \o s)
           /\ <<text>> \o s # <<>>
           /\ (<<text>> \o s)[1] = text
  <1>1. PICK S : s \in Seq(S)
    BY DEF Sequence
  <1>2. s \in Seq(S \cup {text}) /\ <<text>> \in Seq(S \cup {text})
    BY <1>1
  <1>3. <<text>> \o s \in Seq(S \cup {text})
    BY <1>2
  <1>4. Len(<<text>> \o s) >= 1 /\ (<<text>> \o s)[1] = text
    BY <1>2
  <1> QED
    BY <1>3, <1>4 DEF Sequence

\* Pruning leaves a sequence of backups, and the newest where it was.
LEMMA PrunedFacts ==
    ASSUME NEW s, Sequence(s)
    PROVE  /\ Sequence(Pruned(s))
           /\ s # <<>> => Pruned(s) # <<>> /\ Pruned(s)[1] = s[1]
  <1>1. PICK S : s \in Seq(S)
    BY DEF Sequence
  <1>2. Pruned(s) \in Seq(S)
    BY <1>1, FilesAssumption DEF Pruned
  <1>3. ASSUME s # <<>> PROVE Pruned(s) # <<>> /\ Pruned(s)[1] = s[1]
    <2>1. Len(s) \in Nat \ {0}
      BY <1>1, <1>3
    <2>2. CASE Retention = 0 \/ Len(s) <= Retention
      BY <1>3, <2>2 DEF Pruned
    <2>3. CASE ~(Retention = 0 \/ Len(s) <= Retention)
      <3>1. Pruned(s) = SubSeq(s, 1, Retention)
        BY <2>3 DEF Pruned
      <3>2. Retention \in Nat \ {0} /\ Retention <= Len(s)
        BY <2>1, <2>3, FilesAssumption
      <3>3. Len(SubSeq(s, 1, Retention)) = Retention /\ SubSeq(s, 1, Retention)[1] = s[1]
        BY <1>1, <2>1, <3>2
      <3> QED
        BY <3>1, <3>2, <3>3
    <2> QED
      BY <2>2, <2>3
  <1> QED
    BY <1>2, <1>3 DEF Sequence

-----------------------------------------------------------------------------
(* Reading a directory *)

\* Every ifcfg file has its place in the order.
LEMMA Placed == \A f \in IfFiles : \E k \in 1 .. Len(FileOrder) : f = FileOrder[k]
  <1>1. FileOrder \in Seq(Files)
    BY ScriptsAssumption
  <1>2. DOMAIN FileOrder = 1 .. Len(FileOrder)
    BY <1>1
  <1> QED
    BY <1>2 DEF IfFiles, ToSet

\* The lists made of the first m files are defined by their equation.
LEMMA ReadEquation ==
    ASSUME NEW d, NEW n
    PROVE  /\ IfFilesUpTo(d, n)[0] = <<>>
           /\ \A m \in 1 .. Len(FileOrder) :
                IfFilesUpTo(d, n)[m] =
                    IF d[FileOrder[m]] # Absent /\ OwnerOf[FileOrder[m]] = n
                    THEN Append(IfFilesUpTo(d, n)[m - 1], IfFile(d, FileOrder[m]))
                    ELSE IfFilesUpTo(d, n)[m - 1]
  <1> DEFINE N == Len(FileOrder)
             step(r, m) == IF m = 0 THEN <<>>
                           ELSE LET f == FileOrder[m]
                                IN  IF d[f] # Absent /\ OwnerOf[f] = n
                                    THEN Append(r[m - 1], IfFile(d, f)) ELSE r[m - 1]
             Solves(r, M) == r = [m \in 0 .. M |-> step(r, m)]
             U == {M \in 0 .. N : \E r : Solves(r, M)}
  <1>0. N \in Nat
    BY ScriptsAssumption
  <1>1. 0 \in U
    <2> DEFINE r == [m \in 0 .. 0 |-> <<>>]
    <2>1. Solves(r, 0)
      OBVIOUS
    <2> HIDE DEF r, Solves
    <2> QED
      BY <2>1, <1>0
  <1>2. ASSUME NEW M \in 0 .. N - 1, M \in U PROVE M + 1 \in U
    <2>1. PICK r : Solves(r, M)
      BY <1>2
    <2> DEFINE q == [m \in 0 .. M + 1 |-> IF m <= M THEN r[m] ELSE step(r, m)]
    <2>2. \A m \in 0 .. M : q[m] = r[m]
      BY <1>0
    <2>3. \A m \in 1 .. M + 1 : q[m - 1] = r[m - 1]
      BY <2>2, <1>0
    <2>4. \A m \in 0 .. M + 1 : step(q, m) = step(r, m)
      BY <2>3, <1>0
    <2>5. \A m \in 0 .. M : r[m] = step(r, m)
      BY <2>1
    <2>6. \A m \in 0 .. M + 1 : q[m] = step(r, m)
      <3> HIDE DEF step
      <3> QED
        BY <2>5, <1>0
    <2>7. Solves(q, M + 1)
      <3> HIDE DEF step
      <3>1. \A m \in 0 .. M + 1 : q[m] = step(q, m)
        BY <2>4, <2>6
      <3>2. q = [m \in 0 .. M + 1 |-> q[m]]
        OBVIOUS
      <3> HIDE DEF q
      <3> QED
        BY <3>1, <3>2
    <2> HIDE DEF q, Solves
    <2> QED
      BY <2>7, <1>0
  <1>3. 0 .. N \subseteq U
    <2> HIDE DEF U
    <2> QED
      BY <1>0, <1>1, <1>2, Induction
  <1>4. Solves(IfFilesUpTo(d, n), N)
    <2>1. \E r : Solves(r, N)
      <3> HIDE DEF Solves
      <3> QED
        BY <1>0, <1>3
    <2> DEFINE c == CHOOSE r : r = [m \in 0 .. N |-> step(r, m)]
    <2>2. IfFilesUpTo(d, n) = c
      BY DEF IfFilesUpTo
    <2> QED
      BY <2>1, <2>2
  <1>5. \A m \in 0 .. N : IfFilesUpTo(d, n)[m] = step(IfFilesUpTo(d, n), m)
    <2> HIDE DEF step
    <2> QED
      BY <1>4
  <1>6. \A m \in 1 .. N : m \in 0 .. N /\ m # 0
    BY <1>0
  <1>7. 0 \in 0 .. N
    BY <1>0
  <1> QED
    BY <1>5, <1>6, <1>7

\* What has been read of the first m files.
ReadOK(d, n, m, r) ==
    /\ Listed(r, n)
    /\ \A p \in DOMAIN r : d[r[p].name] # Absent /\ \E k \in 1 .. m : r[p].name = FileOrder[k]
    /\ \A k \in 1 .. m : d[FileOrder[k]] # Absent /\ OwnerOf[FileOrder[k]] = n =>
          \E p \in DOMAIN r : r[p].name = FileOrder[k]

\* One more file.
LEMMA ReadOne ==
    ASSUME NEW d, NEW n, NEW h \in 0 .. Len(FileOrder) - 1, NEW r, ReadOK(d, n, h, r),
           d[FileOrder[h + 1]] # Absent, OwnerOf[FileOrder[h + 1]] = n
    PROVE  ReadOK(d, n, h + 1, Append(r, IfFile(d, FileOrder[h + 1])))
  <1> DEFINE f == FileOrder[h + 1]
             e == IfFile(d, f)
             q == Append(r, e)
  <1>0. Len(FileOrder) \in Nat /\ DOMAIN FileOrder = 1 .. Len(FileOrder) /\ h + 1 \in DOMAIN FileOrder
    BY ScriptsAssumption
  <1>1. PICK S : r \in Seq(S)
    BY DEF ReadOK, Listed, Sequence
  <1>2. /\ q \in Seq(S \cup {e}) /\ DOMAIN q = DOMAIN r \cup {Len(r) + 1}
        /\ Len(r) + 1 \notin DOMAIN r
        /\ q[Len(r) + 1] = e /\ \A p \in DOMAIN r : q[p] = r[p]
    BY <1>1
  <1>3. e.name = f
    BY DEF IfFile
  <1>4. f \in IfFiles
    BY <1>0 DEF IfFiles, ToSet
  <1>5. \A p \in DOMAIN r : r[p].name # f
    <2>1. ASSUME NEW p \in DOMAIN r PROVE r[p].name # f
      <3>1. PICK k \in 1 .. h : r[p].name = FileOrder[k]
        BY DEF ReadOK
      <3>2. k \in DOMAIN FileOrder /\ k # h + 1
        BY <1>0
      <3> QED
        BY <1>0, <3>1, <3>2, ScriptsAssumption
    <2> QED
      BY <2>1
  <1> HIDE DEF q, e, f
  <1>6. Listed(q, n)
    <2>1. Sequence(q)
      BY <1>2 DEF Sequence
    <2>2. \A p \in DOMAIN q : q[p].name \in IfFiles /\ OwnerOf[q[p].name] = n
      BY <1>2, <1>3, <1>4 DEF ReadOK, Listed, f
    <2>3. \A p, k \in DOMAIN q : q[p].name = q[k].name => p = k
      BY <1>2, <1>3, <1>5 DEF ReadOK, Listed
    <2> QED
      BY <2>1, <2>2, <2>3 DEF Listed
  <1>7. \A p \in DOMAIN q : d[q[p].name] # Absent /\ \E k \in 1 .. h + 1 : q[p].name = FileOrder[k]
    <2>1. \A p \in DOMAIN r : d[r[p].name] # Absent /\ \E k \in 1 .. h + 1 : r[p].name = FileOrder[k]
      BY DEF ReadOK
    <2>2. d[e.name] # Absent /\ h + 1 \in 1 .. h + 1 /\ e.name = FileOrder[h + 1]
      BY <1>3 DEF f
    <2> QED
      BY <1>2, <2>1, <2>2
  <1>8. ASSUME NEW k \in 1 .. h + 1, d[FileOrder[k]] # Absent, OwnerOf[FileOrder[k]] = n
        PROVE  \E p \in DOMAIN q : q[p].name = FileOrder[k]
    <2>1. CASE k = h + 1
      BY <1>2, <1>3, <2>1 DEF f
    <2>2. CASE k # h + 1
      <3>1. k \in 1 .. h
        BY <2>2
      <3>2. PICK p \in DOMAIN r : r[p].name = FileOrder[k]
        BY <1>8, <3>1 DEF ReadOK
      <3> QED
        BY <1>2, <3>2
    <2> QED
      BY <2>1, <2>2
  <1> QED
    BY <1>6, <1>7, <1>8 DEF ReadOK, q, e, f

\* By induction on the files read: all of an interface's are listed, in one place each.
LEMMA ReadFacts ==
    ASSUME NEW d, NEW n \in Iface
    PROVE  ReadOK(d, n, Len(FileOrder), ReadIfFiles(d)[n])
  <1> DEFINE N == Len(FileOrder)
             U == {m \in 0 .. N : ReadOK(d, n, m, IfFilesUpTo(d, n)[m])}
  <1>0. N \in Nat
    BY ScriptsAssumption
  <1>1. 0 \in U
    <2>1. <<>> \in Seq({}) /\ DOMAIN <<>> = {}
      OBVIOUS
    <2>2. Listed(<<>>, n)
      BY <2>1 DEF Listed, Sequence
    <2>3. ReadOK(d, n, 0, <<>>)
      BY <2>1, <2>2 DEF ReadOK
    <2> QED
      BY <1>0, <2>3, ReadEquation
  <1>2. ASSUME NEW h \in 0 .. N - 1, h \in U PROVE h + 1 \in U
    <2> DEFINE F == IfFilesUpTo(d, n)
               r == F[h]
               f == FileOrder[h + 1]
    <2>1. h + 1 \in 1 .. N /\ (h + 1) - 1 = h /\ h + 1 \in 0 .. N
      BY <1>0
    <2>2. ReadOK(d, n, h, r)
      BY <1>2
    <2>5. F[h + 1] = IF d[f] # Absent /\ OwnerOf[f] = n THEN Append(r, IfFile(d, f)) ELSE r
      <3>1. \A m \in 1 .. N :
               F[m] = IF d[FileOrder[m]] # Absent /\ OwnerOf[FileOrder[m]] = n
                      THEN Append(F[m - 1], IfFile(d, FileOrder[m])) ELSE F[m - 1]
        BY ReadEquation
      <3> HIDE DEF F
      <3>2. F[(h + 1) - 1] = F[h]
        BY <2>1
      <3> QED
        BY <2>1, <3>1, <3>2
    <2>3. CASE d[f] # Absent /\ OwnerOf[f] = n
      <3>1. IfFilesUpTo(d, n)[h + 1] = Append(r, IfFile(d, f))
        BY <2>3, <2>5
      <3>2. ReadOK(d, n, h + 1, Append(r, IfFile(d, f)))
        <4> HIDE DEF r
        <4> QED
          BY <2>2, <2>3, ReadOne
      <3> QED
        BY <2>1, <3>1, <3>2
    <2>4. CASE ~(d[f] # Absent /\ OwnerOf[f] = n)
      <3>1. IfFilesUpTo(d, n)[h + 1] = r
        BY <2>4, <2>5
      <3> HIDE DEF r
      <3>2. \A k \in 1 .. h + 1 : k \in 1 .. h \/ k = h + 1
        BY <1>0
      <3>3. 1 .. h \subseteq 1 .. h + 1
        BY <1>0
      <3>4. ReadOK(d, n, h + 1, r)
        BY <2>2, <2>4, <3>2, <3>3 DEF ReadOK
      <3> QED
        BY <2>1, <3>1, <3>4
    <2> QED
      BY <2>3, <2>4
  <1>3. 0 .. N \subseteq U
    <2> HIDE DEF U, N
    <2> QED
      BY <1>0, <1>1, <1>2, Induction
  <1>4. N \in U
    BY <1>0, <1>3
  <1> QED
    BY <1>4 DEF ReadIfFiles

-----------------------------------------------------------------------------
(* What a system call does to the files *)

\* Route files are no ifcfg files, and each is of one interface and family.
LEMMA PlaceFacts ==
    ASSUME NEW n \in Iface
    PROVE  /\ Main[n] \in IfFiles /\ Main[n] \in Files /\ OwnerOf[Main[n]] = n
           /\ \A f \in {4, 6} : RouteFile[n][f] \in Files /\ RouteFile[n][f] \notin IfFiles
           /\ \A m \in Iface, f, g \in {4, 6} :
                 RouteFile[m][f] = RouteFile[n][g] => m = n /\ f = g
  <1>1. IfFiles \subseteq Files
    BY ScriptsAssumption DEF IfFiles, ToSet
  <1>2. Main[n] \in IfFiles /\ OwnerOf[Main[n]] = n
    BY ScriptsAssumption
  <1>3. RouteFile[n] \in [{4, 6} -> Files \ IfFiles]
    BY ScriptsAssumption
  <1>4. \A m \in Iface, f, g \in {4, 6} : RouteFile[m][f] = RouteFile[n][g] => m = n /\ f = g
    BY ScriptsAssumption
  <1> QED
    BY <1>1, <1>2, <1>3, <1>4

\* A text is written beside a file.
LEMMA WrittenFacts ==
    ASSUME FilesInv, NEW f \in Files, NEW text, WriteTmp(f, text),
           f \in IfFiles \/ text = Absent \/ text.routes # Absent
    PROVE  FilesInv' /\ disk' = disk /\ bak' = bak
  <1>1. disk' = disk /\ bak' = bak /\ tmp' = [tmp EXCEPT ![f] = text]
    BY DEF WriteTmp
  <1>2. OnFiles(tmp') /\ tmp'[f] = text /\ \A g \in Files \ {f} : tmp'[g] = tmp[g]
    BY <1>1 DEF FilesInv, OnFiles
  <1>3. ASSUME NEW n \in Iface PROVE RoutesSaid(tmp', n)
    <2>1. RoutesSaid(tmp, n)
      BY DEF FilesInv
    <2> QED
      BY <1>2, <2>1, PlaceFacts DEF RoutesSaid
  <1> QED
    BY <1>1, <1>2, <1>3 DEF FilesInv

\* A file becomes its newest backup.
LEMMA MovedFacts ==
    ASSUME FilesInv, NEW f \in Files, MoveToBackup(f)
    PROVE  /\ FilesInv'
           /\ disk[f] # Absent /\ disk'[f] = Absent
           /\ bak'[f] # <<>> /\ bak'[f][1] = disk[f]
           /\ \A g \in Files \ {f} : disk'[g] = disk[g] /\ bak'[g] = bak[g]
  <1>1. disk' = [disk EXCEPT ![f] = Absent] /\ bak' = [bak EXCEPT ![f] = <<disk[f]>> \o bak[f]]
        /\ tmp' = tmp /\ disk[f] # Absent
    BY DEF MoveToBackup
  <1>2. /\ OnFiles(disk') /\ disk'[f] = Absent
        /\ \A g \in Files \ {f} : disk'[g] = disk[g]
    BY <1>1 DEF FilesInv, OnFiles
  <1>3. /\ OnFiles(bak') /\ bak'[f] = <<disk[f]>> \o bak[f]
        /\ \A g \in Files \ {f} : bak'[g] = bak[g]
    BY <1>1 DEF FilesInv, OnFiles
  <1>4. Sequence(bak[f])
    BY DEF FilesInv
  <1>5. Sequence(bak'[f]) /\ bak'[f] # <<>> /\ bak'[f][1] = disk[f]
    BY <1>3, <1>4, Pushed
  <1>6. \A g \in Files : Sequence(bak'[g])
    BY <1>3, <1>5 DEF FilesInv
  <1>7. ASSUME NEW n \in Iface PROVE RoutesSaid(disk', n)
    <2>1. RoutesSaid(disk, n)
      BY DEF FilesInv
    <2> QED
      BY <1>2, <2>1, PlaceFacts DEF RoutesSaid
  <1> QED
    BY <1>1, <1>2, <1>3, <1>5, <1>6, <1>7 DEF FilesInv

\* The new text becomes the file.
LEMMA InstalledFacts ==
    ASSUME FilesInv, NEW f \in Files, MoveInPlace(f)
    PROVE  /\ FilesInv'
           /\ bak' = bak /\ disk'[f] # Absent
           /\ \A g \in Files \ {f} : disk'[g] = disk[g]
  <1>1. disk' = [disk EXCEPT ![f] = tmp[f]] /\ tmp' = [tmp EXCEPT ![f] = Absent]
        /\ bak' = bak /\ tmp[f] # Absent
    BY DEF MoveInPlace
  <1>2. /\ OnFiles(disk') /\ disk'[f] = tmp[f]
        /\ \A g \in Files \ {f} : disk'[g] = disk[g]
    BY <1>1 DEF FilesInv, OnFiles
  <1>3. /\ OnFiles(tmp') /\ tmp'[f] = Absent
        /\ \A g \in Files \ {f} : tmp'[g] = tmp[g]
    BY <1>1 DEF FilesInv, OnFiles
  <1>4. ASSUME NEW n \in Iface PROVE RoutesSaid(disk', n) /\ RoutesSaid(tmp', n)
    <2>1. RoutesSaid(disk, n) /\ RoutesSaid(tmp, n)
      BY DEF FilesInv
    <2> QED
      BY <1>2, <1>3, <2>1, PlaceFacts DEF RoutesSaid
  <1> QED
    BY <1>1, <1>2, <1>3, <1>4 DEF FilesInv

\* Pruning leaves the newest backup where it was.
LEMMA PruneFacts ==
    ASSUME FilesInv, NEW f \in Files, Prune(f)
    PROVE  /\ FilesInv' /\ disk' = disk
           /\ \A g \in Files : bak[g] # <<>> => bak'[g] # <<>> /\ bak'[g][1] = bak[g][1]
  <1>1. disk' = disk /\ tmp' = tmp /\ (bak' = [bak EXCEPT ![f] = Pruned(bak[f])] \/ bak' = bak)
    BY DEF Prune
  <1>2. CASE bak' = bak
    BY <1>1, <1>2 DEF FilesInv
  <1>3. CASE bak' = [bak EXCEPT ![f] = Pruned(bak[f])]
    <2>1. /\ OnFiles(bak') /\ bak'[f] = Pruned(bak[f])
          /\ \A g \in Files \ {f} : bak'[g] = bak[g]
      BY <1>3 DEF FilesInv, OnFiles
    <2>2. Sequence(bak[f])
      BY DEF FilesInv
    <2>3. Sequence(bak'[f]) /\ (bak[f] # <<>> => bak'[f] # <<>> /\ bak'[f][1] = bak[f][1])
      BY <2>1, <2>2, PrunedFacts
    <2>4. \A g \in Files : Sequence(bak'[g])
      BY <2>1, <2>3 DEF FilesInv
    <2> QED
      BY <1>1, <2>1, <2>3, <2>4 DEF FilesInv
  <1> QED
    BY <1>1, <1>2, <1>3

-----------------------------------------------------------------------------
(* The steps *)

\* What reading makes of a directory is what is there.
LEMMA ReadKnown ==
    ASSUME FilesInv, UNCHANGED files,
           ifFiles' = ReadIfFiles(disk), routeFiles' = ReadRouteFiles(disk)
    PROVE  MemoryInv' /\ Known(disk)'
  <1>1. \A n \in Iface : ReadOK(disk, n, Len(FileOrder), ifFiles'[n])
    BY ReadFacts
  <1>2. ifFiles' = [n \in Iface |-> ifFiles'[n]]
    BY DEF ReadIfFiles
  <1>3. routeFiles' = [n \in Iface |-> routeFiles'[n]]
    BY DEF ReadRouteFiles
  <1>4. MemoryInv'
    BY <1>1, <1>2, <1>3 DEF MemoryInv, ReadOK
  <1>5. ASSUME NEW n \in Iface
        PROVE  /\ \A m \in DOMAIN ifFiles'[n] : disk[ifFiles'[n][m].name] # Absent
               /\ \A f \in IfFiles : OwnerOf[f] = n /\ disk[f] # Absent =>
                     \E m \in DOMAIN ifFiles'[n] : ifFiles'[n][m].name = f
    <2>1. ReadOK(disk, n, Len(FileOrder), ifFiles'[n])
      BY <1>1
    <2>2. \A f \in IfFiles : \E k \in 1 .. Len(FileOrder) : f = FileOrder[k]
      BY Placed
    <2> QED
      BY <2>1, <2>2 DEF ReadOK
  <1>6. ASSUME NEW n \in Iface, NEW f \in {4, 6}
        PROVE  routeFiles'[n][f] = Absent <=> disk[RouteFile[n][f]] = Absent
    <2>1. RoutesSaid(disk, n)
      BY DEF FilesInv
    <2>2. routeFiles'[n][f] = IF disk[RouteFile[n][f]] = Absent THEN Absent
                              ELSE disk[RouteFile[n][f]].routes
      BY DEF ReadRouteFiles
    <2> QED
      BY <2>1, <2>2 DEF RoutesSaid
  <1>7. disk' = disk
    BY DEF files
  <1> QED
    BY <1>4, <1>5, <1>6, <1>7 DEF Known

\* The directory is read before the first call.
LEMMA ScriptsInit == Init => ScriptsInv
  <1> SUFFICES ASSUME Init PROVE ScriptsInv
    OBVIOUS
  <1>1. FilesInv
    <2>1. OnFiles(disk) /\ \A n \in Iface : RoutesSaid(disk, n)
      BY ScriptsAssumption DEF Init, OnFiles
    <2>2. OnFiles(tmp) /\ \A n \in Iface : RoutesSaid(tmp, n)
      BY PlaceFacts DEF Init, OnFiles, RoutesSaid
    <2>3. Sequence(<<>>)
      <3>1. <<>> \in Seq({})
        OBVIOUS
      <3> QED
        BY <3>1 DEF Sequence
    <2>4. OnFiles(bak) /\ \A f \in Files : Sequence(bak[f])
      BY <2>3 DEF Init, OnFiles
    <2> QED
      BY <2>1, <2>2, <2>4 DEF FilesInv
  <1>2. MemoryInv /\ Known(disk)
    <2>1. \A n \in Iface : ReadOK(disk, n, Len(FileOrder), ifFiles[n])
      BY ReadFacts DEF Init
    <2>2. MemoryInv
      BY <2>1 DEF Init, MemoryInv, ReadOK, ReadIfFiles, ReadRouteFiles
    <2>3. ASSUME NEW n \in Iface
          PROVE  /\ \A m \in DOMAIN ifFiles[n] : disk[ifFiles[n][m].name] # Absent
                 /\ \A f \in IfFiles : OwnerOf[f] = n /\ disk[f] # Absent =>
                       \E m \in DOMAIN ifFiles[n] : ifFiles[n][m].name = f
      <3>1. ReadOK(disk, n, Len(FileOrder), ifFiles[n])
        BY <2>1
      <3>2. \A f \in IfFiles : \E k \in 1 .. Len(FileOrder) : f = FileOrder[k]
        BY Placed
      <3> QED
        BY <3>1, <3>2 DEF ReadOK
    <2>4. ASSUME NEW n \in Iface, NEW f \in {4, 6}
          PROVE  routeFiles[n][f] = Absent <=> disk[RouteFile[n][f]] = Absent
      <3>1. RoutesSaid(disk, n)
        BY <1>1 DEF FilesInv
      <3>2. routeFiles[n][f] = IF disk[RouteFile[n][f]] = Absent THEN Absent
                               ELSE disk[RouteFile[n][f]].routes
        BY DEF Init, ReadRouteFiles
      <3> QED
        BY <3>1, <3>2 DEF RoutesSaid
    <2> QED
      BY <2>2, <2>3, <2>4 DEF Known
  <1>3. ControlInv
    BY DEF Init, ControlInv, IfLabels, RouteLabels
  <1>4. CallInv
    BY DEF Init, CallInv
  <1>5. NothingIsLost /\ NoSpuriousError
    BY DEF Init, NothingIsLost, NoSpuriousError
  <1> QED
    BY <1>1, <1>2, <1>3, <1>4, <1>5 DEF ScriptsInv

\* A call begins with the directory as it is.
LEMMA BeginKeeps ==
    ASSUME ScriptsInv, NEW op, NEW iface \in Iface, NEW asked, NEW label, NEW what,
           Begin(op, iface, asked, label, what),
           \/ label = "write"
           \/ label = "writeRoutes" /\ what[4] # Absent /\ what[6] # Absent
    PROVE  ScriptsInv'
  <1>1. /\ pc = "idle" /\ pc' = label /\ j' = 1 /\ ret' = "running" /\ new' = what
        /\ call' = [op |-> op, iface |-> iface, asked |-> asked]
        /\ pre' = [disk |-> disk, ifFiles |-> ifFiles, routeFiles |-> routeFiles,
                   faulted |-> faulted]
        /\ disk' = disk /\ tmp' = tmp /\ bak' = bak
        /\ ifFiles' = ifFiles /\ routeFiles' = routeFiles /\ faulted' = faulted
    BY DEF Begin, files, mem
  <1>2. FilesInv' /\ MemoryInv'
    BY <1>1 DEF ScriptsInv, FilesInv, MemoryInv
  <1>3. ControlInv'
    <2>1. name' = iface
      BY <1>1 DEF name
    <2> QED
      BY <1>1, <2>1 DEF ControlInv, IfLabels, RouteLabels
  <1>4. \A f \in Files : Same(f)'
    BY <1>1 DEF Same
  <1>5. ~pre'.faulted => CallInv'
    <2>1. ~pre'.faulted => Known(disk)
      BY <1>1 DEF ScriptsInv
    <2>2. Known(disk) => Known(pre.disk)'
      BY <1>1 DEF Known
    <2> QED
      BY <1>1, <1>4, <2>1, <2>2 DEF CallInv
  <1>6. NothingIsLost'
    BY <1>4 DEF NothingIsLost, Same
  <1>7. NoSpuriousError'
    BY <1>1 DEF NoSpuriousError
  <1> QED
    BY <1>1, <1>2, <1>3, <1>5, <1>6, <1>7 DEF ScriptsInv

\* A call that stops where it is has done nothing more, and says that something failed.
LEMMA StopKeeps ==
    ASSUME ScriptsInv, UNCHANGED <<files, mem, new, call, calls, pre>>,
           pc' = "idle", j' = 1, faulted'
    PROVE  ScriptsInv'
  <1>1. FilesInv' /\ MemoryInv'
    BY DEF ScriptsInv, FilesInv, MemoryInv, files, mem
  <1>2. ControlInv'
    BY DEF ScriptsInv, ControlInv, IfLabels, RouteLabels
  <1>3. CallInv'
    BY DEF CallInv
  <1>4. NothingIsLost' /\ NoSpuriousError'
    BY DEF ScriptsInv, NothingIsLost, NoSpuriousError, files
  <1> QED
    BY <1>1, <1>2, <1>3, <1>4 DEF ScriptsInv

\* The error of a system call is returned.
LEMMA FaultKeeps == ASSUME ScriptsInv, Fault PROVE ScriptsInv'
  BY StopKeeps DEF Fault, Rest

\* A file that is there is not missed.
LEMMA MissingKeeps ==
    ASSUME ScriptsInv, NEW f \in Files, Missing(f), ~pre.faulted => disk[f] # Absent
    PROVE  ScriptsInv'
  <1>1. pre.faulted
    BY DEF Missing
  <1>2. faulted'
    BY <1>1 DEF Missing, ScriptsInv, ControlInv
  <1> QED
    BY <1>2, StopKeeps DEF Missing, Rest

-----------------------------------------------------------------------------
(* Saving the files of an interface *)

\* The new text is written, whole or short.
LEMMA WriteConfigKeeps == ASSUME ScriptsInv, WriteConfig PROVE ScriptsInv'
  <1>1. CASE Fault
    BY <1>1, FaultKeeps
  <1>2. ASSUME NEW text, WriteTmp(Main[name], text), pc' = "backup", j' = 1, UNCHANGED mem, Rest,
               pre.faulted => faulted'
        PROVE  ScriptsInv'
    <2>1. pc = "write" /\ name \in Iface
      BY DEF WriteConfig, ScriptsInv, ControlInv, IfLabels
    <2>2. Main[name] \in IfFiles /\ Main[name] \in Files
      BY <2>1, PlaceFacts
    <2>3. FilesInv' /\ disk' = disk /\ bak' = bak
      BY <1>2, <2>2, WrittenFacts DEF ScriptsInv
    <2>4. name' = name /\ ifFiles' = ifFiles /\ routeFiles' = routeFiles /\ pre' = pre
      BY <1>2 DEF Rest, mem, name
    <2>5. MemoryInv'
      BY <2>4 DEF ScriptsInv, MemoryInv
    <2>6. ControlInv'
      BY <1>2, <2>1, <2>4 DEF ScriptsInv, ControlInv, IfLabels, RouteLabels
    <2>7. ~pre'.faulted => CallInv'
      <3>1. \A f : ~OldUpTo(f, j)'
        BY <1>2 DEF OldUpTo
      <3>2. ~pre.faulted => Known(pre.disk)' /\ \A f \in Files : Same(f)'
        BY <2>1, <2>3, <2>4 DEF ScriptsInv, CallInv, Known, Same
      <3> QED
        BY <1>2, <2>4, <3>1, <3>2 DEF CallInv
    <2>8. NothingIsLost' /\ NoSpuriousError'
      BY <1>2, <2>3, <2>4 DEF ScriptsInv, NothingIsLost, NoSpuriousError
    <2> QED
      BY <1>2, <2>3, <2>5, <2>6, <2>7, <2>8 DEF ScriptsInv
  <1>3. CASE WriteTmp(Main[name], new) /\ Go("backup", 1) /\ UNCHANGED mem
    <2>1. pre.faulted => faulted'
      BY <1>3 DEF Go, ScriptsInv, ControlInv
    <2> QED
      BY <1>2, <1>3, <2>1 DEF Go
  <1>4. CASE /\ WriteTmp(Main[name], NoKeys) /\ faulted' = TRUE
             /\ pc' = "backup" /\ j' = 1 /\ UNCHANGED <<mem, ret>> /\ Rest
    BY <1>2, <1>4
  <1> QED
    BY <1>1, <1>3, <1>4 DEF WriteConfig

\* One more of the old files is a backup.
LEMMA BackupKeeps == ASSUME ScriptsInv, Backup PROVE ScriptsInv'
  <1> DEFINE list == ifFiles[name]
             g == list[j].name
  <1>0. pc = "backup" /\ name \in Iface /\ j \in Nat \ {0} /\ j <= Len(list)
    BY DEF Backup, ScriptsInv, ControlInv, IfLabels
  <1>1. Listed(list, name)
    BY <1>0 DEF ScriptsInv, MemoryInv
  <1>2. Len(list) \in Nat /\ DOMAIN list = 1 .. Len(list) /\ j \in DOMAIN list
    BY <1>0, <1>1 DEF Listed, Sequence
  <1>3. g \in Files
    BY <1>1, <1>2, ScriptsAssumption DEF Listed, IfFiles, ToSet
  <1>4. ~OldUpTo(g, j)
    <2> HIDE DEF list
    <2>1. \A k \in 1 .. j - 1 : k \in DOMAIN list /\ k # j
      BY <1>0, <1>2
    <2>2. \A k \in 1 .. j - 1 : list[k].name # list[j].name
      BY <1>1, <1>2, <2>1 DEF Listed
    <2> QED
      BY <2>2 DEF OldUpTo, list
  <1>5. ~pre.faulted => Same(g) /\ disk[g] # Absent
    <2> HIDE DEF list
    <2>1. ~pre.faulted => Known(pre.disk) /\ Same(g)
      BY <1>0, <1>3, <1>4 DEF ScriptsInv, CallInv
    <2>2. Known(pre.disk) => pre.disk[g] # Absent
      BY <1>0, <1>2 DEF Known, list
    <2> QED
      BY <2>1, <2>2 DEF Same
  <1>6. CASE Fault
    BY <1>6, FaultKeeps
  <1>7. CASE Missing(g)
    <2> HIDE DEF g
    <2> QED
      BY <1>3, <1>5, <1>7, MissingKeeps
  <1>8. CASE MoveToBackup(g) /\ Go("backup", j + 1) /\ UNCHANGED mem
    <2>1. /\ FilesInv' /\ disk'[g] = Absent /\ bak'[g] # <<>> /\ bak'[g][1] = disk[g]
          /\ \A f \in Files \ {g} : disk'[f] = disk[f] /\ bak'[f] = bak[f]
      <3> HIDE DEF g
      <3> QED
        BY <1>3, <1>8, MovedFacts DEF ScriptsInv
    <2>2. /\ name' = name /\ ifFiles' = ifFiles /\ routeFiles' = routeFiles /\ pre' = pre
          /\ pc' = "backup" /\ j' = j + 1 /\ faulted' = faulted
      BY <1>8 DEF Go, Rest, mem, name
    <2>3. MemoryInv'
      BY <2>2 DEF ScriptsInv, MemoryInv
    <2>4. ControlInv'
      BY <1>0, <2>2 DEF ScriptsInv, ControlInv, IfLabels, RouteLabels
    <2>5. ASSUME ~pre.faulted, NEW f \in Files
          PROVE  IF OldUpTo(f, j)' THEN Moved(f)' ELSE Same(f)'
      <3>1. OldUpTo(f, j)' <=> OldUpTo(f, j) \/ f = g
        <4>1. \A k : k \in 1 .. (j + 1) - 1 <=> k \in 1 .. j - 1 \/ k = j
          BY <1>0
        <4>2. OldUpTo(f, j)' <=> \E k \in 1 .. (j + 1) - 1 : k <= Len(list) /\ list[k].name = f
          BY <2>2 DEF OldUpTo
        <4> HIDE DEF list
        <4>3. (\E k \in 1 .. (j + 1) - 1 : k <= Len(list) /\ list[k].name = f)
                <=> \/ \E k \in 1 .. j - 1 : k <= Len(list) /\ list[k].name = f
                    \/ list[j].name = f
          BY <1>0, <4>1
        <4> QED
          BY <4>2, <4>3 DEF OldUpTo, list
      <3>2. IF OldUpTo(f, j) THEN Moved(f) ELSE Same(f)
        BY <1>0, <2>5 DEF ScriptsInv, CallInv
      <3>3. CASE f = g
        <4>1. disk'[f] = Absent /\ bak'[f] # <<>> /\ bak'[f][1] = pre.disk[f]
          BY <1>5, <2>1, <2>5, <3>3 DEF Same
        <4>2. Moved(f)'
          BY <2>2, <4>1 DEF Moved, Backed
        <4> QED
          BY <3>1, <3>3, <4>2
      <3>4. CASE f # g
        <4> HIDE DEF g
        <4>1. disk'[f] = disk[f] /\ bak'[f] = bak[f]
          BY <2>1, <3>4
        <4> QED
          BY <2>2, <3>1, <3>2, <3>4, <4>1 DEF Moved, Backed, Same
      <3> QED
        BY <3>3, <3>4
    <2>6. ~pre.faulted => Known(pre.disk)'
      BY <1>0, <2>2 DEF ScriptsInv, CallInv, Known
    <2>7. ~pre'.faulted => CallInv'
      BY <2>2, <2>5, <2>6 DEF CallInv
    <2>8. NothingIsLost'
      BY <2>2, <2>5 DEF NothingIsLost, Moved, Backed, Same
    <2>9. NoSpuriousError'
      BY <2>2 DEF NoSpuriousError
    <2> QED
      BY <2>1, <2>2, <2>3, <2>4, <2>7, <2>8, <2>9 DEF ScriptsInv
  <1> QED
    BY <1>6, <1>7, <1>8 DEF Backup

\* The new file takes the place of all the old ones.
LEMMA InstallKeeps == ASSUME ScriptsInv, Install PROVE ScriptsInv'
  <1> DEFINE g == Main[name]
             list == ifFiles[name]
  <1>0. pc = "backup" /\ name \in Iface /\ j \in Nat \ {0} /\ j > Len(list)
    BY DEF Install, ScriptsInv, ControlInv, IfLabels
  <1>1. Listed(list, name)
    BY <1>0 DEF ScriptsInv, MemoryInv
  <1>2. Len(list) \in Nat /\ DOMAIN list = 1 .. Len(list)
    BY <1>1 DEF Listed, Sequence
  <1>3. g \in Files /\ g \in IfFiles /\ OwnerOf[g] = name
    BY <1>0, PlaceFacts
  <1>4. CASE Fault
    BY <1>4, FaultKeeps
  <1>5. ASSUME MoveInPlace(g), Go("prune", 1),
               ifFiles' = [ifFiles EXCEPT ![name] = SavedFiles(new)], UNCHANGED routeFiles
        PROVE  ScriptsInv'
    <2>1. /\ FilesInv' /\ bak' = bak /\ disk'[g] # Absent
          /\ \A f \in Files \ {g} : disk'[f] = disk[f]
      <3> HIDE DEF g
      <3> QED
        BY <1>3, <1>5, InstalledFacts DEF ScriptsInv
    <2>2. /\ name' = name /\ routeFiles' = routeFiles /\ pre' = pre
          /\ pc' = "prune" /\ j' = 1 /\ faulted' = faulted
      BY <1>5 DEF Go, Rest, name
    <2>3. /\ ifFiles' = [n \in Iface |-> ifFiles'[n]]
          /\ ifFiles'[name] = <<[name |-> g, config |-> new]>>
          /\ \A n \in Iface \ {name} : ifFiles'[n] = ifFiles[n]
      BY <1>0, <1>5 DEF ScriptsInv, MemoryInv, SavedFiles
    <2>4. Listed(ifFiles'[name], name)
      <3> DEFINE e == [name |-> g, config |-> new]
      <3>1. e.name = g
        OBVIOUS
      <3> HIDE DEF e, g
      <3>2. <<e>> \in Seq({e}) /\ DOMAIN <<e>> = {1} /\ <<e>>[1] = e
        OBVIOUS
      <3>3. Listed(<<e>>, name)
        BY <1>3, <3>1, <3>2 DEF Listed, Sequence
      <3> QED
        BY <2>3, <3>3 DEF e, g
    <2>5. MemoryInv'
      BY <2>2, <2>3, <2>4 DEF ScriptsInv, MemoryInv
    <2>6. ControlInv'
      BY <1>0, <2>2 DEF ScriptsInv, ControlInv, IfLabels, RouteLabels
    <2>7. ASSUME ~pre.faulted
          PROVE  /\ Known(pre.disk)
                 /\ \A f \in Files : IF \E m \in DOMAIN list : list[m].name = f
                                     THEN Moved(f) ELSE Same(f)
      <3>1. Known(pre.disk) /\ \A f \in Files : IF OldUpTo(f, j) THEN Moved(f) ELSE Same(f)
        BY <1>0, <2>7 DEF ScriptsInv, CallInv
      <3>2. ASSUME NEW f PROVE OldUpTo(f, j) <=> \E m \in DOMAIN list : list[m].name = f
        <4> HIDE DEF list
        <4>1. \A k : k \in DOMAIN list <=> k \in 1 .. j - 1 /\ k <= Len(list)
          BY <1>0, <1>2
        <4> QED
          BY <4>1 DEF OldUpTo, list
      <3> HIDE DEF list
      <3> QED
        BY <3>1, <3>2
    <2>8. ~pre.faulted => Known(disk)'
      <3> SUFFICES ASSUME ~pre.faulted PROVE Known(disk)'
        OBVIOUS
      <3>1. ASSUME NEW n \in Iface, n # name
            PROVE  /\ \A m \in DOMAIN ifFiles[n] : disk'[ifFiles[n][m].name] # Absent
                   /\ \A f \in IfFiles : OwnerOf[f] = n /\ disk'[f] # Absent =>
                         \E m \in DOMAIN ifFiles[n] : ifFiles[n][m].name = f
        <4>1. \A f \in IfFiles : OwnerOf[f] = n => f \in Files /\ disk'[f] = pre.disk[f]
          <5>1. ASSUME NEW f \in IfFiles, OwnerOf[f] = n PROVE f \in Files /\ disk'[f] = pre.disk[f]
            <6>1. f \in Files /\ f # g
              BY <1>3, <3>1, <5>1, ScriptsAssumption DEF IfFiles, ToSet
            <6>2. ~\E m \in DOMAIN list : list[m].name = f
              BY <1>1, <3>1, <5>1 DEF Listed
            <6>3. Same(f)
              BY <2>7, <6>1, <6>2
            <6> QED
              BY <2>1, <6>1, <6>3 DEF Same
          <5> QED
            BY <5>1
        <4>2. Listed(ifFiles[n], n)
          BY DEF ScriptsInv, MemoryInv
        <4>3. /\ \A m \in DOMAIN ifFiles[n] : pre.disk[ifFiles[n][m].name] # Absent
              /\ \A f \in IfFiles : OwnerOf[f] = n /\ pre.disk[f] # Absent =>
                    \E m \in DOMAIN ifFiles[n] : ifFiles[n][m].name = f
          BY <2>7 DEF Known
        <4> QED
          BY <4>1, <4>2, <4>3 DEF Listed
      <3>2. /\ \A m \in DOMAIN ifFiles'[name] : disk'[ifFiles'[name][m].name] # Absent
            /\ \A f \in IfFiles : OwnerOf[f] = name /\ disk'[f] # Absent =>
                  \E m \in DOMAIN ifFiles'[name] : ifFiles'[name][m].name = f
        <4>1. DOMAIN ifFiles'[name] = {1} /\ ifFiles'[name][1].name = g
          BY <2>3
        <4>2. ASSUME NEW f \in IfFiles, OwnerOf[f] = name, disk'[f] # Absent PROVE f = g
          <5> SUFFICES ASSUME f # g PROVE FALSE
            OBVIOUS
          <5>1. f \in Files /\ disk[f] # Absent
            <6>1. f \in Files
              BY ScriptsAssumption DEF IfFiles, ToSet
            <6> HIDE DEF g
            <6> QED
              BY <2>1, <4>2, <6>1
          <5> HIDE DEF list, g
          <5>2. CASE \E m \in DOMAIN list : list[m].name = f
            BY <2>7, <5>1, <5>2 DEF Moved
          <5>3. CASE ~\E m \in DOMAIN list : list[m].name = f
            <6>1. pre.disk[f] # Absent
              BY <2>7, <5>1, <5>3 DEF Same
            <6>2. Known(pre.disk)
              BY <2>7
            <6> QED
              BY <1>0, <4>2, <5>3, <6>1, <6>2 DEF Known, list
          <5> QED
            BY <5>2, <5>3
        <4> QED
          BY <2>1, <4>1, <4>2
      <3>3. ASSUME NEW n \in Iface, NEW f \in {4, 6}
            PROVE  routeFiles[n][f] = Absent <=> disk'[RouteFile[n][f]] = Absent
        <4> DEFINE r == RouteFile[n][f]
        <4>1. r \in Files /\ r \notin IfFiles
          BY PlaceFacts
        <4>2. ~\E m \in DOMAIN list : list[m].name = r
          BY <1>1, <4>1 DEF Listed
        <4>3. Same(r)
          <5> HIDE DEF r, list
          <5> QED
            BY <2>7, <4>1, <4>2
        <4>4. disk'[r] = pre.disk[r]
          <5> HIDE DEF r, g
          <5> QED
            BY <1>3, <2>1, <4>1, <4>3 DEF Same
        <4> QED
          BY <2>7, <4>4 DEF Known
      <3> QED
        BY <2>2, <2>3, <3>1, <3>2, <3>3 DEF Known
    <2>9. ~pre'.faulted => CallInv'
      BY <2>2, <2>8 DEF CallInv
    <2>10. NothingIsLost'
      <3>1. ASSUME NEW f \in Files, ~pre.faulted
            PROVE  disk'[f] = pre.disk[f] \/ pre.disk[f] = Absent \/ Backed(f)
        <4>1. IF \E m \in DOMAIN list : list[m].name = f THEN Moved(f) ELSE Same(f)
          BY <2>7, <3>1
        <4>2. CASE Moved(f)
          BY <4>2 DEF Moved
        <4>3. CASE Same(f) /\ ~\E m \in DOMAIN list : list[m].name = f
          <5>1. CASE f # g
            <6> HIDE DEF g
            <6> QED
              BY <2>1, <4>3, <5>1 DEF Same
          <5>2. CASE f = g
            <6>1. Known(pre.disk)
              BY <2>7, <3>1
            <6> QED
              BY <1>0, <1>3, <4>3, <5>2, <6>1 DEF Known
          <5> QED
            BY <5>1, <5>2
        <4> HIDE DEF list
        <4> QED
          BY <4>1, <4>2, <4>3
      <3> QED
        BY <2>1, <2>2, <3>1 DEF NothingIsLost, Backed
    <2>11. NoSpuriousError'
      BY <2>2 DEF NoSpuriousError
    <2> QED
      BY <2>1, <2>2, <2>5, <2>6, <2>9, <2>10, <2>11 DEF ScriptsInv
  <1> QED
    BY <1>4, <1>5 DEF Install

\* The call returns when old backups have been pruned.
LEMMA DoneKeeps ==
    ASSUME ScriptsInv, pc \in {"prune", "pruneRoutes"}, UNCHANGED mem, FilesInv', disk' = disk,
           \A f \in Files : bak[f] # <<>> => bak'[f] # <<>> /\ bak'[f][1] = bak[f][1],
           Rest, faulted' = faulted,
           \/ pc' = "idle" /\ ret' = "ok" /\ j' = 1
           \/ pc = "pruneRoutes" /\ pc' = pc /\ j' = 2
    PROVE  ScriptsInv'
  <1>1. ifFiles' = ifFiles /\ routeFiles' = routeFiles /\ pre' = pre /\ name' = name /\ new' = new
    BY DEF Rest, mem, name
  <1>2. MemoryInv'
    BY <1>1 DEF ScriptsInv, MemoryInv
  <1>3. ControlInv'
    BY <1>1 DEF ScriptsInv, ControlInv, IfLabels, RouteLabels
  <1>4. ~pre.faulted => Known(disk)'
    BY <1>1 DEF ScriptsInv, CallInv, Known
  <1>5. ~pre'.faulted => CallInv'
    BY <1>1, <1>4 DEF CallInv
  <1>6. ~faulted' => ~pre.faulted
    BY DEF ScriptsInv, ControlInv
  <1>7. NothingIsLost'
    BY <1>1 DEF ScriptsInv, NothingIsLost
  <1>8. NoSpuriousError'
    BY DEF NoSpuriousError
  <1> QED
    BY <1>2, <1>3, <1>4, <1>5, <1>6, <1>7, <1>8 DEF ScriptsInv

\* Pruning does not take the newest backup.
LEMMA PruneBackupsKeeps == ASSUME ScriptsInv, PruneBackups PROVE ScriptsInv'
  <1>1. pc = "prune" /\ name \in Iface
    BY DEF PruneBackups, ScriptsInv, ControlInv, IfLabels
  <1>2. Main[name] \in Files
    BY <1>1, PlaceFacts
  <1>3. /\ FilesInv' /\ disk' = disk
        /\ \A f \in Files : bak[f] # <<>> => bak'[f] # <<>> /\ bak'[f][1] = bak[f][1]
    BY <1>2, PruneFacts DEF PruneBackups, ScriptsInv
  <1> QED
    BY <1>1, <1>3, DoneKeeps DEF PruneBackups, Done

-----------------------------------------------------------------------------
(* Saving the route files *)

\* The route files of the two families.
LEMMA RouteFacts ==
    ASSUME name \in Iface
    PROVE  /\ \A k \in {1, 2} : /\ RouteOf(k) \in Files /\ RouteOf(k) \notin IfFiles
                                /\ Family[k] \in {4, 6}
           /\ \A k, m \in {1, 2} : RouteOf(k) = RouteOf(m) => k = m
           /\ \A n \in Iface \ {name}, f \in {4, 6}, k \in {1, 2} :
                 RouteFile[n][f] # RouteOf(k)
           /\ \A f \in {4, 6} : \E k \in {1, 2} : f = Family[k]
  <1>1. Family[1] = 4 /\ Family[2] = 6
    BY DEF Family
  <1>2. RouteOf(1) = RouteFile[name][4] /\ RouteOf(2) = RouteFile[name][6]
    BY <1>1 DEF RouteOf
  <1>3. \A f \in {4, 6} : RouteFile[name][f] \in Files /\ RouteFile[name][f] \notin IfFiles
    BY PlaceFacts
  <1>4. \A m \in Iface, f, g \in {4, 6} : RouteFile[m][f] = RouteFile[name][g] => m = name /\ f = g
    BY PlaceFacts
  <1>5. ASSUME NEW n \in Iface \ {name}, NEW f \in {4, 6}, NEW k \in {1, 2}
        PROVE  RouteFile[n][f] # RouteOf(k)
    BY <1>2, <1>4
  <1>6. RouteOf(1) # RouteOf(2)
    BY <1>2, <1>4
  <1>7. ASSUME NEW k \in {1, 2}
        PROVE  RouteOf(k) \in Files /\ RouteOf(k) \notin IfFiles /\ Family[k] \in {4, 6}
    BY <1>1, <1>2, <1>3
  <1>8. \A k, m \in {1, 2} : RouteOf(k) = RouteOf(m) => k = m
    BY <1>6
  <1>9. \A f \in {4, 6} : \E k \in {1, 2} : f = Family[k]
    BY <1>1
  <1> QED
    BY <1>5, <1>7, <1>8, <1>9

\* One more family has been come to.
LEMMA OneMore ==
    ASSUME name \in Iface, j \in {1, 2}, NEW f
    PROVE  /\ HadRoutes(f, j + 1) <=> HadRoutes(f, j) \/ (HasFile(Family[j]) /\ f = RouteOf(j))
           /\ GetsRoutes(f, j + 1) <=> GetsRoutes(f, j) \/ (new[Family[j]] # {} /\ f = RouteOf(j))
           /\ ~HadRoutes(RouteOf(j), j) /\ ~GetsRoutes(RouteOf(j), j)
           /\ ~HadRoutes(f, 1) /\ ~GetsRoutes(f, 1)
  <1>1. \A k \in {1, 2} : k < j + 1 <=> k < j \/ k = j
    OBVIOUS
  <1>2. \A k \in {1, 2} : k < j => RouteOf(k) # RouteOf(j)
    BY RouteFacts
  <1>3. \A k \in {1, 2} : ~(k < 1)
    OBVIOUS
  <1>4. HadRoutes(f, j + 1) <=> HadRoutes(f, j) \/ (HasFile(Family[j]) /\ f = RouteOf(j))
    BY <1>1 DEF HadRoutes
  <1>5. GetsRoutes(f, j + 1) <=> GetsRoutes(f, j) \/ (new[Family[j]] # {} /\ f = RouteOf(j))
    BY <1>1 DEF GetsRoutes
  <1>6. ~HadRoutes(RouteOf(j), j) /\ ~GetsRoutes(RouteOf(j), j)
    BY <1>2 DEF HadRoutes, GetsRoutes
  <1>7. ~HadRoutes(f, 1) /\ ~GetsRoutes(f, 1)
    BY <1>3 DEF HadRoutes, GetsRoutes
  <1> QED
    BY <1>4, <1>5, <1>6, <1>7

\* What stays as it is when a call goes on to the next family or step.
LEMMA AdvanceFacts ==
    ASSUME ScriptsInv, pc \in RouteLabels, NEW label \in RouteLabels, Advance(label)
    PROVE  /\ name \in Iface /\ name' = name /\ pre' = pre /\ faulted' = faulted /\ new' = new
           /\ pc' = IF j = 1 THEN pc ELSE label
           /\ j \in {1, 2} /\ j' = IF j = 1 THEN 2 ELSE 1
           /\ ControlInv' /\ NoSpuriousError'
  <1>1. name \in Iface /\ j \in {1, 2} /\ new[4] # Absent /\ new[6] # Absent
    BY DEF ScriptsInv, ControlInv
  <1>2. /\ name' = name /\ pre' = pre /\ faulted' = faulted /\ new' = new
        /\ pc' = IF j = 1 THEN pc ELSE label
        /\ j' = IF j = 1 THEN 2 ELSE 1
    BY DEF Advance, Go, Rest, name
  <1>3. ControlInv'
    <2>1. pc' \in RouteLabels /\ j' \in {1, 2}
      BY <1>1, <1>2
    <2>2. pre.faulted => faulted
      BY DEF ScriptsInv, ControlInv
    <2> QED
      BY <1>1, <1>2, <2>1, <2>2 DEF ControlInv
  <1>4. NoSpuriousError'
    BY <1>1, <1>2 DEF NoSpuriousError, RouteLabels
  <1> QED
    BY <1>1, <1>2, <1>3, <1>4

\* The new route files are written.
LEMMA WriteRoutesKeeps == ASSUME ScriptsInv, WriteRoutes PROVE ScriptsInv'
  <1>0. pc = "writeRoutes" /\ name \in Iface /\ j \in {1, 2}
        /\ new[4] # Absent /\ new[6] # Absent
    BY DEF WriteRoutes, ScriptsInv, ControlInv, RouteLabels
  <1>1. CASE Fault
    BY <1>1, FaultKeeps
  <1>2. ASSUME Advance("backupRoutes"), FilesInv', disk' = disk, bak' = bak, UNCHANGED mem
        PROVE  ScriptsInv'
    <2>1. /\ name' = name /\ pre' = pre /\ faulted' = faulted /\ new' = new
          /\ pc' = IF j = 1 THEN pc ELSE "backupRoutes"
          /\ j' = IF j = 1 THEN 2 ELSE 1
          /\ ControlInv' /\ NoSpuriousError'
      BY <1>0, <1>2, AdvanceFacts DEF RouteLabels
    <2>2. MemoryInv'
      BY <1>2 DEF ScriptsInv, MemoryInv, mem
    <2>3. ~pre.faulted => Known(pre.disk)' /\ \A f \in Files : Same(f)'
      BY <1>0, <1>2, <2>1 DEF ScriptsInv, CallInv, Known, Same, mem
    <2>4. j = 2 => \A f : ~HadRoutes(f, j)'
      <3>1. \A k \in {1, 2} : ~(k < 1)
        OBVIOUS
      <3> QED
        BY <2>1, <3>1 DEF HadRoutes
    <2>5. ~pre'.faulted => CallInv'
      BY <1>0, <2>1, <2>3, <2>4 DEF CallInv
    <2>6. NothingIsLost'
      BY <1>2, <2>1 DEF ScriptsInv, NothingIsLost
    <2> QED
      BY <1>0, <1>2, <2>1, <2>2, <2>5, <2>6 DEF ScriptsInv
  <1>3. CASE routes = {} /\ Advance("backupRoutes") /\ UNCHANGED <<files, mem>>
    <2>1. FilesInv' /\ disk' = disk /\ bak' = bak
      BY <1>3 DEF ScriptsInv, FilesInv, files
    <2> QED
      BY <1>2, <1>3, <2>1
  <1>4. CASE /\ routes # {} /\ WriteTmp(routeFile, [routes |-> routes])
             /\ Advance("backupRoutes") /\ UNCHANGED mem
    <2>1. routeFile = RouteOf(j) /\ routeFile \in Files
      BY <1>0, RouteFacts DEF routeFile, RouteOf
    <2>2. routes # Absent
      BY <1>0, RouteFacts DEF routes
    <2>3. FilesInv' /\ disk' = disk /\ bak' = bak
      <3> DEFINE text == [routes |-> routes]
      <3>1. text.routes # Absent
        BY <2>2
      <3>2. WriteTmp(routeFile, text)
        BY <1>4
      <3> HIDE DEF text
      <3> QED
        BY <2>1, <3>1, <3>2, WrittenFacts DEF ScriptsInv
    <2> QED
      BY <1>2, <1>4, <2>3
  <1> QED
    BY <1>1, <1>3, <1>4 DEF WriteRoutes

\* One more of the old route files is a backup, if there was one.
LEMMA BackupRoutesKeeps == ASSUME ScriptsInv, BackupRoutes PROVE ScriptsInv'
  <1> DEFINE g == RouteOf(j)
  <1>0. pc = "backupRoutes" /\ name \in Iface /\ j \in {1, 2}
    BY DEF BackupRoutes, ScriptsInv, ControlInv, RouteLabels
  <1>1. g \in Files /\ Family[j] \in {4, 6} /\ routeFile = g
    BY <1>0, RouteFacts DEF routeFile, RouteOf
  <1>2. ~pre.faulted /\ HasFile(Family[j]) => Same(g) /\ disk[g] # Absent
    <2> SUFFICES ASSUME ~pre.faulted, HasFile(Family[j]) PROVE Same(g) /\ disk[g] # Absent
      OBVIOUS
    <2>1. Known(pre.disk) /\ IF HadRoutes(g, j) THEN Moved(g) ELSE Same(g)
      BY <1>0, <1>1 DEF ScriptsInv, CallInv
    <2>2. Same(g)
      BY <1>0, <2>1, OneMore
    <2>3. pre.disk[g] # Absent
      BY <1>0, <1>1, <2>1 DEF Known, HasFile, RouteOf
    <2> QED
      BY <2>2, <2>3 DEF Same
  <1>3. ASSUME Advance("installRoutes"), FilesInv', UNCHANGED mem,
               ~pre.faulted => \A f \in Files :
                  IF HadRoutes(f, j + 1)
                  THEN disk'[f] = Absent /\ bak'[f] # <<>> /\ bak'[f][1] = pre.disk[f]
                  ELSE disk'[f] = pre.disk[f]
        PROVE  ScriptsInv'
    <2>1. /\ name' = name /\ pre' = pre /\ faulted' = faulted /\ new' = new
          /\ pc' = IF j = 1 THEN pc ELSE "installRoutes"
          /\ j' = IF j = 1 THEN 2 ELSE 1
          /\ ControlInv' /\ NoSpuriousError'
      BY <1>0, <1>3, AdvanceFacts DEF RouteLabels
    <2>2. MemoryInv'
      BY <1>3 DEF ScriptsInv, MemoryInv, mem
    <2>3. ~pre.faulted => Known(pre.disk)'
      BY <1>0, <1>3, <2>1 DEF ScriptsInv, CallInv, Known, mem
    <2>4. ASSUME ~pre.faulted, NEW f \in Files
          PROVE  IF HadRoutes(f, j + 1) THEN Moved(f)' ELSE Same(f)'
      BY <1>3, <2>1, <2>4 DEF Moved, Backed, Same
    <2>5. ASSUME NEW f, NEW m PROVE HadRoutes(f, m)' <=> HadRoutes(f, m')
      BY <1>3, <2>1 DEF HadRoutes, HasFile, RouteOf, mem
    <2>6. ASSUME NEW f PROVE j' = 1 => ~GetsRoutes(f, j)'
      <3>1. \A k \in {1, 2} : ~(k < 1)
        OBVIOUS
      <3> QED
        BY <3>1 DEF GetsRoutes
    <2>7. ~pre'.faulted => CallInv'
      <3>1. CASE j = 1
        <4>1. \A f \in Files : HadRoutes(f, j)' <=> HadRoutes(f, j + 1)
          BY <2>1, <2>5, <3>1
        <4> QED
          BY <1>0, <2>1, <2>3, <2>4, <3>1, <4>1 DEF CallInv
      <3>2. CASE j = 2
        <4>1. \A f \in Files : HadRoutes(f, 3)' <=> HadRoutes(f, j + 1)
          BY <2>5, <3>2
        <4> QED
          BY <1>0, <2>1, <2>3, <2>4, <2>6, <3>2, <4>1 DEF CallInv
      <3> QED
        BY <1>0, <3>1, <3>2
    <2>8. NothingIsLost'
      BY <2>1, <2>4 DEF NothingIsLost, Moved, Backed, Same
    <2> QED
      BY <1>0, <1>3, <2>1, <2>2, <2>7, <2>8 DEF ScriptsInv
  <1>4. ~pre.faulted => \A f \in Files : IF HadRoutes(f, j) THEN Moved(f) ELSE Same(f)
    BY <1>0 DEF ScriptsInv, CallInv
  <1>5. CASE Fault
    BY <1>5, FaultKeeps
  <1>6. CASE HasFile(Family[j]) /\ Missing(routeFile)
    <2> HIDE DEF g
    <2> QED
      BY <1>1, <1>2, <1>6, MissingKeeps
  <1>7. CASE ~HasFile(Family[j]) /\ Advance("installRoutes") /\ UNCHANGED <<files, mem>>
    <2>1. FilesInv' /\ disk' = disk /\ bak' = bak
      BY <1>7 DEF ScriptsInv, FilesInv, files
    <2>2. \A f \in Files : HadRoutes(f, j + 1) <=> HadRoutes(f, j)
      BY <1>0, <1>7, OneMore
    <2>3. ~pre.faulted => \A f \in Files :
             IF HadRoutes(f, j + 1)
             THEN disk'[f] = Absent /\ bak'[f] # <<>> /\ bak'[f][1] = pre.disk[f]
             ELSE disk'[f] = pre.disk[f]
      BY <1>4, <2>1, <2>2 DEF Moved, Backed, Same
    <2> QED
      BY <1>3, <1>7, <2>1, <2>3
  <1>8. CASE /\ HasFile(Family[j]) /\ MoveToBackup(routeFile) /\ Advance("installRoutes")
             /\ UNCHANGED mem
    <2> HIDE DEF g
    <2>1. /\ FilesInv' /\ disk'[g] = Absent /\ bak'[g] # <<>> /\ bak'[g][1] = disk[g]
          /\ \A f \in Files \ {g} : disk'[f] = disk[f] /\ bak'[f] = bak[f]
      BY <1>1, <1>8, MovedFacts DEF ScriptsInv
    <2>2. \A f \in Files : HadRoutes(f, j + 1) <=> HadRoutes(f, j) \/ f = g
      BY <1>0, <1>8, OneMore DEF g
    <2>3. ASSUME ~pre.faulted, NEW f \in Files
          PROVE  IF HadRoutes(f, j + 1)
                 THEN disk'[f] = Absent /\ bak'[f] # <<>> /\ bak'[f][1] = pre.disk[f]
                 ELSE disk'[f] = pre.disk[f]
      <3>1. CASE f = g
        BY <1>2, <1>8, <2>1, <2>2, <2>3, <3>1 DEF Same
      <3>2. CASE f # g
        BY <1>4, <2>1, <2>2, <2>3, <3>2 DEF Moved, Backed, Same
      <3> QED
        BY <3>1, <3>2
    <2> QED
      BY <1>3, <1>8, <2>1, <2>3
  <1> QED
    BY <1>5, <1>6, <1>7, <1>8 DEF BackupRoutes

\* Memory has the new route files once both are in place.
LEMMA RoutesKnown ==
    ASSUME name \in Iface, ~pre.faulted, Known(pre.disk), UNCHANGED ifFiles,
           MemoryInv, new[4] # Absent, new[6] # Absent,
           routeFiles' = [routeFiles EXCEPT ![name] = SavedRouteFiles],
           \A f \in Files :
              IF GetsRoutes(f, 3) THEN disk'[f] # Absent
              ELSE IF HadRoutes(f, 3) THEN disk'[f] = Absent ELSE disk'[f] = pre.disk[f]
    PROVE  Known(disk)'
  <1>1. /\ routeFiles'[name] = SavedRouteFiles
        /\ \A n \in Iface \ {name} : routeFiles'[n] = routeFiles[n]
    BY DEF MemoryInv
  <1>2. IfFiles \subseteq Files
    BY ScriptsAssumption DEF IfFiles, ToSet
  <1>3. \A f \in IfFiles : ~GetsRoutes(f, 3) /\ ~HadRoutes(f, 3)
    BY RouteFacts DEF GetsRoutes, HadRoutes
  <1>4. \A f \in IfFiles : disk'[f] = pre.disk[f]
    BY <1>2, <1>3
  <1>5. ASSUME NEW n \in Iface
        PROVE  /\ \A m \in DOMAIN ifFiles[n] : disk'[ifFiles[n][m].name] # Absent
               /\ \A f \in IfFiles : OwnerOf[f] = n /\ disk'[f] # Absent =>
                     \E m \in DOMAIN ifFiles[n] : ifFiles[n][m].name = f
    <2>1. Listed(ifFiles[n], n)
      BY DEF MemoryInv
    <2> QED
      BY <1>4, <2>1 DEF Known, Listed
  <1>6. ASSUME NEW n \in Iface, n # name, NEW f \in {4, 6}
        PROVE  routeFiles'[n][f] = Absent <=> disk'[RouteFile[n][f]] = Absent
    <2> DEFINE r == RouteFile[n][f]
    <2>1. r \in Files
      BY PlaceFacts
    <2>2. ~GetsRoutes(r, 3) /\ ~HadRoutes(r, 3)
      BY <1>6, RouteFacts DEF GetsRoutes, HadRoutes
    <2>3. disk'[r] = pre.disk[r]
      <3> HIDE DEF r
      <3> QED
        BY <2>1, <2>2
    <2> QED
      BY <1>1, <1>6, <2>3 DEF Known
  <1>7. ASSUME NEW f \in {4, 6}
        PROVE  routeFiles'[name][f] = Absent <=> disk'[RouteFile[name][f]] = Absent
    <2> DEFINE r == RouteFile[name][f]
    <2>1. PICK k \in {1, 2} : f = Family[k]
      BY RouteFacts
    <2>2. r = RouteOf(k) /\ r \in Files
      BY <2>1, RouteFacts DEF RouteOf
    <2>3. routeFiles'[name][f] = Absent <=> new[f] = {}
      BY <1>1 DEF SavedRouteFiles
    <2> HIDE DEF r
    <2>4. GetsRoutes(r, 3) <=> new[f] # {}
      <3>1. \A m \in {1, 2} : m < 3 /\ (r = RouteOf(m) <=> m = k)
        BY <2>2, RouteFacts
      <3> QED
        BY <2>1, <3>1 DEF GetsRoutes
    <2>5. HadRoutes(r, 3) <=> routeFiles[name][f] # Absent
      <3>1. \A m \in {1, 2} : m < 3 /\ (r = RouteOf(m) <=> m = k)
        BY <2>2, RouteFacts
      <3> QED
        BY <2>1, <3>1 DEF HadRoutes, HasFile
    <2>6. routeFiles[name][f] = Absent <=> pre.disk[r] = Absent
      BY DEF Known, r
    <2>7. disk'[r] = Absent <=> new[f] = {}
      BY <2>2, <2>4, <2>5, <2>6
    <2> QED
      BY <2>3, <2>7 DEF r
  <1> QED
    BY <1>5, <1>6, <1>7 DEF Known

\* One more of the new route files is in place, if there is one.
LEMMA InstallRoutesKeeps == ASSUME ScriptsInv, InstallRoutes PROVE ScriptsInv'
  <1> DEFINE g == RouteOf(j)
  <1>0. pc = "installRoutes" /\ name \in Iface /\ j \in {1, 2}
        /\ new[4] # Absent /\ new[6] # Absent
    BY DEF InstallRoutes, ScriptsInv, ControlInv, RouteLabels
  <1>1. /\ g \in Files /\ Family[j] \in {4, 6} /\ routeFile = g /\ routes = new[Family[j]]
        /\ \A f \in Files : GetsRoutes(f, j + 1) <=> GetsRoutes(f, j) \/ (routes # {} /\ f = g)
        /\ ~GetsRoutes(g, j)
    BY <1>0, RouteFacts, OneMore DEF routeFile, RouteOf, routes
  <1>2. CASE Fault
    BY <1>2, FaultKeeps
  <1>3. CASE /\ IF routes = {} THEN UNCHANGED files ELSE MoveInPlace(routeFile)
             /\ Advance("pruneRoutes")
             /\ routeFiles' = IF j = 1 THEN routeFiles
                              ELSE [routeFiles EXCEPT ![name] = SavedRouteFiles]
             /\ UNCHANGED ifFiles
    <2>1. /\ name' = name /\ pre' = pre /\ faulted' = faulted /\ new' = new
          /\ pc' = IF j = 1 THEN pc ELSE "pruneRoutes"
          /\ j' = IF j = 1 THEN 2 ELSE 1
          /\ ControlInv' /\ NoSpuriousError'
      BY <1>0, <1>3, AdvanceFacts DEF RouteLabels
    <2>2. /\ FilesInv' /\ bak' = bak
          /\ routes # {} => disk'[g] # Absent
          /\ \A f \in Files : f # g \/ routes = {} => disk'[f] = disk[f]
      <3>1. CASE routes = {}
        BY <1>3, <3>1 DEF ScriptsInv, FilesInv, files
      <3>2. CASE routes # {}
        <4> HIDE DEF g
        <4> QED
          BY <1>1, <1>3, <3>2, InstalledFacts DEF ScriptsInv
      <3> QED
        BY <3>1, <3>2
    <2>3. MemoryInv'
      BY <1>3 DEF ScriptsInv, MemoryInv
    <2>4. ~pre.faulted =>
             /\ Known(pre.disk)
             /\ \A f \in Files :
                   IF GetsRoutes(f, j) THEN disk[f] # Absent /\ (Backed(f) \/ pre.disk[f] = Absent)
                   ELSE IF HadRoutes(f, 3) THEN Moved(f) ELSE Same(f)
      BY <1>0 DEF ScriptsInv, CallInv
    <2>5. ASSUME ~pre.faulted, NEW f \in Files
          PROVE  IF GetsRoutes(f, j + 1)
                 THEN disk'[f] # Absent /\ (Backed(f) \/ pre.disk[f] = Absent)
                 ELSE IF HadRoutes(f, 3) THEN disk'[f] = Absent /\ Backed(f)
                      ELSE disk'[f] = pre.disk[f]
      <3>1. CASE f = g /\ routes # {}
        <4>1. IF HadRoutes(g, 3) THEN Moved(g) ELSE Same(g)
          BY <1>1, <2>4, <2>5
        <4>2. Backed(g) \/ pre.disk[g] = Absent
          <5>1. CASE HasFile(Family[j])
            <6>1. HadRoutes(g, 3)
              <7>1. j < 3
                BY <1>0
              <7> QED
                BY <1>0, <5>1, <7>1 DEF HadRoutes
            <6> QED
              BY <4>1, <6>1 DEF Moved
          <5>2. CASE ~HasFile(Family[j])
            BY <1>0, <1>1, <2>4, <2>5, <5>2 DEF Known, HasFile, RouteOf
          <5> QED
            BY <5>1, <5>2
        <4> HIDE DEF g
        <4> QED
          BY <1>1, <2>2, <3>1, <4>2
      <3>2. CASE f # g \/ routes = {}
        <4> HIDE DEF g
        <4>1. disk'[f] = disk[f] /\ (GetsRoutes(f, j + 1) <=> GetsRoutes(f, j))
          BY <1>1, <2>2, <3>2
        <4> QED
          BY <2>4, <2>5, <4>1 DEF Moved, Same
      <3> QED
        BY <3>1, <3>2
    <2>6. NothingIsLost'
      <3>1. ASSUME NEW f \in Files, ~pre.faulted
            PROVE  disk'[f] = pre.disk[f] \/ pre.disk[f] = Absent \/ Backed(f)
        BY <2>5, <3>1
      <3> QED
        BY <2>1, <2>2, <3>1 DEF NothingIsLost, Backed
    <2>7. ~pre'.faulted => CallInv'
      <3> SUFFICES ASSUME ~pre.faulted PROVE CallInv'
        BY <2>1
      <3>1. CASE j = 1
        <4>1. routeFiles' = routeFiles /\ j' = j + 1 /\ pc' = "installRoutes"
          BY <1>0, <1>3, <2>1, <3>1
        <4>2. \A f \in Files : /\ GetsRoutes(f, j)' <=> GetsRoutes(f, j + 1)
                               /\ HadRoutes(f, 3)' <=> HadRoutes(f, 3)
          BY <2>1, <4>1 DEF GetsRoutes, HadRoutes, HasFile, RouteOf
        <4>3. Known(pre.disk)'
          BY <1>3, <2>1, <2>4, <4>1 DEF Known
        <4>4. ASSUME NEW f \in Files
              PROVE  IF GetsRoutes(f, j)'
                     THEN disk'[f] # Absent /\ (Backed(f) \/ pre.disk[f] = Absent)'
                     ELSE IF HadRoutes(f, 3)' THEN Moved(f)' ELSE Same(f)'
          <5>1. Backed(f)' <=> Backed(f)
            BY <2>1, <2>2 DEF Backed
          <5> QED
            BY <2>1, <2>5, <4>2, <5>1 DEF Moved, Same
        <4> QED
          BY <4>1, <4>3, <4>4 DEF CallInv
      <3>2. CASE j = 2
        <4>1. j + 1 = 3 /\ pc' = "pruneRoutes"
          BY <2>1, <3>2
        <4>2. \A f \in Files :
                 IF GetsRoutes(f, 3) THEN disk'[f] # Absent
                 ELSE IF HadRoutes(f, 3) THEN disk'[f] = Absent ELSE disk'[f] = pre.disk[f]
          BY <2>5, <4>1
        <4>3. routeFiles' = [routeFiles EXCEPT ![name] = SavedRouteFiles]
          BY <1>3, <3>2
        <4>4. Known(disk)'
          BY <1>0, <1>3, <2>4, <4>2, <4>3, RoutesKnown DEF ScriptsInv
        <4> QED
          BY <4>1, <4>4 DEF CallInv
      <3> QED
        BY <1>0, <3>1, <3>2
    <2> QED
      BY <1>0, <2>1, <2>2, <2>3, <2>6, <2>7 DEF ScriptsInv
  <1> QED
    BY <1>2, <1>3 DEF InstallRoutes

\* Pruning does not take the newest backup.
LEMMA PruneRoutesKeeps == ASSUME ScriptsInv, PruneRoutes PROVE ScriptsInv'
  <1>0. pc = "pruneRoutes" /\ name \in Iface /\ j \in {1, 2}
    BY DEF PruneRoutes, ScriptsInv, ControlInv, RouteLabels
  <1>1. routeFile \in Files
    BY <1>0, RouteFacts DEF routeFile, RouteOf
  <1>2. /\ FilesInv' /\ disk' = disk
        /\ \A f \in Files : bak[f] # <<>> => bak'[f] # <<>> /\ bak'[f][1] = bak[f][1]
    <2>1. CASE routes = {}
      BY <2>1 DEF PruneRoutes, ScriptsInv, FilesInv, files
    <2>2. CASE routes # {}
      BY <1>1, <2>2, PruneFacts DEF PruneRoutes, ScriptsInv
    <2> QED
      BY <2>1, <2>2
  <1>3. CASE j = 1
    BY <1>0, <1>2, <1>3, DoneKeeps DEF PruneRoutes, Go
  <1>4. CASE j = 2
    BY <1>0, <1>2, <1>4, DoneKeeps DEF PruneRoutes, Done
  <1> QED
    BY <1>0, <1>3, <1>4

-----------------------------------------------------------------------------
(* Nothing is lost and nothing is missed *)

\* A process ends, which leaves the files as they are.
LEMMA ExitKeeps == ASSUME ScriptsInv, Exit PROVE ScriptsInv'
  <1>1. FilesInv'
    BY DEF Exit, ScriptsInv, FilesInv, files
  <1>2. MemoryInv'
    <2>1. <<>> \in Seq({}) /\ DOMAIN <<>> = {}
      OBVIOUS
    <2>2. \A n \in Iface : Listed(<<>>, n)
      BY <2>1 DEF Listed, Sequence
    <2> QED
      BY <2>2 DEF Exit, MemoryInv
  <1>3. ControlInv'
    BY DEF Exit, Rest, ScriptsInv, ControlInv, IfLabels, RouteLabels
  <1>4. CallInv'
    BY DEF Exit, CallInv
  <1>5. NothingIsLost' /\ NoSpuriousError'
    BY DEF Exit, Rest, files, ScriptsInv, NothingIsLost, NoSpuriousError
  <1> QED
    BY <1>1, <1>2, <1>3, <1>4, <1>5 DEF Exit, ScriptsInv

\* Another begins and reads the directory.
LEMMA StartKeeps == ASSUME ScriptsInv, newNetworkScripts PROVE ScriptsInv'
  <1>1. FilesInv' /\ disk' = disk
    BY DEF newNetworkScripts, ScriptsInv, FilesInv, files
  <1>2. MemoryInv' /\ Known(disk)'
    BY ReadKnown DEF newNetworkScripts, ScriptsInv
  <1>3. ControlInv'
    BY DEF newNetworkScripts, ControlInv, IfLabels, RouteLabels
  <1>4. CallInv'
    BY DEF newNetworkScripts, CallInv
  <1>5. NothingIsLost' /\ NoSpuriousError'
    BY <1>1 DEF newNetworkScripts, NothingIsLost, NoSpuriousError
  <1> QED
    BY <1>1, <1>2, <1>3, <1>4, <1>5 DEF ScriptsInv

\* A call begins: of the routes asked for none is Absent.
LEMMA CallsKeep ==
    ASSUME ScriptsInv,
           SetIfaceAddresses \/ SetIfaceDHCP \/ SetIfaceDNS \/ SetIfaceRoutes
    PROVE  ScriptsInv'
  <1>1. CASE SetIfaceAddresses
    BY <1>1, BeginKeeps DEF SetIfaceAddresses
  <1>2. CASE SetIfaceDHCP
    BY <1>2, BeginKeeps DEF SetIfaceDHCP
  <1>3. CASE SetIfaceDNS
    BY <1>3, BeginKeeps DEF SetIfaceDNS
  <1>4. CASE SetIfaceRoutes
    <2>1. PICK iface \in Iface, arg \in RouteArgs :
             Begin("routes", iface, arg, "writeRoutes", arg)
      BY <1>4 DEF SetIfaceRoutes
    <2>2. arg[4] # Absent /\ arg[6] # Absent
      BY ArgumentsAssumption
    <2> QED
      BY <2>1, <2>2, BeginKeeps
  <1> QED
    BY <1>1, <1>2, <1>3, <1>4

\* Every step keeps the invariant.
LEMMA ScriptsStep == ScriptsInv /\ [Next]_vars => ScriptsInv'
  <1> SUFFICES ASSUME ScriptsInv, [Next]_vars PROVE ScriptsInv'
    OBVIOUS
  <1>1. CASE UNCHANGED vars
    <2>1. /\ disk' = disk /\ tmp' = tmp /\ bak' = bak /\ ifFiles' = ifFiles
          /\ routeFiles' = routeFiles /\ pc' = pc /\ j' = j /\ new' = new /\ call' = call
          /\ ret' = ret /\ pre' = pre /\ faulted' = faulted
      BY <1>1 DEF vars
    <2>2. FilesInv' /\ MemoryInv' /\ ControlInv'
      BY <2>1 DEF ScriptsInv, FilesInv, MemoryInv, ControlInv, name
    <2>3. NothingIsLost' /\ NoSpuriousError'
      BY <2>1 DEF ScriptsInv, NothingIsLost, NoSpuriousError
    <2>4. Known(disk)' <=> Known(disk)
      BY <2>1 DEF Known
    <2>5. CallInv' <=> CallInv
      <3>1. Known(pre.disk)' <=> Known(pre.disk)
        BY <2>1 DEF Known
      <3>2. ASSUME NEW f
            PROVE  /\ Same(f)' <=> Same(f)
                   /\ Moved(f)' <=> Moved(f)
                   /\ Backed(f)' <=> Backed(f)
                   /\ OldUpTo(f, j)' <=> OldUpTo(f, j)
                   /\ HadRoutes(f, j)' <=> HadRoutes(f, j)
                   /\ HadRoutes(f, 3)' <=> HadRoutes(f, 3)
                   /\ GetsRoutes(f, j)' <=> GetsRoutes(f, j)
        BY <2>1 DEF Same, Moved, Backed, OldUpTo, HadRoutes, GetsRoutes, HasFile, RouteOf, name
      <3> QED
        BY <2>1, <2>4, <3>1, <3>2 DEF CallInv
    <2> QED
      BY <2>1, <2>2, <2>3, <2>4, <2>5 DEF ScriptsInv
  <1>2. CASE Next
    BY <1>2, CallsKeep, WriteConfigKeeps, BackupKeeps, InstallKeeps, PruneBackupsKeeps,
       WriteRoutesKeeps, BackupRoutesKeeps, InstallRoutesKeeps, PruneRoutesKeeps,
       ExitKeeps, StartKeeps
    DEF Next
  <1> QED
    BY <1>1, <1>2

\* At every step of a call and however it ends, what a file said before is its newest
\* backup, unless a call of this process had failed before: several files of an interface
\* are renamed, one is put in place, and no rename takes a file for another.
THEOREM NoFileIsLost == Spec => []NothingIsLost
  <1>1. ScriptsInv => NothingIsLost
    BY DEF ScriptsInv
  <1> QED
    BY ScriptsInit, ScriptsStep, <1>1, PTL DEF Spec

\* A call errs only when a system call has failed since the directory was read: the lists
\* in memory never name a file that an earlier call merged away.
THEOREM NoFileIsMissed == Spec => []NoSpuriousError
  <1>1. ScriptsInv => NoSpuriousError
    BY DEF ScriptsInv
  <1> QED
    BY ScriptsInit, ScriptsStep, <1>1, PTL DEF Spec

-----------------------------------------------------------------------------
(* Sequences *)

\* A sequence of one element, and the empty one.
LEMMA Single == ASSUME NEW x PROVE Sequence(<<x>>) /\ Sequence(<<>>)
  <1>1. <<x>> \in Seq({x}) /\ <<>> \in Seq({x})
    OBVIOUS
  <1> QED
    BY <1>1 DEF Sequence

Glue(a, b) == a \o b

\* Sequences are put one after the other in any grouping.
LEMMA Cat ==
    ASSUME NEW a, NEW b, NEW c, Sequence(a), Sequence(b), Sequence(c)
    PROVE  /\ Sequence(a \o b)
           /\ (a \o b) \o c = a \o (b \o c)
           /\ a \o <<>> = a /\ <<>> \o a = a
  <1>1. PICK A, B, C : a \in Seq(A) /\ b \in Seq(B) /\ c \in Seq(C)
    BY DEF Sequence
  <1> DEFINE S == A \cup B \cup C
  <1>2. a \in Seq(S) /\ b \in Seq(S) /\ c \in Seq(S)
    BY <1>1
  <1>3. a \o b \in Seq(S)
    BY <1>2
  <1>4. (a \o b) \o c = a \o (b \o c) /\ a \o <<>> = a /\ <<>> \o a = a
    BY <1>2
  <1> QED
    BY <1>3, <1>4 DEF Sequence

\* Two lists, each in two parts, may be put together part by part, unless the end of the
\* first and the beginning of the second would change places.
LEMMA Swap ==
    ASSUME NEW a, NEW b, NEW c, NEW d,
           Sequence(a), Sequence(b), Sequence(c), Sequence(d), b = <<>> \/ c = <<>>
    PROVE  /\ Glue(Glue(a, b), Glue(c, d)) = Glue(Glue(a, c), Glue(b, d))
           /\ Sequence(Glue(a, c)) /\ Sequence(Glue(b, d))
  <1>1. CASE b = <<>>
    <2>1. a \o b = a /\ b \o d = d
      BY <1>1, Cat
    <2>2. a \o (c \o d) = (a \o c) \o d
      BY Cat
    <2> QED
      BY <2>1, <2>2, Cat DEF Glue
  <1>2. CASE c = <<>>
    <2>1. c \o d = d /\ a \o c = a
      BY <1>2, Cat
    <2>2. (a \o b) \o d = a \o (b \o d)
      BY Cat
    <2> QED
      BY <2>1, <2>2, Cat DEF Glue
  <1> QED
    BY <1>1, <1>2

\* What grows by a list at a time is the lists one after the other.
LEMMA Flattened ==
    ASSUME NEW N \in Nat, NEW ss, ss = [n \in 1 .. N |-> ss[n]],
           \A n \in 1 .. N : Sequence(ss[n]),
           NEW w, w[0] = <<>>, \A m \in 1 .. N : w[m] = w[m - 1] \o ss[m]
    PROVE  FlattenSeq(ss) = w[N]
  <1>1. Len(ss) = N
    OBVIOUS
  <1>2. CASE N = 0
    <2>1. ss = <<>>
      BY <1>2
    <2>2. Len(ss) = 0
      BY <1>1, <1>2
    <2>3. FlattenSeq(ss) = ss
      BY <2>2 DEF FlattenSeq
    <2> QED
      BY <1>2, <2>1, <2>3
  <1>3. CASE N # 0
    <2> DEFINE step(r, i) == IF i = 1 THEN ss[i] ELSE r[i - 1] \o ss[i]
               r1 == [i \in 1 .. N |-> w[i]]
               c == CHOOSE r : r = [i \in 1 .. N |-> step(r, i)]
    <2>1. w[1] = ss[1]
      <3>1. 1 \in 1 .. N /\ 1 - 1 = 0
        BY <1>3
      <3>2. w[1] = <<>> \o ss[1] /\ Sequence(ss[1])
        BY <3>1
      <3> QED
        BY <3>2, Cat
    <2>2. \A i \in 1 .. N : r1[i] = step(r1, i)
      <3>1. SUFFICES ASSUME NEW i \in 1 .. N, i # 1 PROVE w[i] = r1[i - 1] \o ss[i]
        BY <2>1
      <3>2. i - 1 \in 1 .. N
        BY <3>1
      <3> QED
        BY <3>2
    <2>3. r1 = [i \in 1 .. N |-> step(r1, i)]
      <3>1. r1 = [i \in 1 .. N |-> r1[i]]
        OBVIOUS
      <3> HIDE DEF r1, step
      <3> QED
        BY <2>2, <3>1
    <2>4. c = [i \in 1 .. N |-> step(c, i)]
      <3> HIDE DEF r1, step
      <3> QED
        BY <2>3
    <2>5. FlattenSeq(ss) = c[N]
      BY <1>1, <1>3 DEF FlattenSeq
    <2> HIDE DEF r1, c
    <2>6. \A i \in 1 .. N : c[i] = IF i = 1 THEN ss[i] ELSE c[i - 1] \o ss[i]
      BY <2>4
    <2> DEFINE T == {m \in 0 .. N : m = 0 \/ c[m] = w[m]}
    <2>7. ASSUME NEW m \in 0 .. N - 1, m \in T PROVE m + 1 \in T
      <3>1. m + 1 \in 1 .. N /\ (m + 1) - 1 = m
        OBVIOUS
      <3>2. c[m + 1] = IF m + 1 = 1 THEN ss[m + 1] ELSE c[m] \o ss[m + 1]
        <4>1. c[m + 1] = IF m + 1 = 1 THEN ss[m + 1] ELSE c[(m + 1) - 1] \o ss[m + 1]
          BY <2>6, <3>1
        <4> QED
          BY <3>1, <4>1
      <3>3. w[m + 1] = w[m] \o ss[m + 1]
        BY <3>1
      <3>4. CASE m = 0
        BY <2>1, <3>1, <3>2, <3>4
      <3>5. CASE m # 0
        <4>1. c[m] = w[m]
          BY <2>7, <3>5
        <4>2. m + 1 # 1
          BY <3>5
        <4>3. c[m + 1] = w[m + 1]
          BY <3>2, <3>3, <4>1, <4>2, Zenon
        <4> QED
          BY <3>1, <4>3
      <3> QED
        BY <3>4, <3>5
    <2>8. 0 .. N \subseteq T
      <3>1. 0 \in T
        OBVIOUS
      <3> HIDE DEF T
      <3> QED
        BY <2>7, <3>1, Induction
    <2>9. N \in T
      BY <2>8
    <2> QED
      BY <1>3, <2>5, <2>9
  <1> QED
    BY <1>2, <1>3

\* One list is itself.
LEMMA FlattenOne == ASSUME NEW s, Sequence(s) PROVE FlattenSeq(<<s>>) = s
  <1> DEFINE w == [m \in 0 .. 1 |-> IF m = 0 THEN <<>> ELSE s]
             ss == <<s>>
  <1>1. ss = [n \in 1 .. 1 |-> ss[n]] /\ \A n \in 1 .. 1 : ss[n] = s
    OBVIOUS
  <1>2. w[0] = <<>> /\ w[1] = s
    OBVIOUS
  <1>3. \A m \in 1 .. 1 : w[m] = w[m - 1] \o ss[m]
    <2>1. s = <<>> \o s
      BY Cat
    <2>2. \A m \in 1 .. 1 : m = 1 /\ m - 1 = 0
      OBVIOUS
    <2> HIDE DEF w, ss
    <2> QED
      BY <1>1, <1>2, <2>1, <2>2
  <1> HIDE DEF w, ss
  <1>4. FlattenSeq(ss) = w[1]
    <2> DEFINE N == 1
    <2>1. N \in Nat /\ \A n \in 1 .. N : Sequence(ss[n])
      BY <1>1
    <2>2. ss = [n \in 1 .. N |-> ss[n]] /\ w[0] = <<>>
      BY <1>1, <1>2
    <2>3. \A m \in 1 .. N : w[m] = w[m - 1] \o ss[m]
      BY <1>3
    <2>4. FlattenSeq(ss) = w[N]
      <3> HIDE DEF N
      <3> QED
        BY <2>1, <2>2, <2>3, Flattened
    <2> QED
      BY <2>4
  <1> QED
    BY <1>2, <1>4 DEF ss

Lists(ss, N) == ss = [n \in 1 .. N |-> ss[n]] /\ \A n \in 1 .. N : Sequence(ss[n])

\* What grows by a list at a time, and not by empty ones.
Gathers(w, ss, m) ==
    /\ w[0] = <<>>
    /\ \A k \in 1 .. m : w[k] = w[k - 1] \o ss[k]
    /\ \A k \in 0 .. m : Sequence(w[k]) /\ ((\A h \in 1 .. k : ss[h] = <<>>) => w[k] = <<>>)

\* Lists can be gathered one after the other.
LEMMA Gathered ==
    ASSUME NEW N \in Nat, NEW ss, Lists(ss, N)
    PROVE  \E w : Gathers(w, ss, N)
  <1> DEFINE T == {m \in 0 .. N : \E w : Gathers(w, ss, m)}
  <1>0. \A n \in 1 .. N : Sequence(ss[n])
    BY DEF Lists
  <1>1. 0 \in T
    <2> DEFINE w == [k \in {0} |-> <<>>]
    <2>1. w[0] = <<>>
      OBVIOUS
    <2>2. \A k \in 0 .. 0 : k = 0
      OBVIOUS
    <2>3. \A k \in 1 .. 0 : FALSE
      OBVIOUS
    <2> HIDE DEF w
    <2>4. Sequence(w[0])
      BY <2>1, Single
    <2>5. Gathers(w, ss, 0)
      BY <2>1, <2>2, <2>3, <2>4 DEF Gathers
    <2> QED
      BY <2>5
  <1>2. ASSUME NEW m \in 0 .. N - 1, m \in T PROVE m + 1 \in T
    <2>0. m + 1 \in 1 .. N /\ (m + 1) - 1 = m /\ m \in 0 .. m
      OBVIOUS
    <2>1. PICK v : Gathers(v, ss, m)
      BY <1>2
    <2> DEFINE w == [k \in 0 .. m + 1 |-> IF k = m + 1 THEN v[m] \o ss[m + 1] ELSE v[k]]
    <2>2. /\ w[m + 1] = v[m] \o ss[m + 1] /\ \A k \in 0 .. m : w[k] = v[k]
      OBVIOUS
    <2> HIDE DEF w
    <2>3. w[0] = <<>>
      BY <2>1, <2>2 DEF Gathers
    <2>4. ASSUME NEW k \in 1 .. m + 1 PROVE w[k] = w[k - 1] \o ss[k]
      <3>1. CASE k = m + 1
        BY <2>0, <2>2, <3>1
      <3>2. CASE k # m + 1
        <4>1. k \in 1 .. m /\ k \in 0 .. m /\ k - 1 \in 0 .. m
          BY <3>2
        <4> QED
          BY <2>1, <2>2, <4>1 DEF Gathers
      <3> QED
        BY <3>1, <3>2
    <2>5. ASSUME NEW k \in 0 .. m + 1
          PROVE  Sequence(w[k]) /\ ((\A h \in 1 .. k : ss[h] = <<>>) => w[k] = <<>>)
      <3>1. CASE k = m + 1
        <4>1. Sequence(v[m]) /\ Sequence(ss[m + 1])
          BY <1>0, <2>0, <2>1 DEF Gathers
        <4>2. Sequence(w[k])
          BY <2>2, <3>1, <4>1, Cat
        <4>3. ASSUME \A h \in 1 .. k : ss[h] = <<>> PROVE w[k] = <<>>
          <5>1. ss[m + 1] = <<>> /\ \A h \in 1 .. m : ss[h] = <<>>
            BY <3>1, <4>3
          <5>2. v[m] = <<>>
            BY <2>0, <2>1, <5>1 DEF Gathers
          <5>3. <<>> \o <<>> = <<>>
            OBVIOUS
          <5> QED
            BY <2>2, <3>1, <5>1, <5>2, <5>3
        <4> QED
          BY <4>2, <4>3
      <3>2. CASE k # m + 1
        <4>1. k \in 0 .. m
          BY <3>2
        <4> QED
          BY <2>1, <2>2, <4>1 DEF Gathers
      <3> QED
        BY <3>1, <3>2
    <2>6. Gathers(w, ss, m + 1)
      BY <2>3, <2>4, <2>5 DEF Gathers
    <2> QED
      BY <2>0, <2>6
  <1>3. N \in T
    <2> HIDE DEF T
    <2>1. 0 .. N \subseteq T
      BY <1>1, <1>2, Induction
    <2> QED
      BY <2>1
  <1> QED
    BY <1>3

\* What grows by a list at a time is the lists one after the other.
LEMMA FlatGrown ==
    ASSUME NEW N \in Nat, NEW ss, Lists(ss, N),
           NEW w, w[0] = <<>>, \A m \in 1 .. N : w[m] = w[m - 1] \o ss[m]
    PROVE  FlattenSeq(ss) = w[N]
  BY Flattened DEF Lists

\* What has gathered all of them is the lists one after the other.
LEMMA FlatGathered ==
    ASSUME NEW N \in Nat, NEW ss, Lists(ss, N), NEW w, Gathers(w, ss, N)
    PROVE  FlattenSeq(ss) = w[N]
  <1>1. w[0] = <<>> /\ \A m \in 1 .. N : w[m] = w[m - 1] \o ss[m]
    BY DEF Gathers
  <1> QED
    BY ONLY <1>1, N \in Nat, Lists(ss, N), FlatGrown

\* Lists one after the other are a list, an empty one if all of them are.
LEMMA FlatList ==
    ASSUME NEW N \in Nat, NEW ss, Lists(ss, N)
    PROVE  /\ Sequence(FlattenSeq(ss))
           /\ (\A h \in 1 .. N : ss[h] = <<>>) => FlattenSeq(ss) = <<>>
  <1>1. PICK w : Gathers(w, ss, N)
    BY Gathered
  <1>2. FlattenSeq(ss) = w[N]
    BY <1>1, FlatGathered
  <1>3. N \in 0 .. N
    OBVIOUS
  <1> QED
    BY <1>1, <1>2, <1>3 DEF Gathers

\* Lists that are each of two parts may be put together part by part, if nothing of a
\* second part comes before something of a later first one.
LEMMA FlatGlued ==
    ASSUME NEW N \in Nat, NEW a, NEW b, NEW s, Lists(a, N), Lists(b, N), Lists(s, N),
           \A n \in 1 .. N : s[n] = Glue(a[n], b[n]),
           \A g, h \in 1 .. N : h < g => a[g] = <<>> \/ b[h] = <<>>
    PROVE  FlattenSeq(s) = Glue(FlattenSeq(a), FlattenSeq(b))
  <1>1. PICK v : Gathers(v, a, N)
    BY Gathered
  <1>2. PICK w : Gathers(w, b, N)
    BY Gathered
  <1>3. FlattenSeq(a) = v[N] /\ FlattenSeq(b) = w[N]
    BY <1>1, <1>2, FlatGathered
  <1> DEFINE x == [m \in 0 .. N |-> Glue(v[m], w[m])]
  <1>4. \A m \in 0 .. N : x[m] = Glue(v[m], w[m])
    OBVIOUS
  <1> HIDE DEF x
  <1>5. x[0] = <<>>
    <2>1. <<>> \o <<>> = <<>> /\ 0 \in 0 .. N
      OBVIOUS
    <2>2. v[0] = <<>> /\ w[0] = <<>>
      BY <1>1, <1>2 DEF Gathers
    <2> QED
      BY <1>4, <2>1, <2>2 DEF Glue
  <1>6. ASSUME NEW m \in 1 .. N PROVE x[m] = x[m - 1] \o s[m]
    <2>1. m - 1 \in 0 .. N /\ m \in 0 .. N
      OBVIOUS
    <2>2. v[m] = Glue(v[m - 1], a[m]) /\ w[m] = Glue(w[m - 1], b[m])
      BY <1>1, <1>2 DEF Glue, Gathers
    <2>3. Sequence(v[m - 1]) /\ Sequence(a[m]) /\ Sequence(w[m - 1]) /\ Sequence(b[m])
      BY <1>1, <1>2, <2>1 DEF Gathers, Lists
    <2>4. w[m - 1] = <<>> \/ a[m] = <<>>
      <3> SUFFICES ASSUME a[m] # <<>> PROVE w[m - 1] = <<>>
        OBVIOUS
      <3>1. \A h \in 1 .. m - 1 : b[h] = <<>>
        OBVIOUS
      <3> QED
        BY <1>2, <2>1, <3>1 DEF Gathers
    <2>5. Glue(Glue(v[m - 1], w[m - 1]), Glue(a[m], b[m]))
              = Glue(Glue(v[m - 1], a[m]), Glue(w[m - 1], b[m]))
      BY <2>3, <2>4, Swap
    <2>6. x[m] = Glue(x[m - 1], s[m])
      BY <1>4, <2>1, <2>2, <2>5
    <2> QED
      BY <2>6 DEF Glue
  <1>7. FlattenSeq(s) = x[N]
    BY ONLY <1>5, <1>6, N \in Nat, Lists(s, N), FlatGrown
  <1>8. N \in 0 .. N
    OBVIOUS
  <1> QED
    BY <1>3, <1>4, <1>7, <1>8

\* The elements of two sequences, one after the other.
LEMMA Elements ==
    ASSUME NEW S, NEW a \in Seq(S), NEW b \in Seq(S)
    PROVE  /\ a \o b \in Seq(S) /\ Len(a \o b) = Len(a) + Len(b)
           /\ \A n \in 1 .. Len(a) : (a \o b)[n] = a[n]
           /\ \A n \in 1 .. Len(b) : (a \o b)[Len(a) + n] = b[n]
  OBVIOUS

\* Sequences with the same elements are the same.
LEMMA SameList ==
    ASSUME NEW S, NEW a \in Seq(S), NEW b \in Seq(S), Len(a) = Len(b),
           \A n \in 1 .. Len(a) : a[n] = b[n]
    PROVE  a = b
  OBVIOUS

\* The first elements of a sequence.
Start(a, k) == [n \in 1 .. k |-> a[n]]

\* One more element.
LEMMA StartNext ==
    ASSUME NEW S, NEW a \in Seq(S), NEW k \in 1 .. Len(a)
    PROVE  /\ Start(a, k) = Start(a, k - 1) \o <<a[k]>> /\ Sequence(Start(a, k))
           /\ Start(a, 0) = <<>> /\ Start(a, Len(a)) = a
  <1>1. a[k] \in S /\ k \in Nat /\ k - 1 \in Nat /\ Len(a) \in Nat
    OBVIOUS
  <1>2. Start(a, k) \in Seq(S) /\ Start(a, k - 1) \in Seq(S)
    BY DEF Start
  <1>3. Len(Start(a, k)) = k /\ Len(Start(a, k - 1)) = k - 1
    BY <1>1 DEF Start
  <1>4. /\ \A n \in 1 .. k : Start(a, k)[n] = a[n]
        /\ \A n \in 1 .. k - 1 : Start(a, k - 1)[n] = a[n]
    BY DEF Start
  <1> DEFINE p == Start(a, k - 1)
             z == p \o <<a[k]>>
  <1>5. z \in Seq(S) /\ Len(z) = k
    BY <1>1, <1>2, <1>3
  <1>6. \A n \in 1 .. k : z[n] = a[n]
    <2> DEFINE q == <<a[k]>>
    <2>1. q \in Seq(S) /\ Len(q) = 1 /\ q[1] = a[k]
      BY <1>1
    <2>2. p \in Seq(S) /\ Len(p) = k - 1 /\ \A n \in 1 .. k - 1 : p[n] = a[n]
      BY <1>2, <1>3, <1>4
    <2> HIDE DEF p, q
    <2>3. /\ \A n \in 1 .. Len(p) : (p \o q)[n] = p[n]
          /\ \A n \in 1 .. Len(q) : (p \o q)[Len(p) + n] = q[n]
      <3>1. p \in Seq(S) /\ q \in Seq(S)
        BY <2>1, <2>2
      <3> QED
        BY ONLY <3>1, Elements
    <2>4. (p \o q)[Len(p) + 1] = q[1]
      <3>1. 1 \in 1 .. Len(q)
        BY <2>1
      <3> HIDE DEF z
      <3> QED
        BY <2>3, <3>1, Zenon
    <2>5. Len(p) + 1 = k
      BY <1>1, <2>2
    <2>6. \A n \in 1 .. k : n \in 1 .. k - 1 \/ n = k
      BY <1>1
    <2>7. z = p \o q
      BY DEF q
    <2> HIDE DEF z
    <2> QED
      BY <2>1, <2>2, <2>3, <2>4, <2>5, <2>6, <2>7
  <1> HIDE DEF z
  <1>7. Start(a, k) = z
    BY <1>2, <1>3, <1>4, <1>5, <1>6, SameList
  <1>8. Start(a, 0) = <<>> /\ Start(a, Len(a)) = a
    BY DEF Start
  <1> QED
    BY <1>2, <1>7, <1>8 DEF z, Sequence

\* Empty lists, the elements of a sequence one by one, and empty lists again.
LEMMA FlatElements ==
    ASSUME NEW S, NEW a \in Seq(S), NEW N \in Nat, NEW o \in Nat, o + Len(a) <= N,
           NEW ss, Lists(ss, N),
           \A n \in 1 .. N : n <= o \/ n > o + Len(a) => ss[n] = <<>>,
           \A n \in 1 .. Len(a) : ss[o + n] = <<a[n]>>
    PROVE  FlattenSeq(ss) = a
  <1> DEFINE L == Len(a)
             w == [m \in 0 .. N |-> IF m <= o THEN <<>>
                                    ELSE IF m <= o + L THEN Start(a, m - o) ELSE a]
  <1>0. /\ L \in Nat /\ Sequence(a) /\ o + L <= N /\ (L = 0 => a = <<>>)
        /\ \A k \in 1 .. L : Start(a, k) = Start(a, k - 1) \o <<a[k]>>
        /\ L > 0 => Start(a, L) = a
        /\ L > 0 => Start(a, 0) = <<>>
        /\ \A n \in 1 .. N : n <= o \/ n > o + L => ss[n] = <<>>
        /\ \A n \in 1 .. L : ss[o + n] = <<a[n]>>
    <2>1. L \in Nat /\ Sequence(a) /\ (L = 0 => a = <<>>)
      BY DEF Sequence
    <2>2. \A k \in 1 .. L : Start(a, k) = Start(a, k - 1) \o <<a[k]>>
      BY StartNext
    <2>3. ASSUME L > 0 PROVE Start(a, L) = a /\ Start(a, 0) = <<>>
      <3>1. 1 \in 1 .. L
        BY <2>1, <2>3
      <3> QED
        BY <3>1, StartNext
    <2> QED
      BY <2>1, <2>2, <2>3
  <1>1. /\ \A m \in 0 .. N : m <= o => w[m] = <<>>
        /\ \A m \in 0 .. N : o < m /\ m <= o + L => w[m] = Start(a, m - o)
        /\ \A m \in 0 .. N : m > o + L => w[m] = a
    <2> HIDE DEF L
    <2> QED
      BY <1>0
  <1> HIDE DEF w, L
  <1>2. w[0] = <<>>
    BY <1>0, <1>1
  <1>3. w[o + L] = a
    <2>1. o + L \in 0 .. N
      BY <1>0
    <2>2. CASE L = 0
      BY <1>0, <1>1, <2>1, <2>2
    <2>3. CASE L > 0
      <3>1. w[o + L] = Start(a, (o + L) - o)
        BY <1>0, <1>1, <2>1, <2>3
      <3>2. (o + L) - o = L
        BY <1>0
      <3> QED
        BY <1>0, <2>3, <3>1, <3>2
    <2> QED
      BY <1>0, <2>2, <2>3
  <1>4. \A m \in 0 .. N : m >= o + L => w[m] = a
    BY <1>0, <1>1, <1>3
  <1>5. ASSUME NEW m \in 1 .. N PROVE w[m] = w[m - 1] \o ss[m]
    <2>0. m \in 0 .. N /\ m - 1 \in 0 .. N
      OBVIOUS
    <2>1. CASE m <= o
      <3>1. w[m] = <<>> /\ w[m - 1] = <<>>
        BY <1>1, <2>0, <2>1
      <3>2. ss[m] = <<>>
        BY <1>0, <2>1
      <3>3. <<>> \o <<>> = <<>>
        OBVIOUS
      <3> QED
        BY <3>1, <3>2, <3>3
    <2>2. CASE o < m /\ m <= o + L
      <3>1. PICK k \in 1 .. L : m = o + k
        <4>1. m - o \in 1 .. L /\ m = o + (m - o)
          BY <1>0, <2>2
        <4> QED
          BY <4>1
      <3>2. m - o = k /\ (m - 1) - o = k - 1
        BY <1>0, <3>1
      <3>3. w[m] = Start(a, k)
        BY <1>1, <2>0, <2>2, <3>2
      <3>4. ss[m] = <<a[k]>>
        BY <1>0, <3>1
      <3>5. w[m - 1] = Start(a, k - 1)
        <4>1. CASE k = 1
          <5>1. m - 1 <= o /\ L > 0
            BY <1>0, <3>1, <4>1
          <5>2. Start(a, k - 1) = <<>>
            BY <1>0, <4>1, <5>1
          <5> QED
            BY <1>1, <2>0, <5>1, <5>2
        <4>2. CASE k # 1
          <5>1. o < m - 1 /\ m - 1 <= o + L
            BY <1>0, <3>1, <4>2
          <5> QED
            BY <1>1, <2>0, <3>2, <5>1
        <4> QED
          BY <4>1, <4>2
      <3> QED
        BY <1>0, <3>1, <3>3, <3>4, <3>5
    <2>3. CASE m > o + L
      <3>1. w[m] = a /\ w[m - 1] = a
        BY <1>0, <1>4, <2>0, <2>3
      <3>2. ss[m] = <<>>
        BY <1>0, <2>3
      <3>3. a \o <<>> = a
        BY <1>0, Cat
      <3> QED
        BY <3>1, <3>2, <3>3
    <2>4. m <= o \/ (o < m /\ m <= o + L) \/ m > o + L
      BY <1>0
    <2> QED
      BY <2>1, <2>2, <2>3, <2>4
  <1>6. w[N] = a
    BY <1>0, <1>4
  <1>7. FlattenSeq(ss) = w[N]
    BY ONLY <1>2, <1>5, N \in Nat, Lists(ss, N), FlatGrown
  <1> QED
    BY <1>6, <1>7

-----------------------------------------------------------------------------
(* Merging the files of an interface *)

Apart(ifs) ==
    \A m, n \in DOMAIN ifs : m # n => DOMAIN ifs[m].config \cap DOMAIN ifs[n].config = {}

\* What the first m files say, when no two of them say the same.
Together(ifs, m) ==
    [k \in UNION {DOMAIN ifs[n].config : n \in 1 .. m} |->
        ifs[CHOOSE n \in 1 .. m : k \in DOMAIN ifs[n].config].config[k]]

\* A configuration e is c and d, which share no key.
Join(c, d, e) ==
    \A k : /\ k \in DOMAIN e <=> k \in DOMAIN c \/ k \in DOMAIN d
           /\ ~(k \in DOMAIN c /\ k \in DOMAIN d)
           /\ k \in DOMAIN c => e[k] = c[k]
           /\ k \in DOMAIN d => e[k] = d[k]

Before(c, d, keys) ==
    \A g, h \in DOMAIN keys : keys[g] \in DOMAIN c /\ keys[h] \in DOMAIN d => g <= h

SixKey == <<"IPV6ADDR", "IPV6ADDR_SECONDARIES">>

\* No key is shared when no two files share one.
LEMMA SharedNone == ASSUME NEW ifs, SharedKeys(ifs) = {} PROVE Apart(ifs)
  <1> SUFFICES ASSUME NEW m \in DOMAIN ifs, NEW n \in DOMAIN ifs, m # n,
                      NEW k \in DOMAIN ifs[m].config \cap DOMAIN ifs[n].config
               PROVE  FALSE
    BY DEF Apart
  <1>1. k \in UNION {DOMAIN ifs[m].config \cap DOMAIN ifs[q].config : q \in DOMAIN ifs \ {m}}
    OBVIOUS
  <1>2. k \in SharedKeys(ifs)
    BY <1>1 DEF SharedKeys
  <1> QED
    BY <1>2

\* A key is in one of the files, and has its value there.
LEMMA TogetherFacts ==
    ASSUME NEW ifs, Apart(ifs), NEW m \in Nat, 1 .. m \subseteq DOMAIN ifs
    PROVE  /\ \A k : k \in DOMAIN Together(ifs, m) <=> \E n \in 1 .. m : k \in DOMAIN ifs[n].config
           /\ \A n \in 1 .. m : \A k \in DOMAIN ifs[n].config : Together(ifs, m)[k] = ifs[n].config[k]
  <1>1. \A k : k \in DOMAIN Together(ifs, m) <=> \E n \in 1 .. m : k \in DOMAIN ifs[n].config
    BY DEF Together
  <1>2. ASSUME NEW n \in 1 .. m, NEW k \in DOMAIN ifs[n].config
        PROVE  Together(ifs, m)[k] = ifs[n].config[k]
    <2> DEFINE p == CHOOSE p \in 1 .. m : k \in DOMAIN ifs[p].config
    <2>1. p \in 1 .. m /\ k \in DOMAIN ifs[p].config
      OBVIOUS
    <2>2. Together(ifs, m)[k] = ifs[p].config[k]
      BY <1>1 DEF Together
    <2> HIDE DEF p
    <2>3. p = n
      BY <2>1 DEF Apart
    <2> QED
      BY <2>2, <2>3
  <1> QED
    BY <1>1, <1>2

\* One more file.
LEMMA Joins ==
    ASSUME NEW ifs, Sequence(ifs), Apart(ifs), NEW m \in DOMAIN ifs
    PROVE  Join(Together(ifs, m - 1), ifs[m].config, Together(ifs, m))
  <1>1. /\ m \in Nat \ {0} /\ 1 .. m \subseteq DOMAIN ifs /\ 1 .. m - 1 \subseteq DOMAIN ifs
        /\ 1 .. m = (1 .. m - 1) \cup {m} /\ m \notin 1 .. m - 1 /\ m - 1 \in Nat
    <2>1. PICK S : ifs \in Seq(S)
      BY DEF Sequence
    <2> QED
      BY <2>1
  <1> DEFINE c == Together(ifs, m - 1)
             d == ifs[m].config
             e == Together(ifs, m)
  <1>2. /\ \A k : k \in DOMAIN c <=> \E n \in 1 .. m - 1 : k \in DOMAIN ifs[n].config
        /\ \A n \in 1 .. m - 1 : \A k \in DOMAIN ifs[n].config : c[k] = ifs[n].config[k]
    BY <1>1, TogetherFacts
  <1>3. /\ \A k : k \in DOMAIN e <=> \E n \in 1 .. m : k \in DOMAIN ifs[n].config
        /\ \A n \in 1 .. m : \A k \in DOMAIN ifs[n].config : e[k] = ifs[n].config[k]
    BY <1>1, TogetherFacts
  <1> HIDE DEF c, e
  <1>4. ASSUME NEW k
        PROVE  /\ k \in DOMAIN e <=> k \in DOMAIN c \/ k \in DOMAIN d
               /\ ~(k \in DOMAIN c /\ k \in DOMAIN d)
               /\ k \in DOMAIN c => e[k] = c[k]
               /\ k \in DOMAIN d => e[k] = d[k]
    <2>1. \A n \in 1 .. m - 1 : n \in 1 .. m /\ n \in DOMAIN ifs /\ n # m
      BY <1>1
    <2>2. m \in 1 .. m
      BY <1>1
    <2>3. k \in DOMAIN e <=> k \in DOMAIN c \/ k \in DOMAIN d
      BY <1>1, <1>2, <1>3
    <2>4. ~(k \in DOMAIN c /\ k \in DOMAIN d)
      BY <1>2, <2>1 DEF Apart
    <2>5. k \in DOMAIN c => e[k] = c[k]
      BY <1>2, <1>3, <2>1
    <2>6. k \in DOMAIN d => e[k] = d[k]
      BY <1>3, <2>2
    <2> QED
      BY <2>3, <2>4, <2>5, <2>6
  <1> QED
    BY <1>4 DEF Join, c, e

\* All files together are what merging makes of them.
LEMMA MergedTogether ==
    ASSUME NEW ifs, Apart(ifs), NEW m \in Nat, DOMAIN ifs = 1 .. m
    PROVE  Merged(ifs) = Together(ifs, m)
  <1>0. \A q \in 1 .. m : \A x \in DOMAIN ifs[q].config : Together(ifs, m)[x] = ifs[q].config[x]
    <2>1. 1 .. m \subseteq DOMAIN ifs
      OBVIOUS
    <2>2. \A q \in 1 .. m : \A x \in DOMAIN ifs[q].config : Together(ifs, m)[x] = ifs[q].config[x]
      BY ONLY <2>1, TogetherFacts, m \in Nat, Apart(ifs)
    <2> QED
      BY <2>2
  <1>1. DOMAIN Merged(ifs) = DOMAIN Together(ifs, m)
    BY DEF Merged, Together
  <1>2. ASSUME NEW k \in DOMAIN Merged(ifs) PROVE Merged(ifs)[k] = Together(ifs, m)[k]
    <2> DEFINE having == {n \in DOMAIN ifs : k \in DOMAIN ifs[n].config}
               p == CHOOSE n \in having : \A q \in having : n <= q
    <2>1. Merged(ifs)[k] = ifs[p].config[k]
      BY DEF Merged
    <2>2. PICK n \in DOMAIN ifs : k \in DOMAIN ifs[n].config
      BY DEF Merged
    <2>3. having = {n}
      BY <2>2 DEF Apart
    <2>4. n <= n
      BY <2>2
    <2>5. p = n
      <3> HIDE DEF having
      <3> QED
        BY <2>3, <2>4
    <2>6. Together(ifs, m)[k] = ifs[n].config[k]
      BY <1>0, <2>2
    <2> QED
      BY <2>1, <2>5, <2>6
  <1>3. Merged(ifs) = [k \in DOMAIN Merged(ifs) |-> Merged(ifs)[k]]
    BY DEF Merged
  <1>4. Together(ifs, m) = [k \in DOMAIN Together(ifs, m) |-> Together(ifs, m)[k]]
    BY DEF Together
  <1> QED
    BY <1>1, <1>2, <1>3, <1>4

-----------------------------------------------------------------------------
(* What the two parts of a configuration list *)

\* A key is in one part or in the other, or in neither.
LEMMA JoinKey ==
    ASSUME NEW c, NEW d, NEW e, Join(c, d, e), NEW k
    PROVE  /\ Key(e, k) = Key(c, k) \o Key(d, k)
           /\ Sequence(Key(c, k)) /\ Sequence(Key(d, k)) /\ Sequence(Key(e, k))
           /\ Key(c, k) # <<>> => k \in DOMAIN c
           /\ Key(d, k) # <<>> => k \in DOMAIN d
  <1>1. \A x : Sequence(<<x>>) /\ Sequence(<<>>)
    BY Single
  <1>2. \A x : <<x>> \o <<>> = <<x>> /\ <<>> \o <<x>> = <<x>> /\ <<>> \o <<>> = <<>>
    BY <1>1, Cat
  <1>3. /\ k \in DOMAIN e <=> k \in DOMAIN c \/ k \in DOMAIN d
        /\ ~(k \in DOMAIN c /\ k \in DOMAIN d)
        /\ k \in DOMAIN c => e[k] = c[k]
        /\ k \in DOMAIN d => e[k] = d[k]
    BY DEF Join
  <1>4. Key(e, k) = Key(c, k) \o Key(d, k)
    <2>1. CASE k \in DOMAIN c
      BY <1>2, <1>3, <2>1 DEF Key
    <2>2. CASE k \in DOMAIN d
      BY <1>2, <1>3, <2>2 DEF Key
    <2>3. CASE k \notin DOMAIN c /\ k \notin DOMAIN d
      BY <1>2, <1>3, <2>3 DEF Key
    <2> QED
      BY <2>1, <2>2, <2>3
  <1> QED
    BY <1>1, <1>4 DEF Key

Part(c, keys, first, n) ==
    IF \A m \in first .. n : keys[m] \in DOMAIN c THEN Key(c, keys[n]) ELSE <<>>

Parts(c, keys, first) == [n \in DOMAIN keys |-> Part(c, keys, first, n)]

\* What configuration c has of the keys that are read of e, it reads itself.
NoGap(c, e, keys, first) ==
    \A h \in DOMAIN keys :
        keys[h] \in DOMAIN c /\ (\A m \in first .. h : keys[m] \in DOMAIN e)
        => \A m \in first .. h : keys[m] \in DOMAIN c

\* Of each key a list is read, of none if it is missing.
LEMMA PartFacts ==
    ASSUME NEW c, NEW keys \in Seq(STRING), NEW first \in Nat
    PROVE  /\ Len(keys) \in Nat /\ DOMAIN keys = 1 .. Len(keys)
           /\ Lists(Parts(c, keys, first), Len(keys))
           /\ \A n \in 1 .. Len(keys) : Parts(c, keys, first)[n] = Part(c, keys, first, n)
           /\ Numbered(c, keys, first) = FlattenSeq(Parts(c, keys, first))
           /\ Sequence(Numbered(c, keys, first))
  <1>1. Len(keys) \in Nat /\ DOMAIN keys = 1 .. Len(keys)
    OBVIOUS
  <1>2. \A n \in 1 .. Len(keys) : Parts(c, keys, first)[n] = Part(c, keys, first, n)
    BY <1>1 DEF Parts
  <1>3. \A n \in 1 .. Len(keys) : Sequence(Part(c, keys, first, n))
    BY Single DEF Part, Key
  <1>4. Parts(c, keys, first) = [n \in 1 .. Len(keys) |-> Parts(c, keys, first)[n]]
    BY <1>1 DEF Parts
  <1>5. Lists(Parts(c, keys, first), Len(keys))
    BY <1>2, <1>3, <1>4 DEF Lists
  <1>6. Numbered(c, keys, first) = FlattenSeq(Parts(c, keys, first))
    BY DEF Numbered, Parts, Part
  <1>7. Sequence(FlattenSeq(Parts(c, keys, first)))
    BY <1>1, <1>5, FlatList
  <1> QED
    BY <1>1, <1>2, <1>5, <1>6, <1>7

\* Of a configuration in two parts, each key is read in the one that has it.
LEMMA JoinPart ==
    ASSUME NEW c, NEW d, NEW e, Join(c, d, e), NEW keys, NEW first \in Nat, NEW n \in DOMAIN keys,
           NoGap(c, e, keys, first), NoGap(d, e, keys, first)
    PROVE  /\ Part(e, keys, first, n) = Glue(Part(c, keys, first, n), Part(d, keys, first, n))
           /\ Part(c, keys, first, n) # <<>> => keys[n] \in DOMAIN c
           /\ Part(d, keys, first, n) # <<>> => keys[n] \in DOMAIN d
  <1> DEFINE k == keys[n]
             AllOf(b) == \A m \in first .. n : keys[m] \in DOMAIN b
  <1>1. /\ Key(e, k) = Key(c, k) \o Key(d, k)
        /\ Sequence(Key(c, k)) /\ Sequence(Key(d, k))
        /\ Key(c, k) # <<>> => k \in DOMAIN c
        /\ Key(d, k) # <<>> => k \in DOMAIN d
    BY JoinKey
  <1>2. /\ \A x : x \in DOMAIN e <=> x \in DOMAIN c \/ x \in DOMAIN d
        /\ ~(k \in DOMAIN c /\ k \in DOMAIN d)
    BY DEF Join
  <1>3. \A b : Part(b, keys, first, n) = IF AllOf(b) THEN Key(b, k) ELSE <<>>
    BY DEF Part
  <1>4. /\ AllOf(c) => AllOf(e)
        /\ AllOf(d) => AllOf(e)
    BY <1>2
  <1>5. /\ k \in DOMAIN c /\ AllOf(e) => AllOf(c)
        /\ k \in DOMAIN d /\ AllOf(e) => AllOf(d)
    BY DEF NoGap
  <1> HIDE DEF AllOf, k
  <1>6. /\ \A b : k \notin DOMAIN b => Key(b, k) = <<>>
        /\ Key(c, k) \o <<>> = Key(c, k) /\ <<>> \o Key(d, k) = Key(d, k) /\ <<>> \o <<>> = <<>>
    BY <1>1, Cat DEF Key
  <1>7. Part(e, keys, first, n) = Part(c, keys, first, n) \o Part(d, keys, first, n)
    <2>1. CASE k \in DOMAIN c
      <3>1. (AllOf(e) <=> AllOf(c)) /\ Key(d, k) = <<>>
        BY <1>2, <1>4, <1>5, <1>6, <2>1
      <3>2. Part(d, keys, first, n) = <<>>
        BY <1>3, <3>1
      <3>3. Part(e, keys, first, n) = Part(c, keys, first, n)
        BY <1>1, <1>3, <1>6, <3>1
      <3>4. Part(c, keys, first, n) \o <<>> = Part(c, keys, first, n)
        BY <1>3, <1>6
      <3> QED
        BY <3>2, <3>3, <3>4
    <2>2. CASE k \in DOMAIN d
      <3>1. (AllOf(e) <=> AllOf(d)) /\ Key(c, k) = <<>>
        BY <1>2, <1>4, <1>5, <1>6, <2>2
      <3>2. Part(c, keys, first, n) = <<>>
        BY <1>3, <3>1
      <3>3. Part(e, keys, first, n) = Part(d, keys, first, n)
        BY <1>1, <1>3, <1>6, <3>1
      <3>4. <<>> \o Part(d, keys, first, n) = Part(d, keys, first, n)
        BY <1>3, <1>6
      <3> QED
        BY <3>2, <3>3, <3>4
    <2>3. CASE k \notin DOMAIN c /\ k \notin DOMAIN d
      <3>1. /\ Part(e, keys, first, n) = <<>> /\ Part(c, keys, first, n) = <<>>
            /\ Part(d, keys, first, n) = <<>>
        BY <1>2, <1>3, <1>6, <2>3
      <3> QED
        BY <1>6, <3>1
    <2> QED
      BY <2>1, <2>2, <2>3
  <1>8. /\ Part(c, keys, first, n) # <<>> => k \in DOMAIN c
        /\ Part(d, keys, first, n) # <<>> => k \in DOMAIN d
    BY <1>3, <1>6
  <1> QED
    BY <1>7, <1>8 DEF Glue, k

\* Numbered keys of a configuration in two parts.
LEMMA JoinNumbered ==
    ASSUME NEW c, NEW d, NEW e, Join(c, d, e), NEW keys \in Seq(STRING), NEW first \in Nat,
           NoGap(c, e, keys, first), NoGap(d, e, keys, first),
           \A g, h \in DOMAIN keys :
               h < g => Part(c, keys, first, g) = <<>> \/ Part(d, keys, first, h) = <<>>
    PROVE  Numbered(e, keys, first) = Numbered(c, keys, first) \o Numbered(d, keys, first)
  <1> DEFINE N == Len(keys)
             P(b) == Parts(b, keys, first)
  <1>1. N \in Nat /\ DOMAIN keys = 1 .. N
    BY PartFacts
  <1>2. \A b : /\ Lists(P(b), N) /\ Numbered(b, keys, first) = FlattenSeq(P(b))
               /\ \A n \in 1 .. N : P(b)[n] = Part(b, keys, first, n)
    BY PartFacts
  <1> HIDE DEF N, P
  <1>3. \A n \in 1 .. N : P(e)[n] = Glue(P(c)[n], P(d)[n])
    <2>1. ASSUME NEW n \in 1 .. N
          PROVE  Part(e, keys, first, n) = Glue(Part(c, keys, first, n), Part(d, keys, first, n))
      BY <1>1, JoinPart
    <2> QED
      BY <1>2, <2>1
  <1>4. \A g, h \in 1 .. N : h < g => P(c)[g] = <<>> \/ P(d)[h] = <<>>
    BY <1>1, <1>2
  <1>5. FlattenSeq(P(e)) = Glue(FlattenSeq(P(c)), FlattenSeq(P(d)))
    <2>1. Lists(P(c), N) /\ Lists(P(d), N) /\ Lists(P(e), N)
      BY <1>2
    <2> QED
      BY ONLY <1>1, <1>3, <1>4, <2>1, FlatGlued
  <1>6. /\ Numbered(e, keys, first) = FlattenSeq(P(e))
        /\ Numbered(c, keys, first) = FlattenSeq(P(c))
        /\ Numbered(d, keys, first) = FlattenSeq(P(d))
    BY <1>2
  <1> QED
    BY ONLY <1>5, <1>6 DEF Glue

\* IPv4 addresses.
LEMMA Join4 ==
    ASSUME NEW c, NEW d, NEW e, Join(c, d, e), Before(c, d, AddressKey),
           NoGap(c, e, AddressKey, 4), NoGap(d, e, AddressKey, 4)
    PROVE  Addresses4(e) = Addresses4(c) \o Addresses4(d)
  <1>1. AddressKey \in Seq(STRING) /\ 4 \in Nat
    BY KeysAssumption
  <1>2. ASSUME NEW g \in DOMAIN AddressKey, NEW h \in DOMAIN AddressKey, h < g
        PROVE  Part(c, AddressKey, 4, g) = <<>> \/ Part(d, AddressKey, 4, h) = <<>>
    <2> SUFFICES ASSUME Part(c, AddressKey, 4, g) # <<>>, Part(d, AddressKey, 4, h) # <<>>
                 PROVE  FALSE
      OBVIOUS
    <2>1. AddressKey[g] \in DOMAIN c /\ AddressKey[h] \in DOMAIN d
      BY <1>1, JoinPart
    <2>2. g <= h /\ g \in Nat /\ h \in Nat
      <3>1. g <= h
        BY <2>1 DEF Before
      <3> QED
        BY <1>1, <3>1, PartFacts
    <2> QED
      BY <1>2, <2>2
  <1> QED
    BY <1>1, <1>2, JoinNumbered DEF Addresses4

\* Servers: two files never both have the first one.
LEMMA JoinServers ==
    ASSUME NEW c, NEW d, NEW e, Join(c, d, e),
           NoGap(c, e, ServerKey, 1), NoGap(d, e, ServerKey, 1)
    PROVE  Servers(e) = Servers(c) \o Servers(d)
  <1>1. ServerKey \in Seq(STRING) /\ 1 \in Nat
    BY KeysAssumption
  <1>2. ASSUME NEW g \in DOMAIN ServerKey, NEW h \in DOMAIN ServerKey, h < g
        PROVE  Part(c, ServerKey, 1, g) = <<>> \/ Part(d, ServerKey, 1, h) = <<>>
    <2> SUFFICES ASSUME Part(c, ServerKey, 1, g) # <<>>, Part(d, ServerKey, 1, h) # <<>>
                 PROVE  FALSE
      OBVIOUS
    <2>1. 1 \in 1 .. g /\ 1 \in 1 .. h
      BY <1>1, PartFacts
    <2>2. ServerKey[1] \in DOMAIN c /\ ServerKey[1] \in DOMAIN d
      BY <2>1 DEF Part
    <2> QED
      BY <2>2 DEF Join
  <1> QED
    BY <1>1, <1>2, JoinNumbered DEF Servers

\* IPv6 addresses.
LEMMA Join6 ==
    ASSUME NEW c, NEW d, NEW e, Join(c, d, e), Before(c, d, SixKey),
           Sequence(Secondaries(c)), Sequence(Secondaries(d))
    PROVE  /\ Addresses6(e) = Addresses6(c) \o Addresses6(d)
           /\ Sequence(Addresses6(d)) /\ Sequence(Secondaries(e))
  <1> DEFINE a == "IPV6ADDR"
             s == "IPV6ADDR_SECONDARIES"
  <1>1. Key(e, a) = Key(c, a) \o Key(d, a) /\ Sequence(Key(c, a)) /\ Sequence(Key(d, a))
    BY JoinKey
  <1>2. Secondaries(e) = Secondaries(c) \o Secondaries(d)
    <2>1. /\ s \in DOMAIN e <=> s \in DOMAIN c \/ s \in DOMAIN d
          /\ ~(s \in DOMAIN c /\ s \in DOMAIN d)
          /\ s \in DOMAIN c => e[s] = c[s]
          /\ s \in DOMAIN d => e[s] = d[s]
      BY DEF Join
    <2>2. /\ Secondaries(c) \o <<>> = Secondaries(c) /\ <<>> \o Secondaries(d) = Secondaries(d)
          /\ <<>> \o <<>> = <<>>
      BY Cat
    <2>3. CASE s \in DOMAIN c
      BY <2>1, <2>2, <2>3 DEF Secondaries
    <2>4. CASE s \in DOMAIN d
      BY <2>1, <2>2, <2>4 DEF Secondaries
    <2>5. CASE s \notin DOMAIN c /\ s \notin DOMAIN d
      BY <2>1, <2>2, <2>5 DEF Secondaries
    <2> QED
      BY <2>3, <2>4, <2>5
  <1>3. Key(d, a) = <<>> \/ Secondaries(c) = <<>>
    <2> SUFFICES ASSUME Key(d, a) # <<>>, Secondaries(c) # <<>> PROVE FALSE
      OBVIOUS
    <2>1. a \in DOMAIN d /\ s \in DOMAIN c
      BY JoinKey DEF Secondaries
    <2>2. SixKey[1] = a /\ SixKey[2] = s /\ 1 \in DOMAIN SixKey /\ 2 \in DOMAIN SixKey
      BY DEF SixKey
    <2>3. 2 <= 1
      BY <2>1, <2>2 DEF Before
    <2> QED
      BY <2>3
  <1>4. Glue(Glue(Key(c, a), Key(d, a)), Glue(Secondaries(c), Secondaries(d)))
            = Glue(Glue(Key(c, a), Secondaries(c)), Glue(Key(d, a), Secondaries(d)))
    BY <1>1, <1>3, Swap
  <1>5. Sequence(Key(d, a) \o Secondaries(d)) /\ Sequence(Secondaries(c) \o Secondaries(d))
    BY <1>1, Cat
  <1> QED
    BY <1>1, <1>2, <1>4, <1>5 DEF Addresses6, Glue

-----------------------------------------------------------------------------
(* What one configuration says *)

ValueIn(c, k) == IF k \in DOMAIN c THEN c[k] ELSE Nil

RoutesIn(r) == [f \in {4, 6} |-> IF r[f] = Absent THEN {} ELSE r[f]]

ViewOf(c, r) ==
    [addresses |-> [v4 |-> Addresses4(c), v6 |-> Addresses6(c),
                    gateway4 |-> ValueIn(c, "GATEWAY"),
                    gateway6 |-> ValueIn(c, "IPV6_DEFAULTGW")],
     dhcp |-> Clients(c), servers |-> Servers(c), other |-> ValueIn(c, "MTU"),
     routes |-> RoutesIn(r)]

\* The files can be merged without changing what they say.
Mergeable(ifs) ==
    /\ Sequence(ifs) /\ Apart(ifs) /\ InOrder(ifs)
    /\ \A n \in DOMAIN ifs : Sequence(Secondaries(ifs[n].config))

\* What is known of the first files goes for them together, and for one more.
LEMMA TogetherLists ==
    ASSUME NEW ifs, Mergeable(ifs), NEW m \in DOMAIN ifs
    PROVE  /\ Before(Together(ifs, m - 1), ifs[m].config, AddressKey)
           /\ Before(Together(ifs, m - 1), ifs[m].config, SixKey)
           /\ Sequence(Secondaries(Together(ifs, m - 1)))
           /\ NoGap(Together(ifs, m - 1), Together(ifs, m), AddressKey, 4)
           /\ NoGap(ifs[m].config, Together(ifs, m), AddressKey, 4)
           /\ NoGap(Together(ifs, m - 1), Together(ifs, m), ServerKey, 1)
           /\ NoGap(ifs[m].config, Together(ifs, m), ServerKey, 1)
  <1>0. /\ 1 .. m \subseteq DOMAIN ifs /\ m \in Nat
        /\ m - 1 \in Nat /\ 1 .. m - 1 \subseteq DOMAIN ifs /\ \A n \in 1 .. m - 1 : n < m
    <2>1. PICK S : ifs \in Seq(S)
      BY DEF Mergeable, Sequence
    <2> QED
      BY <2>1
  <1> DEFINE c == Together(ifs, m - 1)
             d == ifs[m].config
             e == Together(ifs, m)
  <1>1. /\ \A k : k \in DOMAIN c <=> \E n \in 1 .. m - 1 : k \in DOMAIN ifs[n].config
        /\ \A n \in 1 .. m - 1 : \A k \in DOMAIN ifs[n].config : c[k] = ifs[n].config[k]
    <2>1. Apart(ifs) /\ 1 .. m - 1 \subseteq DOMAIN ifs /\ m - 1 \in Nat
      BY <1>0 DEF Mergeable
    <2> QED
      BY ONLY <2>1, TogetherFacts
  <1>2. \A k : k \in DOMAIN e <=> \E n \in 1 .. m : k \in DOMAIN ifs[n].config
    <2>1. Apart(ifs) /\ 1 .. m \subseteq DOMAIN ifs /\ m \in Nat
      BY <1>0 DEF Mergeable
    <2> QED
      BY ONLY <2>1, TogetherFacts
  <1> HIDE DEF e
  <1> HIDE DEF c
  <1>3. ASSUME NEW keys \in {AddressKey, SixKey} PROVE Before(c, d, keys)
    <2> SUFFICES ASSUME NEW g \in DOMAIN keys, NEW h \in DOMAIN keys,
                        keys[g] \in DOMAIN c, keys[h] \in DOMAIN d
                 PROVE  g <= h
      BY DEF Before
    <2>1. PICK n \in 1 .. m - 1 : keys[g] \in DOMAIN ifs[n].config
      BY <1>1
    <2>2. n \in DOMAIN ifs /\ n < m
      BY <1>0
    <2>3. \A s \in {AddressKey, <<"IPV6ADDR", "IPV6ADDR_SECONDARIES">>} :
             \A x, y \in DOMAIN ifs, p, q \in DOMAIN s :
                x < y /\ s[p] \in DOMAIN ifs[x].config /\ s[q] \in DOMAIN ifs[y].config => p <= q
      BY DEF Mergeable, InOrder
    <2> QED
      BY <2>1, <2>2, <2>3 DEF SixKey
  <1>4. Sequence(Secondaries(c))
    <2>1. CASE "IPV6ADDR_SECONDARIES" \notin DOMAIN c
      BY <2>1, Single DEF Secondaries
    <2>2. CASE "IPV6ADDR_SECONDARIES" \in DOMAIN c
      <3>1. PICK n \in 1 .. m - 1 : "IPV6ADDR_SECONDARIES" \in DOMAIN ifs[n].config
        BY <1>1, <2>2
      <3>2. Secondaries(c) = Secondaries(ifs[n].config)
        BY <1>1, <2>2, <3>1 DEF Secondaries
      <3> QED
        BY <1>0, <3>2 DEF Mergeable
    <2> QED
      BY <2>1, <2>2
  <1>5. ASSUME NEW keys, NEW first, ~FillsGap(ifs, keys, first)
        PROVE  NoGap(c, e, keys, first) /\ NoGap(d, e, keys, first)
    <2>1. ASSUME NEW n \in 1 .. m, NEW h \in DOMAIN keys, keys[h] \in DOMAIN ifs[n].config,
                 \A q \in first .. h : keys[q] \in DOMAIN e
          PROVE  \A q \in first .. h : keys[q] \in DOMAIN ifs[n].config
      <3>1. \A q \in first .. h : \E x \in DOMAIN ifs : keys[q] \in DOMAIN ifs[x].config
        BY <1>0, <1>2, <2>1
      <3>2. n \in DOMAIN ifs
        BY <1>0
      <3> QED
        BY <1>5, <2>1, <3>1, <3>2 DEF FillsGap
    <2>2. NoGap(d, e, keys, first)
      <3>1. m \in 1 .. m
        BY <1>0
      <3> QED
        BY <2>1, <3>1 DEF NoGap
    <2>3. NoGap(c, e, keys, first)
      <3> SUFFICES ASSUME NEW h \in DOMAIN keys, keys[h] \in DOMAIN c,
                          \A q \in first .. h : keys[q] \in DOMAIN e
                   PROVE  \A q \in first .. h : keys[q] \in DOMAIN c
        BY DEF NoGap
      <3>1. PICK n \in 1 .. m - 1 : keys[h] \in DOMAIN ifs[n].config
        BY <1>1
      <3>2. n \in 1 .. m
        BY <1>0
      <3>3. \A q \in first .. h : keys[q] \in DOMAIN ifs[n].config
        BY <2>1, <3>1, <3>2
      <3> QED
        BY <1>1, <3>1, <3>3
    <2> QED
      BY <2>2, <2>3
  <1>6. /\ NoGap(c, e, AddressKey, 4) /\ NoGap(d, e, AddressKey, 4)
        /\ NoGap(c, e, ServerKey, 1) /\ NoGap(d, e, ServerKey, 1)
    BY <1>5 DEF Mergeable, InOrder
  <1> QED
    BY <1>3, <1>4, <1>6 DEF c, e

\* What is read of numbered keys is a list.
LEMMA NumberedLists == ASSUME NEW c PROVE Sequence(Addresses4(c)) /\ Sequence(Servers(c))
  BY KeysAssumption, PartFacts DEF Addresses4, Servers

\* Nothing is together in no file.
LEMMA TogetherNone ==
    ASSUME NEW ifs, Apart(ifs)
    PROVE  /\ Addresses4(Together(ifs, 0)) = <<>> /\ Addresses6(Together(ifs, 0)) = <<>>
           /\ Servers(Together(ifs, 0)) = <<>>
  <1> DEFINE c == Together(ifs, 0)
  <1>1. DOMAIN c = {}
    <2>1. 1 .. 0 = {}
      OBVIOUS
    <2>2. UNION {DOMAIN ifs[n].config : n \in 1 .. 0} = {}
      BY <2>1
    <2> QED
      BY <2>2 DEF Together
  <1> HIDE DEF c
  <1>2. \A k : Key(c, k) = <<>>
    BY <1>1 DEF Key
  <1>3. <<>> \o <<>> = <<>>
    OBVIOUS
  <1>4. ASSUME NEW keys \in Seq(STRING), NEW first \in Nat PROVE Numbered(c, keys, first) = <<>>
    <2>1. \A n \in 1 .. Len(keys) : Parts(c, keys, first)[n] = <<>>
      BY <1>2, PartFacts DEF Part
    <2>2. /\ Len(keys) \in Nat /\ Lists(Parts(c, keys, first), Len(keys))
          /\ Numbered(c, keys, first) = FlattenSeq(Parts(c, keys, first))
      BY PartFacts
    <2> QED
      BY ONLY <2>1, <2>2, FlatList
  <1>5. Addresses4(c) = <<>> /\ Servers(c) = <<>>
    BY <1>4, KeysAssumption DEF Addresses4, Servers
  <1>6. Addresses6(c) = <<>>
    BY <1>1, <1>2, <1>3 DEF Addresses6, Secondaries
  <1> QED
    BY <1>5, <1>6 DEF c

\* The lists of all files, one after the other, are those of the merged configuration.
LEMMA MergedLists ==
    ASSUME NEW ifs, Mergeable(ifs)
    PROVE  /\ FlattenSeq([n \in DOMAIN ifs |-> Addresses4(ifs[n].config)]) = Addresses4(Merged(ifs))
           /\ FlattenSeq([n \in DOMAIN ifs |-> Addresses6(ifs[n].config)]) = Addresses6(Merged(ifs))
           /\ FlattenSeq([n \in DOMAIN ifs |-> Servers(ifs[n].config)]) = Servers(Merged(ifs))
  <1>1. PICK N \in Nat : DOMAIN ifs = 1 .. N
    <2>1. PICK S : ifs \in Seq(S)
      BY DEF Mergeable, Sequence
    <2> QED
      BY <2>1
  <1>2. Merged(ifs) = Together(ifs, N)
    <2>1. Apart(ifs)
      BY DEF Mergeable
    <2> QED
      BY <1>1, <2>1, MergedTogether
  <1>3. ASSUME NEW m \in 1 .. N
        PROVE  /\ Addresses4(Together(ifs, m))
                    = Addresses4(Together(ifs, m - 1)) \o Addresses4(ifs[m].config)
               /\ Addresses6(Together(ifs, m))
                    = Addresses6(Together(ifs, m - 1)) \o Addresses6(ifs[m].config)
               /\ Servers(Together(ifs, m))
                    = Servers(Together(ifs, m - 1)) \o Servers(ifs[m].config)
               /\ Sequence(Addresses4(ifs[m].config)) /\ Sequence(Addresses6(ifs[m].config))
               /\ Sequence(Servers(ifs[m].config))
    <2>1. m \in DOMAIN ifs
      BY <1>1
    <2> DEFINE c == Together(ifs, m - 1)
               d == ifs[m].config
               e == Together(ifs, m)
    <2>2. Join(c, d, e)
      BY <2>1, Joins DEF Mergeable
    <2>3. /\ Before(c, d, AddressKey) /\ Before(c, d, SixKey)
          /\ Sequence(Secondaries(c)) /\ Sequence(Secondaries(d))
          /\ NoGap(c, e, AddressKey, 4) /\ NoGap(d, e, AddressKey, 4)
          /\ NoGap(c, e, ServerKey, 1) /\ NoGap(d, e, ServerKey, 1)
      BY <2>1, TogetherLists DEF Mergeable
    <2> HIDE DEF c, d, e
    <2>4. Addresses4(e) = Addresses4(c) \o Addresses4(d) /\ Sequence(Addresses4(d))
      BY <2>2, <2>3, Join4, NumberedLists
    <2>5. Addresses6(e) = Addresses6(c) \o Addresses6(d) /\ Sequence(Addresses6(d))
      BY <2>2, <2>3, Join6
    <2>6. Servers(e) = Servers(c) \o Servers(d) /\ Sequence(Servers(d))
      BY <2>2, <2>3, JoinServers, NumberedLists
    <2> QED
      BY <2>4, <2>5, <2>6 DEF c, d, e
  <1>4. /\ Addresses4(Together(ifs, 0)) = <<>> /\ Addresses6(Together(ifs, 0)) = <<>>
        /\ Servers(Together(ifs, 0)) = <<>>
    BY TogetherNone DEF Mergeable
  <1>5. FlattenSeq([n \in 1 .. N |-> Addresses4(ifs[n].config)]) = Addresses4(Together(ifs, N))
    <2> DEFINE w == [m \in 0 .. N |-> Addresses4(Together(ifs, m))]
               ss == [n \in 1 .. N |-> Addresses4(ifs[n].config)]
    <2>1. w[0] = <<>> /\ w[N] = Addresses4(Together(ifs, N))
      BY <1>4
    <2>2. \A m \in 1 .. N : w[m] = w[m - 1] \o ss[m] /\ Sequence(ss[m])
      <3>1. \A m \in 1 .. N : /\ w[m] = Addresses4(Together(ifs, m))
                              /\ w[m - 1] = Addresses4(Together(ifs, m - 1))
                              /\ ss[m] = Addresses4(ifs[m].config)
        OBVIOUS
      <3> HIDE DEF w, ss
      <3> QED
        BY <1>3, <3>1
    <2>3. ss = [n \in 1 .. N |-> ss[n]]
      OBVIOUS
    <2> HIDE DEF w, ss
    <2>4. FlattenSeq(ss) = w[N]
      BY <2>1, <2>2, <2>3, Flattened
    <2> QED
      BY <2>1, <2>4 DEF ss
  <1>6. FlattenSeq([n \in 1 .. N |-> Addresses6(ifs[n].config)]) = Addresses6(Together(ifs, N))
    <2> DEFINE w == [m \in 0 .. N |-> Addresses6(Together(ifs, m))]
               ss == [n \in 1 .. N |-> Addresses6(ifs[n].config)]
    <2>1. w[0] = <<>> /\ w[N] = Addresses6(Together(ifs, N))
      BY <1>4
    <2>2. \A m \in 1 .. N : w[m] = w[m - 1] \o ss[m] /\ Sequence(ss[m])
      <3>1. \A m \in 1 .. N : /\ w[m] = Addresses6(Together(ifs, m))
                              /\ w[m - 1] = Addresses6(Together(ifs, m - 1))
                              /\ ss[m] = Addresses6(ifs[m].config)
        OBVIOUS
      <3> HIDE DEF w, ss
      <3> QED
        BY <1>3, <3>1
    <2>3. ss = [n \in 1 .. N |-> ss[n]]
      OBVIOUS
    <2> HIDE DEF w, ss
    <2>4. FlattenSeq(ss) = w[N]
      BY <2>1, <2>2, <2>3, Flattened
    <2> QED
      BY <2>1, <2>4 DEF ss
  <1>7. FlattenSeq([n \in 1 .. N |-> Servers(ifs[n].config)]) = Servers(Together(ifs, N))
    <2> DEFINE w == [m \in 0 .. N |-> Servers(Together(ifs, m))]
               ss == [n \in 1 .. N |-> Servers(ifs[n].config)]
    <2>1. w[0] = <<>> /\ w[N] = Servers(Together(ifs, N))
      BY <1>4
    <2>2. \A m \in 1 .. N : w[m] = w[m - 1] \o ss[m] /\ Sequence(ss[m])
      <3>1. \A m \in 1 .. N : /\ w[m] = Servers(Together(ifs, m))
                              /\ w[m - 1] = Servers(Together(ifs, m - 1))
                              /\ ss[m] = Servers(ifs[m].config)
        OBVIOUS
      <3> HIDE DEF w, ss
      <3> QED
        BY <1>3, <3>1
    <2>3. ss = [n \in 1 .. N |-> ss[n]]
      OBVIOUS
    <2> HIDE DEF w, ss
    <2>4. FlattenSeq(ss) = w[N]
      BY <2>1, <2>2, <2>3, Flattened
    <2> QED
      BY <2>1, <2>4 DEF ss
  <1> QED
    BY <1>1, <1>2, <1>5, <1>6, <1>7

\* The last value of a key is the only one, and so are the clients of any file.
LEMMA MergedValues ==
    ASSUME NEW ifs, Apart(ifs), NEW N \in Nat, DOMAIN ifs = 1 .. N
    PROVE  /\ \A key : LastOf(ifs, key) = ValueIn(Merged(ifs), key)
           /\ UNION {Clients(ifs[n].config) : n \in DOMAIN ifs} = Clients(Merged(ifs))
  <1> DEFINE c == Together(ifs, N)
  <1>0. Merged(ifs) = c
    BY MergedTogether
  <1>1. /\ \A k : k \in DOMAIN c <=> \E n \in 1 .. N : k \in DOMAIN ifs[n].config
        /\ \A n \in 1 .. N : \A k \in DOMAIN ifs[n].config : c[k] = ifs[n].config[k]
    <2>1. 1 .. N \subseteq DOMAIN ifs
      OBVIOUS
    <2> QED
      BY ONLY <2>1, TogetherFacts, N \in Nat, Apart(ifs)
  <1> HIDE DEF c
  <1>2. ASSUME NEW key PROVE LastOf(ifs, key) = ValueIn(c, key)
    <2> DEFINE having == {n \in DOMAIN ifs : key \in DOMAIN ifs[n].config}
    <2>1. CASE having = {}
      <3>1. key \notin DOMAIN c
        BY <1>1, <2>1
      <3> QED
        BY <2>1, <3>1 DEF LastOf, ValueIn
    <2>2. CASE having # {}
      <3>1. PICK n \in 1 .. N : key \in DOMAIN ifs[n].config
        BY <2>2
      <3>2. having = {n}
        BY <3>1 DEF Apart
      <3> DEFINE p == CHOOSE p \in having : \A m \in having : m <= p
      <3>3. LastOf(ifs, key) = ifs[p].config[key]
        BY <2>2 DEF LastOf
      <3>4. p = n
        <4>1. n <= n
          OBVIOUS
        <4> HIDE DEF having
        <4> QED
          BY <3>2, <4>1
      <3>5. key \in DOMAIN c /\ c[key] = ifs[n].config[key]
        BY <1>1, <3>1
      <3> QED
        BY <3>3, <3>4, <3>5 DEF ValueIn
    <2> QED
      BY <2>1, <2>2
  <1>3. UNION {Clients(ifs[n].config) : n \in DOMAIN ifs} = Clients(c)
    <2>1. ASSUME NEW f, NEW n \in 1 .. N, f \in Clients(ifs[n].config) PROVE f \in Clients(c)
      BY <1>1, <2>1 DEF Clients
    <2>2. ASSUME NEW f \in Clients(c) PROVE \E n \in 1 .. N : f \in Clients(ifs[n].config)
      <3>1. f \in {4, 6}
        BY DEF Clients
      <3>2. CASE f = 4
        <4>1. "BOOTPROTO" \in DOMAIN c /\ c["BOOTPROTO"] = "dhcp"
          BY <3>2 DEF Clients
        <4>2. PICK n \in 1 .. N : "BOOTPROTO" \in DOMAIN ifs[n].config
          BY <1>1, <4>1
        <4> QED
          BY <1>1, <3>2, <4>1, <4>2 DEF Clients
      <3>3. CASE f = 6
        <4>1. "DHCPV6C" \in DOMAIN c /\ c["DHCPV6C"] = "yes"
          BY <3>3 DEF Clients
        <4>2. PICK n \in 1 .. N : "DHCPV6C" \in DOMAIN ifs[n].config
          BY <1>1, <4>1
        <4> QED
          BY <1>1, <3>3, <4>1, <4>2 DEF Clients
      <3> QED
        BY <3>1, <3>2, <3>3
    <2> QED
      BY <2>1, <2>2
  <1> QED
    BY <1>0, <1>2, <1>3

\* Files that can be merged say what the merged configuration says.
LEMMA ViewMerged ==
    ASSUME NEW ifs, Mergeable(ifs), NEW r
    PROVE  View(ifs, r) = ViewOf(Merged(ifs), r)
  <1>1. PICK N \in Nat : DOMAIN ifs = 1 .. N
    <2>1. PICK S : ifs \in Seq(S)
      BY DEF Mergeable, Sequence
    <2> QED
      BY <2>1
  <1>2. /\ \A key : LastOf(ifs, key) = ValueIn(Merged(ifs), key)
        /\ UNION {Clients(ifs[n].config) : n \in DOMAIN ifs} = Clients(Merged(ifs))
    <2>1. Apart(ifs)
      BY DEF Mergeable
    <2> QED
      BY <1>1, <2>1, MergedValues
  <1> QED
    BY <1>2, MergedLists, Zenon DEF View, ViewOf, RoutesIn

\* One file says what its configuration says.
LEMMA ViewOne ==
    ASSUME NEW f, NEW c, Sequence(Secondaries(c)), NEW r
    PROVE  View(<<[name |-> f, config |-> c]>>, r) = ViewOf(c, r)
  <1> DEFINE ifs == <<[name |-> f, config |-> c]>>
  <1>1. DOMAIN ifs = {1} /\ ifs[1].config = c
    OBVIOUS
  <1> HIDE DEF ifs
  <1>2. \A key : LastOf(ifs, key) = ValueIn(c, key)
    <2> SUFFICES ASSUME NEW key PROVE LastOf(ifs, key) = ValueIn(c, key)
      OBVIOUS
    <2>1. CASE key \in DOMAIN c
      <3> DEFINE having == {n \in DOMAIN ifs : key \in DOMAIN ifs[n].config}
      <3>1. having = {1}
        BY <1>1, <2>1
      <3>2. 1 <= 1
        OBVIOUS
      <3>3. (CHOOSE n \in having : \A m \in having : m <= n) = 1
        <4> HIDE DEF having
        <4> QED
          BY <3>1, <3>2
      <3> QED
        BY <1>1, <2>1, <3>1, <3>3 DEF LastOf, ValueIn
    <2>2. CASE key \notin DOMAIN c
      <3>1. {n \in DOMAIN ifs : key \in DOMAIN ifs[n].config} = {}
        BY <1>1, <2>2
      <3> QED
        BY <2>2, <3>1 DEF LastOf, ValueIn
    <2> QED
      BY <2>1, <2>2
  <1>3. UNION {Clients(ifs[n].config) : n \in DOMAIN ifs} = Clients(c)
    BY <1>1
  <1>4. \A k : Sequence(Key(c, k)) /\ Sequence(<<>>)
    BY Single DEF Key
  <1>5. Sequence(Addresses4(c)) /\ Sequence(Addresses6(c)) /\ Sequence(Servers(c))
    <2>1. Sequence(Addresses4(c)) /\ Sequence(Servers(c))
      BY NumberedLists
    <2>2. Sequence(Addresses6(c))
      BY <1>4, Cat DEF Addresses6
    <2> QED
      BY <2>1, <2>2
  <1>6. /\ [n \in DOMAIN ifs |-> Addresses4(ifs[n].config)] = <<Addresses4(c)>>
        /\ [n \in DOMAIN ifs |-> Addresses6(ifs[n].config)] = <<Addresses6(c)>>
        /\ [n \in DOMAIN ifs |-> Servers(ifs[n].config)] = <<Servers(c)>>
    BY <1>1
  <1>7. /\ FlattenSeq(<<Addresses4(c)>>) = Addresses4(c)
        /\ FlattenSeq(<<Addresses6(c)>>) = Addresses6(c)
        /\ FlattenSeq(<<Servers(c)>>) = Servers(c)
    BY <1>5, FlattenOne
  <1>8. View(ifs, r) = ViewOf(c, r)
    BY <1>2, <1>3, <1>6, <1>7, Zenon DEF View, ViewOf, RoutesIn
  <1> QED
    BY <1>8 DEF ifs

-----------------------------------------------------------------------------
(* What a call makes of a configuration *)

\* A sequence is its first element and the rest.
LEMMA HeadTail ==
    ASSUME NEW S, NEW w \in Seq(S), w # <<>>
    PROVE  /\ Tail(w) \in Seq(S) /\ w = <<w[1]>> \o Tail(w) /\ Len(w) \in Nat
           /\ Len(w) <= 1 => w = <<w[1]>>
  <1> DEFINE z == <<w[1]>> \o Tail(w)
  <1>1. Len(w) \in Nat \ {0} /\ w[1] \in S /\ Tail(w) \in Seq(S) /\ Len(Tail(w)) = Len(w) - 1
    OBVIOUS
  <1>2. \A n \in 1 .. Len(w) - 1 : Tail(w)[n] = w[n + 1]
    OBVIOUS
  <1>3. z \in Seq(S) /\ Len(z) = Len(w)
    BY <1>1
  <1>4. \A n \in 1 .. Len(w) : w[n] = z[n]
    BY <1>1, <1>2
  <1> HIDE DEF z
  <1>5. w = z
    BY <1>3, <1>4, SameList
  <1>6. ASSUME Len(w) <= 1 PROVE w = <<w[1]>>
    <2>1. Len(w) = 1
      BY <1>1, <1>6
    <2> QED
      BY <2>1
  <1> QED
    BY <1>1, <1>5, <1>6 DEF z

\* What is read of numbered keys depends on them only.
LEMMA NumberedSame ==
    ASSUME NEW c, NEW e, NEW keys, NEW first \in Nat \ {0}, keys \in Seq(STRING),
           \A k \in ToSet(keys) : (k \in DOMAIN e <=> k \in DOMAIN c) /\ (k \in DOMAIN c => e[k] = c[k])
    PROVE  Numbered(e, keys, first) = Numbered(c, keys, first)
  <1>1. \A n \in DOMAIN keys : first .. n \subseteq DOMAIN keys /\ keys[n] \in ToSet(keys)
    BY DEF ToSet
  <1>2. ASSUME NEW n \in DOMAIN keys PROVE Part(e, keys, first, n) = Part(c, keys, first, n)
    <2>1. \A m \in first .. n : keys[m] \in DOMAIN e <=> keys[m] \in DOMAIN c
      BY <1>1
    <2>2. Key(e, keys[n]) = Key(c, keys[n])
      BY <1>1 DEF Key
    <2> QED
      BY <2>1, <2>2 DEF Part
  <1>3. Parts(e, keys, first) = Parts(c, keys, first)
    BY <1>2 DEF Parts
  <1> QED
    BY <1>3, PartFacts

\* Numbered keys give back what was put under them from the o-th on, if none before is
\* needed for the list to go on.
LEMMA NumberedGives ==
    ASSUME NEW S, NEW a \in Seq(S), NEW e, NEW keys \in Seq(STRING),
           NEW o \in Nat, NEW first \in Nat, o < first, o + Len(a) <= Len(keys),
           \A n \in DOMAIN keys : keys[n] \in DOMAIN e <=> o < n /\ n <= o + Len(a),
           \A n \in 1 .. Len(a) : e[keys[o + n]] = a[n]
    PROVE  Numbered(e, keys, first) = a
  <1> DEFINE ss == Parts(e, keys, first)
             N == Len(keys)
             L == Len(a)
  <1>1. /\ N \in Nat /\ DOMAIN keys = 1 .. N /\ Lists(ss, N) /\ L \in Nat
        /\ Numbered(e, keys, first) = FlattenSeq(ss)
        /\ \A n \in 1 .. N : ss[n] = Part(e, keys, first, n)
    BY PartFacts
  <1>2. /\ o + L <= N
        /\ \A n \in 1 .. N : keys[n] \in DOMAIN e <=> o < n /\ n <= o + L
        /\ \A n \in 1 .. L : e[keys[o + n]] = a[n]
    BY <1>1
  <1> HIDE DEF ss, N, L
  <1>3. ASSUME NEW n \in 1 .. N, n <= o \/ n > o + L PROVE ss[n] = <<>>
    <2>1. keys[n] \notin DOMAIN e
      BY <1>1, <1>2, <1>3
    <2> QED
      BY <1>1, <2>1 DEF Part, Key
  <1>4. ASSUME NEW n \in 1 .. L PROVE ss[o + n] = <<a[n]>>
    <2>1. /\ o + n \in 1 .. N /\ o < o + n /\ o + n <= o + L
          /\ \A m \in first .. o + n : m \in 1 .. N /\ o < m /\ m <= o + L
      BY <1>1, <1>2
    <2>2. keys[o + n] \in DOMAIN e /\ \A m \in first .. o + n : keys[m] \in DOMAIN e
      BY <1>2, <2>1
    <2>3. Part(e, keys, first, o + n) = <<e[keys[o + n]]>>
      BY <2>2 DEF Part, Key
    <2> QED
      BY <1>1, <1>2, <2>1, <2>3
  <1>5. FlattenSeq(ss) = a
    <2>1. /\ \A n \in 1 .. N : n <= o \/ n > o + Len(a) => ss[n] = <<>>
          /\ \A n \in 1 .. Len(a) : ss[o + n] = <<a[n]>>
          /\ o + Len(a) <= N /\ N \in Nat /\ Lists(ss, N)
      BY <1>1, <1>2, <1>3, <1>4 DEF L
    <2> QED
      BY ONLY <2>1, a \in Seq(S), o \in Nat, FlatElements
  <1> QED
    BY <1>1, <1>5

\* No key stands for two things.
LEMMA KeysApart ==
    /\ AddressKey \in Seq(STRING) /\ ServerKey \in Seq(STRING)
    /\ \A k \in ToSet(AddressKey) : k \notin ToSet(ServerKey) /\ k \notin SingleKeys
    /\ \A k \in ToSet(ServerKey) : k \notin SingleKeys
    /\ \A m, n \in DOMAIN AddressKey : AddressKey[m] = AddressKey[n] => m = n
    /\ \A m, n \in DOMAIN ServerKey : ServerKey[m] = ServerKey[n] => m = n
  BY KeysAssumption

\* The keys that are left.
LEMMA WithoutFacts ==
    ASSUME NEW c, NEW keys, NEW k
    PROVE  /\ k \in DOMAIN Without(c, keys) <=> k \in DOMAIN c /\ k \notin keys
           /\ k \in DOMAIN c /\ k \notin keys => Without(c, keys)[k] = c[k]
  BY DEF Without

\* The later function wins.
LEMMA WithFacts ==
    ASSUME NEW c, NEW d, NEW k
    PROVE  /\ k \in DOMAIN With(c, d) <=> k \in DOMAIN c \/ k \in DOMAIN d
           /\ k \in DOMAIN d => With(c, d)[k] = d[k]
           /\ k \in DOMAIN c /\ k \notin DOMAIN d => With(c, d)[k] = c[k]
  BY DEF With

\* nsSetDHCP starts the clients asked for and stops the others.
LEMMA DHCPView ==
    ASSUME NEW c, Sequence(Secondaries(c)), NEW on \in SUBSET {4, 6}, NEW r
    PROVE  /\ ViewOf(DHCPConfig(c, on), r) = [ViewOf(c, r) EXCEPT !.dhcp = on]
           /\ Sequence(Secondaries(DHCPConfig(c, on)))
  <1> DEFINE c0 == Without(c, {"DHCPV6C"})
             proto == IF 4 \in on THEN "dhcp" ELSE "none"
             c1 == Put(c0, "BOOTPROTO", proto, TRUE)
             c2 == Put(c1, "IPV6INIT", "yes", 6 \in on)
             e == Put(c2, "DHCPV6C", "yes", 6 \in on)
  <1>1. e = DHCPConfig(c, on)
    BY DEF DHCPConfig
  <1>2. /\ \A k : k \in DOMAIN c0 <=> k \in DOMAIN c /\ k # "DHCPV6C"
        /\ \A k \in DOMAIN c0 : c0[k] = c[k]
    BY WithoutFacts
  <1> HIDE DEF c0
  <1>3. /\ \A k : k \in DOMAIN c1 <=> k \in DOMAIN c0 \/ k = "BOOTPROTO"
        /\ c1["BOOTPROTO"] = proto
        /\ \A k \in DOMAIN c0 : k # "BOOTPROTO" => c1[k] = c0[k]
    BY DEF Put, With
  <1> HIDE DEF c1, proto
  <1>4. /\ \A k : k \in DOMAIN c2 <=> k \in DOMAIN c1 \/ (6 \in on /\ k = "IPV6INIT")
        /\ \A k \in DOMAIN c1 : k # "IPV6INIT" => c2[k] = c1[k]
    BY DEF Put, With
  <1> HIDE DEF c2
  <1>5. /\ \A k : k \in DOMAIN e <=> k \in DOMAIN c2 \/ (6 \in on /\ k = "DHCPV6C")
        /\ 6 \in on => e["DHCPV6C"] = "yes"
        /\ \A k \in DOMAIN c2 : k # "DHCPV6C" => e[k] = c2[k]
    BY DEF Put, With
  <1> HIDE DEF e
  <1>6. ASSUME NEW k, k \notin {"BOOTPROTO", "IPV6INIT", "DHCPV6C"}
        PROVE  (k \in DOMAIN e <=> k \in DOMAIN c) /\ (k \in DOMAIN c => e[k] = c[k])
    BY <1>2, <1>3, <1>4, <1>5, <1>6
  <1>7. /\ "BOOTPROTO" \in DOMAIN e /\ e["BOOTPROTO"] = proto
        /\ "DHCPV6C" \in DOMAIN e <=> 6 \in on
        /\ 6 \in on => e["DHCPV6C"] = "yes"
    BY <1>2, <1>3, <1>4, <1>5
  <1>8. Clients(e) = on
    BY <1>7 DEF Clients, proto
  <1>9. ASSUME NEW k, k \notin {"BOOTPROTO", "IPV6INIT", "DHCPV6C"}
        PROVE  Key(e, k) = Key(c, k) /\ ValueIn(e, k) = ValueIn(c, k)
    BY <1>6, <1>9 DEF Key, ValueIn
  <1>10. Secondaries(e) = Secondaries(c)
    BY <1>6 DEF Secondaries
  <1>11. Addresses4(e) = Addresses4(c) /\ Servers(e) = Servers(c)
    <2>1. \A k \in ToSet(AddressKey) \cup ToSet(ServerKey) :
             (k \in DOMAIN e <=> k \in DOMAIN c) /\ (k \in DOMAIN c => e[k] = c[k])
      BY <1>6, KeysApart DEF SingleKeys
    <2> QED
      BY <2>1, NumberedSame, KeysApart DEF Addresses4, Servers
  <1>12. Addresses6(e) = Addresses6(c)
    <2>1. Key(e, "IPV6ADDR") = Key(c, "IPV6ADDR")
      BY <1>9
    <2> QED
      BY <1>10, <2>1, Zenon DEF Addresses6
  <1>13. /\ ValueIn(e, "GATEWAY") = ValueIn(c, "GATEWAY")
         /\ ValueIn(e, "IPV6_DEFAULTGW") = ValueIn(c, "IPV6_DEFAULTGW")
         /\ ValueIn(e, "MTU") = ValueIn(c, "MTU")
    BY <1>9
  <1>14. ViewOf(e, r) = [ViewOf(c, r) EXCEPT !.dhcp = on]
    BY <1>8, <1>11, <1>12, <1>13 DEF ViewOf
  <1> QED
    BY <1>1, <1>10, <1>14

\* The servers asked for replace those there were.
LEMMA DNSView ==
    ASSUME NEW c, Sequence(Secondaries(c)), NEW arg \in ServerArgs, NEW r
    PROVE  /\ ViewOf(DNSConfig(c, arg), r) = [ViewOf(c, r) EXCEPT !.servers = arg]
           /\ Sequence(Secondaries(DNSConfig(c, arg)))
  <1> DEFINE keys == ToSet(ServerKey) \cup {"PEERDNS"}
             c0 == Without(c, keys)
             s == [k \in {ServerKey[n] : n \in DOMAIN arg} |->
                      arg[CHOOSE n \in DOMAIN arg : ServerKey[n] = k]]
             c1 == With(c0, s)
             e == Put(c1, "PEERDNS", "no", arg # <<>>)
  <1>1. e = DNSConfig(c, arg)
    BY DEF DNSConfig
  <1>2. /\ arg \in Seq(Addresses) /\ Len(arg) <= Len(ServerKey)
        /\ Len(arg) \in Nat /\ DOMAIN arg = 1 .. Len(arg)
        /\ Len(ServerKey) \in Nat /\ DOMAIN ServerKey = 1 .. Len(ServerKey)
    <2>1. arg \in Seq(Addresses) /\ Len(arg) <= Len(ServerKey)
      BY ArgumentsAssumption
    <2>2. Len(arg) \in Nat /\ DOMAIN arg = 1 .. Len(arg)
      BY <2>1
    <2> QED
      BY <2>1, <2>2, KeysApart
  <1>3. DOMAIN arg \subseteq DOMAIN ServerKey
    BY <1>2
  <1>4. \A n \in DOMAIN ServerKey : ServerKey[n] \in ToSet(ServerKey) /\ ServerKey[n] # "PEERDNS"
    BY KeysApart DEF ToSet, SingleKeys
  <1>5. /\ \A k : k \in DOMAIN c0 <=> k \in DOMAIN c /\ k \notin keys
        /\ \A k \in DOMAIN c0 : c0[k] = c[k]
    <2> HIDE DEF keys
    <2> QED
      BY WithoutFacts
  <1> HIDE DEF c0
  <1>6. /\ \A k : k \in DOMAIN s <=> \E n \in DOMAIN arg : ServerKey[n] = k
        /\ \A n \in DOMAIN arg : s[ServerKey[n]] = arg[n]
    <2>1. DOMAIN s = {ServerKey[n] : n \in DOMAIN arg}
      OBVIOUS
    <2>2. ASSUME NEW n \in DOMAIN arg PROVE s[ServerKey[n]] = arg[n]
      <3>1. \A m \in DOMAIN arg : ServerKey[m] = ServerKey[n] => m = n
        BY <1>3, KeysApart
      <3>2. (CHOOSE m \in DOMAIN arg : ServerKey[m] = ServerKey[n]) = n
        BY <3>1
      <3> QED
        BY <2>1, <3>2
    <2> HIDE DEF s
    <2> QED
      BY <2>1, <2>2
  <1> HIDE DEF s
  <1>7. /\ \A k : k \in DOMAIN c1 <=> k \in DOMAIN c0 \/ k \in DOMAIN s
        /\ \A k \in DOMAIN s : c1[k] = s[k]
        /\ \A k \in DOMAIN c0 : k \notin DOMAIN s => c1[k] = c0[k]
    BY WithFacts
  <1> HIDE DEF c1
  <1>8. /\ \A k : k \in DOMAIN e <=> k \in DOMAIN c1 \/ (arg # <<>> /\ k = "PEERDNS")
        /\ \A k \in DOMAIN c1 : k # "PEERDNS" => e[k] = c1[k]
    BY DEF Put, With
  <1> HIDE DEF e
  <1>9. ASSUME NEW k, k \notin keys
        PROVE  (k \in DOMAIN e <=> k \in DOMAIN c) /\ (k \in DOMAIN c => e[k] = c[k])
    <2>1. k \notin DOMAIN s /\ k # "PEERDNS"
      BY <1>3, <1>4, <1>6, <1>9
    <2> QED
      BY <1>5, <1>7, <1>8, <1>9, <2>1
  <1>10. /\ \A n \in DOMAIN ServerKey : ServerKey[n] \in DOMAIN e <=> n \in DOMAIN arg
         /\ \A n \in DOMAIN arg : e[ServerKey[n]] = arg[n]
    <2>1. ASSUME NEW n \in DOMAIN ServerKey
          PROVE  /\ ServerKey[n] \in DOMAIN e <=> n \in DOMAIN arg
                 /\ n \in DOMAIN arg => e[ServerKey[n]] = arg[n]
      <3>1. ServerKey[n] \in DOMAIN s <=> n \in DOMAIN arg
        BY <1>3, <1>6, KeysApart
      <3>2. ServerKey[n] \notin DOMAIN c0 /\ ServerKey[n] # "PEERDNS"
        BY <1>4, <1>5
      <3> QED
        BY <1>6, <1>7, <1>8, <3>1, <3>2
    <2> QED
      BY <1>3, <2>1
  <1>11. Servers(e) = arg
    <2> DEFINE o == 0
               first == 1
    <2>1. \A n \in DOMAIN ServerKey : ServerKey[n] \in DOMAIN e <=> o < n /\ n <= o + Len(arg)
      BY <1>2, <1>10
    <2>2. \A n \in 1 .. Len(arg) : e[ServerKey[o + n]] = arg[n]
      <3>1. \A n \in 1 .. Len(arg) : o + n = n
        OBVIOUS
      <3> HIDE DEF o
      <3> QED
        BY <1>2, <1>10, <3>1
    <2>3. o \in Nat /\ first \in Nat /\ o < first /\ o + Len(arg) <= Len(ServerKey)
      BY <1>2
    <2>4. arg \in Seq(Addresses) /\ ServerKey \in Seq(STRING)
      BY <1>2, KeysApart
    <2>5. Numbered(e, ServerKey, first) = arg
      <3> HIDE DEF o, first
      <3> QED
        BY ONLY <2>1, <2>2, <2>3, <2>4, NumberedGives
    <2> QED
      BY <2>5 DEF Servers
  <1>12. \A k \in SingleKeys \ {"PEERDNS"} : k \notin keys
    BY KeysApart
  <1> HIDE DEF keys
  <1>13. ASSUME NEW k, k \notin keys
         PROVE  Key(e, k) = Key(c, k) /\ ValueIn(e, k) = ValueIn(c, k)
    BY <1>9, <1>13 DEF Key, ValueIn
  <1>14. Secondaries(e) = Secondaries(c)
    BY <1>12, <1>9 DEF Secondaries, SingleKeys
  <1>15. Addresses4(e) = Addresses4(c)
    <2>1. \A k \in ToSet(AddressKey) :
             (k \in DOMAIN e <=> k \in DOMAIN c) /\ (k \in DOMAIN c => e[k] = c[k])
      BY <1>9, KeysApart DEF SingleKeys, keys
    <2> QED
      BY <2>1, NumberedSame, KeysApart DEF Addresses4
  <1>16. Addresses6(e) = Addresses6(c)
    <2>1. Key(e, "IPV6ADDR") = Key(c, "IPV6ADDR")
      BY <1>12, <1>13 DEF SingleKeys
    <2> QED
      BY <1>14, <2>1, Zenon DEF Addresses6
  <1>17. Clients(e) = Clients(c)
    BY <1>12, <1>9 DEF Clients, SingleKeys
  <1>18. /\ ValueIn(e, "GATEWAY") = ValueIn(c, "GATEWAY")
         /\ ValueIn(e, "IPV6_DEFAULTGW") = ValueIn(c, "IPV6_DEFAULTGW")
         /\ ValueIn(e, "MTU") = ValueIn(c, "MTU")
    BY <1>12, <1>13 DEF SingleKeys
  <1>19. ViewOf(e, r) = [ViewOf(c, r) EXCEPT !.servers = arg]
    BY <1>11, <1>15, <1>16, <1>17, <1>18 DEF ViewOf
  <1> QED
    BY <1>1, <1>14, <1>19

\* The addresses and gateways asked for replace those there were.
LEMMA AddressView ==
    ASSUME NEW c, NEW arg \in AddressArgs, NEW r
    PROVE  /\ ViewOf(AddressConfig(c, arg), r)
                = [ViewOf(c, r) EXCEPT !.addresses = arg]
           /\ Sequence(Secondaries(AddressConfig(c, arg)))
  <1> DEFINE four == ToSet(AddressKey)
             keys == four \cup {"IPV6ADDR", "IPV6ADDR_SECONDARIES", "GATEWAY", "IPV6_DEFAULTGW"}
             c0 == Without(c, AddressKeys)
             s == [k \in {AddressKey[n + 1] : n \in DOMAIN arg.v4} |->
                      arg.v4[CHOOSE n \in DOMAIN arg.v4 : AddressKey[n + 1] = k]]
             c1 == With(c0, s)
             c2 == Put(c1, "IPV6ADDR", arg.v6[1], arg.v6 # <<>>)
             c3 == Put(c2, "IPV6ADDR_SECONDARIES", Tail(arg.v6), Len(arg.v6) > 1)
             c4 == Put(c3, "GATEWAY", arg.gateway4, arg.gateway4 # Nil)
             e == Put(c4, "IPV6_DEFAULTGW", arg.gateway6, arg.gateway6 # Nil)
             v == arg.v4
             u == arg.v6
             L == Len(v)
             N == Len(AddressKey)
  <1>1. e = AddressConfig(c, arg)
    BY DEF AddressConfig
  <1>2. /\ v \in Seq(Addresses) /\ u \in Seq(Addresses) /\ L < N
        /\ L \in Nat /\ DOMAIN v = 1 .. L
        /\ N \in Nat /\ DOMAIN AddressKey = 1 .. N
    <2>1. v \in Seq(Addresses) /\ L < N /\ u \in Seq(Addresses)
      BY ArgumentsAssumption
    <2>2. L \in Nat /\ DOMAIN v = 1 .. L
      BY <2>1
    <2> QED
      BY <2>1, <2>2, KeysApart
  <1>3. \A n \in 1 .. L : n + 1 \in DOMAIN AddressKey
    BY <1>2
  <1>4. AddressKeys = keys
    BY DEF AddressKeys
  <1>5. /\ \A k : k \in DOMAIN c0 <=> k \in DOMAIN c /\ k \notin keys
        /\ \A k \in DOMAIN c0 : c0[k] = c[k]
    <2> HIDE DEF keys
    <2> QED
      BY <1>4, WithoutFacts
  <1> HIDE DEF c0
  <1>6. /\ \A k : k \in DOMAIN s <=> \E n \in 1 .. L : AddressKey[n + 1] = k
        /\ \A n \in 1 .. L : s[AddressKey[n + 1]] = v[n]
    <2>1. DOMAIN s = {AddressKey[n + 1] : n \in DOMAIN v}
      OBVIOUS
    <2>2. ASSUME NEW n \in DOMAIN v PROVE s[AddressKey[n + 1]] = v[n]
      <3>1. ASSUME NEW m \in DOMAIN v, AddressKey[m + 1] = AddressKey[n + 1] PROVE m = n
        <4>1. m \in 1 .. L /\ n \in 1 .. L
          BY <1>2
        <4>2. m + 1 = n + 1
          BY <1>3, <3>1, <4>1, KeysApart
        <4> QED
          BY <4>1, <4>2
      <3>2. (CHOOSE m \in DOMAIN v : AddressKey[m + 1] = AddressKey[n + 1]) = n
        <4> HIDE DEF v
        <4> QED
          BY <3>1
      <3> QED
        BY <2>1, <3>2
    <2> HIDE DEF s, v, L
    <2> QED
      BY <1>2, <2>1, <2>2
  <1> HIDE DEF s, four, L, N
  <1>7. /\ \A k \in DOMAIN s : k \in four
        /\ \A k \in four : k \notin SingleKeys
        /\ \A n \in DOMAIN AddressKey : AddressKey[n] \in four
    BY <1>3, <1>6, KeysApart DEF four, ToSet
  <1>8. /\ \A k : k \in DOMAIN c1 <=> k \in DOMAIN c0 \/ k \in DOMAIN s
        /\ \A k \in DOMAIN s : c1[k] = s[k]
        /\ \A k \in DOMAIN c0 : k \notin DOMAIN s => c1[k] = c0[k]
    BY WithFacts
  <1> HIDE DEF c1
  <1>9. /\ \A k : k \in DOMAIN c2 <=> k \in DOMAIN c1 \/ (u # <<>> /\ k = "IPV6ADDR")
        /\ u # <<>> => c2["IPV6ADDR"] = u[1]
        /\ \A k \in DOMAIN c1 : k # "IPV6ADDR" => c2[k] = c1[k]
    BY DEF Put, With
  <1> HIDE DEF c2
  <1>10. /\ \A k : k \in DOMAIN c3 <=> k \in DOMAIN c2 \/ (Len(u) > 1 /\ k = "IPV6ADDR_SECONDARIES")
         /\ Len(u) > 1 => c3["IPV6ADDR_SECONDARIES"] = Tail(u)
         /\ \A k \in DOMAIN c2 : k # "IPV6ADDR_SECONDARIES" => c3[k] = c2[k]
    BY DEF Put, With
  <1> HIDE DEF c3
  <1>11. /\ \A k : k \in DOMAIN c4 <=> k \in DOMAIN c3 \/ (arg.gateway4 # Nil /\ k = "GATEWAY")
         /\ arg.gateway4 # Nil => c4["GATEWAY"] = arg.gateway4
         /\ \A k \in DOMAIN c3 : k # "GATEWAY" => c4[k] = c3[k]
    BY DEF Put, With
  <1> HIDE DEF c4
  <1>12. /\ \A k : k \in DOMAIN e <=> k \in DOMAIN c4 \/ (arg.gateway6 # Nil /\ k = "IPV6_DEFAULTGW")
         /\ arg.gateway6 # Nil => e["IPV6_DEFAULTGW"] = arg.gateway6
         /\ \A k \in DOMAIN c4 : k # "IPV6_DEFAULTGW" => e[k] = c4[k]
    BY DEF Put, With
  <1> HIDE DEF e
  <1>13. ASSUME NEW k, k \notin keys
         PROVE  (k \in DOMAIN e <=> k \in DOMAIN c) /\ (k \in DOMAIN c => e[k] = c[k])
    BY <1>5, <1>7, <1>8, <1>9, <1>10, <1>11, <1>12, <1>13
  <1>14. ASSUME NEW k \in four
         PROVE  (k \in DOMAIN e <=> k \in DOMAIN s) /\ (k \in DOMAIN s => e[k] = s[k])
    BY <1>5, <1>7, <1>8, <1>9, <1>10, <1>11, <1>12 DEF SingleKeys
  <1>15. /\ "IPV6ADDR" \in DOMAIN e <=> u # <<>>
         /\ u # <<>> => e["IPV6ADDR"] = u[1]
    BY <1>5, <1>7, <1>8, <1>9, <1>10, <1>11, <1>12 DEF SingleKeys
  <1>16. /\ "IPV6ADDR_SECONDARIES" \in DOMAIN e <=> Len(u) > 1
         /\ Len(u) > 1 => e["IPV6ADDR_SECONDARIES"] = Tail(u)
    BY <1>5, <1>7, <1>8, <1>9, <1>10, <1>11, <1>12 DEF SingleKeys
  <1>17. /\ ValueIn(e, "GATEWAY") = arg.gateway4
         /\ ValueIn(e, "IPV6_DEFAULTGW") = arg.gateway6
    BY <1>5, <1>7, <1>8, <1>9, <1>10, <1>11, <1>12 DEF ValueIn, SingleKeys
  <1>18. Addresses4(e) = v
    <2> HIDE DEF v
    <2> DEFINE o == 1
               first == 4
    <2>1. ASSUME NEW n \in DOMAIN AddressKey
          PROVE  AddressKey[n] \in DOMAIN e <=> o < n /\ n <= o + L
      <3>1. AddressKey[n] \in DOMAIN e <=> \E m \in 1 .. L : AddressKey[m + 1] = AddressKey[n]
        BY <1>6, <1>14, <1>7
      <3>2. \A m \in 1 .. L : AddressKey[m + 1] = AddressKey[n] <=> m + 1 = n
        BY <1>3, KeysApart
      <3>3. (\E m \in 1 .. L : m + 1 = n) <=> 1 < n /\ n <= 1 + L
        <4>1. n \in Nat
          BY <1>2
        <4>2. ASSUME 1 < n, n <= 1 + L PROVE n - 1 \in 1 .. L /\ (n - 1) + 1 = n
          BY <1>2, <4>1, <4>2
        <4> QED
          BY <1>2, <4>1, <4>2
      <3> QED
        BY <3>1, <3>2, <3>3
    <2>2. ASSUME NEW n \in 1 .. L PROVE e[AddressKey[o + n]] = v[n]
      <3>1. o + n = n + 1
        OBVIOUS
      <3>2. AddressKey[n + 1] \in DOMAIN s /\ AddressKey[n + 1] \in four
        BY <1>3, <1>6, <1>7
      <3>3. e[AddressKey[n + 1]] = v[n]
        BY <1>6, <1>14, <3>2
      <3> QED
        BY <3>1, <3>3
    <2>3. o \in Nat /\ first \in Nat /\ o < first /\ o + L <= N
      BY <1>2
    <2>4. v \in Seq(Addresses) /\ AddressKey \in Seq(STRING)
      BY <1>2, KeysApart
    <2>5. Numbered(e, AddressKey, first) = v
      <3> HIDE DEF o, first
      <3>1. /\ \A n \in DOMAIN AddressKey : AddressKey[n] \in DOMAIN e <=> o < n /\ n <= o + Len(v)
            /\ \A n \in 1 .. Len(v) : e[AddressKey[o + n]] = v[n]
            /\ o + Len(v) <= Len(AddressKey)
        BY <2>1, <2>2, <2>3 DEF L, N
      <3> QED
        BY ONLY <2>3, <2>4, <3>1, NumberedGives
    <2> QED
      BY <2>5 DEF Addresses4
  <1>19. Addresses6(e) = u /\ Sequence(Secondaries(e))
    <2> DEFINE w == u
    <2>1. w \in Seq(Addresses)
      BY <1>2
    <2>2. Addresses6(e) = Key(e, "IPV6ADDR") \o Secondaries(e)
      BY DEF Addresses6
    <2>3. /\ Key(e, "IPV6ADDR") = IF w # <<>> THEN <<w[1]>> ELSE <<>>
          /\ Secondaries(e) = IF Len(w) > 1 THEN Tail(w) ELSE <<>>
      BY <1>15, <1>16 DEF Key, Secondaries
    <2> HIDE DEF w
    <2>4. CASE w = <<>>
      <3>1. <<>> \o <<>> = w /\ ~(Len(w) > 1)
        BY <2>4
      <3>2. Secondaries(e) = <<>> /\ Key(e, "IPV6ADDR") = <<>>
        BY <2>3, <2>4, <3>1
      <3> QED
        BY <2>2, <3>1, <3>2, Single DEF w
    <2>5. CASE w # <<>> /\ ~(Len(w) > 1)
      <3>1. Len(w) <= 1
        BY <2>1, <2>5
      <3>2. w = <<w[1]>> /\ <<w[1]>> \o <<>> = <<w[1]>>
        BY <2>1, <2>5, <3>1, HeadTail, Single, Cat
      <3>3. Secondaries(e) = <<>> /\ Key(e, "IPV6ADDR") = <<w[1]>>
        BY <2>3, <2>5
      <3> QED
        BY <2>2, <3>2, <3>3, Single DEF w
    <2>6. CASE Len(w) > 1
      <3>1. w # <<>>
        BY <2>6
      <3>2. Tail(w) \in Seq(Addresses) /\ w = <<w[1]>> \o Tail(w)
        BY <2>1, <3>1, HeadTail
      <3>3. Secondaries(e) = Tail(w) /\ Key(e, "IPV6ADDR") = <<w[1]>>
        BY <2>3, <2>6, <3>1
      <3>4. Sequence(Tail(w))
        BY <3>2 DEF Sequence
      <3> QED
        BY <2>2, <3>2, <3>3, <3>4 DEF w
    <2> QED
      BY <2>4, <2>5, <2>6
  <1>20. \A k \in {"BOOTPROTO", "DHCPV6C", "MTU"} \cup ToSet(ServerKey) : k \notin keys
    BY KeysApart DEF SingleKeys, four
  <1> HIDE DEF keys
  <1>21. Servers(e) = Servers(c)
    <2>1. \A k \in ToSet(ServerKey) :
             (k \in DOMAIN e <=> k \in DOMAIN c) /\ (k \in DOMAIN c => e[k] = c[k])
      BY <1>13, <1>20
    <2> QED
      BY <2>1, NumberedSame, KeysApart DEF Servers
  <1>22. Clients(e) = Clients(c) /\ ValueIn(e, "MTU") = ValueIn(c, "MTU")
    BY <1>13, <1>20 DEF Clients, ValueIn
  <1> HIDE DEF v, u
  <1>23. [v4 |-> Addresses4(e), v6 |-> Addresses6(e), gateway4 |-> ValueIn(e, "GATEWAY"),
          gateway6 |-> ValueIn(e, "IPV6_DEFAULTGW")] = arg
    <2>1. arg = [v4 |-> v, v6 |-> u, gateway4 |-> arg.gateway4, gateway6 |-> arg.gateway6]
      BY ArgumentsAssumption DEF v, u
    <2> QED
      BY <1>17, <1>18, <1>19, <2>1, Zenon
  <1>24. ViewOf(e, r) = [ViewOf(c, r) EXCEPT !.addresses = arg]
    BY <1>21, <1>22, <1>23 DEF ViewOf
  <1> QED
    BY <1>1, <1>19, <1>24

-----------------------------------------------------------------------------
(* Reading a directory again *)

\* One step of reading, as an equation.
LEMMA ReadStep ==
    ASSUME NEW d, NEW n, NEW h \in 0 .. Len(FileOrder) - 1
    PROVE  /\ h + 1 \in 0 .. Len(FileOrder) /\ FileOrder[h + 1] \in IfFiles
           /\ IfFilesUpTo(d, n)[h + 1] =
                IF d[FileOrder[h + 1]] # Absent /\ OwnerOf[FileOrder[h + 1]] = n
                THEN Append(IfFilesUpTo(d, n)[h], IfFile(d, FileOrder[h + 1]))
                ELSE IfFilesUpTo(d, n)[h]
  <1>0. FileOrder \in Seq(Files)
    BY ScriptsAssumption
  <1>1. /\ Len(FileOrder) \in Nat /\ DOMAIN FileOrder = 1 .. Len(FileOrder)
        /\ h + 1 \in 1 .. Len(FileOrder) /\ (h + 1) - 1 = h /\ h + 1 \in 0 .. Len(FileOrder)
    BY <1>0
  <1>2. FileOrder[h + 1] \in IfFiles
    BY <1>1 DEF IfFiles, ToSet
  <1> DEFINE F == IfFilesUpTo(d, n)
  <1>3. \A m \in 1 .. Len(FileOrder) :
           F[m] = IF d[FileOrder[m]] # Absent /\ OwnerOf[FileOrder[m]] = n
                  THEN Append(F[m - 1], IfFile(d, FileOrder[m])) ELSE F[m - 1]
    BY ReadEquation
  <1> HIDE DEF F
  <1>4. F[(h + 1) - 1] = F[h]
    BY <1>1
  <1>5. F[h + 1] = IF d[FileOrder[h + 1]] # Absent /\ OwnerOf[FileOrder[h + 1]] = n
                   THEN Append(F[h], IfFile(d, FileOrder[h + 1])) ELSE F[h]
    BY <1>1, <1>3, <1>4
  <1> QED
    BY <1>1, <1>2, <1>5 DEF F

\* Of an interface only its own files are read.
LEMMA ReadSame ==
    ASSUME NEW d, NEW e, NEW n \in Iface, \A f \in IfFiles : OwnerOf[f] = n => d[f] = e[f]
    PROVE  ReadIfFiles(d)[n] = ReadIfFiles(e)[n]
  <1> DEFINE N == Len(FileOrder)
             T == {m \in 0 .. N : IfFilesUpTo(d, n)[m] = IfFilesUpTo(e, n)[m]}
  <1>0. N \in Nat
    BY ScriptsAssumption
  <1>1. 0 \in T
    BY <1>0, ReadEquation
  <1>2. ASSUME NEW h \in 0 .. N - 1, h \in T PROVE h + 1 \in T
    <2> DEFINE f == FileOrder[h + 1]
    <2>1. h + 1 \in 0 .. N /\ f \in IfFiles
      BY ReadStep
    <2>2. IfFilesUpTo(d, n)[h + 1] = IF d[f] # Absent /\ OwnerOf[f] = n
                                     THEN Append(IfFilesUpTo(d, n)[h], IfFile(d, f))
                                     ELSE IfFilesUpTo(d, n)[h]
      BY ReadStep
    <2>3. IfFilesUpTo(e, n)[h + 1] = IF e[f] # Absent /\ OwnerOf[f] = n
                                     THEN Append(IfFilesUpTo(e, n)[h], IfFile(e, f))
                                     ELSE IfFilesUpTo(e, n)[h]
      BY ReadStep
    <2>4. OwnerOf[f] = n => d[f] = e[f] /\ IfFile(d, f) = IfFile(e, f)
      BY <2>1 DEF IfFile
    <2>5. IfFilesUpTo(d, n)[h] = IfFilesUpTo(e, n)[h]
      BY <1>2
    <2>6. IfFilesUpTo(d, n)[h + 1] = IfFilesUpTo(e, n)[h + 1]
      BY <2>2, <2>3, <2>4, <2>5, Zenon
    <2> QED
      BY <2>1, <2>6
  <1>3. 0 .. N \subseteq T
    <2> HIDE DEF T, N
    <2> QED
      BY <1>0, <1>1, <1>2, Induction
  <1>4. N \in T
    BY <1>0, <1>3
  <1> QED
    BY <1>4 DEF ReadIfFiles

\* What is read of a file is what it says.
LEMMA ReadTexts ==
    ASSUME NEW d, NEW n \in Iface
    PROVE  \A m \in DOMAIN ReadIfFiles(d)[n] :
              ReadIfFiles(d)[n][m].config = d[ReadIfFiles(d)[n][m].name]
  <1> DEFINE N == Len(FileOrder)
             F == IfFilesUpTo(d, n)
             T == {m \in 0 .. N : \A p \in DOMAIN F[m] : F[m][p].config = d[F[m][p].name]}
             U == {m \in 0 .. N : m \in T /\ Sequence(F[m])}
  <1>0. N \in Nat
    BY ScriptsAssumption
  <1>1. 0 \in U
    <2>1. F[0] = <<>>
      BY ReadEquation
    <2>2. Sequence(<<>>)
      BY Single
    <2> HIDE DEF F
    <2> QED
      BY <1>0, <2>1, <2>2
  <1>2. ASSUME NEW h \in 0 .. N - 1, h \in U PROVE h + 1 \in U
    <2> DEFINE f == FileOrder[h + 1]
    <2>1. h + 1 \in 0 .. N
      BY ReadStep
    <2>2. F[h + 1] = IF d[f] # Absent /\ OwnerOf[f] = n THEN Append(F[h], IfFile(d, f)) ELSE F[h]
      BY ReadStep
    <2>3. Sequence(F[h]) /\ \A p \in DOMAIN F[h] : F[h][p].config = d[F[h][p].name]
      BY <1>2
    <2> HIDE DEF F, f
    <2>4. CASE F[h + 1] = F[h]
      BY <2>1, <2>3, <2>4
    <2>5. CASE F[h + 1] = Append(F[h], IfFile(d, f))
      <3> DEFINE e == IfFile(d, f)
                 q == F[h + 1]
                 s == F[h]
      <3>1. PICK S : s \in Seq(S)
        BY <2>3 DEF Sequence
      <3>2. e.config = d[e.name]
        BY DEF IfFile
      <3>3. q = Append(s, e)
        BY <2>5
      <3> HIDE DEF e, q, s
      <3>4. /\ q \in Seq(S \cup {e}) /\ DOMAIN q = DOMAIN s \cup {Len(s) + 1}
            /\ q[Len(s) + 1] = e /\ \A p \in DOMAIN s : q[p] = s[p]
        BY <3>1, <3>3
      <3>5. \A p \in DOMAIN q : q[p].config = d[q[p].name]
        BY <2>3, <3>2, <3>4 DEF s
      <3> QED
        BY <2>1, <3>4, <3>5 DEF Sequence, q
    <2> QED
      BY <2>2, <2>4, <2>5
  <1>3. 0 .. N \subseteq U
    <2> HIDE DEF U, N
    <2> QED
      BY <1>0, <1>1, <1>2, Induction
  <1>4. N \in U
    BY <1>0, <1>3
  <1> QED
    BY <1>4 DEF ReadIfFiles

\* An interface with one file, under its own name.
LEMMA ReadMain ==
    ASSUME NEW d, NEW n \in Iface, d[Main[n]] # Absent,
           \A f \in IfFiles : OwnerOf[f] = n /\ f # Main[n] => d[f] = Absent
    PROVE  ReadIfFiles(d)[n] = <<[name |-> Main[n], config |-> d[Main[n]]]>>
  <1> DEFINE N == Len(FileOrder)
             F == IfFilesUpTo(d, n)
             e == IfFile(d, Main[n])
             Seen(m) == \E k \in 1 .. m : FileOrder[k] = Main[n]
             T == {m \in 0 .. N : F[m] = IF Seen(m) THEN <<e>> ELSE <<>>}
  <1>0. N \in Nat /\ DOMAIN FileOrder = 1 .. N
    <2>1. FileOrder \in Seq(Files)
      BY ScriptsAssumption
    <2> QED
      BY <2>1
  <1>1. 0 \in T
    <2>1. F[0] = <<>> /\ 1 .. 0 = {}
      BY ReadEquation
    <2> HIDE DEF F, e
    <2> QED
      BY <1>0, <2>1
  <1>2. ASSUME NEW h \in 0 .. N - 1, h \in T PROVE h + 1 \in T
    <2> DEFINE f == FileOrder[h + 1]
    <2>1. h + 1 \in 0 .. N /\ f \in IfFiles
      BY ReadStep
    <2>2. F[h + 1] = IF d[f] # Absent /\ OwnerOf[f] = n THEN Append(F[h], IfFile(d, f)) ELSE F[h]
      BY ReadStep
    <2>3. F[h] = IF Seen(h) THEN <<e>> ELSE <<>>
      BY <1>2
    <2>4. 1 .. h + 1 = (1 .. h) \cup {h + 1}
      BY <1>0
    <2>5. CASE f = Main[n]
      <3>1. ~Seen(h)
        <4> SUFFICES ASSUME NEW k \in 1 .. h, FileOrder[k] = Main[n] PROVE FALSE
          OBVIOUS
        <4>1. k \in DOMAIN FileOrder /\ h + 1 \in DOMAIN FileOrder /\ k # h + 1
          BY <1>0
        <4> QED
          BY <2>5, <4>1, ScriptsAssumption
      <3>2. Seen(h + 1)
        BY <2>4, <2>5
      <3>3. OwnerOf[f] = n
        BY <2>5, ScriptsAssumption
      <3>4. F[h + 1] = Append(<<>>, e)
        BY <2>2, <2>3, <2>5, <3>1, <3>3
      <3>5. Append(<<>>, e) = <<e>>
        OBVIOUS
      <3> QED
        BY <2>1, <3>2, <3>4, <3>5
    <2>6. CASE f # Main[n]
      <3>1. Seen(h + 1) <=> Seen(h)
        BY <2>4, <2>6
      <3>2. F[h + 1] = F[h]
        BY <2>1, <2>2, <2>6
      <3> QED
        BY <2>1, <2>3, <3>1, <3>2
    <2> QED
      BY <2>5, <2>6
  <1>3. 0 .. N \subseteq T
    <2> HIDE DEF T, N
    <2> QED
      BY <1>0, <1>1, <1>2, Induction
  <1>4. N \in T
    BY <1>0, <1>3
  <1>5. Seen(N)
    <2>1. Main[n] \in IfFiles
      BY ScriptsAssumption
    <2> QED
      BY <2>1, Placed
  <1>6. F[N] = <<e>>
    BY <1>4, <1>5
  <1> QED
    BY <1>6 DEF ReadIfFiles, IfFile

-----------------------------------------------------------------------------
(* What a call was asked and what a new process reads *)

\* A directory whose secondary addresses are lists.
Typed(d) == \A f \in IfFiles : d[f] # Absent => Sequence(Secondaries(d[f]))

ListTyped(ifs) == \A m \in DOMAIN ifs : Sequence(Secondaries(ifs[m].config))

TextsInv == Typed(disk) /\ Typed(tmp) /\ \A n \in Iface : ListTyped(ifFiles[n])

IfAsked ==
    \/ /\ call.op = "addresses" /\ call.asked \in AddressArgs
       /\ new = AddressConfig(Merged(ifFiles[name]), call.asked)
    \/ /\ call.op = "dhcp" /\ call.asked \in SUBSET {4, 6}
       /\ new = DHCPConfig(Merged(ifFiles[name]), call.asked)
    \/ /\ call.op = "dns" /\ call.asked \in ServerArgs
       /\ new = DNSConfig(Merged(ifFiles[name]), call.asked)

RoutesAsked == call.op = "routes" /\ call.asked \in RouteArgs /\ new = call.asked

\* What a call is about to save is what it was asked, put into what memory has.
AskedInv ==
    /\ pc \in {"write", "backup"} => IfAsked
    /\ pc \in {"writeRoutes", "backupRoutes", "installRoutes"} => RoutesAsked

\* Memory is what a process started now would read.
Read(d) == ifFiles = ReadIfFiles(d) /\ routeFiles = ReadRouteFiles(d)

RouteText(k) == [routes |-> new[Family[k]]]
WrittenRoutes(k) == new[Family[k]] # {} => tmp[RouteOf(k)] = RouteText(k)
PlacedRoutes(k) == new[Family[k]] # {} => disk[RouteOf(k)] = RouteText(k)

\* What ReadsBackAsAsked says of a call that is done.
ReadsBack ==
    \A n \in Iface :
        LET before == View(pre.ifFiles[n], pre.routeFiles[n])
            after  == View(ReadIfFiles(disk)[n], ReadRouteFiles(disk)[n])
        IN  IF n # name THEN after = before
            ELSE SharedKeys(pre.ifFiles[n]) = {} /\ InOrder(pre.ifFiles[n]) => after = Asked(before)

\* Of a call without a failure.
WorldInv ==
    /\ pc \in {"idle", "prune", "pruneRoutes"} => Read(disk)
    /\ pc \in {"write", "backup", "writeRoutes", "backupRoutes", "installRoutes"} =>
          Read(pre.disk) /\ ifFiles = pre.ifFiles /\ routeFiles = pre.routeFiles
    /\ pc = "backup" => tmp[Main[name]] = new
    /\ pc = "writeRoutes" => \A k \in {1, 2} : k < j => WrittenRoutes(k)
    /\ pc = "backupRoutes" => \A k \in {1, 2} : WrittenRoutes(k)
    /\ pc = "installRoutes" =>
          \A k \in {1, 2} : IF k < j THEN PlacedRoutes(k) ELSE WrittenRoutes(k)
    /\ pc \in {"prune", "pruneRoutes"} => ReadsBack
    /\ pc = "idle" /\ ret = "ok" => ReadsBack

ReadsBackInv == TextsInv /\ AskedInv /\ (~faulted => WorldInv)

\* Reading the routes of an interface depends on its own route files.
LEMMA ReadRoutesSame ==
    ASSUME NEW d, NEW e, NEW n \in Iface, \A f \in {4, 6} : d[RouteFile[n][f]] = e[RouteFile[n][f]]
    PROVE  ReadRouteFiles(d)[n] = ReadRouteFiles(e)[n]
  BY DEF ReadRouteFiles

\* What is read of a directory of lists are lists.
LEMMA ReadTyped ==
    ASSUME NEW d, Typed(d), NEW n \in Iface
    PROVE  ListTyped(ReadIfFiles(d)[n])
  <1> DEFINE s == ReadIfFiles(d)[n]
  <1>1. \A m \in DOMAIN s : s[m].config = d[s[m].name]
    BY ReadTexts
  <1>2. \A m \in DOMAIN s : s[m].name \in IfFiles /\ d[s[m].name] # Absent
    BY ReadFacts DEF ReadOK, Listed
  <1> HIDE DEF s
  <1>3. ListTyped(s)
    BY <1>1, <1>2 DEF Typed, ListTyped
  <1> QED
    BY <1>3 DEF s

\* The lists of merged files are lists.
LEMMA MergedTyped ==
    ASSUME NEW ifs, Sequence(ifs), ListTyped(ifs)
    PROVE  Sequence(Secondaries(Merged(ifs)))
  <1> DEFINE key == "IPV6ADDR_SECONDARIES"
             c == Merged(ifs)
             having == {n \in DOMAIN ifs : key \in DOMAIN ifs[n].config}
  <1>1. CASE key \notin DOMAIN c
    BY <1>1, Single DEF Secondaries
  <1>2. CASE key \in DOMAIN c
    <2>1. having # {} /\ having \in SUBSET Nat
      <3>1. having # {}
        BY <1>2 DEF Merged
      <3>2. DOMAIN ifs \subseteq Nat
        BY DEF Sequence
      <3> QED
        BY <3>1, <3>2
    <2> DEFINE first == CHOOSE n \in having : \A m \in having : n <= m
    <2>2. c[key] = ifs[first].config[key]
      BY <1>2 DEF Merged
    <2>3. first \in having
      <3>1. \E n \in having : \A m \in having : n <= m
        <4> HIDE DEF having
        <4> QED
          BY <2>1, Least
      <3> HIDE DEF having
      <3> QED
        BY <3>1
    <2>4. first \in DOMAIN ifs /\ key \in DOMAIN ifs[first].config
      BY <2>3
    <2> HIDE DEF first, c
    <2>5. Secondaries(ifs[first].config) = Secondaries(c)
      BY <1>2, <2>2, <2>4 DEF Secondaries
    <2> QED
      BY <2>4, <2>5 DEF ListTyped, c
  <1> QED
    BY <1>1, <1>2

\* So are those a call is about to save.
LEMMA NewTyped ==
    ASSUME TextsInv, MemoryInv, name \in Iface, IfAsked
    PROVE  Sequence(Secondaries(new))
  <1>1. Sequence(Secondaries(Merged(ifFiles[name])))
    BY MergedTyped DEF TextsInv, MemoryInv, Listed
  <1>2. CASE /\ call.op = "addresses" /\ call.asked \in AddressArgs
             /\ new = AddressConfig(Merged(ifFiles[name]), call.asked)
    BY <1>2, AddressView
  <1>3. CASE /\ call.op = "dhcp" /\ call.asked \in SUBSET {4, 6}
             /\ new = DHCPConfig(Merged(ifFiles[name]), call.asked)
    BY <1>1, <1>3, DHCPView
  <1>4. CASE /\ call.op = "dns" /\ call.asked \in ServerArgs
             /\ new = DNSConfig(Merged(ifFiles[name]), call.asked)
    BY <1>1, <1>4, DNSView
  <1> QED
    BY <1>2, <1>3, <1>4 DEF IfAsked

\* What a new process reads depends on the directory, and what was asked on the call.
LEMMA SameReadsBack ==
    ASSUME disk' = disk, pre' = pre, call' = call, ReadsBack
    PROVE  ReadsBack'
  <1> DEFINE after(n) == View(ReadIfFiles(disk)[n], ReadRouteFiles(disk)[n])
             before(n) == View(pre.ifFiles[n], pre.routeFiles[n])
  <1>1. name' = name
    BY DEF name
  <1>2. \A v : Asked(v)' = Asked(v)
    BY DEF Asked
  <1> QED
    BY <1>1, <1>2 DEF ReadsBack

\* The directory is read before the first call.
LEMMA ReadsInit == Init => ReadsBackInv
  <1> SUFFICES ASSUME Init PROVE ReadsBackInv
    OBVIOUS
  <1>1. Typed(disk)
    <2>1. \A f \in IfFiles : disk[f] # Absent => Secondaries(disk[f]) \in Seq(Addresses)
      BY ArgumentsAssumption DEF Init
    <2> QED
      BY <2>1 DEF Typed, Sequence
  <1>2. Typed(tmp)
    <2>1. IfFiles \subseteq Files
      BY ScriptsAssumption DEF IfFiles, ToSet
    <2> QED
      BY <2>1 DEF Init, Typed
  <1>3. \A n \in Iface : ListTyped(ifFiles[n])
    BY <1>1, ReadTyped DEF Init
  <1>4. AskedInv
    BY DEF Init, AskedInv
  <1>5. WorldInv
    BY DEF Init, WorldInv, Read
  <1> QED
    BY <1>1, <1>2, <1>3, <1>4, <1>5 DEF ReadsBackInv, TextsInv

-----------------------------------------------------------------------------
(* The steps of a call, and what a new process reads *)

\* A call that stops where it is leaves the texts as they are.
LEMMA StopReads ==
    ASSUME ReadsBackInv, UNCHANGED <<files, mem>>, pc' = "idle", faulted'
    PROVE  ReadsBackInv'
  <1>1. TextsInv'
    BY DEF ReadsBackInv, TextsInv, Typed, files, mem
  <1>2. AskedInv'
    BY DEF AskedInv
  <1> QED
    BY <1>1, <1>2 DEF ReadsBackInv

\* A call that returns an error has failed before.
LEMMA ErrorReads ==
    ASSUME ReadsBackInv, ScriptsInv', NEW f, Fault \/ Missing(f)
    PROVE  ReadsBackInv'
  <1>1. UNCHANGED <<files, mem>> /\ pc' = "idle" /\ ret' = "error"
    BY DEF Fault, Missing
  <1>2. faulted'
    BY <1>1 DEF ScriptsInv, NoSpuriousError
  <1> QED
    BY <1>1, <1>2, StopReads

\* A call begins with what memory has, which is what there is to read.
LEMMA BeginReads ==
    ASSUME ReadsBackInv, NEW op, NEW iface \in Iface, NEW asked, NEW label, NEW what,
           Begin(op, iface, asked, label, what), label \in {"write", "writeRoutes"}, AskedInv'
    PROVE  ReadsBackInv'
  <1>1. /\ pc = "idle" /\ pc' = label /\ j' = 1
        /\ pre' = [disk |-> disk, ifFiles |-> ifFiles, routeFiles |-> routeFiles,
                   faulted |-> faulted]
        /\ disk' = disk /\ tmp' = tmp
        /\ ifFiles' = ifFiles /\ routeFiles' = routeFiles /\ faulted' = faulted
    BY DEF Begin, files, mem
  <1>2. TextsInv'
    BY <1>1 DEF ReadsBackInv, TextsInv, Typed
  <1>3. ~faulted => WorldInv'
    <2> SUFFICES ASSUME ~faulted PROVE WorldInv'
      OBVIOUS
    <2>1. Read(disk)
      BY <1>1 DEF ReadsBackInv, WorldInv
    <2>2. Read(pre.disk)' /\ ifFiles' = pre'.ifFiles /\ routeFiles' = pre'.routeFiles
      BY <1>1, <2>1 DEF Read
    <2>3. \A k \in {1, 2} : ~(k < 1)
      OBVIOUS
    <2> QED
      BY <1>1, <2>2, <2>3 DEF WorldInv
  <1> QED
    BY <1>1, <1>2, <1>3 DEF ReadsBackInv

\* A call begins with its argument put into the merged files.
LEMMA CallsRead ==
    ASSUME ReadsBackInv,
           SetIfaceAddresses \/ SetIfaceDHCP \/ SetIfaceDNS \/ SetIfaceRoutes
    PROVE  ReadsBackInv'
  <1>1. CASE SetIfaceAddresses
    <2>1. PICK iface \in Iface, arg \in AddressArgs :
             Begin("addresses", iface, arg, "write", AddressConfig(Merged(ifFiles[iface]), arg))
      BY <1>1 DEF SetIfaceAddresses
    <2>2. AskedInv'
      BY <2>1 DEF Begin, AskedInv, IfAsked, mem, name
    <2> QED
      BY <2>1, <2>2, BeginReads
  <1>2. CASE SetIfaceDHCP
    <2>1. PICK iface \in Iface, on \in SUBSET {4, 6} :
             Begin("dhcp", iface, on, "write", DHCPConfig(Merged(ifFiles[iface]), on))
      BY <1>2 DEF SetIfaceDHCP
    <2>2. AskedInv'
      BY <2>1 DEF Begin, AskedInv, IfAsked, mem, name
    <2> QED
      BY <2>1, <2>2, BeginReads
  <1>3. CASE SetIfaceDNS
    <2>1. PICK iface \in Iface, arg \in ServerArgs :
             Begin("dns", iface, arg, "write", DNSConfig(Merged(ifFiles[iface]), arg))
      BY <1>3 DEF SetIfaceDNS
    <2>2. AskedInv'
      BY <2>1 DEF Begin, AskedInv, IfAsked, mem, name
    <2> QED
      BY <2>1, <2>2, BeginReads
  <1>4. CASE SetIfaceRoutes
    <2>1. PICK iface \in Iface, arg \in RouteArgs :
             Begin("routes", iface, arg, "writeRoutes", arg)
      BY <1>4 DEF SetIfaceRoutes
    <2>2. AskedInv'
      BY <2>1 DEF Begin, AskedInv, RoutesAsked
    <2> QED
      BY <2>1, <2>2, BeginReads
  <1> QED
    BY <1>1, <1>2, <1>3, <1>4

\* The new text is beside the file, unless it came out short.
LEMMA WriteConfigReads ==
    ASSUME ScriptsInv, ScriptsInv', ReadsBackInv, WriteConfig
    PROVE  ReadsBackInv'
  <1>0. pc = "write" /\ name \in Iface /\ IfAsked
    BY DEF WriteConfig, ScriptsInv, ControlInv, IfLabels, ReadsBackInv, AskedInv
  <1>1. CASE Fault
    BY <1>1, ErrorReads
  <1>2. ASSUME NEW text, WriteTmp(Main[name], text), pc' = "backup", UNCHANGED mem, Rest,
               Sequence(Secondaries(text)), ~faulted' => ~faulted /\ text = new
        PROVE  ReadsBackInv'
    <2> DEFINE g == Main[name]
    <2>1. g \in Files
      BY <1>0, PlaceFacts
    <2>2. disk' = disk /\ tmp'[g] = text /\ \A f \in Files \ {g} : tmp'[f] = tmp[f]
      BY <1>2, <2>1 DEF WriteTmp, ScriptsInv, FilesInv, OnFiles
    <2>3. /\ ifFiles' = ifFiles /\ routeFiles' = routeFiles /\ pre' = pre
          /\ new' = new /\ call' = call /\ name' = name
      BY <1>2 DEF mem, Rest, name
    <2>4. IfFiles \subseteq Files
      BY ScriptsAssumption DEF IfFiles, ToSet
    <2> HIDE DEF g
    <2>5. Typed(tmp')
      <3>1. ASSUME NEW f \in IfFiles, tmp'[f] # Absent PROVE Sequence(Secondaries(tmp'[f]))
        <4>1. CASE f = g
          BY <1>2, <2>2, <4>1
        <4>2. CASE f # g
          BY <2>2, <2>4, <3>1, <4>2 DEF ReadsBackInv, TextsInv, Typed
        <4> QED
          BY <4>1, <4>2
      <3> QED
        BY <3>1 DEF Typed
    <2>6. TextsInv'
      BY <2>2, <2>3, <2>5 DEF ReadsBackInv, TextsInv, Typed
    <2>7. AskedInv'
      BY <1>0, <1>2, <2>3 DEF AskedInv, IfAsked
    <2>8. ~faulted' => WorldInv'
      <3> SUFFICES ASSUME ~faulted' PROVE WorldInv'
        OBVIOUS
      <3>1. Read(pre.disk) /\ ifFiles = pre.ifFiles /\ routeFiles = pre.routeFiles
        BY <1>0, <1>2 DEF ReadsBackInv, WorldInv
      <3>2. Read(pre.disk)' /\ ifFiles' = pre'.ifFiles /\ routeFiles' = pre'.routeFiles
        BY <2>3, <3>1 DEF Read
      <3>3. tmp'[Main[name']] = new'
        BY <1>2, <2>2, <2>3 DEF g
      <3> QED
        BY <1>2, <3>2, <3>3 DEF WorldInv
    <2> QED
      BY <2>6, <2>7, <2>8 DEF ReadsBackInv
  <1>3. CASE WriteTmp(Main[name], new) /\ Go("backup", 1) /\ UNCHANGED mem
    <2>1. Sequence(Secondaries(new))
      BY <1>0, NewTyped DEF ReadsBackInv, ScriptsInv
    <2> QED
      BY <1>2, <1>3, <2>1 DEF Go
  <1>4. CASE /\ WriteTmp(Main[name], NoKeys) /\ faulted' = TRUE
             /\ pc' = "backup" /\ j' = 1 /\ UNCHANGED <<mem, ret>> /\ Rest
    <2>1. Secondaries(NoKeys) = <<>>
      BY DEF Secondaries, NoKeys
    <2>2. Sequence(Secondaries(NoKeys))
      BY <2>1, Single
    <2> QED
      BY <1>2, <1>4, <2>2
  <1> QED
    BY <1>1, <1>3, <1>4 DEF WriteConfig

\* Old files are taken away: the new text stays where it is.
LEMMA BackupReads ==
    ASSUME ScriptsInv, ScriptsInv', ReadsBackInv, Backup
    PROVE  ReadsBackInv'
  <1> DEFINE g == ifFiles[name][j].name
  <1>0. pc = "backup" /\ IfAsked
    BY DEF Backup, ReadsBackInv, AskedInv
  <1>1. CASE Fault \/ Missing(g)
    BY <1>1, ErrorReads
  <1>2. CASE MoveToBackup(g) /\ Go("backup", j + 1) /\ UNCHANGED mem
    <2>1. disk' = [disk EXCEPT ![g] = Absent] /\ tmp' = tmp
      BY <1>2 DEF MoveToBackup
    <2>2. /\ ifFiles' = ifFiles /\ routeFiles' = routeFiles /\ pre' = pre
          /\ new' = new /\ call' = call /\ name' = name /\ faulted' = faulted /\ pc' = "backup"
      BY <1>2 DEF mem, Go, Rest, name
    <2> HIDE DEF g
    <2>3. \A f \in Files : disk'[f] = disk[f] \/ disk'[f] = Absent
      BY <2>1 DEF ScriptsInv, FilesInv, OnFiles
    <2>4. IfFiles \subseteq Files
      BY ScriptsAssumption DEF IfFiles, ToSet
    <2>5. Typed(disk')
      <3>1. ASSUME NEW f \in IfFiles, disk'[f] # Absent PROVE Sequence(Secondaries(disk'[f]))
        <4>1. disk'[f] = disk[f]
          BY <2>3, <2>4, <3>1
        <4> QED
          BY <3>1, <4>1 DEF ReadsBackInv, TextsInv, Typed
      <3> QED
        BY <3>1 DEF Typed
    <2>6. TextsInv'
      BY <2>1, <2>2, <2>5 DEF ReadsBackInv, TextsInv, Typed
    <2>7. AskedInv'
      BY <1>0, <2>2 DEF AskedInv, IfAsked
    <2>8. ~faulted' => WorldInv'
      <3> SUFFICES ASSUME ~faulted' PROVE WorldInv'
        OBVIOUS
      <3>1. /\ Read(pre.disk) /\ ifFiles = pre.ifFiles /\ routeFiles = pre.routeFiles
            /\ tmp[Main[name]] = new
        BY <1>0, <2>2 DEF ReadsBackInv, WorldInv
      <3>2. Read(pre.disk)' /\ ifFiles' = pre'.ifFiles /\ routeFiles' = pre'.routeFiles
        BY <2>2, <3>1 DEF Read
      <3>3. tmp'[Main[name']] = new'
        BY <2>1, <2>2, <3>1
      <3> QED
        BY <2>2, <3>2, <3>3 DEF WorldInv
    <2> QED
      BY <2>6, <2>7, <2>8 DEF ReadsBackInv
  <1> QED
    BY <1>1, <1>2 DEF Backup

\* The call returns: what there is to read is what it was when the last file was put in place.
LEMMA DoneReads ==
    ASSUME ReadsBackInv, pc \in {"prune", "pruneRoutes"}, UNCHANGED mem,
           disk' = disk, tmp' = tmp, Rest, faulted' = faulted, pc' \in {"idle", "pruneRoutes"}
    PROVE  ReadsBackInv'
  <1>1. ifFiles' = ifFiles /\ routeFiles' = routeFiles /\ pre' = pre /\ call' = call
    BY DEF mem, Rest
  <1>2. TextsInv'
    BY <1>1 DEF ReadsBackInv, TextsInv, Typed
  <1>3. AskedInv'
    BY DEF AskedInv
  <1>4. ~faulted' => WorldInv'
    <2> SUFFICES ASSUME ~faulted PROVE WorldInv'
      OBVIOUS
    <2>1. Read(disk) /\ ReadsBack
      BY DEF ReadsBackInv, WorldInv
    <2>2. Read(disk)'
      BY <1>1, <2>1 DEF Read
    <2>3. ReadsBack'
      BY <1>1, <2>1, SameReadsBack
    <2> QED
      BY <2>2, <2>3 DEF WorldInv
  <1> QED
    BY <1>2, <1>3, <1>4 DEF ReadsBackInv

\* A process ends: memory is empty.
LEMMA ExitReads == ASSUME ReadsBackInv, Exit PROVE ReadsBackInv'
  <1>1. TextsInv'
    <2>1. DOMAIN <<>> = {}
      OBVIOUS
    <2>2. ListTyped(<<>>)
      BY <2>1 DEF ListTyped
    <2> QED
      BY <2>2 DEF Exit, files, ReadsBackInv, TextsInv, Typed
  <1>2. AskedInv'
    BY DEF Exit, AskedInv
  <1>3. WorldInv'
    BY DEF Exit, WorldInv
  <1> QED
    BY <1>1, <1>2, <1>3 DEF ReadsBackInv

\* Another begins and reads the directory.
LEMMA StartReads == ASSUME ReadsBackInv, newNetworkScripts PROVE ReadsBackInv'
  <1>1. disk' = disk /\ tmp' = tmp /\ ifFiles' = ReadIfFiles(disk)
        /\ routeFiles' = ReadRouteFiles(disk)
    BY DEF newNetworkScripts, files
  <1>2. Typed(disk) /\ Typed(tmp)
    BY DEF ReadsBackInv, TextsInv
  <1>3. \A n \in Iface : ListTyped(ifFiles'[n])
    BY <1>1, <1>2, ReadTyped
  <1>4. TextsInv'
    BY <1>1, <1>2, <1>3 DEF TextsInv, Typed
  <1>5. AskedInv'
    BY DEF newNetworkScripts, AskedInv
  <1>6. WorldInv'
    BY <1>1 DEF newNetworkScripts, WorldInv, Read
  <1> QED
    BY <1>4, <1>5, <1>6 DEF ReadsBackInv

\* The files of a call, when the interface's are one.
LEMMA InstalledWorld ==
    ASSUME ScriptsInv, ScriptsInv', ReadsBackInv, ~faulted, name \in Iface, name' = name,
           pc = "backup", pre' = pre, j > Len(ifFiles[name]),
           disk' = [disk EXCEPT ![Main[name]] = tmp[Main[name]]], tmp[Main[name]] # Absent,
           pc' = "prune", faulted' = faulted,
           ifFiles' = [ifFiles EXCEPT ![name] = SavedFiles(new)], routeFiles' = routeFiles
    PROVE  /\ Read(disk)' /\ ReadRouteFiles(disk') = pre.routeFiles
           /\ \A n \in Iface \ {name} : ReadIfFiles(disk')[n] = pre.ifFiles[n]
           /\ ReadIfFiles(disk')[name] = SavedFiles(new)
  <1> DEFINE g == Main[name]
             list == ifFiles[name]
  <1>0. g \in Files /\ g \in IfFiles /\ OwnerOf[g] = name
    BY PlaceFacts
  <1>1. disk'[g] = new /\ new # Absent /\ \A f \in Files \ {g} : disk'[f] = disk[f]
    <2>1. tmp[g] = new
      BY DEF ReadsBackInv, WorldInv
    <2> QED
      BY <1>0, <2>1 DEF ScriptsInv, FilesInv, OnFiles
  <1>2. /\ ifFiles = pre.ifFiles /\ routeFiles = pre.routeFiles
        /\ ifFiles = ReadIfFiles(pre.disk) /\ routeFiles = ReadRouteFiles(pre.disk)
    BY DEF ReadsBackInv, WorldInv, Read
  <1>3. ~pre.faulted /\ ~pre'.faulted
    BY DEF ScriptsInv, ControlInv
  <1>4. Listed(list, name)
    BY DEF ScriptsInv, MemoryInv
  <1>5. \A f \in Files : f \notin IfFiles \/ (f \in IfFiles /\ OwnerOf[f] # name) => disk[f] = pre.disk[f]
    <2>1. ASSUME NEW f \in Files, f \notin IfFiles \/ OwnerOf[f] # name PROVE disk[f] = pre.disk[f]
      <3>1. \A k \in DOMAIN list : list[k].name # f
        BY <1>4, <2>1 DEF Listed
      <3>2. ~OldUpTo(f, j)
        <4>1. ASSUME NEW k \in 1 .. j - 1, k <= Len(list), list[k].name = f PROVE FALSE
          <5>1. k \in DOMAIN list
            BY <1>4, <4>1 DEF Listed, Sequence
          <5> QED
            BY <3>1, <4>1, <5>1
        <4> QED
          BY <4>1 DEF OldUpTo
      <3> QED
        BY <1>3, <3>2 DEF ScriptsInv, CallInv, Same
    <2> QED
      BY <2>1
  <1>6. IfFiles \subseteq Files
    BY ScriptsAssumption DEF IfFiles, ToSet
  <1>7. ASSUME NEW n \in Iface \ {name} PROVE ReadIfFiles(disk')[n] = ReadIfFiles(pre.disk)[n]
    <2> HIDE DEF g
    <2>1. \A f \in IfFiles : OwnerOf[f] = n => disk'[f] = pre.disk[f]
      BY <1>0, <1>1, <1>5, <1>6
    <2> QED
      BY ONLY n \in Iface, <2>1, ReadSame
  <1>8. ASSUME NEW n \in Iface PROVE ReadRouteFiles(disk')[n] = ReadRouteFiles(pre.disk)[n]
    <2> HIDE DEF g
    <2>1. \A f \in {4, 6} : RouteFile[n][f] \in Files /\ RouteFile[n][f] \notin IfFiles
      BY PlaceFacts
    <2>2. \A f \in {4, 6} : disk'[RouteFile[n][f]] = pre.disk[RouteFile[n][f]]
      BY <1>0, <1>1, <1>5, <2>1
    <2> QED
      BY ONLY n \in Iface, <2>2, ReadRoutesSame
  <1>9. ifFiles'[name] = SavedFiles(new) /\ \A n \in Iface \ {name} : ifFiles'[n] = ifFiles[n]
    BY DEF ScriptsInv, MemoryInv
  <1>10. ReadIfFiles(disk')[name] = SavedFiles(new)
    <2>1. Known(disk)'
      BY <1>3 DEF ScriptsInv, CallInv
    <2>2. \A f \in IfFiles : OwnerOf[f] = name /\ f # g => disk'[f] = Absent
      <3>1. ASSUME NEW f \in IfFiles, OwnerOf[f] = name, disk'[f] # Absent PROVE f = g
        <4>1. PICK m \in DOMAIN ifFiles'[name] : ifFiles'[name][m].name = f
          BY <2>1, <3>1 DEF Known
        <4>2. m = 1
          BY <1>9, <4>1 DEF SavedFiles
        <4>3. ifFiles'[name][1].name = g
          BY <1>9 DEF SavedFiles
        <4> QED
          BY <4>1, <4>2, <4>3
      <3> QED
        BY <3>1
    <2>3. ReadIfFiles(disk')[name] = <<[name |-> g, config |-> disk'[g]]>>
      BY <1>1, <2>2, ReadMain
    <2> QED
      BY <1>1, <2>3 DEF SavedFiles
  <1>11. ReadRouteFiles(disk') = ReadRouteFiles(pre.disk)
    BY <1>8 DEF ReadRouteFiles
  <1>12. ifFiles' = ReadIfFiles(disk')
    <2>1. ASSUME NEW n \in Iface PROVE ifFiles'[n] = ReadIfFiles(disk')[n]
      <3>1. CASE n = name
        BY <1>9, <1>10, <3>1
      <3>2. CASE n # name
        <4>1. ifFiles'[n] = ifFiles[n] /\ ReadIfFiles(disk')[n] = ReadIfFiles(pre.disk)[n]
          BY <1>7, <1>9, <3>2
        <4>2. ifFiles = ReadIfFiles(pre.disk)
          BY <1>2
        <4> QED
          BY <4>1, <4>2, Zenon
      <3> QED
        BY <3>1, <3>2
    <2>2. ifFiles' = [n \in Iface |-> ifFiles'[n]]
      BY DEF ScriptsInv, MemoryInv
    <2>3. ReadIfFiles(disk') = [n \in Iface |-> ReadIfFiles(disk')[n]]
      BY DEF ReadIfFiles
    <2> QED
      BY <2>1, <2>2, <2>3
  <1> QED
    BY <1>2, <1>7, <1>10, <1>11, <1>12 DEF Read

\* What is asked of merged files is what the new file says.
LEMMA AskedView ==
    ASSUME IfAsked, NEW r, Mergeable(ifFiles[name])
    PROVE  View(SavedFiles(new), r) = Asked(View(ifFiles[name], r))
  <1> DEFINE ifs == ifFiles[name]
             c == Merged(ifs)
  <1>1. View(ifs, r) = ViewOf(c, r)
    BY ViewMerged
  <1>2. Sequence(Secondaries(c))
    BY MergedTyped DEF Mergeable, ListTyped
  <1>3. ViewOf(new, r) = Asked(ViewOf(c, r)) /\ Sequence(Secondaries(new))
    <2> HIDE DEF c
    <2>1. CASE /\ call.op = "addresses" /\ call.asked \in AddressArgs
               /\ new = AddressConfig(c, call.asked)
      BY <2>1, AddressView DEF Asked
    <2>2. CASE /\ call.op = "dhcp" /\ call.asked \in SUBSET {4, 6}
               /\ new = DHCPConfig(c, call.asked)
      BY <1>2, <2>2, DHCPView DEF Asked
    <2>3. CASE /\ call.op = "dns" /\ call.asked \in ServerArgs
               /\ new = DNSConfig(c, call.asked)
      BY <1>2, <2>3, DNSView DEF Asked
    <2> QED
      BY <2>1, <2>2, <2>3 DEF IfAsked, c
  <1>4. View(SavedFiles(new), r) = ViewOf(new, r)
    BY <1>3, ViewOne DEF SavedFiles
  <1> QED
    BY <1>1, <1>3, <1>4

\* The new file takes the place of the old ones: it says what they said, but for what was asked.
LEMMA InstallReads ==
    ASSUME ScriptsInv, ScriptsInv', ReadsBackInv, Install
    PROVE  ReadsBackInv'
  <1> DEFINE g == Main[name]
  <1>0. pc = "backup" /\ IfAsked /\ name \in Iface /\ j > Len(ifFiles[name])
    BY DEF Install, ReadsBackInv, AskedInv, ScriptsInv, ControlInv, IfLabels
  <1>1. CASE Fault
    BY <1>1, ErrorReads
  <1>2. CASE /\ MoveInPlace(g) /\ Go("prune", 1)
             /\ ifFiles' = [ifFiles EXCEPT ![name] = SavedFiles(new)]
             /\ UNCHANGED routeFiles
    <2>1. /\ disk' = [disk EXCEPT ![g] = tmp[g]] /\ tmp' = [tmp EXCEPT ![g] = Absent]
          /\ tmp[g] # Absent
      BY <1>2 DEF MoveInPlace
    <2>2. /\ routeFiles' = routeFiles /\ pre' = pre /\ call' = call
          /\ name' = name /\ faulted' = faulted /\ pc' = "prune"
      BY <1>2 DEF Go, Rest, name
    <2>3. g \in IfFiles
      BY <1>0, PlaceFacts
    <2>4. IfFiles \subseteq Files
      BY ScriptsAssumption DEF IfFiles, ToSet
    <2>5. Sequence(Secondaries(new))
      BY <1>0, NewTyped DEF ReadsBackInv, ScriptsInv
    <2>6. Typed(disk') /\ Typed(tmp')
      <3> HIDE DEF g
      <3>1. /\ disk'[g] = tmp[g] /\ tmp'[g] = Absent
            /\ \A f \in Files \ {g} : disk'[f] = disk[f] /\ tmp'[f] = tmp[f]
        BY <2>1, <2>3, <2>4 DEF ScriptsInv, FilesInv, OnFiles
      <3>2. Typed(disk) /\ Typed(tmp)
        BY DEF ReadsBackInv, TextsInv
      <3>3. ASSUME NEW f \in IfFiles, disk'[f] # Absent PROVE Sequence(Secondaries(disk'[f]))
        <4>1. disk'[f] = tmp[f] \/ disk'[f] = disk[f]
          BY <2>4, <3>1
        <4> QED
          BY <3>2, <3>3, <4>1 DEF Typed
      <3>4. ASSUME NEW f \in IfFiles, tmp'[f] # Absent PROVE Sequence(Secondaries(tmp'[f]))
        <4>1. tmp'[f] = tmp[f]
          BY <2>4, <3>1, <3>4
        <4> QED
          BY <3>2, <3>4, <4>1 DEF Typed
      <3> QED
        BY <3>3, <3>4 DEF Typed
    <2>7. TextsInv'
      <3>1. ifFiles'[name] = SavedFiles(new) /\ \A n \in Iface \ {name} : ifFiles'[n] = ifFiles[n]
        BY <1>0, <1>2 DEF ScriptsInv, MemoryInv
      <3>2. ListTyped(SavedFiles(new))
        BY <2>5 DEF ListTyped, SavedFiles
      <3>3. \A n \in Iface : ListTyped(ifFiles'[n])
        BY <3>1, <3>2 DEF ReadsBackInv, TextsInv
      <3> QED
        BY <2>6, <3>3 DEF TextsInv
    <2>8. AskedInv'
      BY <2>2 DEF AskedInv
    <2>9. ~faulted' => WorldInv'
      <3> SUFFICES ASSUME ~faulted PROVE WorldInv'
        BY <2>2
      <3>1. /\ Read(disk)' /\ ReadRouteFiles(disk') = pre.routeFiles
            /\ \A n \in Iface \ {name} : ReadIfFiles(disk')[n] = pre.ifFiles[n]
            /\ ReadIfFiles(disk')[name] = SavedFiles(new)
        <4>1. /\ ScriptsInv /\ ScriptsInv' /\ ReadsBackInv /\ ~faulted /\ name \in Iface
              /\ name' = name /\ pc = "backup" /\ pre' = pre /\ j > Len(ifFiles[name])
              /\ disk' = [disk EXCEPT ![Main[name]] = tmp[Main[name]]] /\ tmp[Main[name]] # Absent
              /\ pc' = "prune" /\ faulted' = faulted
              /\ ifFiles' = [ifFiles EXCEPT ![name] = SavedFiles(new)] /\ routeFiles' = routeFiles
          BY <1>0, <1>2, <2>1, <2>2
        <4> QED
          BY ONLY <4>1, InstalledWorld
      <3>2. ifFiles = pre.ifFiles
        BY <1>0 DEF ReadsBackInv, WorldInv
      <3>3. ASSUME SharedKeys(pre.ifFiles[name]) = {}, InOrder(pre.ifFiles[name]), NEW r
            PROVE  View(SavedFiles(new), r) = Asked(View(pre.ifFiles[name], r))
        <4>1. Sequence(ifFiles[name]) /\ ListTyped(ifFiles[name])
          BY <1>0 DEF ReadsBackInv, TextsInv, ScriptsInv, MemoryInv, Listed
        <4>2. Mergeable(ifFiles[name])
          BY <3>2, <3>3, <4>1, SharedNone DEF Mergeable, ListTyped
        <4> QED
          BY <1>0, <3>2, <4>2, AskedView
      <3>4. ReadsBack'
        <4>1. \A v : Asked(v)' = Asked(v)
          BY <2>2 DEF Asked
        <4> HIDE DEF g
        <4>2. ASSUME NEW n \in Iface, n # name
              PROVE  View(ReadIfFiles(disk')[n], ReadRouteFiles(disk')[n])
                       = View(pre.ifFiles[n], pre.routeFiles[n])
          BY <3>1, <4>2
        <4>3. ASSUME SharedKeys(pre.ifFiles[name]) = {}, InOrder(pre.ifFiles[name])
              PROVE  View(ReadIfFiles(disk')[name], ReadRouteFiles(disk')[name])
                       = Asked(View(pre.ifFiles[name], pre.routeFiles[name]))
          BY <3>1, <3>3, <4>3
        <4> QED
          BY <2>2, <4>1, <4>2, <4>3 DEF ReadsBack
      <3> QED
        BY <2>2, <3>1, <3>4 DEF WorldInv
    <2> QED
      BY <2>7, <2>8, <2>9 DEF ReadsBackInv
  <1> QED
    BY <1>1, <1>2 DEF Install

\* The call goes on to the next family or step, with the files of the interface as they are.
LEMMA AdvanceReads ==
    ASSUME ScriptsInv, ReadsBackInv, pc \in {"writeRoutes", "backupRoutes", "installRoutes"},
           NEW label \in {"backupRoutes", "installRoutes"}, Advance(label), UNCHANGED mem,
           \A f \in IfFiles : /\ disk'[f] = disk[f] \/ disk'[f] = Absent
                              /\ tmp'[f] = tmp[f],
           ~faulted => LET next == j' IN
              /\ pc' = "writeRoutes" => \A k \in {1, 2} : k < next => WrittenRoutes(k)'
              /\ pc' = "backupRoutes" => \A k \in {1, 2} : WrittenRoutes(k)'
              /\ pc' = "installRoutes" =>
                    \A k \in {1, 2} : IF k < next THEN PlacedRoutes(k)' ELSE WrittenRoutes(k)'
    PROVE  ReadsBackInv'
  <1>1. /\ ifFiles' = ifFiles /\ routeFiles' = routeFiles /\ pre' = pre /\ new' = new
        /\ call' = call /\ faulted' = faulted
        /\ pc' \in {"writeRoutes", "backupRoutes", "installRoutes"}
    BY DEF mem, Advance, Go, Rest
  <1>2. Typed(disk) /\ Typed(tmp)
    BY DEF ReadsBackInv, TextsInv
  <1>3. TextsInv'
    <2>1. Typed(disk')
      <3>1. ASSUME NEW f \in IfFiles, disk'[f] # Absent PROVE Sequence(Secondaries(disk'[f]))
        <4>1. disk'[f] = disk[f]
          BY <3>1
        <4> QED
          BY <1>2, <3>1, <4>1 DEF Typed
      <3> QED
        BY <3>1 DEF Typed
    <2>2. Typed(tmp')
      BY <1>2 DEF Typed
    <2> QED
      BY <1>1, <2>1, <2>2 DEF ReadsBackInv, TextsInv
  <1>4. AskedInv'
    BY <1>1 DEF ReadsBackInv, AskedInv, RoutesAsked
  <1>5. ~faulted' => WorldInv'
    <2> SUFFICES ASSUME ~faulted PROVE WorldInv'
      BY <1>1
    <2>1. Read(pre.disk) /\ ifFiles = pre.ifFiles /\ routeFiles = pre.routeFiles
      BY DEF ReadsBackInv, WorldInv
    <2>2. Read(pre.disk)' /\ ifFiles' = pre'.ifFiles /\ routeFiles' = pre'.routeFiles
      BY <1>1, <2>1 DEF Read
    <2> QED
      BY <1>1, <2>2 DEF WorldInv
  <1> QED
    BY <1>3, <1>4, <1>5 DEF ReadsBackInv

\* The routes of a family are written, unless it has none.
LEMMA WriteRoutesReads ==
    ASSUME ScriptsInv, ScriptsInv', ReadsBackInv, WriteRoutes
    PROVE  ReadsBackInv'
  <1> DEFINE g == RouteOf(j)
  <1>0. pc = "writeRoutes" /\ name \in Iface /\ j \in {1, 2}
    BY DEF WriteRoutes, ScriptsInv, ControlInv, RouteLabels
  <1>1. g \in Files /\ g \notin IfFiles /\ routeFile = g /\ routes = new[Family[j]]
    BY <1>0, RouteFacts DEF routeFile, RouteOf, routes
  <1>2. CASE Fault
    BY <1>2, ErrorReads
  <1>3. ASSUME Advance("backupRoutes"), UNCHANGED mem, disk' = disk,
               \/ routes = {} /\ tmp' = tmp
               \/ tmp' = [tmp EXCEPT ![g] = [routes |-> routes]]
        PROVE  ReadsBackInv'
    <2>1. /\ pc' = IF j = 1 THEN pc ELSE "backupRoutes"
          /\ j' = IF j = 1 THEN 2 ELSE 1
          /\ new' = new /\ name' = name
      BY <1>3 DEF Advance, Go, Rest, name
    <2>2. /\ routes # {} => tmp'[g] = [routes |-> routes]
          /\ \A f \in Files \ {g} : tmp'[f] = tmp[f]
      BY <1>1, <1>3 DEF ScriptsInv, FilesInv, OnFiles
    <2>3. \A f \in IfFiles : tmp'[f] = tmp[f]
      <3>1. IfFiles \subseteq Files
        BY ScriptsAssumption DEF IfFiles, ToSet
      <3> HIDE DEF g
      <3> QED
        BY <1>1, <2>2, <3>1
    <2>4. ASSUME ~faulted, NEW k \in {1, 2}, k <= j PROVE WrittenRoutes(k)'
      <3>1. CASE k = j
        <4>1. g = RouteOf(k) /\ routes = new[Family[k]]
          BY <1>1, <3>1
        <4> HIDE DEF g
        <4>2. new[Family[k]] # {} => tmp'[RouteOf(k)] = [routes |-> new[Family[k]]]
          BY <2>2, <4>1
        <4> QED
          BY <2>1, <4>2 DEF WrittenRoutes, RouteText, RouteOf
      <3>2. CASE k # j
        <4>1. k < j
          BY <1>0, <2>4, <3>2
        <4>2. WrittenRoutes(k)
          BY <1>0, <2>4, <4>1 DEF ReadsBackInv, WorldInv
        <4>3. RouteOf(k) # g /\ RouteOf(k) \in Files
          BY <1>0, <3>2, RouteFacts
        <4>4. tmp'[RouteOf(k)] = tmp[RouteOf(k)]
          <5> HIDE DEF g
          <5> QED
            BY <2>2, <4>3
        <4> QED
          BY <2>1, <4>2, <4>4 DEF WrittenRoutes, RouteText, RouteOf
      <3> QED
        BY <3>1, <3>2
    <2>5. ~faulted => /\ pc' = "writeRoutes" => \A k \in {1, 2} : k < j' => WrittenRoutes(k)'
                      /\ pc' = "backupRoutes" => \A k \in {1, 2} : WrittenRoutes(k)'
                      /\ pc' # "installRoutes"
      <3>1. CASE j = 1
        <4>1. \A k \in {1, 2} : k < j' => k <= j
          BY <2>1, <3>1
        <4> QED
          BY <1>0, <2>1, <2>4, <3>1, <4>1
      <3>2. CASE j = 2
        <4>1. \A k \in {1, 2} : k <= j
          BY <3>2
        <4> QED
          BY <1>0, <2>1, <2>4, <3>2, <4>1
      <3> QED
        BY <1>0, <3>1, <3>2
    <2> QED
      BY <1>0, <1>3, <2>3, <2>5, AdvanceReads
  <1>4. CASE routes = {} /\ Advance("backupRoutes") /\ UNCHANGED <<files, mem>>
    BY <1>3, <1>4 DEF files
  <1>5. CASE /\ routes # {} /\ WriteTmp(routeFile, [routes |-> routes])
             /\ Advance("backupRoutes") /\ UNCHANGED mem
    BY <1>1, <1>3, <1>5 DEF WriteTmp
  <1> QED
    BY <1>2, <1>4, <1>5 DEF WriteRoutes

\* The old route files are taken away, the new texts stay where they are.
LEMMA BackupRoutesReads ==
    ASSUME ScriptsInv, ScriptsInv', ReadsBackInv, BackupRoutes
    PROVE  ReadsBackInv'
  <1> DEFINE g == RouteOf(j)
  <1>0. pc = "backupRoutes" /\ name \in Iface /\ j \in {1, 2}
    BY DEF BackupRoutes, ScriptsInv, ControlInv, RouteLabels
  <1>1. g \in Files /\ g \notin IfFiles /\ routeFile = g
    BY <1>0, RouteFacts DEF routeFile, RouteOf
  <1>2. CASE Fault \/ Missing(routeFile)
    BY <1>2, ErrorReads
  <1>3. ASSUME Advance("installRoutes"), UNCHANGED mem, tmp' = tmp,
               disk' = disk \/ disk' = [disk EXCEPT ![g] = Absent]
        PROVE  ReadsBackInv'
    <2>1. /\ pc' = IF j = 1 THEN pc ELSE "installRoutes"
          /\ j' = IF j = 1 THEN 2 ELSE 1
          /\ new' = new /\ name' = name
      BY <1>3 DEF Advance, Go, Rest, name
    <2>2. \A f \in IfFiles : disk'[f] = disk[f]
      <3>1. IfFiles \subseteq Files
        BY ScriptsAssumption DEF IfFiles, ToSet
      <3> HIDE DEF g
      <3> QED
        BY <1>1, <1>3, <3>1 DEF ScriptsInv, FilesInv, OnFiles
    <2>3. ~faulted => \A k \in {1, 2} : WrittenRoutes(k)'
      <3>1. ~faulted => \A k \in {1, 2} : WrittenRoutes(k)
        BY <1>0 DEF ReadsBackInv, WorldInv
      <3> QED
        BY <1>3, <2>1, <3>1 DEF WrittenRoutes, RouteText, RouteOf
    <2>4. pc' = "installRoutes" => \A k \in {1, 2} : ~(k < j')
      BY <1>0, <2>1
    <2>5. pc' # "writeRoutes"
      BY <1>0, <2>1
    <2> QED
      BY <1>0, <1>3, <2>2, <2>3, <2>4, <2>5, AdvanceReads
  <1>4. CASE ~HasFile(Family[j]) /\ Advance("installRoutes") /\ UNCHANGED <<files, mem>>
    BY <1>3, <1>4 DEF files
  <1>5. CASE /\ HasFile(Family[j]) /\ MoveToBackup(routeFile) /\ Advance("installRoutes")
             /\ UNCHANGED mem
    BY <1>1, <1>3, <1>5 DEF MoveToBackup
  <1> QED
    BY <1>2, <1>4, <1>5 DEF BackupRoutes

\* A report differs in its routes.
LEMMA RoutesField ==
    ASSUME NEW a, NEW b, NEW c, NEW d, NEW e, NEW x
    PROVE  [[addresses |-> a, dhcp |-> b, servers |-> c, other |-> d, routes |-> e] EXCEPT !.routes = x]
             = [addresses |-> a, dhcp |-> b, servers |-> c, other |-> d, routes |-> x]
  OBVIOUS

\* The route files a call saves say what it was asked.
LEMMA RoutesView ==
    ASSUME RoutesAsked, NEW ifs, NEW r
    PROVE  View(ifs, SavedRouteFiles) = Asked(View(ifs, r))
  <1> DEFINE a == [v4 |-> FlattenSeq([n \in DOMAIN ifs |-> Addresses4(ifs[n].config)]),
                   v6 |-> FlattenSeq([n \in DOMAIN ifs |-> Addresses6(ifs[n].config)]),
                   gateway4 |-> LastOf(ifs, "GATEWAY"),
                   gateway6 |-> LastOf(ifs, "IPV6_DEFAULTGW")]
             b == UNION {Clients(ifs[n].config) : n \in DOMAIN ifs}
             c == FlattenSeq([n \in DOMAIN ifs |-> Servers(ifs[n].config)])
             d == LastOf(ifs, "MTU")
             V(e) == [addresses |-> a, dhcp |-> b, servers |-> c, other |-> d, routes |-> e]
  <1>1. RoutesIn(SavedRouteFiles) = new
    <2>1. new = [f \in {4, 6} |-> new[f]] /\ new[4] # Absent /\ new[6] # Absent
      BY ArgumentsAssumption DEF RoutesAsked
    <2>2. \A f \in {4, 6} : (IF SavedRouteFiles[f] = Absent THEN {} ELSE SavedRouteFiles[f]) = new[f]
      BY <2>1 DEF SavedRouteFiles
    <2>3. RoutesIn(SavedRouteFiles) = [f \in {4, 6} |-> new[f]]
      BY <2>2 DEF RoutesIn
    <2> QED
      BY <2>1, <2>3
  <1>2. View(ifs, r) = V(RoutesIn(r)) /\ View(ifs, SavedRouteFiles) = V(RoutesIn(SavedRouteFiles))
    BY DEF View, RoutesIn
  <1> HIDE DEF a, b, c, d
  <1>3. [V(RoutesIn(r)) EXCEPT !.routes = new] = V(new)
    BY RoutesField
  <1> HIDE DEF V
  <1>4. call.op = "routes" /\ call.asked = new
    BY DEF RoutesAsked
  <1>5. Asked(View(ifs, r)) = [View(ifs, r) EXCEPT !.routes = new]
    BY <1>4 DEF Asked
  <1> QED
    BY <1>1, <1>2, <1>3, <1>5

\* The route files of an interface when both have been put in place.
LEMMA InstalledRoutes ==
    ASSUME ScriptsInv, ReadsBackInv, ~faulted, name \in Iface, pc = "installRoutes", j = 2,
           new[4] # Absent, new[6] # Absent,
           routes = {} => disk' = disk,
           routes # {} => disk' = [disk EXCEPT ![RouteOf(2)] = tmp[RouteOf(2)]] /\ tmp[RouteOf(2)] # Absent
    PROVE  /\ \A k \in {1, 2} :
                 disk'[RouteOf(k)] = IF new[Family[k]] = {} THEN Absent ELSE RouteText(k)
           /\ \A k \in {1, 2} : new[Family[k]] # {} => RouteText(k) # Absent
           /\ \A f \in Files : f # RouteOf(1) /\ f # RouteOf(2) => disk'[f] = pre.disk[f]
  <1> DEFINE g == RouteOf(2)
  <1>0. routes = new[Family[2]]
    BY DEF routes
  <1>1. /\ \A k \in {1, 2} : RouteOf(k) \in Files
        /\ \A k, m \in {1, 2} : RouteOf(k) = RouteOf(m) => k = m
    BY RouteFacts
  <1>2. /\ routes # {} => disk'[g] = tmp[g]
        /\ \A f \in Files : f # g \/ routes = {} => disk'[f] = disk[f]
    BY <1>1 DEF ScriptsInv, FilesInv, OnFiles
  <1>3. /\ Known(pre.disk)
        /\ \A f \in Files :
              IF GetsRoutes(f, 2) THEN disk[f] # Absent
              ELSE IF HadRoutes(f, 3) THEN disk[f] = Absent ELSE disk[f] = pre.disk[f]
    BY DEF ScriptsInv, ControlInv, CallInv, Moved, Same
  <1>4. PlacedRoutes(1) /\ WrittenRoutes(2)
    BY DEF ReadsBackInv, WorldInv
  <1>5. ASSUME NEW k \in {1, 2}, new[Family[k]] = {} PROVE disk'[RouteOf(k)] = Absent
    <2> DEFINE f == RouteOf(k)
    <2>1. ~GetsRoutes(f, 2)
      BY <1>1, <1>5 DEF GetsRoutes
    <2>2. disk[f] = Absent
      <3>1. CASE HasFile(Family[k])
        <4>1. HadRoutes(f, 3)
          <5>1. k < 3
            OBVIOUS
          <5> QED
            BY <3>1, <5>1 DEF HadRoutes
        <4> HIDE DEF f
        <4> QED
          BY <1>1, <1>3, <2>1, <4>1 DEF f
      <3>2. CASE ~HasFile(Family[k])
        <4>1. ~HadRoutes(f, 3)
          BY <1>1, <3>2 DEF HadRoutes
        <4>2. pre.disk[f] = Absent
          BY <1>3, <3>2, RouteFacts DEF Known, HasFile, RouteOf
        <4> HIDE DEF f
        <4> QED
          BY <1>1, <1>3, <2>1, <4>1, <4>2 DEF f
      <3> QED
        BY <3>1, <3>2
    <2>3. f # g \/ routes = {}
      BY <1>0, <1>1, <1>5
    <2> HIDE DEF g
    <2> QED
      BY <1>1, <1>2, <2>2, <2>3
  <1>6. ASSUME NEW k \in {1, 2}, new[Family[k]] # {}
        PROVE  disk'[RouteOf(k)] = RouteText(k) /\ RouteText(k) # Absent
    <2>1. CASE k = 1
      <3>1. RouteOf(1) # g /\ RouteOf(1) \in Files
        BY <1>1
      <3>2. GetsRoutes(RouteOf(1), 2)
        <4>1. 1 < 2
          OBVIOUS
        <4> QED
          BY <1>6, <2>1, <4>1 DEF GetsRoutes
      <3>3. disk[RouteOf(1)] = RouteText(1) /\ disk[RouteOf(1)] # Absent
        BY <1>3, <1>4, <1>6, <2>1, <3>1, <3>2 DEF PlacedRoutes
      <3>4. disk'[RouteOf(1)] = disk[RouteOf(1)]
        <4> HIDE DEF g
        <4> QED
          BY <1>2, <3>1
      <3> QED
        BY <2>1, <3>3, <3>4
    <2>2. CASE k = 2
      <3>1. tmp[g] = RouteText(2) /\ tmp[g] # Absent
        BY <1>0, <1>4, <1>6, <2>2 DEF WrittenRoutes
      <3> QED
        BY <1>0, <1>2, <1>6, <2>2, <3>1
    <2> QED
      BY <2>1, <2>2
  <1>7. ASSUME NEW f \in Files, f # RouteOf(1), f # RouteOf(2) PROVE disk'[f] = pre.disk[f]
    <2>1. ~GetsRoutes(f, 2) /\ ~HadRoutes(f, 3)
      BY <1>7 DEF GetsRoutes, HadRoutes
    <2>2. disk[f] = pre.disk[f]
      BY <1>3, <2>1
    <2> QED
      BY <1>2, <1>7, <2>2
  <1> QED
    BY <1>5, <1>6, <1>7

\* What is read when they are.
LEMMA InstalledRoutesRead ==
    ASSUME ScriptsInv, ReadsBackInv, ~faulted, name \in Iface, pc = "installRoutes",
           new[4] # Absent, new[6] # Absent, NEW d,
           \A k \in {1, 2} :
              /\ d[RouteOf(k)] = IF new[Family[k]] = {} THEN Absent ELSE RouteText(k)
              /\ new[Family[k]] # {} => RouteText(k) # Absent,
           \A f \in Files : f # RouteOf(1) /\ f # RouteOf(2) => d[f] = pre.disk[f]
    PROVE  /\ ReadIfFiles(d) = pre.ifFiles
           /\ ReadRouteFiles(d)[name] = SavedRouteFiles
           /\ \A n \in Iface \ {name} : ReadRouteFiles(d)[n] = pre.routeFiles[n]
  <1>1. pre.ifFiles = ReadIfFiles(pre.disk) /\ pre.routeFiles = ReadRouteFiles(pre.disk)
    BY DEF ReadsBackInv, WorldInv, Read
  <1>2. ReadIfFiles(d) = pre.ifFiles
    <2>1. IfFiles \subseteq Files
      BY ScriptsAssumption DEF IfFiles, ToSet
    <2>2. \A f \in IfFiles : d[f] = pre.disk[f]
      BY <2>1, RouteFacts
    <2>3. ASSUME NEW n \in Iface PROVE ReadIfFiles(d)[n] = ReadIfFiles(pre.disk)[n]
      BY ONLY n \in Iface, <2>2, ReadSame
    <2> QED
      BY <1>1, <2>3 DEF ReadIfFiles
  <1>3. ASSUME NEW n \in Iface \ {name} PROVE ReadRouteFiles(d)[n] = pre.routeFiles[n]
    <2>1. \A f \in {4, 6} : RouteFile[n][f] \in Files
      BY PlaceFacts
    <2>2. \A f \in {4, 6} : RouteFile[n][f] # RouteOf(1) /\ RouteFile[n][f] # RouteOf(2)
      BY RouteFacts
    <2>3. \A f \in {4, 6} : d[RouteFile[n][f]] = pre.disk[RouteFile[n][f]]
      BY <2>1, <2>2
    <2>4. ReadRouteFiles(d)[n] = ReadRouteFiles(pre.disk)[n]
      BY ONLY n \in Iface \ {name}, <2>3, ReadRoutesSame
    <2> QED
      BY <1>1, <2>4
  <1>4. ASSUME NEW f \in {4, 6}
        PROVE  (IF d[RouteFile[name][f]] = Absent THEN Absent ELSE d[RouteFile[name][f]].routes)
                 = IF new[f] = {} THEN Absent ELSE new[f]
    <2>1. PICK k \in {1, 2} : f = Family[k]
      BY RouteFacts
    <2>2. RouteFile[name][f] = RouteOf(k)
      BY <2>1 DEF RouteOf
    <2>3. CASE new[f] = {}
      BY <2>1, <2>2, <2>3
    <2>4. CASE new[f] # {}
      <3>1. d[RouteOf(k)] = RouteText(k) /\ RouteText(k) # Absent
        BY <2>1, <2>4
      <3>2. RouteText(k).routes = new[f]
        BY <2>1 DEF RouteText
      <3> QED
        BY <2>2, <2>4, <3>1, <3>2
    <2> QED
      BY <2>3, <2>4
  <1>5. ReadRouteFiles(d)[name] = SavedRouteFiles
    BY <1>4 DEF ReadRouteFiles, SavedRouteFiles
  <1> QED
    BY <1>2, <1>3, <1>5

\* The new route files are in place one after the other, and recorded with the second.
LEMMA InstallRoutesReads ==
    ASSUME ScriptsInv, ScriptsInv', ReadsBackInv, InstallRoutes
    PROVE  ReadsBackInv'
  <1> DEFINE g == RouteOf(j)
  <1>0. /\ pc = "installRoutes" /\ name \in Iface /\ j \in {1, 2} /\ RoutesAsked
        /\ new[4] # Absent /\ new[6] # Absent
    BY DEF InstallRoutes, ScriptsInv, ControlInv, RouteLabels, ReadsBackInv, AskedInv
  <1>1. g \in Files /\ g \notin IfFiles /\ routeFile = g /\ routes = new[Family[j]]
    BY <1>0, RouteFacts DEF routeFile, RouteOf, routes
  <1>2. CASE Fault
    BY <1>2, ErrorReads
  <1>3. CASE /\ IF routes = {} THEN UNCHANGED files ELSE MoveInPlace(routeFile)
             /\ Advance("pruneRoutes")
             /\ routeFiles' = IF j = 1 THEN routeFiles
                              ELSE [routeFiles EXCEPT ![name] = SavedRouteFiles]
             /\ UNCHANGED ifFiles
    <2>1. /\ pc' = IF j = 1 THEN pc ELSE "pruneRoutes"
          /\ j' = IF j = 1 THEN 2 ELSE 1
          /\ new' = new /\ name' = name /\ pre' = pre /\ call' = call /\ faulted' = faulted
      BY <1>3 DEF Advance, Go, Rest, name
    <2>2. /\ routes = {} => disk' = disk /\ tmp' = tmp
          /\ routes # {} => /\ disk' = [disk EXCEPT ![g] = tmp[g]] /\ tmp[g] # Absent
                            /\ tmp' = [tmp EXCEPT ![g] = Absent]
      BY <1>1, <1>3 DEF files, MoveInPlace
    <2>3. /\ routes # {} => disk'[g] = tmp[g]
          /\ \A f \in Files : f # g \/ routes = {} => disk'[f] = disk[f] /\ tmp'[f] = tmp[f]
      <3> HIDE DEF g
      <3> QED
        BY <1>1, <2>2 DEF ScriptsInv, FilesInv, OnFiles
    <2>4. \A f \in IfFiles : disk'[f] = disk[f] /\ tmp'[f] = tmp[f]
      <3>1. IfFiles \subseteq Files
        BY ScriptsAssumption DEF IfFiles, ToSet
      <3> HIDE DEF g
      <3> QED
        BY <1>1, <2>3, <3>1
    <2>5. CASE j = 1
      <3>1. pc' = "installRoutes" /\ j' = 2 /\ UNCHANGED mem
        BY <1>0, <1>3, <2>1, <2>5 DEF mem
      <3>2. RouteOf(2) # g /\ RouteOf(2) \in Files
        BY <1>0, <2>5, RouteFacts
      <3>3. ASSUME ~faulted PROVE PlacedRoutes(1)' /\ WrittenRoutes(2)'
        <4>1. WrittenRoutes(1) /\ WrittenRoutes(2)
          BY <1>0, <2>5, <3>3 DEF ReadsBackInv, WorldInv
        <4>2. tmp'[RouteOf(2)] = tmp[RouteOf(2)]
          <5> HIDE DEF g
          <5> QED
            BY <2>3, <3>2
        <4>3. WrittenRoutes(2)'
          BY <2>1, <4>1, <4>2 DEF WrittenRoutes, RouteText, RouteOf
        <4>4. g = RouteOf(1) /\ routes = new[Family[1]]
          BY <1>1, <2>5
        <4>5. new[Family[1]] # {} => disk'[RouteOf(1)] = RouteText(1)
          <5> HIDE DEF g
          <5> QED
            BY <2>3, <4>1, <4>4 DEF WrittenRoutes
        <4>6. PlacedRoutes(1)'
          BY <2>1, <4>5 DEF PlacedRoutes, RouteText, RouteOf
        <4> QED
          BY <4>3, <4>6
      <3>4. Advance("installRoutes")
        BY <1>0, <1>3, <2>5 DEF Advance
      <3>5. ~faulted => LET next == j' IN
              /\ pc' = "writeRoutes" => \A k \in {1, 2} : k < next => WrittenRoutes(k)'
              /\ pc' = "backupRoutes" => \A k \in {1, 2} : WrittenRoutes(k)'
              /\ pc' = "installRoutes" =>
                    \A k \in {1, 2} : IF k < next THEN PlacedRoutes(k)' ELSE WrittenRoutes(k)'
        BY <3>1, <3>3
      <3>6. \A f \in IfFiles : (disk'[f] = disk[f] \/ disk'[f] = Absent) /\ tmp'[f] = tmp[f]
        BY <2>4
      <3> QED
        BY <1>0, <3>1, <3>4, <3>5, <3>6, AdvanceReads
    <2>6. CASE j = 2
      <3>1. pc' = "pruneRoutes" /\ routeFiles' = [routeFiles EXCEPT ![name] = SavedRouteFiles]
            /\ ifFiles' = ifFiles
        BY <1>3, <2>1, <2>6
      <3>2. TextsInv'
        <4>1. Typed(disk') /\ Typed(tmp')
          BY <2>4 DEF ReadsBackInv, TextsInv, Typed
        <4> QED
          BY <3>1, <4>1 DEF ReadsBackInv, TextsInv
      <3>3. AskedInv'
        BY <3>1 DEF AskedInv
      <3>4. ~faulted' => WorldInv'
        <4> SUFFICES ASSUME ~faulted PROVE WorldInv'
          BY <2>1
        <4>1. /\ \A k \in {1, 2} :
                    /\ disk'[RouteOf(k)] = IF new[Family[k]] = {} THEN Absent ELSE RouteText(k)
                    /\ new[Family[k]] # {} => RouteText(k) # Absent
              /\ \A f \in Files : f # RouteOf(1) /\ f # RouteOf(2) => disk'[f] = pre.disk[f]
          <5>1. /\ routes = {} => disk' = disk
                /\ routes # {} => /\ disk' = [disk EXCEPT ![RouteOf(2)] = tmp[RouteOf(2)]]
                                  /\ tmp[RouteOf(2)] # Absent
            BY <2>2, <2>6
          <5> QED
            BY <1>0, <2>6, <5>1, InstalledRoutes
        <4>2. /\ ReadIfFiles(disk') = pre.ifFiles
              /\ ReadRouteFiles(disk')[name] = SavedRouteFiles
              /\ \A n \in Iface \ {name} : ReadRouteFiles(disk')[n] = pre.routeFiles[n]
          <5>1. ScriptsInv /\ ReadsBackInv /\ ~faulted
            OBVIOUS
          <5> QED
            BY ONLY <1>0, <4>1, <5>1, InstalledRoutesRead
        <4>3. ifFiles = pre.ifFiles /\ routeFiles = pre.routeFiles
          BY <1>0 DEF ReadsBackInv, WorldInv
        <4>4. Read(disk)'
          <5>1. routeFiles' = [n \in Iface |-> routeFiles'[n]]
            BY DEF ScriptsInv, MemoryInv
          <5>2. ReadRouteFiles(disk') = [n \in Iface |-> ReadRouteFiles(disk')[n]]
            BY DEF ReadRouteFiles
          <5>3. routeFiles = [n \in Iface |-> routeFiles[n]]
            BY DEF ScriptsInv, MemoryInv
          <5>4. \A n \in Iface : routeFiles'[n] = ReadRouteFiles(disk')[n]
            BY <1>0, <3>1, <4>2, <4>3, <5>3
          <5>5. routeFiles' = ReadRouteFiles(disk')
            BY ONLY <5>1, <5>2, <5>4
          <5> QED
            BY <3>1, <4>2, <4>3, <5>5 DEF Read
        <4>5. ReadsBack'
          <5>1. \A v : Asked(v)' = Asked(v)
            BY <2>1 DEF Asked
          <5>2. View(pre.ifFiles[name], SavedRouteFiles)
                  = Asked(View(pre.ifFiles[name], pre.routeFiles[name]))
            BY <1>0, RoutesView
          <5>3. ASSUME NEW n \in Iface, n # name
                PROVE  View(ReadIfFiles(disk')[n], ReadRouteFiles(disk')[n])
                         = View(pre.ifFiles[n], pre.routeFiles[n])
            BY <4>2, <5>3
          <5>4. View(ReadIfFiles(disk')[name], ReadRouteFiles(disk')[name])
                  = Asked(View(pre.ifFiles[name], pre.routeFiles[name]))
            BY <4>2, <5>2
          <5> QED
            BY <2>1, <5>1, <5>3, <5>4 DEF ReadsBack
        <4> QED
          BY <3>1, <4>4, <4>5 DEF WorldInv
      <3> QED
        BY <3>2, <3>3, <3>4 DEF ReadsBackInv
    <2> QED
      BY <1>0, <2>5, <2>6
  <1> QED
    BY <1>2, <1>3 DEF InstallRoutes

\* Every step keeps what a new process would read.
LEMMA ReadsStep ==
    ASSUME ScriptsInv, ScriptsInv', ReadsBackInv, [Next]_vars
    PROVE  ReadsBackInv'
  <1>1. CASE UNCHANGED vars
    <2>1. /\ disk' = disk /\ tmp' = tmp /\ ifFiles' = ifFiles /\ routeFiles' = routeFiles
          /\ pc' = pc /\ j' = j /\ new' = new /\ call' = call /\ ret' = ret /\ pre' = pre
          /\ faulted' = faulted /\ name' = name
      BY <1>1 DEF vars, name
    <2>2. TextsInv'
      BY <2>1 DEF ReadsBackInv, TextsInv, Typed
    <2>3. AskedInv'
      BY <2>1 DEF ReadsBackInv, AskedInv, IfAsked, RoutesAsked
    <2>4. ~faulted' => WorldInv'
      <3>1. ReadsBack => ReadsBack'
        BY <2>1, SameReadsBack
      <3>2. ASSUME NEW k PROVE /\ WrittenRoutes(k) => WrittenRoutes(k)'
                               /\ PlacedRoutes(k) => PlacedRoutes(k)'
        BY <2>1 DEF WrittenRoutes, PlacedRoutes, RouteText, RouteOf
      <3>3. /\ Read(disk) => Read(disk)'
            /\ Read(pre.disk) => Read(pre.disk)'
        BY <2>1 DEF Read
      <3> QED
        BY <2>1, <3>1, <3>2, <3>3 DEF ReadsBackInv, WorldInv
    <2> QED
      BY <2>2, <2>3, <2>4 DEF ReadsBackInv
  <1>2. CASE PruneBackups
    BY <1>2, DoneReads DEF PruneBackups, Prune, Done
  <1>3. CASE PruneRoutes
    <2>1. disk' = disk /\ tmp' = tmp
      BY <1>3 DEF PruneRoutes, Prune, files
    <2>2. pc' \in {"idle", "pruneRoutes"} /\ faulted' = faulted /\ Rest
      BY <1>3 DEF PruneRoutes, Go, Done
    <2> QED
      BY <1>3, <2>1, <2>2, DoneReads DEF PruneRoutes
  <1>4. CASE SetIfaceAddresses \/ SetIfaceDHCP \/ SetIfaceDNS \/ SetIfaceRoutes
    BY <1>4, CallsRead
  <1>5. CASE WriteConfig \/ Backup \/ Install
    BY <1>5, WriteConfigReads, BackupReads, InstallReads
  <1>6. CASE WriteRoutes \/ BackupRoutes \/ InstallRoutes
    BY <1>6, WriteRoutesReads, BackupRoutesReads, InstallRoutesReads
  <1>7. CASE Exit \/ newNetworkScripts
    BY <1>7, ExitReads, StartReads
  <1> QED
    BY <1>1, <1>2, <1>3, <1>4, <1>5, <1>6, <1>7 DEF Next

\* After a call without a failure a new process reports what was asked, and the rest as it
\* was: the files of an interface, merged into one, say together what they said apart, and
\* no other interface's are touched.
THEOREM CallReadsBack == Spec => []ReadsBackAsAsked
  <1>1. Init => ScriptsInv /\ ReadsBackInv
    BY ScriptsInit, ReadsInit
  <1>2. (ScriptsInv /\ ReadsBackInv) /\ [Next]_vars => (ScriptsInv /\ ReadsBackInv)'
    <2>1. ScriptsInv /\ [Next]_vars => ScriptsInv'
      BY ScriptsStep
    <2> QED
      BY <2>1, ReadsStep
  <1>3. ReadsBackInv => ReadsBackAsAsked
    BY DEF ReadsBackInv, WorldInv, ReadsBack, ReadsBackAsAsked
  <1> QED
    BY <1>1, <1>2, <1>3, PTL DEF Spec
=============================================================================
