---------------------------- MODULE FilesProofs ----------------------------
(***************************************************************************)
(* Descriptors: the objects behind them are shared by tables, and tables   *)
(* by tasks.  Their counts are right for every number of tasks, tables,    *)
(* ids and objects.                                                        *)
(***************************************************************************)
EXTENDS FileTable, FiniteSetTheorems, NaturalsInduction, WellFoundedInduction, TLAPS

-----------------------------------------------------------------------------
\* A set of natural numbers has a least element.
LEMMA LeastExists ==
  ASSUME NEW S \in SUBSET Nat, S # {}
  PROVE  \E s \in S : \A t \in S : s <= t
<1>1. PICK s \in S : \A t \in S : ~ (<<t, s>> \in OpToRel(<, Nat))
  BY NatLessThanWellFounded, WFMin, Zenon
<1>2. ASSUME NEW t \in S PROVE s <= t
  <2>1. ~ (<<t, s>> \in {p \in Nat \X Nat : p[1] < p[2]})
    BY <1>1, Zenon DEF OpToRel
  <2> QED
    BY <2>1
<1> QED
  BY <1>2, Zenon

\* A property of the numbers of an interval, from each to the next.
LEMMA IntervalInduction ==
  ASSUME NEW hi \in Nat, NEW P \in SUBSET (0 .. hi), 0 \in P,
         \A k \in P : k < hi => k + 1 \in P
  PROVE  P = 0 .. hi
<1> DEFINE Missing == (0 .. hi) \ P
<1>1. SUFFICES ASSUME Missing # {} PROVE FALSE
  BY Zenon
<1>2. Missing \in SUBSET Nat
  OBVIOUS
<1>3. PICK m \in Missing : \A t \in Missing : m <= t
  <2> HIDE DEF Missing
  <2> QED
    BY <1>1, <1>2, LeastExists, Zenon
<1>4. m \in 0 .. hi /\ m \notin P /\ m # 0
  BY Zenon
<1>5. m - 1 \in 0 .. hi /\ m - 1 < hi /\ (m - 1) + 1 = m /\ ~ (m <= m - 1)
  BY <1>4
<1>6. m - 1 \in P
  BY <1>3, <1>5, Zenon
<1> QED
  BY <1>4, <1>5, <1>6, Zenon

-----------------------------------------------------------------------------
(***************************************************************************)
(* Descriptors (FileTable).  A slot is a place for an open file in one of  *)
(* the tables; V says which end the file in each slot stands for.          *)
(***************************************************************************)
FileSlots == Table \X Fds

NoEnd == <<>>
IsView(V) == V \in [FileSlots -> Ends \cup {NoEnd}]
SlotsOf(V, e) == {x \in FileSlots : V[x] = e}

\* The steps of V and of the counts c.
WithEnd(V, x, e) == [V EXCEPT ![x] = e]
CountUp(c, e) == [c EXCEPT ![e] = @ + 1]
CountDown(c, e) == [c EXCEPT ![e] = @ - 1]

\* No end of the object of e is counted.
Unused(c, e) == \A f \in Ends : f[1] = e[1] => c[f] = 0

\* The counts c are right, and the objects in A are those with a descriptor.
EndsAre(V, c, A) ==
  /\ \A e \in Ends : c[e] = Cardinality(SlotsOf(V, e))
  /\ A = {o \in Objects : \E e \in Ends : e[1] = o /\ SlotsOf(V, e) # {}}

\* The ends in S, all of o, have a descriptor each, and the others have theirs.
NewEnds(S, o, W, k) ==
  S # {} /\ \A e \in S : e[1] = o /\ k[e] = 1 /\ \E x : SlotsOf(W, e) = {x}
OldEnds(S, V, c, W, k) == \A e \in Ends \ S : k[e] = c[e] /\ SlotsOf(W, e) = SlotsOf(V, e)

\* What the constants are.
LEMMA FileConstants ==
  /\ IsFiniteSet(FileSlots) /\ IsFiniteSet(Task)
  /\ 0 \in Fds /\ Fds \subseteq Nat /\ Table \subseteq Nat
  /\ NoTable \notin Table
  /\ NoEnd \notin Ends
  /\ \A e \in Ends : e[1] \in Objects
<1>1. PICK n \in Fds : Fds = 0 .. n
  BY FileTableAssumption, Zenon
<1>2. n \in Nat
  BY FileTableAssumption, Zenon
<1>3. IsFiniteSet(0 .. n)
  BY <1>2, FS_Interval
<1>4. IsFiniteSet(FileSlots)
  BY <1>1, <1>3, FileTableAssumption, FS_Product, Zenon DEF FileSlots
<1>5. 0 \in Fds
  BY <1>1, <1>2
<1>6. ASSUME NEW e \in Ends PROVE e # NoEnd /\ e[1] \in Objects
  <2>1. CASE e \in Pipes \X {"read", "write"}
    BY <2>1 DEF Objects, NoEnd
  <2>2. CASE e \in Events \X {"event"}
    <3>1. PICK o \in Events : e = <<o, "event">>
      BY <2>2
    <3>2. e[1] = o /\ e # <<>>
      BY <3>1
    <3> QED
      BY <3>2, Zenon DEF Objects, NoEnd
  <2> QED
    BY <1>6, <2>1, <2>2, Zenon DEF Ends
<1> QED
  BY <1>4, <1>5, <1>6, FileTableAssumption, Zenon

\* The slots of an end are finitely many, and counted by a number.
LEMMA SlotsFinite ==
  ASSUME NEW V, NEW e
  PROVE  /\ IsFiniteSet(SlotsOf(V, e)) /\ Cardinality(SlotsOf(V, e)) \in Nat
         /\ Cardinality(SlotsOf(V, e)) = 0 <=> SlotsOf(V, e) = {}
<1>1. SlotsOf(V, e) \in SUBSET FileSlots
  BY Zenon DEF SlotsOf
<1>2. IsFiniteSet(SlotsOf(V, e))
  BY <1>1, FileConstants, FS_Subset, Zenon
<1> QED
  BY <1>2, FS_CardinalityType, FS_EmptySet, Zenon

\* An empty slot is filled.
LEMMA FillSlot ==
  ASSUME NEW V, IsView(V), NEW x \in FileSlots, V[x] = NoEnd, NEW e \in Ends,
         NEW W, W = WithEnd(V, x, e)
  PROVE  /\ IsView(W) /\ SlotsOf(W, e) = SlotsOf(V, e) \cup {x} /\ x \notin SlotsOf(V, e)
         /\ \A f \in Ends : f # e => SlotsOf(W, f) = SlotsOf(V, f)
<1>1. /\ IsView(W) /\ W[x] = e /\ \A y \in FileSlots : y # x => W[y] = V[y]
  BY DEF IsView, WithEnd
<1>2. e # NoEnd
  BY FileConstants, Zenon
<1>3. SlotsOf(W, e) = SlotsOf(V, e) \cup {x} /\ x \notin SlotsOf(V, e)
  BY <1>1, <1>2, Zenon DEF SlotsOf
<1>4. ASSUME NEW f \in Ends, f # e PROVE SlotsOf(W, f) = SlotsOf(V, f)
  <2>1. f # NoEnd
    BY FileConstants, Zenon
  <2> QED
    BY <1>1, <1>4, <2>1, Zenon DEF SlotsOf
<1> QED
  BY <1>1, <1>3, <1>4, Zenon

\* A descriptor more for e: an empty slot is filled.
LEMMA OneMore ==
  ASSUME NEW V, IsView(V), NEW c \in [Ends -> Nat], NEW A, EndsAre(V, c, A),
         NEW x \in FileSlots, V[x] = NoEnd, NEW e \in Ends, e[1] \in A,
         NEW W, W = WithEnd(V, x, e), NEW k, k = CountUp(c, e)
  PROVE  IsView(W) /\ k \in [Ends -> Nat] /\ EndsAre(W, k, A)
<1>1. /\ IsView(W) /\ SlotsOf(W, e) = SlotsOf(V, e) \cup {x} /\ x \notin SlotsOf(V, e)
      /\ \A f \in Ends : f # e => SlotsOf(W, f) = SlotsOf(V, f)
  BY FillSlot
<1>2. /\ k \in [Ends -> Nat] /\ k[e] = c[e] + 1 /\ \A f \in Ends : f # e => k[f] = c[f]
  BY DEF CountUp
<1>3. Cardinality(SlotsOf(W, e)) = Cardinality(SlotsOf(V, e)) + 1
  BY <1>1, SlotsFinite, FS_AddElement, Zenon
<1>4. ASSUME NEW f \in Ends PROVE k[f] = Cardinality(SlotsOf(W, f))
  <2>1. c[f] = Cardinality(SlotsOf(V, f))
    BY Zenon DEF EndsAre
  <2>2. CASE f = e
    BY <1>2, <1>3, <2>1, <2>2
  <2>3. CASE f # e
    BY <1>1, <1>2, <2>1, <2>3, Zenon
  <2> QED
    BY <2>2, <2>3, Zenon
<1>5. \A o \in Objects : o \in A <=> \E f \in Ends : f[1] = o /\ SlotsOf(W, f) # {}
  <2>1. \A o \in Objects : o \in A <=> \E f \in Ends : f[1] = o /\ SlotsOf(V, f) # {}
    BY Zenon DEF EndsAre
  <2>2. SlotsOf(W, e) # {}
    BY <1>1, Zenon
  <2> QED
    BY <1>1, <2>1, <2>2, Zenon
<1>6. A \subseteq Objects
  BY Zenon DEF EndsAre
<1>7. A = {o \in Objects : \E f \in Ends : f[1] = o /\ SlotsOf(W, f) # {}}
  BY <1>5, <1>6, Zenon
<1> QED
  BY <1>1, <1>2, <1>4, <1>7, Zenon DEF EndsAre

\* A descriptor less: the object goes with the last one.
LEMMA OneLess ==
  ASSUME NEW V, IsView(V), NEW c \in [Ends -> Nat], NEW A, EndsAre(V, c, A),
         NEW x \in FileSlots, NEW e \in Ends, V[x] = e,
         NEW W, W = WithEnd(V, x, NoEnd), NEW k, k = CountDown(c, e)
  PROVE  /\ IsView(W) /\ k \in [Ends -> Nat] /\ e[1] \in A
         /\ Unused(k, e) => EndsAre(W, k, A \ {e[1]})
         /\ ~Unused(k, e) => EndsAre(W, k, A)
<1>1. /\ IsView(W) /\ W[x] = NoEnd /\ \A y \in FileSlots : y # x => W[y] = V[y]
  BY DEF IsView, WithEnd
<1>2. e # NoEnd
  BY FileConstants, Zenon
<1>3. SlotsOf(W, e) = SlotsOf(V, e) \ {x} /\ x \in SlotsOf(V, e)
  BY <1>1, <1>2, Zenon DEF SlotsOf
<1>4. ASSUME NEW f \in Ends, f # e PROVE SlotsOf(W, f) = SlotsOf(V, f)
  <2>1. f # NoEnd
    BY FileConstants, Zenon
  <2> QED
    BY <1>1, <1>4, <2>1, Zenon DEF SlotsOf
<1>5. Cardinality(SlotsOf(W, e)) = Cardinality(SlotsOf(V, e)) - 1
  <2>1. PICK S : S = SlotsOf(V, e)
    BY Zenon
  <2>2. IsFiniteSet(S) /\ x \in S
    BY <1>3, <2>1, SlotsFinite, Zenon
  <2>3. Cardinality(S \ {x}) = Cardinality(S) - 1
    BY <2>2, FS_RemoveElement, Zenon
  <2> QED
    BY <1>3, <2>1, <2>3, Zenon
<1>6. c[e] = Cardinality(SlotsOf(V, e)) /\ Cardinality(SlotsOf(V, e)) # 0
  BY <1>3, SlotsFinite, Zenon DEF EndsAre
<1>7. /\ k \in [Ends -> Nat] /\ k[e] = c[e] - 1 /\ \A f \in Ends : f # e => k[f] = c[f]
  <2>1. c[e] \in Nat /\ c[e] # 0
    BY <1>6
  <2> QED
    BY <2>1 DEF CountDown
<1>8. ASSUME NEW f \in Ends PROVE k[f] = Cardinality(SlotsOf(W, f))
  <2>1. c[f] = Cardinality(SlotsOf(V, f))
    BY Zenon DEF EndsAre
  <2>2. CASE f = e
    BY <1>5, <1>7, <2>1, <2>2, Zenon
  <2>3. CASE f # e
    BY <1>4, <1>7, <2>1, <2>3, Zenon
  <2> QED
    BY <2>2, <2>3, Zenon
<1>9. \A o \in Objects : o \in A <=> \E f \in Ends : f[1] = o /\ SlotsOf(V, f) # {}
  BY Zenon DEF EndsAre
<1>10. e[1] \in Objects /\ A \subseteq Objects
  BY FileConstants, Zenon DEF EndsAre
<1>11. e[1] \in A
  BY <1>3, <1>9, <1>10, Zenon
<1>12. ASSUME NEW f \in Ends PROVE k[f] = 0 <=> SlotsOf(W, f) = {}
  <2>1. Cardinality(SlotsOf(W, f)) = 0 <=> SlotsOf(W, f) = {}
    BY SlotsFinite, Zenon
  <2> QED
    BY <1>8, <2>1, Zenon
<1>13. ASSUME Unused(k, e) PROVE EndsAre(W, k, A \ {e[1]})
  <2>1. \A o \in Objects : o \in A \ {e[1]} <=> \E f \in Ends : f[1] = o /\ SlotsOf(W, f) # {}
    BY <1>4, <1>9, <1>12, <1>13, Zenon DEF Unused
  <2>2. A \ {e[1]} = {o \in Objects : \E f \in Ends : f[1] = o /\ SlotsOf(W, f) # {}}
    BY <1>10, <2>1, Zenon
  <2> QED
    BY <1>8, <2>2, Zenon DEF EndsAre
<1>14. ASSUME ~Unused(k, e) PROVE EndsAre(W, k, A)
  <2>1. PICK g \in Ends : g[1] = e[1] /\ SlotsOf(W, g) # {}
    BY <1>12, <1>14, Zenon DEF Unused
  <2>2. \A o \in Objects : o \in A <=> \E f \in Ends : f[1] = o /\ SlotsOf(W, f) # {}
    BY <1>4, <1>9, <1>11, <2>1, Zenon
  <2>3. A = {o \in Objects : \E f \in Ends : f[1] = o /\ SlotsOf(W, f) # {}}
    BY <1>10, <2>2, Zenon
  <2> QED
    BY <1>8, <2>3, Zenon DEF EndsAre
<1> QED
  BY <1>1, <1>7, <1>11, <1>13, <1>14, Zenon

\* The ends in S of a new object o get a descriptor each.
LEMMA NewObject ==
  ASSUME NEW V, NEW c \in [Ends -> Nat], NEW A, EndsAre(V, c, A),
         NEW o \in Objects, NEW S \in SUBSET Ends,
         NEW W, NEW k \in [Ends -> Nat], NewEnds(S, o, W, k), OldEnds(S, V, c, W, k)
  PROVE  EndsAre(W, k, A \cup {o})
<1> USE DEF NewEnds, OldEnds
<1>1. ASSUME NEW e \in Ends PROVE k[e] = Cardinality(SlotsOf(W, e))
  <2>1. CASE e \in S
    <3>1. PICK x : SlotsOf(W, e) = {x}
      BY <2>1, Zenon
    <3>2. Cardinality({x}) = 1
      BY FS_Singleton, Zenon
    <3> QED
      BY <2>1, <3>1, <3>2, Zenon
  <2>2. CASE e \notin S
    BY <2>2, Zenon DEF EndsAre
  <2> QED
    BY <2>1, <2>2, Zenon
<1>2. \A p \in Objects : p \in A <=> \E e \in Ends : e[1] = p /\ SlotsOf(V, e) # {}
  BY Zenon DEF EndsAre
<1>3. \A e \in S : SlotsOf(W, e) # {}
  BY Zenon
<1>4. ASSUME NEW p \in Objects
      PROVE  p \in A \cup {o} <=> \E e \in Ends : e[1] = p /\ SlotsOf(W, e) # {}
  <2>1. CASE p = o
    BY <1>3, <2>1, Zenon
  <2>2. CASE p # o
    <3>1. \A e \in Ends : e[1] = p => SlotsOf(W, e) = SlotsOf(V, e)
      BY <2>2, Zenon
    <3> QED
      BY <1>2, <2>2, <3>1, Zenon
  <2> QED
    BY <2>1, <2>2, Zenon
<1>5. A \cup {o} = {p \in Objects : \E e \in Ends : e[1] = p /\ SlotsOf(W, e) # {}}
  <2>1. A \cup {o} \subseteq Objects
    BY Zenon DEF EndsAre
  <2> QED
    BY <1>4, <2>1, Zenon
<1> QED
  BY <1>1, <1>5, Zenon DEF EndsAre

(***************************************************************************)
(* The record that the functions of FileTable work on.  Between calls it   *)
(* is Good with no slot in X; within a call, the slots in X have an id     *)
(* that is reserved for a file not yet registered.  Full is how fsIdFind   *)
(* fails.                                                                  *)
(***************************************************************************)
FileType == {NoFile} \cup {File(e, c) : e \in Ends, c \in BOOLEAN}
TreeType == [Table -> [Fds -> FileType]]
IdsType == [Table -> SUBSET Fds]
TablesType ==
  [fdBitmap : IdsType, firstFile : TreeType, fds : [Ends -> Nat], allocated : SUBSET Objects,
   dropped : IdsType, failed : {"none", "no_id"}, id : Fds]

WithFile(F, b, i, f) == [F EXCEPT ![b][i] = f]
SameBut(F, G, b, i) == \A d \in Table, j \in Fds : d # b \/ j # i => G[d][j] = F[d][j]
SameIds(m, n, t) == \A b \in Table : b # t => n.fdBitmap[b] = m.fdBitmap[b]
View(F) == [x \in FileSlots |-> F[x[1]][x[2]].end]

IdsAre(F, ids, lost, X) ==
  \A b \in Table, i \in Fds :
    /\ i \in ids[b] <=> F[b][i] # NoFile \/ i \in lost[b] \/ <<b, i>> \in X
    /\ F[b][i] # NoFile => i \notin lost[b]
    /\ <<b, i>> \in X => F[b][i] = NoFile /\ i \notin lost[b]

Sound(m, X) ==
  /\ m \in TablesType /\ m.failed = "none"
  /\ IdsAre(m.firstFile, m.fdBitmap, m.dropped, X)

Good(m, X) ==
  /\ Sound(m, X)
  /\ EndsAre(View(m.firstFile), m.fds, m.allocated)

Full(m) ==
  /\ m \in TablesType /\ m.failed = "no_id"
  /\ \E b \in Table : m.fdBitmap[b] = Fds

\* A file stands for an end, and a place without a file for none.
LEMMA FileEnds ==
  ASSUME NEW f \in FileType
  PROVE  /\ f.end \in Ends \cup {NoEnd}
         /\ f = NoFile <=> f.end = NoEnd
         /\ f # NoFile => f.end \in Ends
         /\ \A c \in BOOLEAN : f # NoFile => File(f.end, c) \in FileType \ {NoFile}
         /\ \A c \in BOOLEAN : File(f.end, c).end = f.end
<1>1. \A e \in Ends : e # NoEnd
  BY FileConstants, Zenon
<1>2. ASSUME NEW e, NEW c PROVE File(e, c).end = e
  BY DEF File
<1>3. NoFile.end = NoEnd
  BY DEF NoFile, NoEnd
<1>4. ASSUME NEW e \in Ends, NEW c \in BOOLEAN PROVE File(e, c) \in FileType \ {NoFile}
  <2>1. File(e, c) # NoFile
    BY <1>1, <1>2, <1>3
  <2> QED
    BY <2>1 DEF FileType
<1>5. CASE f = NoFile
  BY <1>2, <1>3, <1>5, Zenon
<1>6. CASE f # NoFile
  <2>1. PICK e \in Ends, c \in BOOLEAN : f = File(e, c)
    BY <1>6 DEF FileType
  <2>2. f.end = e
    BY <1>2, <2>1, Zenon
  <2> QED
    BY <1>1, <1>2, <1>4, <1>6, <2>2, Zenon
<1> QED
  BY <1>5, <1>6, Zenon

\* A file for an end.
LEMMA EndFile ==
  ASSUME NEW e \in Ends, NEW c \in BOOLEAN
  PROVE  File(e, c) \in FileType \ {NoFile} /\ File(e, c).end = e
<1>1. File(e, c).end = e
  BY DEF File
<1>2. NoFile.end = NoEnd
  BY DEF NoFile, NoEnd
<1>3. e # NoEnd
  BY FileConstants, Zenon
<1>4. File(e, c) # NoFile
  BY <1>1, <1>2, <1>3
<1> QED
  BY <1>1, <1>4 DEF FileType

\* No file is a file without an end.
LEMMA NoFileEnd == NoFile \in FileType /\ NoFile.end = NoEnd
<1>1. NoFile \in FileType
  BY DEF FileType
<1> QED
  BY <1>1, FileEnds, Zenon

\* What View holds at a slot.
LEMMA ViewAt ==
  ASSUME NEW F \in TreeType
  PROVE  /\ IsView(View(F))
         /\ \A b \in Table, i \in Fds : <<b, i>> \in FileSlots /\ View(F)[<<b, i>>] = F[b][i].end
<1>1. ASSUME NEW x \in FileSlots PROVE F[x[1]][x[2]].end \in Ends \cup {NoEnd}
  <2>1. x[1] \in Table /\ x[2] \in Fds
    BY DEF FileSlots
  <2>2. F[x[1]][x[2]] \in FileType
    BY <2>1 DEF TreeType
  <2> QED
    BY <2>2, FileEnds, Zenon
<1>2. IsView(View(F))
  BY <1>1 DEF View, IsView
<1>3. ASSUME NEW b \in Table, NEW i \in Fds
      PROVE  <<b, i>> \in FileSlots /\ View(F)[<<b, i>>] = F[b][i].end
  BY DEF View, FileSlots
<1> QED
  BY <1>2, <1>3, Zenon

\* Storing a file in the tree.
LEMMA ViewSet ==
  ASSUME NEW F \in TreeType, NEW b \in Table, NEW i \in Fds, NEW f \in FileType,
         NEW G, G = WithFile(F, b, i, f)
  PROVE  /\ G \in TreeType /\ G[b][i] = f
         /\ SameBut(F, G, b, i)
         /\ View(G) = WithEnd(View(F), <<b, i>>, f.end)
<1>1. G \in TreeType /\ G[b][i] = f
  BY DEF TreeType, WithFile
<1>2. ASSUME NEW d \in Table, NEW j \in Fds, d # b \/ j # i PROVE G[d][j] = F[d][j]
  BY <1>2 DEF TreeType, WithFile
<1>3. PICK V : V = [View(F) EXCEPT ![<<b, i>>] = f.end]
  BY Zenon
<1>4. ASSUME NEW x \in FileSlots PROVE View(G)[x] = V[x]
  <2>1. PICK d \in Table, j \in Fds : x = <<d, j>>
    BY DEF FileSlots
  <2>2. View(G)[x] = G[d][j].end /\ View(F)[x] = F[d][j].end
    BY <1>1, <2>1, ViewAt, Zenon
  <2>3. CASE x = <<b, i>>
    <3>1. d = b /\ j = i
      BY <2>1, <2>3
    <3>2. V[x] = f.end
      BY <1>3, <2>3 DEF View
    <3> QED
      BY <1>1, <2>2, <3>1, <3>2, Zenon
  <2>4. CASE x # <<b, i>>
    <3>1. d # b \/ j # i
      BY <2>1, <2>4, Zenon
    <3>2. V[x] = View(F)[x]
      BY <1>3, <2>4 DEF View
    <3> QED
      BY <1>2, <2>2, <3>1, <3>2, Zenon
  <2> QED
    BY <2>3, <2>4, Zenon
<1>5. View(G) = V
  <2>1. IsView(View(F)) /\ IsView(View(G))
    BY <1>1, ViewAt, Zenon
  <2>2. PICK W, U : W = View(G) /\ U = View(F)
    BY Zenon
  <2>3. V = [U EXCEPT ![<<b, i>>] = f.end]
    BY <1>3, <2>2, Zenon
  <2>4. V = [x \in FileSlots |-> V[x]]
    BY <2>1, <2>2, <2>3, Zenon DEF IsView
  <2>5. W = [x \in FileSlots |-> W[x]]
    BY <2>1, <2>2 DEF IsView
  <2>6. \A x \in FileSlots : W[x] = V[x]
    BY <1>4, <2>2, Zenon
  <2> QED
    BY <2>2, <2>4, <2>5, <2>6
<1> QED
  BY <1>1, <1>2, <1>3, <1>5, Zenon DEF WithEnd, SameBut

\* A file is stored where there was none.
LEMMA FilledView ==
  ASSUME NEW F \in TreeType, NEW b \in Table, NEW i \in Fds, F[b][i] = NoFile,
         NEW f \in FileType \ {NoFile}, NEW e, f.end = e, NEW G, G = WithFile(F, b, i, f)
  PROVE  /\ IsView(View(F)) /\ <<b, i>> \in FileSlots /\ View(F)[<<b, i>>] = NoEnd
         /\ View(G) = WithEnd(View(F), <<b, i>>, e)
<1>1. IsView(View(F)) /\ <<b, i>> \in FileSlots /\ View(F)[<<b, i>>] = F[b][i].end
  BY ViewAt, Zenon
<1>2. NoFile.end = NoEnd
  BY NoFileEnd, Zenon
<1>3. View(G) = WithEnd(View(F), <<b, i>>, f.end)
  BY ViewSet
<1> QED
  BY <1>1, <1>2, <1>3, Zenon

\* An open file has its object allocated.
LEMMA OpenAllocated ==
  ASSUME NEW m, NEW X, Good(m, X), NEW b \in Table, NEW i \in Fds, m.firstFile[b][i] # NoFile
  PROVE  /\ m.firstFile[b][i] \in FileType \ {NoFile}
         /\ m.firstFile[b][i].end \in Ends /\ m.firstFile[b][i].end[1] \in m.allocated
<1>1. m \in TablesType /\ EndsAre(View(m.firstFile), m.fds, m.allocated)
  BY Zenon DEF Good, Sound
<1>2. m.firstFile \in TreeType
  BY <1>1 DEF TablesType
<1>3. m.firstFile[b][i] \in FileType
  BY <1>2 DEF TreeType
<1>4. m.firstFile[b][i].end \in Ends
  BY <1>3, FileEnds, Zenon
<1>5. <<b, i>> \in SlotsOf(View(m.firstFile), m.firstFile[b][i].end)
  BY <1>2, ViewAt, Zenon DEF SlotsOf
<1>6. m.firstFile[b][i].end[1] \in Objects
  BY <1>4, FileConstants, Zenon
<1> QED
  BY <1>1, <1>3, <1>4, <1>5, <1>6, Zenon DEF EndsAre

\* fsIdFind reserves an id that nothing has, or finds all of them reserved.
LEMMA IdFindOK ==
  ASSUME NEW m, NEW X, Sound(m, X), NEW t \in Table, NEW n, n = fsIdFind(m, t)
  PROVE  \/ Full(n)
         \/ /\ Sound(n, X \cup {<<t, n.id>>}) /\ n.id \in Fds
            /\ n.firstFile = m.firstFile /\ n.firstFile[t][n.id] = NoFile
            /\ n.fds = m.fds /\ n.allocated = m.allocated /\ n.dropped = m.dropped
            /\ SameIds(m, n, t)
<1>1. m \in TablesType /\ m.failed = "none" /\ IdsAre(m.firstFile, m.fdBitmap, m.dropped, X)
  BY Zenon DEF Sound
<1>2. m.fdBitmap \in IdsType /\ m.fdBitmap[t] \in SUBSET Fds
  BY <1>1 DEF TablesType, IdsType
<1> DEFINE free == Fds \ m.fdBitmap[t]
<1>3. CASE free = {}
  <2>1. n = Fail(m, "no_id")
    BY <1>3 DEF fsIdFind
  <2>2. n \in TablesType /\ n.failed = "no_id" /\ n.fdBitmap = m.fdBitmap
    BY <1>1, <2>1 DEF TablesType, Fail
  <2>3. m.fdBitmap[t] = Fds
    BY <1>2, <1>3, Zenon
  <2> QED
    BY <2>2, <2>3, Zenon DEF Full
<1>4. CASE free # {}
  <2>1. PICK j : j = Least(free)
    BY Zenon
  <2>2. n = [m EXCEPT !.fdBitmap[t] = @ \cup {j}, !.id = j]
    BY <1>4, <2>1 DEF fsIdFind
  <2>3. j \in free
    <3>1. free \in SUBSET Nat
      BY FileConstants, Zenon
    <3> HIDE DEF free
    <3>2. \E s \in free : \A y \in free : s <= y
      BY <1>4, <3>1, LeastExists, Zenon
    <3> QED
      BY <2>1, <3>2, Zenon DEF Least
  <2>4. j \in Fds /\ j \notin m.fdBitmap[t]
    BY <2>3, Zenon
  <2>5. PICK ids : ids = [m.fdBitmap EXCEPT ![t] = @ \cup {j}]
    BY Zenon
  <2>6. /\ ids \in IdsType /\ ids[t] = m.fdBitmap[t] \cup {j}
        /\ \A b \in Table : b # t => ids[b] = m.fdBitmap[b]
    BY <1>2, <2>4, <2>5 DEF IdsType
  <2>7. /\ n.fdBitmap = ids /\ n.id = j /\ n.firstFile = m.firstFile /\ n.fds = m.fds
        /\ n.allocated = m.allocated /\ n.dropped = m.dropped /\ n.failed = m.failed
        /\ n \in TablesType
    <3> HIDE DEF free
    <3>1. n = [m EXCEPT !.fdBitmap = ids, !.id = j]
      BY <2>2, <2>5
    <3> QED
      BY <1>1, <2>4, <2>6, <3>1, Zenon DEF TablesType
  <2>8. ASSUME NEW b \in Table, NEW i \in Fds
        PROVE  /\ i \in ids[b] <=> i \in m.fdBitmap[b] \/ <<b, i>> = <<t, j>>
               /\ <<b, i>> = <<t, j>> => i \notin m.fdBitmap[b]
    <3> HIDE DEF free
    <3>1. <<b, i>> = <<t, j>> <=> b = t /\ i = j
      OBVIOUS
    <3> QED
      BY <2>4, <2>6, <3>1, Zenon
  <2>9. IdsAre(m.firstFile, ids, m.dropped, X \cup {<<t, j>>})
    <3> HIDE DEF free
    <3> QED
      BY <1>1, <2>8, Zenon DEF IdsAre
  <2>10. m.firstFile[t][j] = NoFile
    BY <1>1, <2>4, Zenon DEF IdsAre
  <2>11. Sound(n, X \cup {<<t, j>>})
    BY <1>1, <2>7, <2>9, Zenon DEF Sound
  <2> QED
    <3> HIDE DEF free
    <3> QED
      BY <2>4, <2>6, <2>7, <2>10, <2>11, Zenon DEF SameIds
<1> QED
  BY <1>3, <1>4, Zenon

\* When it has failed, nothing mends it.
LEMMA FullStays ==
  ASSUME NEW m, Full(m), NEW t \in Table, NEW f
  PROVE  Full(OpenAs(m, t, f))
<1>1. PICK n : n = fsIdFind(m, t)
  BY Zenon
<1>2. m \in TablesType /\ m.failed = "no_id" /\ \E b \in Table : m.fdBitmap[b] = Fds
  BY Zenon DEF Full
<1> DEFINE free == Fds \ m.fdBitmap[t]
<1>3. CASE free = {}
  <2>1. n = Fail(m, "no_id")
    BY <1>1, <1>3 DEF fsIdFind
  <2>2. n \in TablesType /\ n.failed = "no_id" /\ n.fdBitmap = m.fdBitmap
    BY <1>2, <2>1 DEF TablesType, Fail
  <2>3. Full(n)
    BY <1>2, <2>2, Zenon DEF Full
  <2>4. OpenAs(m, t, f) = n
    BY <1>1, <2>2 DEF OpenAs
  <2> QED
    BY <2>3, <2>4, Zenon
<1>4. CASE free # {}
  <2>1. PICK j : j = Least(free)
    BY Zenon
  <2>2. n = [m EXCEPT !.fdBitmap[t] = @ \cup {j}, !.id = j]
    BY <1>1, <1>4, <2>1 DEF fsIdFind
  <2>3. j \in free
    <3>1. free \in SUBSET Nat
      BY FileConstants, Zenon
    <3> HIDE DEF free
    <3>2. \E s \in free : \A y \in free : s <= y
      BY <1>4, <3>1, LeastExists, Zenon
    <3> QED
      BY <2>1, <3>2, Zenon DEF Least
  <2>4. j \in Fds
    BY <2>3, Zenon
  <2>5. PICK ids : ids = [m.fdBitmap EXCEPT ![t] = @ \cup {j}]
    BY Zenon
  <2>6. m.fdBitmap \in IdsType
    BY <1>2 DEF TablesType
  <2>7. /\ ids \in IdsType /\ \A b \in Table : b # t => ids[b] = m.fdBitmap[b]
    <3> HIDE DEF free
    <3> QED
      BY <2>4, <2>5, <2>6 DEF IdsType
  <2>8. n \in TablesType /\ n.failed = "no_id" /\ n.fdBitmap = ids
    <3> HIDE DEF free
    <3>1. n = [m EXCEPT !.fdBitmap = ids, !.id = j]
      BY <2>2, <2>5
    <3> QED
      BY <1>2, <2>4, <2>7, <3>1, Zenon DEF TablesType
  <2>9. PICK b \in Table : m.fdBitmap[b] = Fds
    BY <1>2, Zenon
  <2>10. b # t
    BY <1>4, <2>9, Zenon
  <2>11. Full(n)
    BY <2>7, <2>8, <2>9, <2>10, Zenon DEF Full
  <2>12. OpenAs(m, t, f) = n
    BY <1>1, <2>8 DEF OpenAs
  <2> QED
    BY <2>11, <2>12, Zenon
<1> QED
  BY <1>3, <1>4, Zenon

\* A file registered with the id that was reserved for it.
LEMMA RegisterOK ==
  ASSUME NEW m, NEW X, Sound(m, X), NEW t \in Table, NEW i \in Fds, <<t, i>> \in X,
         NEW f \in FileType \ {NoFile}, NEW n, n = fsRegisterNode(m, t, i, f)
  PROVE  /\ Sound(n, X \ {<<t, i>>})
         /\ n.firstFile = WithFile(m.firstFile, t, i, f) /\ m.firstFile[t][i] = NoFile
         /\ n.fds = m.fds /\ n.allocated = m.allocated /\ n.dropped = m.dropped
         /\ n.fdBitmap = m.fdBitmap
<1>1. m \in TablesType /\ m.failed = "none" /\ IdsAre(m.firstFile, m.fdBitmap, m.dropped, X)
  BY Zenon DEF Sound
<1>2. m.firstFile[t][i] = NoFile
  BY <1>1, Zenon DEF IdsAre
<1>3. PICK G : G = WithFile(m.firstFile, t, i, f)
  BY Zenon
<1>4. m.firstFile \in TreeType
  BY <1>1 DEF TablesType
<1>5. /\ G \in TreeType /\ G[t][i] = f
      /\ SameBut(m.firstFile, G, t, i)
  <2>1. PICK F : F = m.firstFile
    BY Zenon
  <2>2. F \in TreeType /\ f \in FileType /\ G = WithFile(F, t, i, f)
    BY <1>3, <1>4, <2>1, Zenon
  <2>3. /\ G \in TreeType /\ G[t][i] = f
        /\ SameBut(F, G, t, i)
    BY <2>2, ViewSet
  <2> QED
    BY <2>1, <2>3, Zenon
<1>6. n = [m EXCEPT !.firstFile = G]
  BY <1>2, <1>3 DEF fsRegisterNode, WithFile
<1>7. /\ n \in TablesType /\ n.firstFile = G /\ n.failed = m.failed
      /\ n.fds = m.fds /\ n.allocated = m.allocated /\ n.dropped = m.dropped
      /\ n.fdBitmap = m.fdBitmap
  BY <1>1, <1>5, <1>6 DEF TablesType
<1>8. IdsAre(G, m.fdBitmap, m.dropped, X \ {<<t, i>>})
  <2>1. SUFFICES ASSUME NEW b \in Table, NEW j \in Fds
                 PROVE  /\ j \in m.fdBitmap[b] <=> \/ G[b][j] # NoFile \/ j \in m.dropped[b]
                                                   \/ <<b, j>> \in X \ {<<t, i>>}
                        /\ G[b][j] # NoFile => j \notin m.dropped[b]
                        /\ <<b, j>> \in X \ {<<t, i>>} => G[b][j] = NoFile /\ j \notin m.dropped[b]
    BY Zenon DEF IdsAre
  <2>2. /\ j \in m.fdBitmap[b] <=> \/ m.firstFile[b][j] # NoFile \/ j \in m.dropped[b]
                                   \/ <<b, j>> \in X
        /\ m.firstFile[b][j] # NoFile => j \notin m.dropped[b]
        /\ <<b, j>> \in X => m.firstFile[b][j] = NoFile /\ j \notin m.dropped[b]
    BY <1>1, Zenon DEF IdsAre
  <2>3. CASE b = t /\ j = i
    BY <1>5, <2>2, <2>3, Zenon
  <2>4. CASE b # t \/ j # i
    <3>1. <<b, j>> # <<t, i>>
      BY <2>4
    <3>2. G[b][j] = m.firstFile[b][j]
      BY <1>5, <2>4, Zenon DEF SameBut
    <3> QED
      BY <2>2, <3>1, <3>2, Zenon
  <2> QED
    BY <2>3, <2>4, Zenon
<1> QED
  BY <1>1, <1>2, <1>3, <1>7, <1>8, Zenon DEF Sound

\* A descriptor duplicated: dup, dup2 and the copy of a table.
LEMMA DuplicateOK ==
  ASSUME NEW m, NEW X, Good(m, X), NEW t \in Table, NEW i \in Fds, <<t, i>> \in X,
         NEW f \in FileType \ {NoFile}, f.end[1] \in m.allocated,
         NEW n, n = fsUserDuplicateNode(m, t, i, f)
  PROVE  /\ Good(n, X \ {<<t, i>>})
         /\ n.firstFile = WithFile(m.firstFile, t, i, f)
         /\ n.allocated = m.allocated /\ n.fdBitmap = m.fdBitmap
<1>1. PICK r : r = fsRegisterNode(m, t, i, f)
  BY Zenon
<1>2. /\ Sound(r, X \ {<<t, i>>})
      /\ r.firstFile = WithFile(m.firstFile, t, i, f) /\ m.firstFile[t][i] = NoFile
      /\ r.fds = m.fds /\ r.allocated = m.allocated /\ r.dropped = m.dropped
      /\ r.fdBitmap = m.fdBitmap
  <2>1. Sound(m, X)
    BY Zenon DEF Good
  <2> QED
    BY <1>1, <2>1, RegisterOK
<1>3. r \in TablesType /\ r.failed = "none"
  BY <1>2, Zenon DEF Sound
<1>4. PICK k : k = CountUp(m.fds, f.end)
  BY Zenon
<1>5. n = [r EXCEPT !.fds = k]
  BY <1>1, <1>2, <1>3, <1>4 DEF fsUserDuplicateNode, duplicate, CountUp
<1>6. /\ m \in TablesType /\ EndsAre(View(m.firstFile), m.fds, m.allocated)
  BY Zenon DEF Good, Sound
<1>7. m.firstFile \in TreeType /\ m.fds \in [Ends -> Nat]
  BY <1>6 DEF TablesType
<1>8. PICK e : e = f.end
  BY Zenon
<1>9. e \in Ends
  BY <1>8, FileEnds, Zenon
<1>10. /\ IsView(View(m.firstFile)) /\ <<t, i>> \in FileSlots
       /\ View(m.firstFile)[<<t, i>>] = NoEnd
  <2>1. PICK F : F = m.firstFile
    BY Zenon
  <2>2. IsView(View(F)) /\ <<t, i>> \in FileSlots /\ View(F)[<<t, i>>] = F[t][i].end
    BY <1>7, <2>1, ViewAt, Zenon
  <2> QED
    BY <1>2, <2>1, <2>2, NoFileEnd, Zenon
<1>11. View(r.firstFile) = WithEnd(View(m.firstFile), <<t, i>>, e)
  <2>1. PICK F, G : F = m.firstFile /\ G = r.firstFile
    BY Zenon
  <2>2. F \in TreeType /\ f \in FileType /\ G = WithFile(F, t, i, f)
    BY <1>2, <1>7, <2>1, Zenon
  <2>3. View(G) = WithEnd(View(F), <<t, i>>, f.end)
    BY <2>2, ViewSet
  <2> QED
    BY <1>8, <2>1, <2>3, Zenon
<1>12. k \in [Ends -> Nat] /\ EndsAre(View(r.firstFile), k, m.allocated)
  BY <1>4, <1>6, <1>7, <1>8, <1>9, <1>10, <1>11, OneMore, Zenon
<1>13. /\ n \in TablesType /\ n.failed = "none" /\ n.firstFile = r.firstFile /\ n.fds = k
       /\ n.allocated = r.allocated /\ n.dropped = r.dropped /\ n.fdBitmap = r.fdBitmap
  BY <1>3, <1>5, <1>12 DEF TablesType
<1>14. Sound(n, X \ {<<t, i>>})
  BY <1>2, <1>13, Zenon DEF Sound
<1> QED
  BY <1>2, <1>12, <1>13, <1>14, Zenon DEF Good

\* A descriptor closed: its id is free again, or kept for another file.
LEMMA CloseOK ==
  ASSUME NEW m, NEW X, Good(m, X), NEW t \in Table, NEW i \in Fds, m.firstFile[t][i] # NoFile,
         NEW retain \in BOOLEAN, NEW n, n = fsCloseGeneric(m, t, i, retain)
  PROVE  /\ ~ retain => Good(n, X)
         /\ retain => Good(n, X \cup {<<t, i>>})
         /\ n.firstFile = WithFile(m.firstFile, t, i, NoFile)
         /\ SameIds(m, n, t)
<1>1. /\ m \in TablesType /\ m.failed = "none" /\ IdsAre(m.firstFile, m.fdBitmap, m.dropped, X)
      /\ EndsAre(View(m.firstFile), m.fds, m.allocated)
  BY Zenon DEF Good, Sound
<1>2. /\ m.firstFile \in TreeType /\ m.fds \in [Ends -> Nat] /\ m.fdBitmap \in IdsType
      /\ m.allocated \in SUBSET Objects
  BY <1>1 DEF TablesType
<1>3. PICK e : e = m.firstFile[t][i].end
  BY Zenon
<1>4. e \in Ends /\ e[1] \in m.allocated
  BY <1>3, OpenAllocated, Zenon
<1>5. PICK G, k : G = WithFile(m.firstFile, t, i, NoFile) /\ k = CountDown(m.fds, e)
  BY Zenon
<1>6. NoFile \in FileType /\ NoFile.end = NoEnd
  BY NoFileEnd, Zenon
<1>7. /\ G \in TreeType /\ G[t][i] = NoFile
      /\ SameBut(m.firstFile, G, t, i)
      /\ View(G) = WithEnd(View(m.firstFile), <<t, i>>, NoEnd)
  <2>1. PICK F : F = m.firstFile
    BY Zenon
  <2>2. F \in TreeType /\ G = WithFile(F, t, i, NoFile)
    BY <1>2, <1>5, <2>1, Zenon
  <2>3. /\ G \in TreeType /\ G[t][i] = NoFile
        /\ SameBut(F, G, t, i)
        /\ View(G) = WithEnd(View(F), <<t, i>>, NoFile.end)
    BY <1>6, <2>2, ViewSet
  <2> QED
    BY <1>6, <2>1, <2>3, Zenon
<1>8. /\ IsView(View(m.firstFile)) /\ <<t, i>> \in FileSlots
      /\ View(m.firstFile)[<<t, i>>] = e
  BY <1>2, <1>3, ViewAt, Zenon
<1>9. PICK A : A = IF Unused(k, e) THEN m.allocated \ {e[1]} ELSE m.allocated
  BY Zenon
<1>10. k \in [Ends -> Nat] /\ EndsAre(View(G), k, A) /\ A \in SUBSET Objects
  <2>1. /\ k \in [Ends -> Nat]
        /\ Unused(k, e) => EndsAre(View(G), k, m.allocated \ {e[1]})
        /\ ~Unused(k, e) => EndsAre(View(G), k, m.allocated)
    <3>1. PICK V, W, c : V = View(m.firstFile) /\ W = View(G) /\ c = m.fds
      BY Zenon
    <3>2. /\ IsView(V) /\ c \in [Ends -> Nat] /\ EndsAre(V, c, m.allocated)
          /\ <<t, i>> \in FileSlots /\ e \in Ends /\ V[<<t, i>>] = e
          /\ W = WithEnd(V, <<t, i>>, NoEnd) /\ k = CountDown(c, e)
      BY <1>1, <1>2, <1>4, <1>5, <1>7, <1>8, <3>1
    <3>3. /\ k \in [Ends -> Nat]
          /\ Unused(k, e) => EndsAre(W, k, m.allocated \ {e[1]})
          /\ ~Unused(k, e) => EndsAre(W, k, m.allocated)
      BY <3>2, OneLess, Zenon
    <3> QED
      BY <3>1, <3>3, Zenon
  <2>2. CASE Unused(k, e)
    <3>1. A = m.allocated \ {e[1]}
      BY <1>9, <2>2, Zenon
    <3> QED
      BY <1>2, <2>1, <2>2, <3>1, Zenon
  <2>3. CASE ~Unused(k, e)
    <3>1. A = m.allocated
      BY <1>9, <2>3, Zenon
    <3> QED
      BY <1>2, <2>1, <2>3, <3>1, Zenon
  <2> QED
    BY <2>2, <2>3, Zenon
<1>11. PICK c : c = [m EXCEPT !.firstFile = G]
  BY Zenon
<1>12. /\ c \in TablesType /\ c.firstFile = G /\ c.fds = m.fds /\ c.allocated = m.allocated
  BY <1>1, <1>7, <1>11 DEF TablesType
<1>13. PICK r : r = close_end(c, e)
  BY Zenon
<1>14. r = [m EXCEPT !.firstFile = G, !.fds = k, !.allocated = A]
  <2>1. PICK q : q = [c EXCEPT !.fds = k]
    BY Zenon
  <2>2. q.fds = k /\ q.allocated = m.allocated
    BY <1>12, <2>1 DEF TablesType
  <2>3. r = IF Unused(q.fds, e) THEN [q EXCEPT !.allocated = @ \ {e[1]}] ELSE q
    BY <1>4, <1>5, <1>12, <1>13, <2>1 DEF close_end, CountDown, Unused
  <2>4. CASE Unused(k, e)
    <3>1. A = m.allocated \ {e[1]}
      BY <1>9, <2>4, Zenon
    <3>2. r = [q EXCEPT !.allocated = A]
      BY <2>2, <2>3, <2>4, <3>1
    <3> QED
      BY <1>1, <1>11, <2>1, <3>2 DEF TablesType
  <2>5. CASE ~Unused(k, e)
    <3>1. A = m.allocated
      BY <1>9, <2>5, Zenon
    <3>2. r = q
      BY <2>2, <2>3, <2>5, Zenon
    <3> QED
      BY <1>1, <1>11, <2>1, <3>1, <3>2, Zenon DEF TablesType
  <2> QED
    BY <2>4, <2>5, Zenon
<1>15. r \in TablesType /\ r.failed = "none" /\ r.firstFile = G /\ r.fds = k /\ r.allocated = A
       /\ r.fdBitmap = m.fdBitmap /\ r.dropped = m.dropped
  BY <1>1, <1>7, <1>10, <1>14, Zenon DEF TablesType
<1>16. n = IF retain THEN r ELSE [r EXCEPT !.fdBitmap[t] = @ \ {i}]
  BY <1>3, <1>5, <1>11, <1>13 DEF fsCloseGeneric, WithFile
<1>17. /\ i \in m.fdBitmap[t] /\ i \notin m.dropped[t] /\ <<t, i>> \notin X
  BY <1>1, Zenon DEF IdsAre
<1>18. ASSUME NEW b \in Table, NEW j \in Fds
       PROVE  /\ j \in m.fdBitmap[b] <=> \/ G[b][j] # NoFile \/ j \in m.dropped[b]
                                         \/ <<b, j>> \in X \cup {<<t, i>>}
              /\ G[b][j] # NoFile => j \notin m.dropped[b]
              /\ <<b, j>> \in X \cup {<<t, i>>} => G[b][j] = NoFile /\ j \notin m.dropped[b]
  <2>1. /\ j \in m.fdBitmap[b] <=> \/ m.firstFile[b][j] # NoFile \/ j \in m.dropped[b]
                                   \/ <<b, j>> \in X
        /\ m.firstFile[b][j] # NoFile => j \notin m.dropped[b]
        /\ <<b, j>> \in X => m.firstFile[b][j] = NoFile /\ j \notin m.dropped[b]
    BY <1>1, Zenon DEF IdsAre
  <2>2. CASE b = t /\ j = i
    BY <1>7, <1>17, <2>1, <2>2, Zenon
  <2>3. CASE b # t \/ j # i
    <3>1. <<b, j>> # <<t, i>>
      BY <2>3
    <3>2. G[b][j] = m.firstFile[b][j]
      BY <1>7, <2>3, Zenon DEF SameBut
    <3> QED
      BY <2>1, <3>1, <3>2, Zenon
  <2> QED
    BY <2>2, <2>3, Zenon
<1>19. CASE retain
  <2>1. n = r
    BY <1>16, <1>19, Zenon
  <2>2. IdsAre(G, m.fdBitmap, m.dropped, X \cup {<<t, i>>})
    BY <1>18, Zenon DEF IdsAre
  <2>3. Good(n, X \cup {<<t, i>>})
    BY <1>10, <1>15, <2>1, <2>2, Zenon DEF Good, Sound
  <2> QED
    BY <1>5, <1>15, <1>19, <2>1, <2>3, Zenon DEF SameIds
<1>20. CASE ~ retain
  <2>1. PICK ids : ids = [m.fdBitmap EXCEPT ![t] = @ \ {i}]
    BY Zenon
  <2>2. /\ ids \in IdsType /\ ids[t] = m.fdBitmap[t] \ {i}
        /\ \A b \in Table : b # t => ids[b] = m.fdBitmap[b]
    BY <1>2, <2>1 DEF IdsType
  <2>3. n = [r EXCEPT !.fdBitmap = ids]
    BY <1>15, <1>16, <1>20, <2>1
  <2>4. n \in TablesType /\ n.failed = "none" /\ n.firstFile = G /\ n.fds = k /\ n.allocated = A
        /\ n.fdBitmap = ids /\ n.dropped = m.dropped
    BY <1>15, <2>2, <2>3 DEF TablesType
  <2>5. ASSUME NEW b \in Table, NEW j \in Fds
        PROVE  /\ j \in ids[b] <=> j \in m.fdBitmap[b] /\ <<b, j>> # <<t, i>>
               /\ <<b, j>> = <<t, i>> => b = t /\ j = i
    <3>1. <<b, j>> = <<t, i>> <=> b = t /\ j = i
      OBVIOUS
    <3> QED
      BY <2>2, <3>1, Zenon
  <2>6. IdsAre(G, ids, m.dropped, X)
    <3>1. SUFFICES ASSUME NEW b \in Table, NEW j \in Fds
                   PROVE  /\ j \in ids[b] <=> \/ G[b][j] # NoFile \/ j \in m.dropped[b]
                                              \/ <<b, j>> \in X
                          /\ G[b][j] # NoFile => j \notin m.dropped[b]
                          /\ <<b, j>> \in X => G[b][j] = NoFile /\ j \notin m.dropped[b]
      BY Zenon DEF IdsAre
    <3>2. CASE <<b, j>> = <<t, i>>
      BY <1>7, <1>17, <2>5, <3>2, Zenon
    <3>3. CASE <<b, j>> # <<t, i>>
      BY <1>18, <2>5, <3>3, Zenon
    <3> QED
      BY <3>2, <3>3, Zenon
  <2>7. Good(n, X)
    BY <1>10, <2>4, <2>6, Zenon DEF Good, Sound
  <2> QED
    BY <1>5, <1>20, <2>2, <2>4, <2>7, Zenon DEF SameIds
<1> QED
  BY <1>19, <1>20, Zenon

\* The same without VFS_CLOSE_FLAG_RETAIN_ID.
LEMMA CloseFrees ==
  ASSUME NEW m, NEW X, Good(m, X), NEW t \in Table, NEW i \in Fds, m.firstFile[t][i] # NoFile,
         NEW n, n = fsCloseGeneric(m, t, i, FALSE)
  PROVE  /\ Good(n, X) /\ SameIds(m, n, t)
         /\ n.firstFile = WithFile(m.firstFile, t, i, NoFile)
<1>1. PICK retain \in BOOLEAN : ~retain
  BY Zenon
<1>2. n = fsCloseGeneric(m, t, i, retain)
  BY <1>1 DEF fsCloseGeneric
<1> QED
  BY <1>1, <1>2, CloseOK, Zenon

\* The same with VFS_CLOSE_FLAG_RETAIN_ID, for dup2.
LEMMA CloseKeeps ==
  ASSUME NEW m, NEW X, Good(m, X), NEW t \in Table, NEW i \in Fds, m.firstFile[t][i] # NoFile,
         NEW n, n = fsCloseGeneric(m, t, i, TRUE)
  PROVE  /\ Good(n, X \cup {<<t, i>>}) /\ SameIds(m, n, t)
         /\ n.firstFile = WithFile(m.firstFile, t, i, NoFile)
<1>1. PICK retain \in BOOLEAN : retain
  BY Zenon
<1>2. n = fsCloseGeneric(m, t, i, retain)
  BY <1>1 DEF fsCloseGeneric
<1> QED
  BY <1>1, <1>2, CloseOK, Zenon

-----------------------------------------------------------------------------
(***************************************************************************)
(* The loops that copy and that close the files of a table, id by id.      *)
(***************************************************************************)
Turn(copy, m, t, u, coe, i, x) ==
  IF copy THEN CopyFile(m, t, u, coe, x, i - 1) ELSE CloseFile(x, t, i - 1)

IsLoop(copy, base, m, t, u, coe, f, n) ==
  f = [i \in 0 .. n |-> IF i = 0 THEN base ELSE Turn(copy, m, t, u, coe, i, f[i - 1])]

\* The recursions of task_files_copy and taskInfoFilesDiscard have a solution.
LEMMA LoopExists ==
  ASSUME NEW copy, NEW base, NEW m, NEW t, NEW u, NEW coe, NEW k \in Nat
  PROVE  \E f : IsLoop(copy, base, m, t, u, coe, f, k)
<1> DEFINE P == {n \in 0 .. k : \E f : IsLoop(copy, base, m, t, u, coe, f, n)}
<1>1. 0 \in P
  <2>1. PICK f : f = [i \in 0 .. 0 |-> base]
    BY Zenon
  <2>2. (\A i \in 0 .. 0 : i = 0) /\ 0 \in 0 .. k
    OBVIOUS
  <2>3. IsLoop(copy, base, m, t, u, coe, f, 0)
    BY <2>1, <2>2, Zenon DEF IsLoop
  <2> QED
    BY <2>2, <2>3, Zenon
<1>2. ASSUME NEW n \in P, n < k PROVE n + 1 \in P
  <2>1. PICK f : IsLoop(copy, base, m, t, u, coe, f, n)
    BY Zenon
  <2>2. n \in Nat /\ n + 1 \in 0 .. k
    BY <1>2
  <2>3. PICK g : g = [i \in 0 .. n + 1 |->
                        IF i = n + 1 THEN Turn(copy, m, t, u, coe, i, f[n]) ELSE f[i]]
    BY Zenon
  <2>4. /\ \A i \in 0 .. n : i # n + 1 /\ i \in 0 .. n + 1
        /\ \A i \in 1 .. n : i - 1 \in 0 .. n /\ i # 0
        /\ n \in 0 .. n /\ n + 1 # 0 /\ (n + 1) - 1 = n /\ n + 1 \in 0 .. n + 1
        /\ \A i \in 0 .. n + 1 : i = 0 \/ i \in 1 .. n \/ i = n + 1
        /\ 0 \in 0 .. n /\ \A i \in 1 .. n : i \in 0 .. n
    BY <2>2
  <2>5. \A i \in 0 .. n : g[i] = f[i]
    BY <2>3, <2>4, Zenon
  <2>6. g[0] = base
    BY <2>1, <2>4, <2>5, Zenon DEF IsLoop
  <2>7. ASSUME NEW i \in 1 .. n PROVE g[i] = Turn(copy, m, t, u, coe, i, g[i - 1])
    <3>1. f[i] = Turn(copy, m, t, u, coe, i, f[i - 1])
      BY <2>1, <2>4, Zenon DEF IsLoop
    <3> QED
      BY <2>4, <2>5, <3>1, Zenon
  <2>8. g[n + 1] = Turn(copy, m, t, u, coe, n + 1, g[(n + 1) - 1])
    BY <2>3, <2>4, <2>5, Zenon
  <2>9. \A i \in 0 .. n + 1 :
          g[i] = IF i = 0 THEN base ELSE Turn(copy, m, t, u, coe, i, g[i - 1])
    BY <2>4, <2>6, <2>7, <2>8, Zenon
  <2>10. IsLoop(copy, base, m, t, u, coe, g, n + 1)
    BY <2>3, <2>9, Zenon DEF IsLoop
  <2> QED
    BY <2>2, <2>10, Zenon
<1>3. P = 0 .. k
  <2> HIDE DEF P
  <2>1. P \in SUBSET (0 .. k)
    BY Zenon DEF P
  <2>2. 0 \in Nat
    OBVIOUS
  <2> QED
    BY <1>1, <1>2, <2>1, <2>2, IntervalInduction, Zenon
<1>4. k \in 0 .. k
  OBVIOUS
<1> QED
  BY <1>3, <1>4, Zenon

\* The ids are those below Cardinality(Fds).
LEMMA IdsBelow ==
  /\ Cardinality(Fds) \in Nat /\ 0 \in Nat
  /\ \A i \in 0 .. Cardinality(Fds) : i < Cardinality(Fds) => i \in Fds
  /\ \A i \in Fds : i < Cardinality(Fds)
<1>1. PICK n \in Fds : Fds = 0 .. n
  BY FileTableAssumption, Zenon
<1>2. n \in Nat
  BY FileTableAssumption, Zenon
<1>3. Cardinality(Fds) = n + 1
  BY <1>1, <1>2, FS_Interval
<1> QED
  BY <1>1, <1>2, <1>3

\* The slots of u still to be filled when the ids below k have been copied.
ToCopy(m, t, coe) == Registered(m, t) \ Skipped(m, t, coe)
Pending(m, t, u, coe, k) ==
  {x \in FileSlots : x[1] = u /\ x[2] \in ToCopy(m, t, coe) /\ k <= x[2]}

\* When a slot is pending.
LEMMA PendingAt ==
  ASSUME NEW m, NEW t, NEW u, NEW coe, NEW k, NEW b \in Table, NEW i \in Fds
  PROVE  <<b, i>> \in Pending(m, t, u, coe, k) <=> b = u /\ i \in ToCopy(m, t, coe) /\ k <= i
  BY DEF Pending, FileSlots

\* The next slot is filled.
LEMMA PendingNext ==
  ASSUME NEW m, NEW t, NEW u \in Table, NEW coe, NEW k \in Fds
  PROVE  /\ Pending(m, t, u, coe, k + 1) = Pending(m, t, u, coe, k) \ {<<u, k>>}
         /\ k \in ToCopy(m, t, coe) => <<u, k>> \in Pending(m, t, u, coe, k)
         /\ k \notin ToCopy(m, t, coe) => <<u, k>> \notin Pending(m, t, u, coe, k)
<1>1. k \in Nat /\ k <= k
  BY FileConstants
<1>2. ASSUME NEW x \in FileSlots
      PROVE  x \in Pending(m, t, u, coe, k + 1) <=> x \in Pending(m, t, u, coe, k) \ {<<u, k>>}
  <2>1. PICK b \in Table, i \in Fds : x = <<b, i>>
    BY DEF FileSlots
  <2>2. i \in Nat
    BY FileConstants, Zenon
  <2>3. (k + 1 <= i <=> k <= i /\ i # k) /\ (x = <<u, k>> <=> b = u /\ i = k)
    BY <1>1, <2>1, <2>2
  <2> QED
    <3>1. <<b, i>> \in Pending(m, t, u, coe, k) <=> b = u /\ i \in ToCopy(m, t, coe) /\ k <= i
      BY PendingAt
    <3>2. <<b, i>> \in Pending(m, t, u, coe, k + 1)
            <=> b = u /\ i \in ToCopy(m, t, coe) /\ k + 1 <= i
      BY PendingAt
    <3> QED
      BY <2>1, <2>3, <3>1, <3>2, Zenon
<1>3. Pending(m, t, u, coe, k + 1) = Pending(m, t, u, coe, k) \ {<<u, k>>}
  <2>1. /\ Pending(m, t, u, coe, k + 1) \subseteq FileSlots
        /\ Pending(m, t, u, coe, k) \subseteq FileSlots
    BY Zenon DEF Pending
  <2>2. PICK P, Q : P = Pending(m, t, u, coe, k) /\ Q = Pending(m, t, u, coe, k + 1)
    BY Zenon
  <2>3. \A x : x \in Q <=> x \in P \ {<<u, k>>}
    BY <1>2, <2>1, <2>2, Zenon
  <2>4. Q = P \ {<<u, k>>}
    BY <2>3
  <2> QED
    BY <2>2, <2>4, Zenon
<1> QED
  BY <1>1, <1>3, PendingAt, Zenon

\* The new table before a file is copied: all that will be is reserved.
LEMMA CopyIdsOK ==
  ASSUME NEW m, Good(m, {}), NEW t \in Table, NEW u \in Table, t # u, NEW coe,
         \A i \in Fds : m.firstFile[u][i] = NoFile, NEW n, n = CopyIds(m, t, u, coe)
  PROVE  /\ Good(n, Pending(m, t, u, coe, 0)) /\ n.allocated = m.allocated
         /\ \A b \in Table : b # u => n.fdBitmap[b] = m.fdBitmap[b]
<1>1. /\ m \in TablesType /\ m.failed = "none" /\ IdsAre(m.firstFile, m.fdBitmap, m.dropped, {})
      /\ EndsAre(View(m.firstFile), m.fds, m.allocated)
  BY Zenon DEF Good, Sound
<1>2. m.firstFile \in TreeType /\ m.fdBitmap \in IdsType /\ m.dropped \in IdsType
  BY <1>1 DEF TablesType
<1>3. PICK ids, lost :
         /\ ids = [m.fdBitmap EXCEPT ![u] = m.fdBitmap[t]]
         /\ lost = [m.dropped EXCEPT ![u] = m.dropped[t] \cup Skipped(m, t, coe)]
  BY Zenon
<1>4. Skipped(m, t, coe) \subseteq Fds
  BY Zenon DEF Skipped, Registered
<1>5. /\ ids \in IdsType /\ ids[u] = m.fdBitmap[t]
      /\ \A b \in Table : b # u => ids[b] = m.fdBitmap[b]
  BY <1>2, <1>3 DEF IdsType
<1>6. /\ lost \in IdsType /\ lost[u] = m.dropped[t] \cup Skipped(m, t, coe)
      /\ \A b \in Table : b # u => lost[b] = m.dropped[b]
  BY <1>2, <1>3, <1>4 DEF IdsType
<1>7. [m.firstFile EXCEPT ![u] = [i \in Fds |-> NoFile]] = m.firstFile
  <2>1. PICK F : F = m.firstFile
    BY Zenon
  <2>2. F[u] = [i \in Fds |-> NoFile]
    <3>1. F[u] = [i \in Fds |-> F[u][i]]
      BY <1>2, <2>1 DEF TreeType
    <3>2. \A i \in Fds : F[u][i] = NoFile
      BY <2>1, Zenon
    <3> QED
      BY <3>1, <3>2
  <2>3. [F EXCEPT ![u] = F[u]] = F
    BY <1>2, <2>1 DEF TreeType
  <2> QED
    BY <2>1, <2>2, <2>3, Zenon
<1>8. n = [m EXCEPT !.fdBitmap = ids, !.firstFile = m.firstFile, !.dropped = lost]
  BY <1>3, <1>7, Zenon DEF CopyIds
<1>9. /\ n \in TablesType /\ n.failed = "none" /\ n.firstFile = m.firstFile
      /\ n.fdBitmap = ids /\ n.dropped = lost /\ n.fds = m.fds /\ n.allocated = m.allocated
  BY <1>1, <1>5, <1>6, <1>8, Zenon DEF TablesType
<1>10. \A i \in Fds : 0 <= i
  BY FileConstants
<1>11. \A i \in Fds : /\ i \in Registered(m, t) <=> m.firstFile[t][i] # NoFile
                      /\ i \in Skipped(m, t, coe) => i \in Registered(m, t)
  BY Zenon DEF Skipped, Registered
<1>12. IdsAre(m.firstFile, ids, lost, Pending(m, t, u, coe, 0))
  <2>1. SUFFICES ASSUME NEW b \in Table, NEW i \in Fds
                 PROVE  /\ i \in ids[b] <=> \/ m.firstFile[b][i] # NoFile \/ i \in lost[b]
                                            \/ <<b, i>> \in Pending(m, t, u, coe, 0)
                        /\ m.firstFile[b][i] # NoFile => i \notin lost[b]
                        /\ <<b, i>> \in Pending(m, t, u, coe, 0)
                             => m.firstFile[b][i] = NoFile /\ i \notin lost[b]
    BY Zenon DEF IdsAre
  <2>2. <<b, i>> \in Pending(m, t, u, coe, 0) <=> b = u /\ i \in ToCopy(m, t, coe)
    BY <1>10, PendingAt
  <2>3. CASE b = u
    <3>1. /\ i \in m.fdBitmap[t] <=> m.firstFile[t][i] # NoFile \/ i \in m.dropped[t]
          /\ m.firstFile[t][i] # NoFile => i \notin m.dropped[t]
      BY <1>1, Zenon DEF IdsAre
    <3>2. m.firstFile[b][i] = NoFile
      BY <2>3, Zenon
    <3>3. i \in lost[b] <=> i \in m.dropped[t] \/ i \in Skipped(m, t, coe)
      BY <1>6, <2>3, Zenon
    <3>4. i \in ids[b] <=> i \in m.fdBitmap[t]
      BY <1>5, <2>3, Zenon
    <3>5. i \in ToCopy(m, t, coe) <=> m.firstFile[t][i] # NoFile /\ i \notin Skipped(m, t, coe)
      BY <1>11, Zenon DEF ToCopy
    <3>6. i \in Skipped(m, t, coe) => m.firstFile[t][i] # NoFile
      BY <1>11, Zenon
    <3> QED
      BY <2>2, <2>3, <3>1, <3>2, <3>3, <3>4, <3>5, <3>6, Zenon
  <2>4. CASE b # u
    <3>1. ids[b] = m.fdBitmap[b] /\ lost[b] = m.dropped[b]
      BY <1>5, <1>6, <2>4, Zenon
    <3> QED
      BY <1>1, <2>2, <2>4, <3>1, Zenon DEF IdsAre
  <2> QED
    BY <2>3, <2>4, Zenon
<1>13. Good(n, Pending(m, t, u, coe, 0))
  BY <1>1, <1>9, <1>12, Zenon DEF Good, Sound
<1> QED
  BY <1>5, <1>9, <1>13, Zenon

\* One file is copied.
LEMMA CopyFileOK ==
  ASSUME NEW m, Good(m, {}), NEW t \in Table, NEW u \in Table, NEW coe, NEW k \in Fds,
         NEW x, Good(x, Pending(m, t, u, coe, k)), x.allocated = m.allocated,
         NEW n, n = CopyFile(m, t, u, coe, x, k)
  PROVE  /\ Good(n, Pending(m, t, u, coe, k + 1)) /\ n.allocated = m.allocated
         /\ n.fdBitmap = x.fdBitmap
<1>1. CASE k \notin ToCopy(m, t, coe)
  <2>1. n = x
    BY <1>1, Zenon DEF CopyFile, ToCopy
  <2>2. Pending(m, t, u, coe, k + 1) = Pending(m, t, u, coe, k)
    <3>1. PICK X : X = Pending(m, t, u, coe, k)
      BY Zenon
    <3>2. Pending(m, t, u, coe, k + 1) = X \ {<<u, k>>} /\ <<u, k>> \notin X
      BY <1>1, <3>1, PendingNext
    <3>3. X \ {<<u, k>>} = X
      BY <3>2, Zenon
    <3> QED
      BY <3>1, <3>2, <3>3, Zenon
  <2> QED
    BY <2>1, <2>2, Zenon
<1>2. CASE k \in ToCopy(m, t, coe)
  <2>1. PICK f : f = m.firstFile[t][k]
    BY Zenon
  <2>2. f # NoFile
    BY <1>2, <2>1, Zenon DEF ToCopy, Registered
  <2>3. f \in FileType \ {NoFile} /\ f.end[1] \in x.allocated
    BY <2>1, <2>2, OpenAllocated, Zenon
  <2>4. n = fsUserDuplicateNode(x, u, k, f)
    BY <1>2, <2>1, Zenon DEF CopyFile, ToCopy
  <2>5. PICK X : X = Pending(m, t, u, coe, k)
    BY Zenon
  <2>6. <<u, k>> \in X /\ Pending(m, t, u, coe, k + 1) = X \ {<<u, k>>} /\ Good(x, X)
    BY <1>2, <2>5, PendingNext
  <2>7. Good(n, X \ {<<u, k>>}) /\ n.allocated = x.allocated /\ n.fdBitmap = x.fdBitmap
    BY <2>3, <2>4, <2>6, DuplicateOK
  <2> QED
    BY <2>6, <2>7, Zenon
<1> QED
  BY <1>1, <1>2, Zenon

\* A table is copied to one that is empty: fork and execve.
LEMMA CopyOK ==
  ASSUME NEW m, Good(m, {}), NEW t \in Table, NEW u \in Table, t # u, NEW coe,
         \A i \in Fds : m.firstFile[u][i] = NoFile
  PROVE  /\ Good(task_files_copy(m, t, u, coe), {})
         /\ SameIds(m, task_files_copy(m, t, u, coe), u)
<1>1. PICK c : c = Cardinality(Fds)
  BY Zenon
<1>2. /\ c \in Nat /\ 0 \in Nat /\ \A i \in 0 .. c : i < c => i \in Fds
      /\ \A i \in Fds : i < c
  BY <1>1, IdsBelow, Zenon
<1>3. PICK base : base = CopyIds(m, t, u, coe)
  BY Zenon
<1>4. PICK f : /\ f = [i \in 0 .. c |-> IF i = 0 THEN base
                                         ELSE CopyFile(m, t, u, coe, f[i - 1], i - 1)]
               /\ task_files_copy(m, t, u, coe) = f[c]
  <2>1. PICK g : IsLoop(TRUE, base, m, t, u, coe, g, c)
    BY <1>2, LoopExists, Zenon
  <2>2. g = [i \in 0 .. c |-> IF i = 0 THEN base ELSE CopyFile(m, t, u, coe, g[i - 1], i - 1)]
    BY <2>1, Zenon DEF IsLoop, Turn
  <2> QED
    BY <1>1, <1>3, <2>2, Zenon DEF task_files_copy
<1> DEFINE Done(i) == /\ Good(f[i], Pending(m, t, u, coe, i)) /\ f[i].allocated = m.allocated
                      /\ f[i].fdBitmap = base.fdBitmap
           P == {i \in 0 .. c : Done(i)}
<1>5. /\ Good(base, Pending(m, t, u, coe, 0)) /\ base.allocated = m.allocated
      /\ \A b \in Table : b # u => base.fdBitmap[b] = m.fdBitmap[b]
  BY <1>3, CopyIdsOK
<1>6. 0 \in P
  <2>1. 0 \in 0 .. c
    BY <1>2
  <2>2. f[0] = base
    BY <1>4, <2>1, Zenon
  <2> QED
    BY <1>5, <2>1, <2>2, Zenon
<1>7. ASSUME NEW i \in P, i < c PROVE i + 1 \in P
  <2>1. i + 1 \in 0 .. c /\ i + 1 # 0 /\ (i + 1) - 1 = i /\ i \in Fds
    BY <1>2, <1>7
  <2>2. PICK x : x = f[i]
    BY Zenon
  <2>3. f[i + 1] = CopyFile(m, t, u, coe, x, i)
    BY <1>4, <2>1, <2>2, Zenon
  <2>4. /\ Good(x, Pending(m, t, u, coe, i)) /\ x.allocated = m.allocated
        /\ x.fdBitmap = base.fdBitmap
    BY <1>7, <2>2, Zenon
  <2>5. PICK n : n = f[i + 1]
    BY Zenon
  <2>6. n = CopyFile(m, t, u, coe, x, i)
    BY <2>3, <2>5, Zenon
  <2>7. /\ Good(n, Pending(m, t, u, coe, i + 1)) /\ n.allocated = m.allocated
        /\ n.fdBitmap = x.fdBitmap
    BY <2>1, <2>4, <2>6, CopyFileOK
  <2> QED
    BY <2>1, <2>4, <2>5, <2>7, Zenon
<1>8. P = 0 .. c
  <2> HIDE DEF P
  <2>1. P \in SUBSET (0 .. c)
    BY Zenon DEF P
  <2>2. c \in Nat /\ 0 \in Nat
    BY <1>2, Zenon
  <2>3. \A i \in P : i < c => i + 1 \in P
    BY <1>7, Zenon
  <2> QED
    BY <1>6, <2>1, <2>2, <2>3, IntervalInduction, Zenon
<1>9. Done(c)
  <2>1. c \in 0 .. c
    BY <1>2
  <2> QED
    BY <1>8, <2>1, Zenon
<1>10. Pending(m, t, u, coe, c) = {}
  <2>1. ASSUME NEW b \in Table, NEW i \in Fds PROVE <<b, i>> \notin Pending(m, t, u, coe, c)
    <3>1. ~ (c <= i)
      BY <1>2, FileConstants
    <3> QED
      BY <3>1, PendingAt, Zenon
  <2>2. ASSUME NEW x \in Pending(m, t, u, coe, c) PROVE FALSE
    <3>1. x \in FileSlots
      BY Zenon DEF Pending
    <3>2. PICK b \in Table, i \in Fds : x = <<b, i>>
      BY <3>1 DEF FileSlots
    <3> QED
      BY <2>1, <3>2, Zenon
  <2> QED
    BY <2>2, Zenon
<1> QED
  BY <1>4, <1>5, <1>9, <1>10, Zenon DEF SameIds

\* One file is closed, if it is open.
LEMMA CloseFileOK ==
  ASSUME NEW x, Good(x, {}), NEW t \in Table, NEW k \in Fds, NEW n, n = CloseFile(x, t, k),
         \A i \in Fds : i < k => x.firstFile[t][i] = NoFile
  PROVE  /\ Good(n, {}) /\ SameIds(x, n, t)
         /\ \A i \in Fds : i < k + 1 => n.firstFile[t][i] = NoFile
<1>1. \A i \in Fds : i < k + 1 <=> i < k \/ i = k
  BY FileConstants
<1>2. CASE x.firstFile[t][k] = NoFile
  <2>1. n = x
    BY <1>2, Zenon DEF CloseFile, Registered
  <2> QED
    <3>1. \A i \in Fds : i < k + 1 => x.firstFile[t][i] = NoFile
      BY <1>1, <1>2
    <3>2. SameIds(x, x, t)
      BY Zenon DEF SameIds
    <3> QED
      BY <2>1, <3>1, <3>2, Zenon
<1>3. CASE x.firstFile[t][k] # NoFile
  <2>1. n = fsCloseGeneric(x, t, k, FALSE)
    BY <1>3, Zenon DEF CloseFile, Registered
  <2>2. PICK F : F = x.firstFile
    BY Zenon
  <2>3. F \in TreeType
    BY <2>2 DEF Good, Sound, TablesType
  <2>4. Good(n, {}) /\ n.firstFile = WithFile(F, t, k, NoFile) /\ SameIds(x, n, t)
    BY <1>3, <2>1, <2>2, CloseFrees, Zenon
  <2>5. PICK G : G = n.firstFile
    BY Zenon
  <2>6. G = WithFile(F, t, k, NoFile) /\ NoFile \in FileType
    BY <2>4, <2>5, NoFileEnd, Zenon
  <2>7. /\ G \in TreeType /\ G[t][k] = NoFile /\ SameBut(F, G, t, k)
        /\ View(G) = WithEnd(View(F), <<t, k>>, NoFile.end)
    BY <2>3, <2>6, ViewSet
  <2>8. ASSUME NEW i \in Fds, i < k + 1 PROVE G[t][i] = NoFile
    <3>1. CASE i = k
      BY <2>7, <3>1, Zenon
    <3>2. CASE i # k
      BY <1>1, <2>2, <2>7, <2>8, <3>2, Zenon DEF SameBut
    <3> QED
      BY <3>1, <3>2, Zenon
  <2> QED
    BY <2>4, <2>5, <2>8, Zenon
<1> QED
  BY <1>2, <1>3, Zenon

\* The files of table t are closed when the last of c tasks leaves it.
LEMMA DiscardOK ==
  ASSUME NEW m, Good(m, {}), NEW t \in Table, NEW c \in Nat,
         NEW n, n = taskInfoFilesDiscard(m, t, c)
  PROVE  /\ Good(n, {}) /\ SameIds(m, n, t)
         /\ c > 1 => n = m
         /\ ~ (c > 1) => n.fdBitmap[t] = {}
<1>1. CASE c > 1
  <2>1. n = m
    BY <1>1, Zenon DEF taskInfoFilesDiscard
  <2> QED
    BY <1>1, <2>1, Zenon DEF SameIds
<1>2. CASE ~ (c > 1)
  <2>1. PICK l : l = Cardinality(Fds)
    BY Zenon
  <2>2. /\ l \in Nat /\ 0 \in Nat /\ \A i \in 0 .. l : i < l => i \in Fds
        /\ \A i \in Fds : i < l
    BY <2>1, IdsBelow, Zenon
  <2>3. PICK f : /\ f = [i \in 0 .. l |-> IF i = 0 THEN m ELSE CloseFile(f[i - 1], t, i - 1)]
                 /\ n = [f[l] EXCEPT !.fdBitmap[t] = {}, !.dropped[t] = {}]
    <3>1. PICK g : IsLoop(FALSE, m, m, t, t, FALSE, g, l)
      BY <2>2, LoopExists, Zenon
    <3>2. g = [i \in 0 .. l |-> IF i = 0 THEN m ELSE CloseFile(g[i - 1], t, i - 1)]
      BY <3>1, Zenon DEF IsLoop, Turn
    <3> QED
      BY <1>2, <2>1, <3>2, Zenon DEF taskInfoFilesDiscard
  <2> DEFINE Done(i) == /\ Good(f[i], {}) /\ SameIds(m, f[i], t)
                        /\ \A j \in Fds : j < i => f[i].firstFile[t][j] = NoFile
             P == {i \in 0 .. l : Done(i)}
  <2>4. 0 \in P
    <3>1. 0 \in 0 .. l /\ \A j \in Fds : ~ (j < 0)
      BY <2>2, FileConstants
    <3>2. f[0] = m
      BY <2>3, <3>1, Zenon
    <3> QED
      BY <3>1, <3>2, Zenon DEF SameIds
  <2>5. ASSUME NEW i \in P, i < l PROVE i + 1 \in P
    <3>1. i + 1 \in 0 .. l /\ i + 1 # 0 /\ (i + 1) - 1 = i /\ i \in Fds
      BY <2>2, <2>5
    <3>2. PICK x, y : x = f[i] /\ y = f[i + 1]
      BY Zenon
    <3>3. y = CloseFile(x, t, i)
      BY <2>3, <3>1, <3>2, Zenon
    <3>4. /\ Good(x, {}) /\ SameIds(m, x, t)
          /\ \A j \in Fds : j < i => x.firstFile[t][j] = NoFile
      BY <2>5, <3>2, Zenon
    <3>5. /\ Good(y, {}) /\ SameIds(x, y, t)
          /\ \A j \in Fds : j < i + 1 => y.firstFile[t][j] = NoFile
      BY <3>1, <3>3, <3>4, CloseFileOK
    <3>6. SameIds(m, y, t)
      BY <3>4, <3>5, Zenon DEF SameIds
    <3> QED
      BY <3>1, <3>2, <3>5, <3>6, Zenon
  <2>6. P = 0 .. l
    <3> HIDE DEF P
    <3>1. P \in SUBSET (0 .. l)
      BY Zenon DEF P
    <3>2. l \in Nat /\ 0 \in Nat
      BY <2>2, Zenon
    <3>3. \A i \in P : i < l => i + 1 \in P
      BY <2>5, Zenon
    <3> QED
      BY <2>4, <3>1, <3>2, <3>3, IntervalInduction, Zenon
  <2>7. PICK x : x = f[l]
    BY Zenon
  <2>8. /\ Good(x, {}) /\ SameIds(m, x, t) /\ \A j \in Fds : x.firstFile[t][j] = NoFile
    <3>1. l \in 0 .. l
      BY <2>2
    <3>2. Done(l)
      BY <2>6, <3>1, Zenon
    <3> QED
      BY <2>2, <2>7, <3>2, Zenon
  <2>9. /\ x \in TablesType /\ x.failed = "none" /\ IdsAre(x.firstFile, x.fdBitmap, x.dropped, {})
        /\ EndsAre(View(x.firstFile), x.fds, x.allocated)
    BY <2>8, Zenon DEF Good, Sound
  <2>10. x.fdBitmap \in IdsType /\ x.dropped \in IdsType
    BY <2>9 DEF TablesType
  <2>11. PICK ids, lost :
           /\ ids = [x.fdBitmap EXCEPT ![t] = {}]
           /\ lost = [x.dropped EXCEPT ![t] = {}]
    BY Zenon
  <2>12. /\ ids \in IdsType /\ ids[t] = {} /\ \A b \in Table : b # t => ids[b] = x.fdBitmap[b]
         /\ lost \in IdsType /\ lost[t] = {} /\ \A b \in Table : b # t => lost[b] = x.dropped[b]
    BY <2>10, <2>11 DEF IdsType
  <2>13. n = [x EXCEPT !.fdBitmap = ids, !.dropped = lost]
    BY <2>3, <2>7, <2>11
  <2>14. /\ n \in TablesType /\ n.failed = "none" /\ n.firstFile = x.firstFile
         /\ n.fdBitmap = ids /\ n.dropped = lost /\ n.fds = x.fds /\ n.allocated = x.allocated
    BY <2>9, <2>12, <2>13, Zenon DEF TablesType
  <2>15. IdsAre(x.firstFile, ids, lost, {})
    <3>1. SUFFICES ASSUME NEW b \in Table, NEW i \in Fds
                   PROVE  /\ i \in ids[b] <=> x.firstFile[b][i] # NoFile \/ i \in lost[b]
                          /\ x.firstFile[b][i] # NoFile => i \notin lost[b]
      BY Zenon DEF IdsAre
    <3>2. CASE b = t
      BY <2>8, <2>12, <3>2, Zenon
    <3>3. CASE b # t
      <4>1. ids[b] = x.fdBitmap[b] /\ lost[b] = x.dropped[b]
        BY <2>12, <3>3, Zenon
      <4> QED
        BY <2>9, <4>1, Zenon DEF IdsAre
    <3> QED
      BY <3>2, <3>3, Zenon
  <2>16. Good(n, {})
    BY <2>9, <2>14, <2>15, Zenon DEF Good, Sound
  <2>17. SameIds(m, n, t)
    BY <2>8, <2>12, <2>14, Zenon DEF SameIds
  <2> QED
    BY <1>2, <2>12, <2>14, <2>16, <2>17, Zenon
<1> QED
  BY <1>1, <1>2, Zenon

\* fsOpenGeneric: a file with an id of its own, or no id is left.
LEMMA OpenOK ==
  ASSUME NEW m, Sound(m, {}), NEW t \in Table, NEW f \in FileType \ {NoFile},
         NEW n, n = OpenAs(m, t, f)
  PROVE  \/ Full(n)
         \/ /\ Sound(n, {}) /\ n.fds = m.fds /\ n.allocated = m.allocated /\ SameIds(m, n, t)
            /\ \E i \in Fds : /\ m.firstFile[t][i] = NoFile
                              /\ n.firstFile = WithFile(m.firstFile, t, i, f)
<1>1. PICK r : r = fsIdFind(m, t)
  BY Zenon
<1>2. CASE Full(r)
  <2>1. r.failed # "none"
    BY <1>2 DEF Full
  <2>2. n = r
    BY <1>1, <2>1, Zenon DEF OpenAs
  <2> QED
    BY <1>2, <2>2, Zenon
<1>3. CASE ~ Full(r)
  <2>1. /\ Sound(r, {} \cup {<<t, r.id>>}) /\ r.id \in Fds
        /\ r.firstFile = m.firstFile /\ r.firstFile[t][r.id] = NoFile
        /\ r.fds = m.fds /\ r.allocated = m.allocated
        /\ SameIds(m, r, t)
    BY <1>1, <1>3, IdFindOK
  <2>2. PICK i : i = r.id
    BY Zenon
  <2>3. r.failed = "none" /\ Sound(r, {<<t, i>>}) /\ i \in Fds
    <3>1. {} \cup {<<t, i>>} = {<<t, i>>}
      BY Zenon
    <3> QED
      BY <2>1, <2>2, <3>1, Zenon DEF Sound
  <2>4. n = fsRegisterNode(r, t, i, f)
    BY <1>1, <2>2, <2>3, Zenon DEF OpenAs
  <2>5. /\ Sound(n, {<<t, i>>} \ {<<t, i>>})
        /\ n.firstFile = WithFile(r.firstFile, t, i, f)
        /\ n.fds = r.fds /\ n.allocated = r.allocated /\ n.fdBitmap = r.fdBitmap
    <3>1. PICK X : X = {<<t, i>>}
      BY Zenon
    <3>2. <<t, i>> \in X /\ Sound(r, X)
      BY <2>3, <3>1, Zenon
    <3>3. /\ Sound(n, X \ {<<t, i>>})
          /\ n.firstFile = WithFile(r.firstFile, t, i, f)
          /\ n.fds = r.fds /\ n.allocated = r.allocated /\ n.fdBitmap = r.fdBitmap
      BY <2>3, <2>4, <3>2, RegisterOK
    <3> QED
      BY <3>1, <3>3, Zenon
  <2>6. {<<t, i>>} \ {<<t, i>>} = {}
    BY Zenon
  <2>7. Sound(n, {})
    BY <2>5, <2>6, Zenon
  <2> QED
    BY <2>1, <2>2, <2>3, <2>5, <2>7, Zenon DEF SameIds
<1> QED
  BY <1>2, <1>3, Zenon

-----------------------------------------------------------------------------
(***************************************************************************)
(* Between calls: the tables are Good, each knows the number of its users, *)
(* and one without users has nothing reserved, as a new one has not.       *)
(***************************************************************************)
UsersOf(I, b) == {t \in Task : I[t] = b}
UsersAre(I, c) == \A b \in Table : c[b] = Cardinality(UsersOf(I, b))
FreeEmpty(c, ids) == \A b \in Table : c[b] = 0 => ids[b] = {}
UsersType(I, c) == I \in [Task -> Table \cup {NoTable}] /\ c \in [Table -> Nat]

FilesInv ==
  /\ UsersType(infoFiles, utilizedBy)
  /\ \/ Full(Tables)
     \/ Good(Tables, {}) /\ UsersAre(infoFiles, utilizedBy) /\ FreeEmpty(utilizedBy, fdBitmap)

\* The users of a table are finitely many.
LEMMA UsersFinite ==
  ASSUME NEW I, NEW b
  PROVE  /\ IsFiniteSet(UsersOf(I, b)) /\ Cardinality(UsersOf(I, b)) \in Nat
         /\ Cardinality(UsersOf(I, b)) = 0 <=> UsersOf(I, b) = {}
<1>1. UsersOf(I, b) \in SUBSET Task
  BY Zenon DEF UsersOf
<1>2. IsFiniteSet(UsersOf(I, b))
  BY <1>1, FileConstants, FS_Subset, Zenon
<1> QED
  BY <1>2, FS_CardinalityType, FS_EmptySet, Zenon

\* The table of a task is in use.
LEMMA InUse ==
  ASSUME NEW I, NEW c, UsersAre(I, c), NEW t \in Task, I[t] \in Table
  PROVE  c[I[t]] # 0
<1>1. t \in UsersOf(I, I[t])
  BY Zenon DEF UsersOf
<1> QED
  BY <1>1, UsersFinite, Zenon DEF UsersAre

\* A task begins to use table b.
LEMMA Join ==
  ASSUME NEW I, NEW c, UsersType(I, c), UsersAre(I, c), NEW u \in Task, I[u] = NoTable,
         NEW b \in Table, NEW J, J = WithEnd(I, u, b), NEW k, k = CountUp(c, b)
  PROVE  UsersType(J, k) /\ UsersAre(J, k)
<1>1. /\ J \in [Task -> Table \cup {NoTable}] /\ J[u] = b /\ \A t \in Task : t # u => J[t] = I[t]
  BY DEF UsersType, WithEnd
<1>2. k \in [Table -> Nat] /\ k[b] = c[b] + 1 /\ \A a \in Table : a # b => k[a] = c[a]
  BY DEF UsersType, CountUp
<1>3. \A a \in Table : a # NoTable
  BY FileConstants, Zenon
<1>4. UsersOf(J, b) = UsersOf(I, b) \cup {u} /\ u \notin UsersOf(I, b)
  BY <1>1, <1>3, Zenon DEF UsersOf
<1>5. ASSUME NEW a \in Table, a # b PROVE UsersOf(J, a) = UsersOf(I, a)
  BY <1>1, <1>3, <1>5, Zenon DEF UsersOf
<1>6. Cardinality(UsersOf(J, b)) = Cardinality(UsersOf(I, b)) + 1
  BY <1>4, UsersFinite, FS_AddElement, Zenon
<1>7. ASSUME NEW a \in Table PROVE k[a] = Cardinality(UsersOf(J, a))
  <2>1. c[a] = Cardinality(UsersOf(I, a))
    BY Zenon DEF UsersAre
  <2>2. CASE a = b
    BY <1>2, <1>6, <2>1, <2>2, Zenon
  <2>3. CASE a # b
    BY <1>2, <1>5, <2>1, <2>3, Zenon
  <2> QED
    BY <2>2, <2>3, Zenon
<1> QED
  BY <1>1, <1>2, <1>7, Zenon DEF UsersType, UsersAre

\* A task stops using its table.
LEMMA Leave ==
  ASSUME NEW I, NEW c, UsersType(I, c), UsersAre(I, c), NEW t \in Task, NEW a \in Table, I[t] = a,
         NEW J, J = WithEnd(I, t, NoTable), NEW k, k = CountDown(c, a)
  PROVE  UsersType(J, k) /\ UsersAre(J, k) /\ J[t] = NoTable
<1>1. /\ J \in [Task -> Table \cup {NoTable}] /\ J[t] = NoTable
      /\ \A u \in Task : u # t => J[u] = I[u]
  BY DEF UsersType, WithEnd
<1>2. c[a] # 0
  BY InUse, Zenon
<1>3. k \in [Table -> Nat] /\ k[a] = c[a] - 1 /\ \A b \in Table : b # a => k[b] = c[b]
  BY <1>2 DEF UsersType, CountDown
<1>4. \A b \in Table : b # NoTable
  BY FileConstants, Zenon
<1>5. UsersOf(J, a) = UsersOf(I, a) \ {t} /\ t \in UsersOf(I, a)
  BY <1>1, <1>4, Zenon DEF UsersOf
<1>6. ASSUME NEW b \in Table, b # a PROVE UsersOf(J, b) = UsersOf(I, b)
  BY <1>1, <1>4, <1>6, Zenon DEF UsersOf
<1>7. Cardinality(UsersOf(J, a)) = Cardinality(UsersOf(I, a)) - 1
  <2>1. PICK S : S = UsersOf(I, a)
    BY Zenon
  <2>2. IsFiniteSet(S) /\ t \in S
    BY <1>5, <2>1, UsersFinite, Zenon
  <2>3. Cardinality(S \ {t}) = Cardinality(S) - 1
    BY <2>2, FS_RemoveElement, Zenon
  <2> QED
    BY <1>5, <2>1, <2>3, Zenon
<1>8. ASSUME NEW b \in Table PROVE k[b] = Cardinality(UsersOf(J, b))
  <2>1. c[b] = Cardinality(UsersOf(I, b))
    BY Zenon DEF UsersAre
  <2>2. CASE b = a
    BY <1>3, <1>7, <2>1, <2>2, Zenon
  <2>3. CASE b # a
    BY <1>3, <1>6, <2>1, <2>3, Zenon
  <2> QED
    BY <2>2, <2>3, Zenon
<1> QED
  BY <1>1, <1>3, <1>8, Zenon DEF UsersType, UsersAre

\* The fields of Tables, which InstallTables stores.
LEMMA TablesFields ==
  /\ Tables.fdBitmap = fdBitmap /\ Tables.firstFile = firstFile /\ Tables.fds = fds
  /\ Tables.allocated = allocated /\ Tables.dropped = dropped /\ Tables.failed = failed
  BY DEF Tables

\* What InstallTables stores is what the functions computed.
LEMMA InstallOK ==
  ASSUME NEW m \in TablesType, InstallTables(m)
  PROVE  /\ Good(m, {}) => Good(Tables, {})'
         /\ Full(m) => Full(Tables)'
         /\ fdBitmap' = m.fdBitmap
<1>1. PICK n : n = Tables'
  BY Zenon
<1>2. /\ n.fdBitmap = m.fdBitmap /\ n.firstFile = m.firstFile /\ n.fds = m.fds
      /\ n.allocated = m.allocated /\ n.dropped = m.dropped /\ n.failed = m.failed
  BY <1>1 DEF InstallTables, Tables
<1>3. n \in TablesType
  <2>1. /\ m.fdBitmap \in IdsType /\ m.firstFile \in TreeType /\ m.fds \in [Ends -> Nat]
        /\ m.allocated \in SUBSET Objects /\ m.dropped \in IdsType
        /\ m.failed \in {"none", "no_id"}
    BY DEF TablesType
  <2>2. n = [fdBitmap |-> m.fdBitmap, firstFile |-> m.firstFile, fds |-> m.fds,
             allocated |-> m.allocated, dropped |-> m.dropped, failed |-> m.failed, id |-> 0]
    BY <1>1 DEF InstallTables, Tables
  <2> QED
    BY <2>1, <2>2, FileConstants DEF TablesType
<1>4. Good(m, {}) => Good(n, {})
  BY <1>2, <1>3, Zenon DEF Good, Sound
<1>5. Full(m) => Full(n)
  BY <1>2, <1>3, Zenon DEF Full
<1>6. fdBitmap' = m.fdBitmap
  BY DEF InstallTables
<1> QED
  BY <1>1, <1>4, <1>5, <1>6, Zenon

\* A task that runs has a table in use, and the tables are Good.
LEMMA RunningOK ==
  ASSUME FilesInv, NEW t \in Task, Running(t)
  PROVE  /\ infoFiles[t] \in Table /\ utilizedBy[infoFiles[t]] # 0
         /\ Good(Tables, {}) /\ UsersAre(infoFiles, utilizedBy) /\ FreeEmpty(utilizedBy, fdBitmap)
<1>1. failed = "none" /\ infoFiles[t] # NoTable
  BY Zenon DEF Running
<1>2. infoFiles[t] \in Table
  BY <1>1 DEF FilesInv, UsersType
<1>3. ~ Full(Tables)
  BY <1>1, TablesFields DEF Full
<1>4. Good(Tables, {}) /\ UsersAre(infoFiles, utilizedBy) /\ FreeEmpty(utilizedBy, fdBitmap)
  BY <1>3, Zenon DEF FilesInv
<1>5. utilizedBy[infoFiles[t]] # 0
  BY <1>2, <1>4, InUse, Zenon
<1> QED
  BY <1>2, <1>4, <1>5, Zenon

\* A call that changes one table in use, or fails for want of an id.
LEMMA TableStep ==
  ASSUME FilesInv, NEW t \in Task, Running(t), NEW n, InstallTables(n),
         Full(n) \/ (Good(n, {}) /\ SameIds(Tables, n, infoFiles[t])),
         UNCHANGED <<infoFiles, utilizedBy>>
  PROVE  FilesInv'
<1>1. /\ infoFiles[t] \in Table /\ utilizedBy[infoFiles[t]] # 0
      /\ Good(Tables, {}) /\ UsersAre(infoFiles, utilizedBy) /\ FreeEmpty(utilizedBy, fdBitmap)
  BY RunningOK, Zenon
<1>2. n \in TablesType
  BY Zenon DEF Full, Good, Sound
<1>3. /\ Good(n, {}) => Good(Tables, {})'
      /\ Full(n) => Full(Tables)'
      /\ fdBitmap' = n.fdBitmap
  BY <1>2, InstallOK, Zenon
<1>4. infoFiles' = infoFiles /\ utilizedBy' = utilizedBy
  BY Zenon
<1>5. UsersType(infoFiles, utilizedBy)'
  BY <1>4, Zenon DEF FilesInv, UsersType
<1>6. CASE Full(n)
  BY <1>3, <1>5, <1>6, Zenon DEF FilesInv
<1>7. CASE Good(n, {}) /\ SameIds(Tables, n, infoFiles[t])
  <2>1. UsersAre(infoFiles, utilizedBy)'
    BY <1>1, <1>4, Zenon DEF UsersAre, UsersOf
  <2>2. FreeEmpty(utilizedBy, fdBitmap)'
    <3>1. ASSUME NEW b \in Table, utilizedBy[b] = 0 PROVE n.fdBitmap[b] = {}
      BY <1>1, <1>7, <3>1, TablesFields, Zenon DEF FreeEmpty, SameIds
    <3> QED
      BY <1>3, <1>4, <3>1, Zenon DEF FreeEmpty
  <2> QED
    BY <1>3, <1>5, <1>7, <2>1, <2>2, Zenon DEF FilesInv
<1> QED
  BY <1>6, <1>7, Zenon

\* A pipe is opened: both ends get an id, or no id is left.
LEMMA PipeOpenInv ==
  ASSUME FilesInv, NEW t \in Task, NEW o \in Pipes, pipe_open(t, o)
  PROVE  FilesInv'
<1>1. Running(t) /\ o \notin allocated /\ UNCHANGED <<infoFiles, utilizedBy>>
  BY Zenon DEF pipe_open
<1>2. PICK b : b = infoFiles[t]
  BY Zenon
<1>3. b \in Table /\ Good(Tables, {})
  BY <1>1, <1>2, RunningOK, Zenon
<1>4. PICK er, ew : er = <<o, "read">> /\ ew = <<o, "write">>
  BY Zenon
<1>5. er \in Ends /\ ew \in Ends /\ er # ew /\ er[1] = o /\ ew[1] = o /\ o \in Objects
  BY <1>4 DEF Ends, Objects
<1>6. PICK fr, fw : fr = File(er, FALSE) /\ fw = File(ew, FALSE)
  BY Zenon
<1>7. /\ fr \in FileType \ {NoFile} /\ fr.end = er
      /\ fw \in FileType \ {NoFile} /\ fw.end = ew
  BY <1>5, <1>6, EndFile, Zenon
<1>8. PICK m1, m2, n :
         /\ m1 = OpenAs(Tables, b, fr)
         /\ m2 = OpenAs(m1, b, fw)
         /\ n = [m2 EXCEPT !.allocated = @ \cup {o}, !.fds[er] = 1, !.fds[ew] = 1]
  BY Zenon
<1>9. InstallTables(n)
  BY <1>2, <1>4, <1>6, <1>8, Zenon DEF pipe_open
<1>10. PICK k : k = [m2.fds EXCEPT ![er] = 1, ![ew] = 1]
  BY Zenon
<1>11. ASSUME m2 \in TablesType
       PROVE  /\ n \in TablesType /\ n.fds = k /\ n.allocated = m2.allocated \cup {o}
              /\ n.fdBitmap = m2.fdBitmap /\ n.firstFile = m2.firstFile
              /\ n.dropped = m2.dropped /\ n.failed = m2.failed
              /\ k \in [Ends -> Nat] /\ k[er] = 1 /\ k[ew] = 1
              /\ \A e \in Ends : e # er /\ e # ew => k[e] = m2.fds[e]
  <2>1. m2.fds \in [Ends -> Nat] /\ m2.allocated \in SUBSET Objects
    BY <1>11 DEF TablesType
  <2>2. /\ k \in [Ends -> Nat] /\ k[er] = 1 /\ k[ew] = 1
        /\ \A e \in Ends : e # er /\ e # ew => k[e] = m2.fds[e]
    BY <1>5, <1>10, <2>1
  <2>3. n = [m2 EXCEPT !.allocated = @ \cup {o}, !.fds = k]
    BY <1>8, <1>10, <1>11, Zenon DEF TablesType
  <2>4. m2.allocated \cup {o} \in SUBSET Objects
    BY <1>5, <2>1, Zenon
  <2>5. /\ n \in TablesType /\ n.fds = k /\ n.allocated = m2.allocated \cup {o}
        /\ n.fdBitmap = m2.fdBitmap /\ n.firstFile = m2.firstFile
        /\ n.dropped = m2.dropped /\ n.failed = m2.failed
    BY <1>11, <2>2, <2>3, <2>4, Zenon DEF TablesType
  <2> QED
    BY <2>2, <2>5, Zenon
<1>12. CASE Full(m2)
  <2>1. m2 \in TablesType
    BY <1>12, Zenon DEF Full
  <2>2. Full(n)
    BY <1>11, <1>12, <2>1, Zenon DEF Full
  <2> QED
    BY <1>1, <1>9, <2>2, TableStep, Zenon
<1>13. CASE ~ Full(m2)
  <2>1. Sound(Tables, {})
    BY <1>3, Zenon DEF Good
  <2>2. ~ Full(m1)
    BY <1>3, <1>8, <1>13, FullStays, Zenon
  <2>3. /\ Sound(m1, {}) /\ m1.fds = Tables.fds /\ m1.allocated = Tables.allocated
        /\ SameIds(Tables, m1, b)
        /\ \E i \in Fds : /\ Tables.firstFile[b][i] = NoFile
                          /\ m1.firstFile = WithFile(Tables.firstFile, b, i, fr)
    BY <1>3, <1>7, <1>8, <2>1, <2>2, OpenOK
  <2>4. /\ Sound(m2, {}) /\ m2.fds = m1.fds /\ m2.allocated = m1.allocated
        /\ SameIds(m1, m2, b)
        /\ \E i \in Fds : /\ m1.firstFile[b][i] = NoFile
                          /\ m2.firstFile = WithFile(m1.firstFile, b, i, fw)
    BY <1>3, <1>7, <1>8, <1>13, <2>3, OpenOK
  <2>5. PICK i \in Fds : /\ Tables.firstFile[b][i] = NoFile
                         /\ m1.firstFile = WithFile(Tables.firstFile, b, i, fr)
    BY <2>3, Zenon
  <2>6. PICK j \in Fds : /\ m1.firstFile[b][j] = NoFile
                         /\ m2.firstFile = WithFile(m1.firstFile, b, j, fw)
    BY <2>4, Zenon
  <2>7. PICK V, V1, V2 :
           /\ V = View(Tables.firstFile)
           /\ V1 = View(m1.firstFile)
           /\ V2 = View(m2.firstFile)
    BY Zenon
  <2>8. m1 \in TablesType /\ m2 \in TablesType /\ Tables \in TablesType
    BY <2>1, <2>3, <2>4, Zenon DEF Sound
  <2>9. Tables.firstFile \in TreeType /\ m1.firstFile \in TreeType
    BY <2>8 DEF TablesType
  <2>10. /\ IsView(V) /\ <<b, i>> \in FileSlots /\ V[<<b, i>>] = NoEnd
         /\ V1 = WithEnd(V, <<b, i>>, er)
    BY <1>3, <1>7, <2>5, <2>7, <2>9, FilledView
  <2>11. /\ IsView(V1) /\ <<b, j>> \in FileSlots /\ V1[<<b, j>>] = NoEnd
         /\ V2 = WithEnd(V1, <<b, j>>, ew)
    BY <1>3, <1>7, <2>6, <2>7, <2>9, FilledView
  <2>12. /\ SlotsOf(V1, er) = SlotsOf(V, er) \cup {<<b, i>>}
         /\ \A e \in Ends : e # er => SlotsOf(V1, e) = SlotsOf(V, e)
    BY <1>5, <2>10, FillSlot
  <2>13. /\ SlotsOf(V2, ew) = SlotsOf(V1, ew) \cup {<<b, j>>}
         /\ \A e \in Ends : e # ew => SlotsOf(V2, e) = SlotsOf(V1, e)
    BY <1>5, <2>11, FillSlot
  <2>14. EndsAre(V, Tables.fds, Tables.allocated)
    BY <1>3, <2>7, Zenon DEF Good
  <2>15. SlotsOf(V, er) = {} /\ SlotsOf(V, ew) = {}
    <3>1. o \notin Tables.allocated
      BY <1>1, TablesFields, Zenon
    <3> QED
      BY <1>5, <2>14, <3>1, Zenon DEF EndsAre
  <2>16. SlotsOf(V2, er) = {<<b, i>>} /\ SlotsOf(V2, ew) = {<<b, j>>}
    BY <1>5, <2>12, <2>13, <2>15
  <2>17. \A e \in Ends : e # er /\ e # ew => SlotsOf(V2, e) = SlotsOf(V, e)
    BY <2>12, <2>13, Zenon
  <2>18. /\ n \in TablesType /\ n.fds = k /\ n.allocated = Tables.allocated \cup {o}
         /\ n.fdBitmap = m2.fdBitmap /\ n.firstFile = m2.firstFile
         /\ n.dropped = m2.dropped /\ n.failed = m2.failed
         /\ k \in [Ends -> Nat] /\ k[er] = 1 /\ k[ew] = 1
         /\ \A e \in Ends : e # er /\ e # ew => k[e] = Tables.fds[e]
    BY <1>11, <2>3, <2>4, <2>8, Zenon
  <2>19. EndsAre(V2, k, Tables.allocated \cup {o})
    <3>1. PICK S : S = {er, ew}
      BY Zenon
    <3>2. S \in SUBSET Ends
      BY <1>5, <3>1, Zenon
    <3>3. NewEnds(S, o, V2, k)
      BY <1>5, <2>16, <2>18, <3>1, Zenon DEF NewEnds
    <3>4. OldEnds(S, V, Tables.fds, V2, k)
      BY <2>17, <2>18, <3>1, Zenon DEF OldEnds
    <3>5. Tables.fds \in [Ends -> Nat]
      BY <2>8 DEF TablesType
    <3> QED
      BY <1>5, <2>14, <2>18, <3>2, <3>3, <3>4, <3>5, NewObject
  <2>20. Good(n, {})
    BY <2>4, <2>7, <2>18, <2>19, Zenon DEF Good, Sound
  <2>21. SameIds(Tables, n, b)
    BY <2>3, <2>4, <2>18, Zenon DEF SameIds
  <2> QED
    BY <1>1, <1>2, <1>9, <2>20, <2>21, TableStep, Zenon
<1> QED
  BY <1>12, <1>13, Zenon

\* An eventfd is opened, or no id is left.
LEMMA EventOpenInv ==
  ASSUME FilesInv, NEW t \in Task, NEW o \in Events, NEW cloexec \in BOOLEAN,
         eventFdOpen(t, o, cloexec)
  PROVE  FilesInv'
<1>1. Running(t) /\ o \notin allocated /\ UNCHANGED <<infoFiles, utilizedBy>>
  BY Zenon DEF eventFdOpen
<1>2. PICK b : b = infoFiles[t]
  BY Zenon
<1>3. b \in Table /\ Good(Tables, {})
  BY <1>1, <1>2, RunningOK, Zenon
<1>4. PICK e : e = <<o, "event">>
  BY Zenon
<1>5. e \in Ends /\ e[1] = o /\ o \in Objects
  BY <1>4 DEF Ends, Objects
<1>6. PICK f : f = File(e, cloexec)
  BY Zenon
<1>7. f \in FileType \ {NoFile} /\ f.end = e
  BY <1>5, <1>6, EndFile
<1>8. PICK m, n :
         /\ m = OpenAs(Tables, b, f)
         /\ n = [m EXCEPT !.allocated = @ \cup {o}, !.fds[e] = 1]
  BY Zenon
<1>9. InstallTables(n)
  BY <1>2, <1>4, <1>6, <1>8, Zenon DEF eventFdOpen
<1>10. PICK k : k = [m.fds EXCEPT ![e] = 1]
  BY Zenon
<1>11. ASSUME m \in TablesType
       PROVE  /\ n \in TablesType /\ n.fds = k /\ n.allocated = m.allocated \cup {o}
              /\ n.fdBitmap = m.fdBitmap /\ n.firstFile = m.firstFile
              /\ n.dropped = m.dropped /\ n.failed = m.failed
              /\ k \in [Ends -> Nat] /\ k[e] = 1
              /\ \A x \in Ends : x # e => k[x] = m.fds[x]
  <2>1. m.fds \in [Ends -> Nat] /\ m.allocated \in SUBSET Objects
    BY <1>11 DEF TablesType
  <2>2. k \in [Ends -> Nat] /\ k[e] = 1 /\ \A x \in Ends : x # e => k[x] = m.fds[x]
    BY <1>5, <1>10, <2>1
  <2>3. n = [m EXCEPT !.allocated = @ \cup {o}, !.fds = k]
    BY <1>8, <1>10, <1>11 DEF TablesType
  <2>4. m.allocated \cup {o} \in SUBSET Objects
    BY <1>5, <2>1, Zenon
  <2>5. /\ n \in TablesType /\ n.fds = k /\ n.allocated = m.allocated \cup {o}
        /\ n.fdBitmap = m.fdBitmap /\ n.firstFile = m.firstFile
        /\ n.dropped = m.dropped /\ n.failed = m.failed
    BY <1>11, <2>2, <2>3, <2>4, Zenon DEF TablesType
  <2> QED
    BY <2>2, <2>5, Zenon
<1>12. CASE Full(m)
  <2>1. m \in TablesType
    BY <1>12, Zenon DEF Full
  <2>2. Full(n)
    BY <1>11, <1>12, <2>1, Zenon DEF Full
  <2> QED
    BY <1>1, <1>9, <2>2, TableStep, Zenon
<1>13. CASE ~ Full(m)
  <2>1. Sound(Tables, {}) /\ Tables \in TablesType
    BY <1>3, Zenon DEF Good, Sound
  <2>2. /\ Sound(m, {}) /\ m.fds = Tables.fds /\ m.allocated = Tables.allocated
        /\ SameIds(Tables, m, b)
        /\ \E i \in Fds : /\ Tables.firstFile[b][i] = NoFile
                          /\ m.firstFile = WithFile(Tables.firstFile, b, i, f)
    BY <1>3, <1>7, <1>8, <1>13, <2>1, OpenOK
  <2>3. PICK i \in Fds : /\ Tables.firstFile[b][i] = NoFile
                         /\ m.firstFile = WithFile(Tables.firstFile, b, i, f)
    BY <2>2, Zenon
  <2>4. PICK V, W : V = View(Tables.firstFile) /\ W = View(m.firstFile)
    BY Zenon
  <2>5. m \in TablesType
    BY <2>2, Zenon DEF Sound
  <2>6. Tables.firstFile \in TreeType /\ Tables.fds \in [Ends -> Nat]
    BY <2>1 DEF TablesType
  <2>7. /\ IsView(V) /\ <<b, i>> \in FileSlots /\ V[<<b, i>>] = NoEnd
        /\ W = WithEnd(V, <<b, i>>, e)
    BY <1>3, <1>7, <2>3, <2>4, <2>6, FilledView, SMTT(30)
  <2>8. /\ SlotsOf(W, e) = SlotsOf(V, e) \cup {<<b, i>>}
        /\ \A x \in Ends : x # e => SlotsOf(W, x) = SlotsOf(V, x)
    BY <1>5, <2>7, FillSlot
  <2>9. EndsAre(V, Tables.fds, Tables.allocated)
    BY <1>3, <2>4, Zenon DEF Good
  <2>10. SlotsOf(V, e) = {}
    <3>1. o \notin Tables.allocated
      BY <1>1, TablesFields, Zenon
    <3> QED
      BY <1>5, <2>9, <3>1, Zenon DEF EndsAre
  <2>11. SlotsOf(W, e) = {<<b, i>>}
    BY <2>8, <2>10, Zenon
  <2>12. /\ n \in TablesType /\ n.fds = k /\ n.allocated = Tables.allocated \cup {o}
         /\ n.fdBitmap = m.fdBitmap /\ n.firstFile = m.firstFile
         /\ n.dropped = m.dropped /\ n.failed = m.failed
         /\ k \in [Ends -> Nat] /\ k[e] = 1
         /\ \A x \in Ends : x # e => k[x] = Tables.fds[x]
    BY <1>11, <2>2, <2>5, Zenon
  <2>13. EndsAre(W, k, Tables.allocated \cup {o})
    <3>1. PICK S : S = {e}
      BY Zenon
    <3>2. S \in SUBSET Ends
      BY <1>5, <3>1, Zenon
    <3>3. NewEnds(S, o, W, k)
      BY <1>5, <2>11, <2>12, <3>1, Zenon DEF NewEnds
    <3>4. OldEnds(S, V, Tables.fds, W, k)
      BY <2>8, <2>12, <3>1, Zenon DEF OldEnds
    <3> QED
      BY <1>5, <2>6, <2>9, <2>12, <3>2, <3>3, <3>4, NewObject
  <2>14. Good(n, {})
    BY <2>2, <2>4, <2>12, <2>13, Zenon DEF Good, Sound
  <2>15. SameIds(Tables, n, b)
    BY <2>2, <2>12, Zenon DEF SameIds
  <2> QED
    BY <1>1, <1>2, <1>9, <2>14, <2>15, TableStep, Zenon
<1> QED
  BY <1>12, <1>13, Zenon

\* What a task that has a descriptor can count on.
LEMMA HasOK ==
  ASSUME FilesInv, NEW t \in Task, NEW i \in Fds, Has(t, i), NEW b, b = infoFiles[t]
  PROVE  /\ Running(t) /\ b \in Table /\ Good(Tables, {})
         /\ Tables.firstFile = firstFile /\ Tables.firstFile[b][i] # NoFile
         /\ firstFile[b][i].end \in Ends /\ firstFile[b][i].end[1] \in Tables.allocated
<1>1. Running(t) /\ firstFile[b][i] # NoFile
  BY Zenon DEF Has
<1>2. b \in Table /\ Good(Tables, {}) /\ Tables.firstFile = firstFile
  BY <1>1, RunningOK, TablesFields, Zenon
<1> QED
  BY <1>1, <1>2, OpenAllocated

\* dup and F_DUPFD.
LEMMA DupInv ==
  ASSUME FilesInv, NEW t \in Task, NEW i \in Fds, syscallDup(t, i)
  PROVE  FilesInv'
<1>1. Has(t, i) /\ UNCHANGED <<infoFiles, utilizedBy>>
  BY Zenon DEF syscallDup
<1>2. PICK b : b = infoFiles[t]
  BY Zenon
<1>3. /\ Running(t) /\ b \in Table /\ Good(Tables, {})
      /\ Tables.firstFile = firstFile /\ Tables.firstFile[b][i] # NoFile
      /\ firstFile[b][i].end \in Ends /\ firstFile[b][i].end[1] \in Tables.allocated
  BY <1>1, <1>2, HasOK, Zenon
<1>4. PICK n, f : n = fsIdFind(Tables, b) /\ f = File(firstFile[b][i].end, FALSE)
  BY Zenon
<1>5. f \in FileType \ {NoFile} /\ f.end = firstFile[b][i].end
  BY <1>3, <1>4, EndFile, Zenon
<1>6. PICK r : r = IF n.failed # "none" THEN n ELSE fsUserDuplicateNode(n, b, n.id, f)
  BY Zenon
<1>7. InstallTables(r)
  BY <1>2, <1>4, <1>6, Zenon DEF syscallDup
<1>8. CASE Full(n)
  <2>1. r = n
    BY <1>6, <1>8 DEF Full
  <2> QED
    BY <1>1, <1>3, <1>7, <1>8, <2>1, TableStep, Zenon
<1>9. CASE ~ Full(n)
  <2>1. Sound(Tables, {})
    BY <1>3, Zenon DEF Good
  <2>2. PICK j, X : j = n.id /\ X = {<<b, j>>}
    BY Zenon
  <2>3. /\ Sound(n, X) /\ j \in Fds
        /\ n.firstFile = Tables.firstFile
        /\ n.fds = Tables.fds /\ n.allocated = Tables.allocated
        /\ SameIds(Tables, n, b)
    <3>1. /\ Sound(n, {} \cup {<<b, n.id>>}) /\ n.id \in Fds
          /\ n.firstFile = Tables.firstFile
          /\ n.fds = Tables.fds /\ n.allocated = Tables.allocated
          /\ SameIds(Tables, n, b)
      BY <1>3, <1>4, <1>9, <2>1, IdFindOK
    <3>2. {} \cup {<<b, n.id>>} = X
      BY <2>2, Zenon
    <3> QED
      BY <2>2, <3>1, <3>2, Zenon
  <2>4. Good(n, X)
    BY <1>3, <2>3, Zenon DEF Good
  <2>5. r = fsUserDuplicateNode(n, b, j, f)
    BY <1>6, <2>2, <2>3, Zenon DEF Sound
  <2>6. <<b, j>> \in X /\ f.end[1] \in n.allocated
    BY <1>3, <1>5, <2>2, <2>3, Zenon
  <2>7. Good(r, X \ {<<b, j>>}) /\ r.fdBitmap = n.fdBitmap
    BY <1>3, <1>5, <2>3, <2>4, <2>5, <2>6, DuplicateOK
  <2>8. X \ {<<b, j>>} = {}
    BY <2>2, Zenon
  <2>9. Good(r, {})
    BY <2>7, <2>8, Zenon
  <2>10. SameIds(Tables, r, b)
    BY <2>3, <2>7, Zenon DEF SameIds
  <2> QED
    BY <1>1, <1>2, <1>3, <1>7, <2>9, <2>10, TableStep, Zenon
<1> QED
  BY <1>8, <1>9, Zenon

\* close.
LEMMA CloseInv ==
  ASSUME FilesInv, NEW t \in Task, NEW i \in Fds, syscallClose(t, i)
  PROVE  FilesInv'
<1>1. Has(t, i) /\ UNCHANGED <<infoFiles, utilizedBy>>
  BY Zenon DEF syscallClose
<1>2. PICK b : b = infoFiles[t]
  BY Zenon
<1>3. Running(t) /\ b \in Table /\ Good(Tables, {}) /\ Tables.firstFile[b][i] # NoFile
  BY <1>1, <1>2, HasOK, Zenon
<1>4. PICK n : n = fsCloseGeneric(Tables, b, i, FALSE)
  BY Zenon
<1>5. InstallTables(n)
  BY <1>2, <1>4, Zenon DEF syscallClose
<1>6. Good(n, {}) /\ SameIds(Tables, n, b)
  BY <1>3, <1>4, CloseFrees, Zenon
<1> QED
  BY <1>1, <1>2, <1>3, <1>5, <1>6, TableStep, Zenon

\* dup2: the id j is reserved, or its file is closed and the id kept.
LEMMA Dup2Inv ==
  ASSUME FilesInv, NEW t \in Task, NEW i \in Fds, NEW j \in Fds, syscallDup2(t, i, j)
  PROVE  FilesInv'
<1>1. Has(t, i) /\ i # j /\ UNCHANGED <<infoFiles, utilizedBy>>
  BY Zenon DEF syscallDup2
<1>2. PICK b : b = infoFiles[t]
  BY Zenon
<1>3. /\ Running(t) /\ b \in Table /\ Good(Tables, {})
      /\ Tables.firstFile = firstFile /\ Tables.firstFile[b][i] # NoFile
      /\ firstFile[b][i].end \in Ends
  BY <1>1, <1>2, HasOK, Zenon
<1>4. PICK f : f = File(firstFile[b][i].end, FALSE)
  BY Zenon
<1>5. f \in FileType \ {NoFile} /\ f.end = firstFile[b][i].end
  BY <1>3, <1>4, EndFile, Zenon
<1>6. PICK m : m = Tables
  BY Zenon
<1>7. PICK n : n = IF firstFile[b][j] = NoFile
                   THEN [m EXCEPT !.fdBitmap[b] = @ \cup {j}, !.dropped[b] = @ \ {j}]
                   ELSE fsCloseGeneric(m, b, j, TRUE)
  BY Zenon
<1>8. PICK r : r = IF n.failed # "none" THEN n ELSE fsUserDuplicateNode(n, b, j, f)
  BY Zenon
<1>9. InstallTables(r)
  BY <1>2, <1>4, <1>6, <1>7, <1>8, Zenon DEF syscallDup2
<1>10. /\ Good(m, {}) /\ m.firstFile = firstFile /\ m \in TablesType
       /\ m.firstFile \in TreeType /\ m.fdBitmap \in IdsType /\ m.dropped \in IdsType
  <2>1. Good(m, {}) /\ m.firstFile = firstFile /\ m \in TablesType
    BY <1>3, <1>6, Zenon DEF Good, Sound
  <2> QED
    BY <2>1 DEF TablesType
<1>11. PICK X : X = {<<b, j>>}
  BY Zenon
<1>12. Good(n, X) /\ SameIds(m, n, b) /\ n.firstFile[b][i] = firstFile[b][i]
  <2>1. CASE firstFile[b][j] = NoFile
    <3>1. PICK B, D :
             /\ B = [m.fdBitmap EXCEPT ![b] = @ \cup {j}]
             /\ D = [m.dropped EXCEPT ![b] = @ \ {j}]
      BY Zenon
    <3>2. /\ B \in IdsType /\ B[b] = m.fdBitmap[b] \cup {j}
          /\ \A d \in Table : d # b => B[d] = m.fdBitmap[d]
      BY <1>3, <1>10, <3>1 DEF IdsType
    <3>3. /\ D \in IdsType /\ D[b] = m.dropped[b] \ {j}
          /\ \A d \in Table : d # b => D[d] = m.dropped[d]
      BY <1>3, <1>10, <3>1 DEF IdsType
    <3>4. n = [m EXCEPT !.fdBitmap = B, !.dropped = D]
      BY <1>7, <1>10, <2>1, <3>1 DEF TablesType
    <3>5. /\ n \in TablesType /\ n.fdBitmap = B /\ n.dropped = D /\ n.firstFile = m.firstFile
          /\ n.fds = m.fds /\ n.allocated = m.allocated /\ n.failed = m.failed
      BY <1>10, <3>2, <3>3, <3>4, Zenon DEF TablesType
    <3>6. IdsAre(m.firstFile, m.fdBitmap, m.dropped, {})
      BY <1>10, Zenon DEF Good, Sound
    <3>7. ASSUME NEW d \in Table, NEW k \in Fds
          PROVE  /\ k \in B[d] <=> m.firstFile[d][k] # NoFile \/ k \in D[d] \/ <<d, k>> \in X
                 /\ m.firstFile[d][k] # NoFile => k \notin D[d]
                 /\ <<d, k>> \in X => m.firstFile[d][k] = NoFile /\ k \notin D[d]
      <4>1. /\ k \in m.fdBitmap[d] <=> m.firstFile[d][k] # NoFile \/ k \in m.dropped[d]
            /\ m.firstFile[d][k] # NoFile => k \notin m.dropped[d]
        BY <3>6, Zenon DEF IdsAre
      <4>2. <<d, k>> \in X <=> d = b /\ k = j
        BY <1>11
      <4>3. CASE d # b
        BY <3>2, <3>3, <4>1, <4>2, <4>3, Zenon
      <4>4. CASE d = b /\ k # j
        BY <3>2, <3>3, <4>1, <4>2, <4>4, Zenon
      <4>5. CASE d = b /\ k = j
        BY <1>10, <2>1, <3>2, <3>3, <4>1, <4>2, <4>5, Zenon
      <4> QED
        BY <4>3, <4>4, <4>5, Zenon
    <3>8. IdsAre(m.firstFile, B, D, X)
      BY <3>7, Zenon DEF IdsAre
    <3>9. Good(n, X)
      BY <1>10, <3>5, <3>8, Zenon DEF Good, Sound
    <3>10. SameIds(m, n, b)
      BY <3>2, <3>5, Zenon DEF SameIds
    <3> QED
      BY <1>10, <3>5, <3>9, <3>10, Zenon
  <2>2. CASE firstFile[b][j] # NoFile
    <3>1. n = fsCloseGeneric(m, b, j, TRUE) /\ m.firstFile[b][j] # NoFile
      BY <1>7, <1>10, <2>2, Zenon
    <3>2. /\ Good(n, {} \cup {<<b, j>>}) /\ SameIds(m, n, b)
          /\ n.firstFile = WithFile(m.firstFile, b, j, NoFile)
      BY <1>3, <1>10, <3>1, CloseKeeps, Zenon
    <3>3. {} \cup {<<b, j>>} = X
      BY <1>11, Zenon
    <3>4. Good(n, X)
      BY <3>2, <3>3, Zenon
    <3>5. SameBut(m.firstFile, n.firstFile, b, j)
      BY <1>3, <1>10, <3>2, ViewSet, NoFileEnd, Zenon
    <3>6. n.firstFile[b][i] = m.firstFile[b][i]
      BY <1>1, <1>3, <3>5, Zenon DEF SameBut
    <3> QED
      BY <1>10, <3>2, <3>4, <3>6, Zenon
  <2> QED
    BY <2>1, <2>2, Zenon
<1>13. f.end[1] \in n.allocated
  <2>1. n.firstFile[b][i] # NoFile
    BY <1>3, <1>12, Zenon
  <2>2. n.firstFile[b][i].end[1] \in n.allocated
    BY <1>3, <1>12, <2>1, OpenAllocated
  <2> QED
    BY <1>5, <1>12, <2>2, Zenon
<1>14. r = fsUserDuplicateNode(n, b, j, f)
  BY <1>8, <1>12, Zenon DEF Good, Sound
<1>15. <<b, j>> \in X
  BY <1>11, Zenon
<1>16. Good(r, X \ {<<b, j>>}) /\ r.fdBitmap = n.fdBitmap
  BY <1>3, <1>5, <1>12, <1>13, <1>14, <1>15, DuplicateOK
<1>17. X \ {<<b, j>>} = {}
  BY <1>11, Zenon
<1>18. Good(r, {})
  BY <1>16, <1>17, Zenon
<1>19. SameIds(Tables, r, b)
  BY <1>6, <1>12, <1>16, Zenon DEF SameIds
<1> QED
  BY <1>1, <1>2, <1>3, <1>9, <1>18, <1>19, TableStep, Zenon

\* F_SETFD: the descriptor stands for the same end.
LEMMA FcntlInv ==
  ASSUME FilesInv, NEW t \in Task, NEW i \in Fds, syscallFcntl(t, i)
  PROVE  FilesInv'
<1>1. Has(t, i) /\ UNCHANGED <<infoFiles, utilizedBy>>
  BY Zenon DEF syscallFcntl
<1>2. PICK b : b = infoFiles[t]
  BY Zenon
<1>3. /\ Running(t) /\ b \in Table /\ Good(Tables, {})
      /\ Tables.firstFile = firstFile /\ Tables.firstFile[b][i] # NoFile
      /\ firstFile[b][i].end \in Ends
  BY <1>1, <1>2, HasOK, Zenon
<1>4. PICK m, n : m = Tables /\ n = [m EXCEPT !.firstFile[b][i].closeOnExec = ~@]
  BY Zenon
<1>5. InstallTables(n)
  BY <1>2, <1>4, Zenon DEF syscallFcntl
<1>6. Good(m, {}) /\ m.firstFile[b][i] # NoFile /\ m.firstFile[b][i].end \in Ends
  BY <1>3, <1>4, Zenon
<1>7. m \in TablesType /\ m.firstFile \in TreeType
  <2>1. m \in TablesType
    BY <1>6, Zenon DEF Good, Sound
  <2> QED
    BY <2>1 DEF TablesType
<1>8. PICK c : c = ~ m.firstFile[b][i].closeOnExec
  BY Zenon
<1>9. PICK f : f = File(m.firstFile[b][i].end, c)
  BY Zenon
<1>10. PICK F : F = WithFile(m.firstFile, b, i, f)
  BY Zenon
<1>11. m.firstFile[b][i] \in FileType
  BY <1>3, <1>7 DEF TreeType
<1>12. c \in BOOLEAN
  BY <1>8, Zenon
<1>13. f = [m.firstFile[b][i] EXCEPT !.closeOnExec = ~@]
  BY <1>8, <1>9, <1>11 DEF FileType, File, NoFile
<1>14. f \in FileType \ {NoFile} /\ f.end = m.firstFile[b][i].end
  BY <1>6, <1>9, <1>12, EndFile
<1>15. n = [m EXCEPT !.firstFile = F]
  BY <1>3, <1>4, <1>7, <1>10, <1>13, SMTT(30) DEF TablesType, TreeType, WithFile
<1>16. /\ F \in TreeType /\ F[b][i] = f /\ SameBut(m.firstFile, F, b, i)
       /\ View(F) = WithEnd(View(m.firstFile), <<b, i>>, f.end)
  BY <1>3, <1>7, <1>10, <1>14, ViewSet
<1>17. /\ n \in TablesType /\ n.fdBitmap = m.fdBitmap /\ n.dropped = m.dropped /\ n.firstFile = F
       /\ n.fds = m.fds /\ n.allocated = m.allocated /\ n.failed = m.failed
  BY <1>7, <1>15, <1>16 DEF TablesType
<1>18. View(F) = View(m.firstFile)
  <2>1. PICK V : V = View(m.firstFile)
    BY Zenon
  <2>2. IsView(V) /\ <<b, i>> \in FileSlots /\ V[<<b, i>>] = f.end
    BY <1>3, <1>7, <1>14, <2>1, ViewAt
  <2>3. WithEnd(V, <<b, i>>, f.end) = V
    BY <2>2 DEF WithEnd, IsView
  <2> QED
    BY <1>16, <2>1, <2>3, Zenon
<1>19. IdsAre(F, m.fdBitmap, m.dropped, {})
  <2>1. IdsAre(m.firstFile, m.fdBitmap, m.dropped, {})
    BY <1>6, Zenon DEF Good, Sound
  <2>2. \A d \in Table, j \in Fds : F[d][j] # NoFile <=> m.firstFile[d][j] # NoFile
    BY <1>6, <1>14, <1>16, Zenon DEF SameBut
  <2> QED
    BY <2>1, <2>2, Zenon DEF IdsAre
<1>20. Good(n, {})
  BY <1>6, <1>17, <1>18, <1>19, Zenon DEF Good, Sound
<1>21. SameIds(Tables, n, b)
  BY <1>4, <1>17, Zenon DEF SameIds
<1> QED
  BY <1>1, <1>2, <1>3, <1>5, <1>20, <1>21, TableStep, Zenon

\* A new table is one without users, and gets a copy.
LEMMA NewTableOK ==
  ASSUME FilesInv, NEW t \in Task, Running(t), FreeTables # {}, NEW coe,
         NEW a, a = infoFiles[t], NEW u, u = NewTable,
         NEW n, n = task_files_copy(Tables, a, u, coe)
  PROVE  /\ a \in Table /\ u \in Table /\ u # a /\ utilizedBy[u] = 0
         /\ Good(n, {}) /\ SameIds(Tables, n, u)
<1>1. /\ a \in Table /\ utilizedBy[a] # 0 /\ Good(Tables, {})
      /\ FreeEmpty(utilizedBy, fdBitmap)
  BY RunningOK, Zenon
<1>2. u \in Table /\ utilizedBy[u] = 0
  <2>1. FreeTables \in SUBSET Nat
    BY FileConstants, Zenon DEF FreeTables
  <2>2. \E s \in FreeTables : \A b \in FreeTables : s <= b
    BY <2>1, LeastExists, Zenon
  <2>3. u \in FreeTables
    BY <2>2, Zenon DEF NewTable, Least
  <2> QED
    BY <2>3, Zenon DEF FreeTables
<1>3. u # a
  BY <1>1, <1>2, Zenon
<1>4. \A i \in Fds : Tables.firstFile[u][i] = NoFile
  <2>1. Tables.fdBitmap[u] = {}
    BY <1>1, <1>2, TablesFields, Zenon DEF FreeEmpty
  <2>2. IdsAre(Tables.firstFile, Tables.fdBitmap, Tables.dropped, {})
    BY <1>1, Zenon DEF Good, Sound
  <2> QED
    BY <1>2, <2>1, <2>2, Zenon DEF IdsAre
<1>5. PICK m : m = Tables
  BY Zenon
<1>6. Good(task_files_copy(m, a, u, coe), {}) /\ SameIds(m, task_files_copy(m, a, u, coe), u)
  BY <1>1, <1>2, <1>3, <1>4, <1>5, CopyOK
<1> QED
  BY <1>1, <1>2, <1>3, <1>5, <1>6, Zenon

\* A call that installs tables and changes who uses them.
LEMMA UsersStep ==
  ASSUME NEW n, InstallTables(n), Good(n, {}), UsersType(infoFiles, utilizedBy)',
         UsersAre(infoFiles, utilizedBy)', FreeEmpty(utilizedBy', n.fdBitmap)
  PROVE  FilesInv'
<1>1. n \in TablesType
  BY Zenon DEF Good, Sound
<1>2. Good(Tables, {})' /\ fdBitmap' = n.fdBitmap
  BY <1>1, InstallOK, Zenon
<1>3. FreeEmpty(utilizedBy, fdBitmap)'
  BY <1>2, Zenon DEF FreeEmpty
<1> QED
  BY <1>2, <1>3, Zenon DEF FilesInv

\* fork and clone: the table is shared or copied.
LEMMA ForkInv ==
  ASSUME FilesInv, NEW t \in Task, NEW u \in Task, NEW share \in BOOLEAN, task_fork(t, u, share)
  PROVE  FilesInv'
<1>1. Running(t) /\ infoFiles[u] = NoTable
  BY Zenon DEF task_fork
<1>2. PICK a : a = infoFiles[t]
  BY Zenon
<1>3. /\ a \in Table /\ Good(Tables, {}) /\ UsersAre(infoFiles, utilizedBy)
      /\ FreeEmpty(utilizedBy, fdBitmap)
  BY <1>1, <1>2, RunningOK, Zenon
<1>4. UsersType(infoFiles, utilizedBy)
  BY Zenon DEF FilesInv
<1>5. CASE share
  <2>1. /\ infoFiles' = WithEnd(infoFiles, u, a) /\ utilizedBy' = CountUp(utilizedBy, a)
        /\ UNCHANGED <<fdBitmap, firstFile, fds, allocated, failed, dropped>>
    BY <1>2, <1>5, Zenon DEF task_fork, WithEnd, CountUp
  <2>2. UsersType(infoFiles', utilizedBy') /\ UsersAre(infoFiles', utilizedBy')
    BY <1>1, <1>3, <1>4, <2>1, Join
  <2>3. PICK m : m = Tables
    BY Zenon
  <2>4. InstallTables(m)
    BY <2>1, <2>3, TablesFields, Zenon DEF InstallTables
  <2>5. FreeEmpty(utilizedBy', m.fdBitmap)
    <3>1. \A b \in Table : utilizedBy'[b] = 0 => utilizedBy[b] = 0
      BY <1>3, <1>4, <2>1 DEF UsersType, CountUp
    <3> QED
      BY <1>3, <2>3, <3>1, TablesFields, Zenon DEF FreeEmpty
  <2>6. UsersType(infoFiles, utilizedBy)' /\ UsersAre(infoFiles, utilizedBy)'
    BY <2>2, Zenon DEF UsersType, UsersAre, UsersOf
  <2> QED
    BY <1>3, <2>3, <2>4, <2>5, <2>6, UsersStep, Zenon
<1>6. CASE ~ share
  <2>1. PICK v, n : v = NewTable /\ n = task_files_copy(Tables, a, v, FALSE)
    BY Zenon
  <2>2. /\ FreeTables # {} /\ infoFiles' = WithEnd(infoFiles, u, v)
        /\ utilizedBy' = [utilizedBy EXCEPT ![v] = 1] /\ InstallTables(n)
    BY <1>2, <1>6, <2>1, Zenon DEF task_fork, WithEnd
  <2>3. v \in Table /\ utilizedBy[v] = 0 /\ Good(n, {}) /\ SameIds(Tables, n, v)
    BY <1>1, <1>2, <2>1, <2>2, NewTableOK, Zenon
  <2>4. utilizedBy' = CountUp(utilizedBy, v)
    BY <1>4, <2>2, <2>3 DEF CountUp, UsersType
  <2>5. UsersType(infoFiles', utilizedBy') /\ UsersAre(infoFiles', utilizedBy')
    BY <1>1, <1>3, <1>4, <2>2, <2>3, <2>4, Join, Zenon
  <2>6. FreeEmpty(utilizedBy', n.fdBitmap)
    <3>1. \A b \in Table : utilizedBy'[b] = 0 => b # v /\ utilizedBy[b] = 0
      BY <1>4, <2>2, <2>3 DEF UsersType
    <3> QED
      BY <1>3, <2>3, <3>1, TablesFields, Zenon DEF FreeEmpty, SameIds
  <2>7. UsersType(infoFiles, utilizedBy)' /\ UsersAre(infoFiles, utilizedBy)'
    BY <2>5, Zenon DEF UsersType, UsersAre, UsersOf
  <2> QED
    BY <2>2, <2>3, <2>6, <2>7, UsersStep, Zenon
<1> QED
  BY <1>5, <1>6, Zenon

\* execve: a copy of the table, and the end of the use of the old one.
LEMMA ExecveInv ==
  ASSUME FilesInv, NEW t \in Task, syscallExecve(t)
  PROVE  FilesInv'
<1>1. PICK a, v, m, c :
         /\ a = infoFiles[t]
         /\ v = NewTable
         /\ m = task_files_copy(Tables, a, v, TRUE)
         /\ c = utilizedBy[a]
  BY Zenon
<1>2. PICK n : n = taskInfoFilesDiscard(m, a, c)
  BY Zenon
<1>3. /\ Running(t) /\ FreeTables # {} /\ InstallTables(n)
      /\ infoFiles' = [infoFiles EXCEPT ![t] = v]
      /\ utilizedBy' = [utilizedBy EXCEPT ![a] = @ - 1, ![v] = 1]
  BY <1>1, <1>2, Zenon DEF syscallExecve
<1>4. UsersType(infoFiles, utilizedBy)
  BY Zenon DEF FilesInv
<1>5. UsersAre(infoFiles, utilizedBy) /\ FreeEmpty(utilizedBy, fdBitmap) /\ c # 0
  BY <1>1, <1>3, RunningOK, Zenon
<1>6. /\ a \in Table /\ v \in Table /\ v # a /\ utilizedBy[v] = 0
      /\ Good(m, {}) /\ SameIds(Tables, m, v)
  BY <1>1, <1>3, NewTableOK, Zenon
<1>7. c \in Nat
  BY <1>1, <1>4, <1>6 DEF UsersType
<1>8. /\ Good(n, {}) /\ SameIds(m, n, a)
      /\ ~ (c > 1) => n.fdBitmap[a] = {}
  BY <1>2, <1>6, <1>7, DiscardOK
<1>9. PICK I, k : I = WithEnd(infoFiles, t, NoTable) /\ k = CountDown(utilizedBy, a)
  BY Zenon
<1>10. UsersType(I, k) /\ UsersAre(I, k) /\ I[t] = NoTable
  BY <1>1, <1>4, <1>5, <1>6, <1>9, Leave
<1>11. infoFiles' = WithEnd(I, t, v)
  BY <1>3, <1>4, <1>9, Zenon DEF WithEnd, UsersType
<1>12. utilizedBy' = CountUp(k, v)
  BY <1>3, <1>4, <1>6, <1>9 DEF CountUp, CountDown, UsersType
<1>13. UsersType(infoFiles', utilizedBy') /\ UsersAre(infoFiles', utilizedBy')
  BY <1>6, <1>10, <1>11, <1>12, Join
<1>14. FreeEmpty(utilizedBy', n.fdBitmap)
  <2>1. ASSUME NEW b \in Table, utilizedBy'[b] = 0 PROVE n.fdBitmap[b] = {}
    <3>1. b # v /\ (b = a => ~ (c > 1)) /\ (b # a => utilizedBy[b] = 0)
      BY <1>1, <1>3, <1>4, <1>6, <1>7, <2>1 DEF UsersType
    <3>2. CASE b = a
      BY <1>8, <3>1, <3>2, Zenon
    <3>3. CASE b # a
      BY <1>5, <1>6, <1>8, <3>1, <3>3, TablesFields, Zenon DEF FreeEmpty, SameIds
    <3> QED
      BY <3>2, <3>3, Zenon
  <2> QED
    BY <2>1, Zenon DEF FreeEmpty
<1>15. UsersType(infoFiles, utilizedBy)' /\ UsersAre(infoFiles, utilizedBy)'
  BY <1>13, Zenon DEF UsersType, UsersAre, UsersOf
<1> QED
  BY <1>3, <1>8, <1>14, <1>15, UsersStep, Zenon

\* exit: the last user of a table closes its files.
LEMMA KillInv ==
  ASSUME FilesInv, NEW t \in Task, task_kill(t)
  PROVE  FilesInv'
<1>1. PICK a, c, m, n :
         /\ a = infoFiles[t]
         /\ c = utilizedBy[a]
         /\ m = Tables
         /\ n = taskInfoFilesDiscard(m, a, c)
  BY Zenon
<1>2. /\ Running(t) /\ InstallTables(n)
      /\ infoFiles' = WithEnd(infoFiles, t, NoTable) /\ utilizedBy' = CountDown(utilizedBy, a)
  BY <1>1, Zenon DEF task_kill, WithEnd, CountDown
<1>3. UsersType(infoFiles, utilizedBy)
  BY Zenon DEF FilesInv
<1>4. /\ a \in Table /\ c # 0 /\ Good(m, {})
      /\ UsersAre(infoFiles, utilizedBy) /\ FreeEmpty(utilizedBy, fdBitmap)
  BY <1>1, <1>2, RunningOK, Zenon
<1>5. c \in Nat
  BY <1>1, <1>3, <1>4, SMTT(30) DEF UsersType
<1>6. /\ Good(n, {}) /\ SameIds(m, n, a)
      /\ ~ (c > 1) => n.fdBitmap[a] = {}
  BY <1>1, <1>4, <1>5, DiscardOK, SMTT(30)
<1>7. UsersType(infoFiles', utilizedBy') /\ UsersAre(infoFiles', utilizedBy')
  BY <1>1, <1>2, <1>3, <1>4, Leave
<1>8. FreeEmpty(utilizedBy', n.fdBitmap)
  <2>1. ASSUME NEW b \in Table, utilizedBy'[b] = 0 PROVE n.fdBitmap[b] = {}
    <3>1. (b = a => ~ (c > 1)) /\ (b # a => utilizedBy[b] = 0)
      BY <1>1, <1>2, <1>3, <1>4, <1>5, <2>1 DEF UsersType, CountDown
    <3>2. CASE b = a
      BY <1>6, <3>1, <3>2, Zenon
    <3>3. CASE b # a
      BY <1>1, <1>4, <1>6, <3>1, <3>3, TablesFields, Zenon DEF FreeEmpty, SameIds
    <3> QED
      BY <3>2, <3>3, Zenon
  <2> QED
    BY <2>1, Zenon DEF FreeEmpty
<1>9. UsersType(infoFiles, utilizedBy)' /\ UsersAre(infoFiles, utilizedBy)'
  BY <1>7, Zenon DEF UsersType, UsersAre, UsersOf
<1> QED
  BY <1>2, <1>6, <1>8, <1>9, UsersStep, Zenon

\* One task with an empty table.
LEMMA FilesInitInv == FilesInit => FilesInv
<1> SUFFICES ASSUME FilesInit PROVE FilesInv
  OBVIOUS
<1>1. PICK s : s = Least(Table)
  BY Zenon
<1>2. s \in Table
  <2>1. Table \in SUBSET Nat /\ Table # {}
    BY FileTableAssumption, Zenon
  <2>2. \E b \in Table : \A d \in Table : b <= d
    BY <2>1, LeastExists, Zenon
  <2> QED
    BY <1>1, <2>2, Zenon DEF Least
<1>3. /\ infoFiles = [t \in Task |-> IF t = First THEN s ELSE NoTable]
      /\ utilizedBy = [b \in Table |-> IF b = s THEN 1 ELSE 0]
  BY <1>1, Zenon DEF FilesInit
<1>4. UsersType(infoFiles, utilizedBy)
  BY <1>2, <1>3 DEF UsersType
<1>5. UsersAre(infoFiles, utilizedBy)
  <2>1. First \in Task /\ \A b \in Table : b # NoTable
    BY FileTableAssumption, Zenon
  <2>2. UsersOf(infoFiles, s) = {First}
    BY <1>2, <1>3, <2>1, Zenon DEF UsersOf
  <2>3. ASSUME NEW b \in Table, b # s PROVE UsersOf(infoFiles, b) = {}
    BY <1>3, <2>1, <2>3, Zenon DEF UsersOf
  <2>4. Cardinality({First}) = 1
    BY FS_Singleton, Zenon
  <2>5. ASSUME NEW b \in Table PROVE utilizedBy[b] = Cardinality(UsersOf(infoFiles, b))
    <3>1. CASE b = s
      BY <1>3, <2>2, <2>4, <3>1, Zenon
    <3>2. CASE b # s
      BY <1>3, <2>3, <3>2, FS_EmptySet, Zenon
    <3> QED
      BY <3>1, <3>2, Zenon
  <2> QED
    BY <2>5, Zenon DEF UsersAre
<1>6. FreeEmpty(utilizedBy, fdBitmap)
  BY Zenon DEF FreeEmpty, FilesInit
<1>7. PICK m : m = Tables
  BY Zenon
<1>8. /\ m.fdBitmap = [b \in Table |-> {}] /\ m.dropped = [b \in Table |-> {}]
      /\ m.firstFile = [b \in Table |-> [i \in Fds |-> NoFile]]
      /\ m.fds = [e \in Ends |-> 0] /\ m.allocated = {} /\ m.failed = "none"
  BY <1>7, TablesFields, Zenon DEF FilesInit
<1>9. m \in TablesType
  <2>1. NoFile \in FileType /\ 0 \in Fds
    BY NoFileEnd, FileConstants, Zenon
  <2>2. [b \in Table |-> {}] \in IdsType
    BY Zenon DEF IdsType
  <2>3. [b \in Table |-> [i \in Fds |-> NoFile]] \in TreeType
    BY <2>1, Zenon DEF TreeType
  <2>4. [e \in Ends |-> 0] \in [Ends -> Nat]
    OBVIOUS
  <2>5. m = [fdBitmap |-> m.fdBitmap, firstFile |-> m.firstFile, fds |-> m.fds,
             allocated |-> m.allocated, dropped |-> m.dropped, failed |-> m.failed, id |-> 0]
    BY <1>7 DEF Tables
  <2>6. /\ m.fdBitmap \in IdsType /\ m.firstFile \in TreeType /\ m.fds \in [Ends -> Nat]
        /\ m.allocated \in SUBSET Objects /\ m.dropped \in IdsType
    BY <1>8, <2>2, <2>3, <2>4, Zenon
  <2>7. m.failed \in {"none", "no_id"}
    BY <1>8, Zenon
  <2> QED
    BY <2>1, <2>5, <2>6, <2>7 DEF TablesType
<1>10. IdsAre(m.firstFile, m.fdBitmap, m.dropped, {})
  <2>1. ASSUME NEW b \in Table, NEW i \in Fds
        PROVE  m.firstFile[b][i] = NoFile /\ m.fdBitmap[b] = {} /\ m.dropped[b] = {}
    BY <1>8
  <2> QED
    BY <2>1, Zenon DEF IdsAre
<1>11. EndsAre(View(m.firstFile), m.fds, m.allocated)
  <2>1. PICK V : V = View(m.firstFile)
    BY Zenon
  <2>2. m.firstFile \in TreeType
    BY <1>9 DEF TablesType
  <2>3. ASSUME NEW b \in Table, NEW i \in Fds PROVE V[<<b, i>>] = NoEnd
    <3>1. V[<<b, i>>] = m.firstFile[b][i].end
      BY <2>1, <2>2, ViewAt, Zenon
    <3>2. m.firstFile[b][i] = NoFile
      BY <1>8
    <3> QED
      BY <3>1, <3>2, NoFileEnd, Zenon
  <2>4. ASSUME NEW x \in FileSlots PROVE V[x] = NoEnd
    <3>1. PICK b \in Table, i \in Fds : x = <<b, i>>
      BY DEF FileSlots
    <3> QED
      BY <2>3, <3>1, Zenon
  <2>5. ASSUME NEW e \in Ends PROVE SlotsOf(V, e) = {}
    BY <2>4, FileConstants, Zenon DEF SlotsOf
  <2>6. \A e \in Ends : m.fds[e] = Cardinality(SlotsOf(V, e))
    BY <1>8, <2>5, FS_EmptySet, Zenon
  <2>7. m.allocated = {o \in Objects : \E e \in Ends : e[1] = o /\ SlotsOf(V, e) # {}}
    BY <1>8, <2>5, Zenon
  <2> QED
    BY <2>1, <2>6, <2>7, Zenon DEF EndsAre
<1>12. Good(Tables, {})
  BY <1>7, <1>8, <1>9, <1>10, <1>11, Zenon DEF Good, Sound
<1> QED
  BY <1>4, <1>5, <1>6, <1>12, Zenon DEF FilesInv

\* A stuttering step changes nothing that FilesInv is about.
LEMMA FilesStutter ==
  ASSUME FilesInv, UNCHANGED filesVars
  PROVE  FilesInv'
<1>1. /\ infoFiles' = infoFiles /\ utilizedBy' = utilizedBy /\ fdBitmap' = fdBitmap
      /\ firstFile' = firstFile /\ fds' = fds /\ allocated' = allocated
      /\ failed' = failed /\ dropped' = dropped
  BY Zenon DEF filesVars
<1>2. Tables' = Tables
  BY <1>1, Zenon DEF Tables
<1>3. UsersType(infoFiles, utilizedBy)'
  BY <1>1, Zenon DEF FilesInv, UsersType
<1>4. Full(Tables) => Full(Tables)'
  BY <1>2, Zenon DEF Full
<1>5. Good(Tables, {}) => Good(Tables, {})'
  BY <1>2, Zenon DEF Good, Sound
<1>6. UsersAre(infoFiles, utilizedBy) => UsersAre(infoFiles, utilizedBy)'
  BY <1>1, Zenon DEF UsersAre, UsersOf
<1>7. FreeEmpty(utilizedBy, fdBitmap) => FreeEmpty(utilizedBy, fdBitmap)'
  BY <1>1, Zenon DEF FreeEmpty
<1> QED
  BY <1>3, <1>4, <1>5, <1>6, <1>7, Zenon DEF FilesInv

\* Every system call preserves it.
LEMMA FilesStepInv ==
  ASSUME FilesInv, [FilesStep]_filesVars
  PROVE  FilesInv'
<1>1. CASE UNCHANGED filesVars
  BY <1>1, FilesStutter, Zenon
<1>2. CASE FilesStep
  <2>1. PICK t \in Task :
          \/ \E o \in Pipes : pipe_open(t, o)
          \/ \E o \in Events, c \in BOOLEAN : eventFdOpen(t, o, c)
          \/ \E i, j \in Fds : syscallDup2(t, i, j)
          \/ \E i \in Fds : syscallDup(t, i) \/ syscallClose(t, i)
          \/ \E i \in Flagged : syscallFcntl(t, i)
          \/ \E u \in Task, share \in BOOLEAN : task_fork(t, u, share)
          \/ syscallExecve(t)
          \/ task_kill(t)
    BY <1>2, Zenon DEF FilesStep
  <2>2. CASE \E o \in Pipes : pipe_open(t, o)
    BY <2>2, PipeOpenInv, Zenon
  <2>3. CASE \E o \in Events, c \in BOOLEAN : eventFdOpen(t, o, c)
    BY <2>3, EventOpenInv, Zenon
  <2>4. CASE \E i, j \in Fds : syscallDup2(t, i, j)
    BY <2>4, Dup2Inv, Zenon
  <2>5. CASE \E i \in Fds : syscallDup(t, i) \/ syscallClose(t, i)
    BY <2>5, DupInv, CloseInv, Zenon
  <2>6. CASE \E i \in Flagged : syscallFcntl(t, i)
    BY <2>6, FileTableAssumption, FcntlInv, Zenon
  <2>7. CASE \E u \in Task, share \in BOOLEAN : task_fork(t, u, share)
    BY <2>7, ForkInv, Zenon
  <2>8. CASE syscallExecve(t)
    BY <2>8, ExecveInv, Zenon
  <2>9. CASE task_kill(t)
    BY <2>9, KillInv, Zenon
  <2> QED
    BY <2>1, <2>2, <2>3, <2>4, <2>5, <2>6, <2>7, <2>8, <2>9, Zenon
<1> QED
  BY <1>1, <1>2, Zenon

\* It is enough.
LEMMA FilesInvEnough == FilesInv => EndsCounted
<1> SUFFICES ASSUME FilesInv PROVE EndsCounted
  OBVIOUS
<1>1. PICK m : m = Tables
  BY Zenon
<1>2. /\ m.fdBitmap = fdBitmap /\ m.firstFile = firstFile /\ m.fds = fds
      /\ m.allocated = allocated /\ m.dropped = dropped /\ m.failed = failed
  BY <1>1, TablesFields, Zenon
<1>3. m \in TablesType
  BY <1>1, Zenon DEF FilesInv, Full, Good, Sound
<1>4. FilesTypeOK
  <2>1. /\ fdBitmap \in [Table -> SUBSET Fds] /\ fds \in [Ends -> Nat]
        /\ allocated \subseteq Objects
    BY <1>2, <1>3 DEF TablesType, IdsType
  <2> QED
    BY <2>1, Zenon DEF FilesInv, UsersType, FilesTypeOK
<1>5. failed \in {"none", "no_id"}
  BY <1>2, <1>3 DEF TablesType
<1>6. CASE Full(m)
  <2>1. failed = "no_id" /\ \E b \in Table : fdBitmap[b] = Fds
    BY <1>2, <1>6, Zenon DEF Full
  <2>2. failed # "none"
    BY <2>1
  <2> QED
    BY <1>4, <1>5, <2>1, <2>2, Zenon DEF EndsCounted
<1>7. CASE Good(m, {}) /\ UsersAre(infoFiles, utilizedBy)
  <2>1. /\ failed = "none" /\ IdsAre(firstFile, fdBitmap, dropped, {})
        /\ EndsAre(View(firstFile), fds, allocated)
    BY <1>2, <1>7, Zenon DEF Good, Sound
  <2>2. failed # "no_id"
    BY <2>1
  <2>3. ASSUME NEW e PROVE Holders(e) = SlotsOf(View(firstFile), e)
    BY Zenon DEF Holders, SlotsOf, View, FileSlots
  <2>4. /\ \A e \in Ends : fds[e] = Cardinality(Holders(e))
        /\ allocated = {o \in Objects : \E e \in Ends : e[1] = o /\ Holders(e) # {}}
    BY <2>1, <2>3, Zenon DEF EndsAre
  <2>5. ASSUME NEW b \in Table
        PROVE  /\ utilizedBy[b] = Cardinality({t \in Task : infoFiles[t] = b})
               /\ fdBitmap[b] = Registered(Tables, b) \cup dropped[b]
               /\ Registered(Tables, b) \cap dropped[b] = {}
    <3>1. utilizedBy[b] = Cardinality({t \in Task : infoFiles[t] = b})
      BY <1>7, Zenon DEF UsersAre, UsersOf
    <3>2. PICK R : R = Registered(Tables, b)
      BY Zenon
    <3>3. R = {i \in Fds : firstFile[b][i] # NoFile}
      BY <3>2, TablesFields, Zenon DEF Registered
    <3>4. fdBitmap[b] \in SUBSET Fds /\ dropped[b] \in SUBSET Fds
      BY <1>2, <1>3 DEF TablesType, IdsType
    <3>5. \A i \in Fds : /\ i \in fdBitmap[b] <=> firstFile[b][i] # NoFile \/ i \in dropped[b]
                         /\ firstFile[b][i] # NoFile => i \notin dropped[b]
      BY <2>1, Zenon DEF IdsAre
    <3>6. fdBitmap[b] = R \cup dropped[b] /\ R \cap dropped[b] = {}
      BY <3>3, <3>4, <3>5, Zenon
    <3> QED
      BY <3>1, <3>2, <3>6, Zenon
  <2> QED
    BY <1>4, <1>5, <2>1, <2>2, <2>4, <2>5, Zenon DEF EndsCounted
<1> QED
  BY <1>1, <1>6, <1>7, Zenon DEF FilesInv

(***************************************************************************)
(* EndsCounted, for any number of tasks, tables, ids, pipes and eventfds:  *)
(* over every sequence of open, dup, dup2, F_SETFD, close, fork, clone,    *)
(* execve and exit the counts of an object are its descriptors, it is      *)
(* freed with the last of them, and neither the assertion of               *)
(* fsRegisterNode nor a use of a freed object is reached.                  *)
(***************************************************************************)
THEOREM EndsAlwaysCounted == FilesSpec => []EndsCounted
<1>1. FilesInit => FilesInv
  BY FilesInitInv
<1>2. FilesInv /\ [FilesStep]_filesVars => FilesInv'
  BY FilesStepInv
<1>3. FilesInv => EndsCounted
  BY FilesInvEnough
<1> QED
  BY <1>1, <1>2, <1>3, PTL DEF FilesSpec
=============================================================================
