---------------------------- MODULE DownloadProofs ----------------------------
(***************************************************************************)
(* Theorems about Download and ResultSnapshot, for every size of the       *)
(* directory, every limit and any number of downloads.                     *)
(***************************************************************************)
EXTENDS Download, FiniteSetTheorems, WellFoundedInduction, TLAPS

-----------------------------------------------------------------------------
(***************************************************************************)
(* The sum of the sizes of a set of rows.                                  *)
(***************************************************************************)
RowSet == [entry : Entry, hash : Seq(Block)]

\* Of a set of numbers that is not empty one is the least.
LEMMA LeastNumber ==
  ASSUME NEW T \in SUBSET Nat, T # {}
  PROVE  \E n \in T : \A m \in T : n <= m
<1> DEFINE R == {ss \in Nat \X Nat : ss[1] < ss[2]}
<1>1. IsWellFoundedOn(R, Nat)
  BY NatLessThanWellFounded DEF OpToRel
<1>2. \A m, n \in Nat : m < n => <<m, n>> \in R
  BY Zenon
<1> HIDE DEF R
<1>3. PICK n \in T : \A m \in T : <<m, n>> \notin R
  BY <1>1, WFMin
<1>4. ASSUME NEW m \in T PROVE n <= m
  <2>1. m \in Nat /\ n \in Nat /\ ~ (m < n)
    BY <1>2, <1>3
  <2> QED
    BY <2>1
<1> QED
  BY <1>4

\* Of some subsets of a finite set one is the smallest.
LEMMA LeastSet ==
  ASSUME NEW S, NEW F \in SUBSET SUBSET S, IsFiniteSet(S), F # {}
  PROVE  \E s \in F : \A t \in F : Cardinality(s) <= Cardinality(t)
<1>1. \A t \in F : Cardinality(t) \in Nat
  BY FS_Subset, FS_CardinalityType
<1> DEFINE C == {Cardinality(t) : t \in F}
<1>2. C \in SUBSET Nat /\ C # {}
  BY <1>1
<1>3. PICK n \in C : \A m \in C : n <= m
  BY <1>2, LeastNumber
<1> QED
  BY <1>3

\* g adds up the sizes of the rows, in whatever order they are taken.
Adds(g, S) ==
  /\ g \in [SUBSET S -> Nat] /\ g[{}] = 0
  /\ \A s \in SUBSET S : \A r \in S \ s : g[s \cup {r}] = g[s] + Len(r.hash)

\* What Bytes does: it takes away one row after the other.
TakeOne(s) == CHOOSE r \in s : TRUE
SumStep(g, s) == IF s = {} THEN 0 ELSE Len(TakeOne(s).hash) + g[s \ {TakeOne(s)}]
Sums(S) == CHOOSE g : g = [s \in SUBSET S |-> SumStep(g, s)]

LEMMA BytesIsSums == ASSUME NEW S PROVE Bytes(S) = Sums(S)[S]
BY DEF Bytes, MapThenSumSet, MapThenFoldSet, Sums, SumStep, TakeOne

\* The order does not matter.
LEMMA AddsExists ==
  ASSUME NEW S \in SUBSET RowSet, IsFiniteSet(S)
  PROVE  \E g : Adds(g, S)
<1> DEFINE F == {s \in SUBSET S : ~ \E g : Adds(g, s)}
<1>1. SUFFICES ASSUME F # {} PROVE FALSE
  OBVIOUS
<1>2. PICK s \in F : \A t \in F : Cardinality(s) <= Cardinality(t)
  BY <1>1, LeastSet
<1>3. s # {}
  <2>1. ASSUME s = {} PROVE Adds([t \in SUBSET s |-> 0], s)
    BY <2>1 DEF Adds
  <2> QED
    BY <2>1
<1>4. PICK r \in s : TRUE
  BY <1>3
<1> DEFINE rest == s \ {r}
<1>5. PICK g : Adds(g, rest)
  <2>1. IsFiniteSet(s) /\ Cardinality(rest) = Cardinality(s) - 1 /\ Cardinality(s) \in Nat
    BY <1>4, FS_Subset, FS_RemoveElement, FS_CardinalityType
  <2>2. rest \notin F
    BY <1>2, <2>1
  <2> QED
    BY <2>2
<1> DEFINE h == [t \in SUBSET s |-> IF r \in t THEN g[t \ {r}] + Len(r.hash) ELSE g[t]]
<1>6. Len(r.hash) \in Nat
  BY <1>4 DEF RowSet
<1>7. \A t \in SUBSET s : t \ {r} \in SUBSET rest /\ (r \notin t => t \in SUBSET rest)
  OBVIOUS
<1>8. h \in [SUBSET s -> Nat] /\ h[{}] = 0
  BY <1>5, <1>6, <1>7 DEF Adds
<1>9. ASSUME NEW t \in SUBSET s, NEW x \in s \ t PROVE h[t \cup {x}] = h[t] + Len(x.hash)
  <2>1. CASE x = r
    BY <2>1, <1>9
  <2>2. CASE x # r
    <3>1. x \in rest \ (t \ {r}) /\ (t \cup {x}) \ {r} = (t \ {r}) \cup {x}
      BY <2>2
    <3>2. g[(t \ {r}) \cup {x}] = g[t \ {r}] + Len(x.hash)
      BY <1>5, <1>7, <3>1 DEF Adds
    <3>3. Len(x.hash) \in Nat /\ g[t \ {r}] \in Nat
      BY <1>5, <1>7 DEF Adds, RowSet
    <3>4. CASE r \in t
      <4>1. r \in t \cup {x} /\ t \cup {x} \in SUBSET s
        BY <3>4
      <4>2. h[t \cup {x}] = g[(t \cup {x}) \ {r}] + Len(r.hash) /\ h[t] = g[t \ {r}] + Len(r.hash)
        BY <3>4, <4>1
      <4> HIDE DEF h
      <4> QED
        <5>1. \A i, j, k \in Nat : (i + j) + k = (i + k) + j
          OBVIOUS
        <5>2. h[t \cup {x}] = (g[t \ {r}] + Len(x.hash)) + Len(r.hash)
          BY <3>1, <3>2, <4>2
        <5> QED
          BY <1>6, <3>3, <4>2, <5>1, <5>2
    <3>5. CASE r \notin t
      <4>1. t \ {r} = t
        BY <3>5
      <4> QED
        BY <2>2, <3>1, <3>2, <3>5, <4>1
    <3> QED
      BY <3>4, <3>5
  <2> QED
    BY <2>1, <2>2
<1>10. Adds(h, s)
  <2> HIDE DEF h
  <2> QED
    BY <1>8, <1>9 DEF Adds
<1> QED
  BY <1>10

\* Bytes is that sum.
LEMMA AddsIsBytes ==
  ASSUME NEW S \in SUBSET RowSet, IsFiniteSet(S), NEW g, Adds(g, S)
  PROVE  Bytes(S) = g[S]
<1> DEFINE F == {s \in SUBSET S : Sums(S)[s] # g[s]}
<1>1. ASSUME NEW s \in SUBSET S, s # {}
      PROVE  TakeOne(s) \in s /\ g[s] = Len(TakeOne(s).hash) + g[s \ {TakeOne(s)}]
  <2> DEFINE x == TakeOne(s)
  <2>1. x \in s
    BY <1>1 DEF TakeOne
  <2> HIDE DEF x
  <2>2. g[(s \ {x}) \cup {x}] = g[s \ {x}] + Len(x.hash) /\ (s \ {x}) \cup {x} = s /\ g[s \ {x}] \in Nat
    BY <2>1 DEF Adds
  <2>3. Len(x.hash) \in Nat
    BY <2>1 DEF RowSet
  <2>4. g[s] = Len(x.hash) + g[s \ {x}]
    <3>1. \A i, j \in Nat : i + j = j + i
      OBVIOUS
    <3>2. g[s] = g[s \ {x}] + Len(x.hash)
      BY <2>2
    <3> QED
      BY <2>2, <2>3, <3>1, <3>2
  <2> QED
    BY <2>1, <2>4 DEF x
<1>2. Sums(S) = [s \in SUBSET S |-> SumStep(Sums(S), s)]
  <2>1. g = [s \in SUBSET S |-> SumStep(g, s)]
    <3>1. \A s \in SUBSET S : g[s] = SumStep(g, s)
      BY <1>1 DEF Adds, SumStep
    <3> QED
      BY <3>1 DEF Adds
  <2> QED
    BY <2>1 DEF Sums
<1>3. F = {}
  <2>1. SUFFICES ASSUME F # {} PROVE FALSE
    OBVIOUS
  <2>2. PICK s \in F : \A t \in F : Cardinality(s) <= Cardinality(t)
    BY <2>1, LeastSet
  <2>3. s # {}
    BY <1>2 DEF SumStep, Adds
  <2>4. s \ {TakeOne(s)} \notin F
    <3>1. IsFiniteSet(s) /\ TakeOne(s) \in s
      BY <1>1, <2>3, FS_Subset
    <3>2. Cardinality(s \ {TakeOne(s)}) = Cardinality(s) - 1 /\ Cardinality(s) \in Nat
      BY <3>1, FS_RemoveElement, FS_CardinalityType
    <3> QED
      BY <2>2, <3>2
  <2>5. Sums(S)[s] = Len(TakeOne(s).hash) + Sums(S)[s \ {TakeOne(s)}]
    BY <1>2, <2>3 DEF SumStep
  <2>6. g[s] = Len(TakeOne(s).hash) + g[s \ {TakeOne(s)}]
    BY <1>1, <2>3
  <2> QED
    BY <2>4, <2>5, <2>6
<1> QED
  BY <1>3, BytesIsSums

\* One row more adds its size.
LEMMA BytesAdd ==
  /\ Bytes({}) = 0
  /\ \A S \in SUBSET RowSet : IsFiniteSet(S) => Bytes(S) \in Nat
  /\ \A S \in SUBSET RowSet : \A r \in RowSet \ S :
       IsFiniteSet(S) => Bytes(S \cup {r}) = Bytes(S) + Len(r.hash)
<1>1. ASSUME NEW S \in SUBSET RowSet, IsFiniteSet(S) PROVE Bytes(S) \in Nat
  <2>1. PICK g : Adds(g, S)
    BY <1>1, AddsExists
  <2>2. S \in SUBSET S /\ g[S] \in Nat
    BY <2>1 DEF Adds
  <2> QED
    BY <1>1, <2>1, <2>2, AddsIsBytes
<1>2. Bytes({}) = 0
  <2>1. IsFiniteSet({}) /\ {} \in SUBSET RowSet
    BY FS_EmptySet
  <2>2. PICK g : Adds(g, {})
    BY <2>1, AddsExists
  <2> QED
    BY <2>1, <2>2, AddsIsBytes DEF Adds
<1>3. ASSUME NEW S \in SUBSET RowSet, NEW r \in RowSet \ S, IsFiniteSet(S)
      PROVE  Bytes(S \cup {r}) = Bytes(S) + Len(r.hash)
  <2> DEFINE T == S \cup {r}
  <2>1. T \in SUBSET RowSet /\ IsFiniteSet(T)
    BY <1>3, FS_AddElement
  <2>2. PICK g : Adds(g, T)
    BY <2>1, AddsExists
  <2> DEFINE h == [s \in SUBSET S |-> g[s]]
  <2>3. Adds(h, S)
    <3>1. h \in [SUBSET S -> Nat] /\ h[{}] = 0
      BY <2>2 DEF Adds
    <3>2. ASSUME NEW s \in SUBSET S, NEW x \in S \ s PROVE h[s \cup {x}] = h[s] + Len(x.hash)
      <4>1. s \in SUBSET T /\ x \in T \ s /\ s \cup {x} \in SUBSET S
        OBVIOUS
      <4> QED
        BY <2>2, <4>1 DEF Adds
    <3> HIDE DEF h
    <3> QED
      BY <3>1, <3>2 DEF Adds
  <2>4. Bytes(S) = g[S] /\ Bytes(T) = g[T]
    <3>1. Bytes(S) = h[S]
      BY <1>3, <2>3, AddsIsBytes
    <3> QED
      BY <2>1, <2>2, <3>1, AddsIsBytes
  <2>5. g[S \cup {r}] = g[S] + Len(r.hash)
    <3>1. S \in SUBSET T /\ r \in T \ S
      OBVIOUS
    <3> QED
      BY <2>2, <3>1 DEF Adds
  <2> QED
    BY <2>4, <2>5
<1> QED
  BY <1>1, <1>2, <1>3

-----------------------------------------------------------------------------
(***************************************************************************)
(* Files, and prefixes of them.                                            *)
(***************************************************************************)
\* A block written inside a file or at its end.
LEMMA WriteIsSeq ==
  ASSUME NEW T, NEW s \in Seq(T), NEW b \in T, NEW i \in 1..Len(s) + 1
  PROVE  /\ Write(s, i, b) \in Seq(T) /\ Len(Write(s, i, b)) >= Len(s)
         /\ i <= Len(Write(s, i, b))
         /\ i = Len(s) + 1 => Write(s, i, b) = Append(s, b)
<1> DEFINE w == Write(s, i, b)
           n == IF i = Len(s) + 1 THEN Len(s) + 1 ELSE Len(s)
<1>1. DOMAIN s = 1..Len(s) /\ Len(s) \in Nat /\ n \in Nat /\ n >= Len(s) /\ i <= n
  OBVIOUS
<1>2. DOMAIN s \cup {i} = 1..n
  BY <1>1
<1>3. w = [j \in 1..n |-> IF j = i THEN b ELSE s[j]]
  BY <1>2 DEF Write
<1>4. \A j \in 1..n : (IF j = i THEN b ELSE s[j]) \in T
  BY <1>1
<1> HIDE DEF n
<1>5. w \in Seq(T) /\ Len(w) = n
  BY <1>1, <1>3, <1>4
<1>6. ASSUME i = Len(s) + 1 PROVE w = Append(s, b)
  <2>1. Append(s, b) \in Seq(T) /\ Len(Append(s, b)) = n
    BY <1>6 DEF n
  <2>2. \A j \in 1..n : w[j] = Append(s, b)[j]
    BY <1>1, <1>3, <1>6 DEF n
  <2> HIDE DEF w
  <2> QED
    BY <1>5, <2>1, <2>2
<1> QED
  BY <1>1, <1>5, <1>6

\* A prefix agrees with the whole, block by block.
LEMMA PrefixIff ==
  ASSUME NEW T, NEW s \in Seq(T), NEW t \in Seq(T)
  PROVE  /\ IsPrefix(s, t) <=> Len(s) <= Len(t) /\ \A i \in 1..Len(s) : s[i] = t[i]
         /\ IsPrefix(s, t) /\ Len(s) >= Len(t) => s = t
         /\ IsPrefix(<<>>, t)
         /\ \A b \in T : IsPrefix(s, t) /\ Len(s) < Len(t) /\ b = t[Len(s) + 1] =>
              IsPrefix(Append(s, b), t)
<1>1. ASSUME NEW u \in Seq(T)
      PROVE  IsPrefix(u, t) <=> Len(u) <= Len(t) /\ \A i \in 1..Len(u) : u[i] = t[i]
  <2>1. CASE Len(u) <= Len(t)
    <3> DEFINE p == SubSeq(t, 1, Len(u))
    <3>1. SubSeq(u, 1, Len(u)) = u
      OBVIOUS
    <3>2. p \in Seq(T) /\ Len(p) = Len(u) /\ \A i \in 1..Len(u) : p[i] = t[i]
      BY <2>1
    <3> HIDE DEF p
    <3>3. u = p <=> \A i \in 1..Len(u) : u[i] = p[i]
      <4>1. u \in [1..Len(u) -> T] /\ p \in [1..Len(u) -> T]
        BY <3>2
      <4> QED
        BY <4>1
    <3> QED
      BY <2>1, <3>1, <3>2, <3>3 DEF IsPrefix, p
  <2>2. CASE ~ (Len(u) <= Len(t))
    BY <2>2 DEF IsPrefix
  <2> QED
    BY <2>1, <2>2
<1>2. ASSUME IsPrefix(s, t), Len(s) >= Len(t) PROVE s = t
  BY <1>1, <1>2
<1>3. IsPrefix(<<>>, t)
  <2>1. <<>> \in Seq(T) /\ Len(<<>>) = 0 /\ Len(t) \in Nat
    OBVIOUS
  <2>2. Len(<<>>) <= Len(t) /\ \A i \in 1..Len(<<>>) : <<>>[i] = t[i]
    BY <2>1
  <2> QED
    BY <1>1, <2>1, <2>2
<1>4. ASSUME NEW b \in T, IsPrefix(s, t), Len(s) < Len(t), b = t[Len(s) + 1]
      PROVE  IsPrefix(Append(s, b), t)
  <2> DEFINE u == Append(s, b)
  <2>1. /\ u \in Seq(T) /\ Len(u) = Len(s) + 1 /\ Len(u) <= Len(t)
        /\ \A i \in 1..Len(s) : u[i] = s[i]
        /\ u[Len(s) + 1] = b
    BY <1>4
  <2>2. \A i \in 1..Len(s) : s[i] = t[i]
    BY <1>1, <1>4
  <2> HIDE DEF u
  <2>3. \A i \in 1..Len(u) : u[i] = t[i]
    BY <1>4, <2>1, <2>2
  <2> QED
    BY <1>1, <2>1, <2>3 DEF u
<1> QED
  BY <1>1, <1>2, <1>3, <1>4

-----------------------------------------------------------------------------
(***************************************************************************)
(* The agent's snapshot.                                                   *)
(***************************************************************************)
Clean == phase \in {"walk", "copy", "commit"}
Working == Clean \/ phase = "undo"
Listed == {Row(e) : e \in Registered}

\* Nothing is in the tables before the transaction, and the restart settles a
\* task without a row; a row names its file.
TableInv ==
  /\ Working \/ phase = "down" => status = "pending"
  /\ phase = "recovered" => status = "incomplete"
  /\ phase # "ended" => rows = {}
  /\ \A r \in rows : files[r.entry] \in Seq(Block)
  /\ \A q, r \in rows : q.entry = r.entry => q = r

\* Until the end a file is one that is registered, and holds what was hashed,
\* or one that could not be removed.
FilesInv ==
  Working => \A e \in Entry :
    \/ files[e] = NoFile \/ e \in kept
    \/ e \in Registered /\ files[e] = copied[e]

\* Of what it has passed the walk has registered every file that was there all
\* the time, whole but for the one it is at, and has counted what it copied.
WalkInv ==
  Clean =>
    /\ Registered \subseteq 1..at /\ visited <= MaxEntries
    /\ \A e \in (1..at) \ moved : e \in Registered <=> kind[e] = "file"
    /\ phase = "copy" => at \in Registered
    /\ CompleteIsWhole
    /\ \A e \in Registered : files[e] = copied[e] /\ Len(copied[e]) <= MaxFile
    /\ \A e \in Registered \ (written \cup moved) :
         /\ IsPrefix(copied[e], source[e])
         /\ (phase = "copy" /\ e = at) \/ copied[e] = source[e]
    /\ Cardinality(Registered) <= MaxFiles
    /\ total = Bytes(Listed) /\ total <= MaxTotal

ListInv == CompleteIsAcceptable /\ RowMatchesFile /\ FailureLeavesNothing

SnapInv == SnapshotTypeOK /\ TableInv /\ FilesInv /\ WalkInv /\ ListInv

\* What may change the agent's side.
LEMMA SnapshotCases ==
  ASSUME [Next]_vars
  PROVE  \/ SnapshotNext /\ UNCHANGED downloadVars
         \/ \E e \in Entry : Damage(e)
         \/ UNCHANGED <<snapshotVars, damaged>>
<1>1. CASE SnapshotNext /\ UNCHANGED downloadVars
  BY <1>1
<1>2. CASE CacheArtifacts \/ AppExit \/ \E e \in Entry : DeletePartial(e)
  BY <1>2 DEF CacheArtifacts, AppExit, DeletePartial
<1>3. ASSUME NEW d \in Call, Step(d) \/ Lost(d) \/ \E a \in Artifacts : Begin(d, a)
      PROVE  UNCHANGED <<snapshotVars, damaged>>
  <2>1. CASE Step(d)
    BY <2>1 DEF Step, Open, Length, ReadPartial, Answer, Chunk, BodyEnds, Check, Link, Unlink
  <2> QED
    BY <1>3, <2>1 DEF Lost, Begin
<1>4. CASE UNCHANGED vars
  BY <1>4 DEF vars, downloadVars
<1> QED
  BY <1>1, <1>2, <1>3, <1>4 DEF Next

\* A block written late is a block, and no file is none.
LEMMA BlockTypes ==
  /\ \A e \in Entry, i \in Nat : <<e, i, "later">> \in Block
  /\ NoFile \notin Seq(Block)
  /\ Entry \subseteq Nat /\ NoEntry \notin Entry /\ IsFiniteSet(Entry)
<1>1. \A e \in Entry, i \in Nat : <<e, i, "later">> \in Block
  BY DEF Block
<1>2. Entry \subseteq Nat /\ NoEntry \notin Entry /\ IsFiniteSet(Entry)
  BY EntryAssumption, FS_Interval DEF Entry, NoEntry
<1>3. ASSUME NoFile \in Seq(Block) PROVE FALSE
  <2>1. NoFile[1] = <<0, 0, "none">> /\ Len(NoFile) = 1
    BY DEF NoFile
  <2>2. NoFile[1] \in Block
    BY <1>3, <2>1
  <2>3. 0 \in Entry
    BY <2>1, <2>2 DEF Block
  <2> QED
    BY <2>3 DEF Entry
<1> QED
  BY <1>1, <1>2, <1>3

\* What is registered is a set of rows, no larger than that of the files.
LEMMA ListedType ==
  ASSUME SnapshotTypeOK
  PROVE  /\ Listed \in SUBSET RowSet /\ IsFiniteSet(Listed)
         /\ IsFiniteSet(Registered) /\ Cardinality(Registered) \in Nat
         /\ Cardinality(Listed) <= Cardinality(Registered)
<1>1. IsFiniteSet(Registered) /\ Cardinality(Registered) \in Nat
  BY BlockTypes, FS_Subset, FS_CardinalityType DEF SnapshotTypeOK
<1>2. Listed \in SUBSET RowSet
  BY DEF Listed, Row, RowSet, SnapshotTypeOK
<1>3. [e \in Registered |-> Row(e)] \in Surjection(Registered, Listed)
  BY DEF Listed, Surjection
<1> QED
  BY <1>1, <1>2, <1>3, FS_Surjection

\* A damaged file is a file still, and no other has changed.
LEMMA DamageFile ==
  ASSUME SnapInv, NEW e \in Entry, Damage(e)
  PROVE  \E f \in Seq(Block) : files' = [files EXCEPT ![e] = f]
<1>1. files \in [Entry -> Seq(Block) \cup {NoFile}] /\ files[e] \in Seq(Block)
  BY DEF Damage, Artifacts, SnapInv, SnapshotTypeOK, TableInv
<1>2. CASE \E i \in DOMAIN files[e] : files' = [files EXCEPT ![e][i] = <<e, i, "later">>]
  <2>1. PICK i \in DOMAIN files[e] : files' = [files EXCEPT ![e][i] = <<e, i, "later">>]
    BY <1>2
  <2>2. <<e, i, "later">> \in Block
    BY <1>1, BlockTypes
  <2>3. [files[e] EXCEPT ![i] = <<e, i, "later">>] \in Seq(Block)
    BY <1>1, <2>2
  <2> QED
    BY <2>1, <2>3
<1>3. CASE files[e] # <<>> /\ files' = [files EXCEPT ![e] = Front(@)]
  <2>1. Front(files[e]) \in Seq(Block)
    BY <1>1, <1>3 DEF Front
  <2> QED
    BY <1>3, <2>1
<1> QED
  BY <1>2, <1>3 DEF Damage

\* Every step keeps the types.
LEMMA SnapshotTypeStep == SnapInv /\ [Next]_vars => SnapshotTypeOK'
<1> SUFFICES ASSUME SnapInv, [Next]_vars PROVE SnapshotTypeOK'
  OBVIOUS
<1> USE DEF directory, walk, disk, table, snapshotVars, Registered
<1>1. SnapshotTypeOK
  BY DEF SnapInv
<1>2. ASSUME NEW e \in Entry, Change(e) PROVE SnapshotTypeOK'
  <2>1. PICK i \in 1..Len(source[e]) + 1 :
          source' = [source EXCEPT ![e] = Write(@, i, <<e, i, "later">>)]
    BY <1>2 DEF Change, Write
  <2>2. Write(source[e], i, <<e, i, "later">>) \in Seq(Block)
    <3>1. source[e] \in Seq(Block) /\ <<e, i, "later">> \in Block
      BY <1>1, BlockTypes DEF SnapshotTypeOK
    <3> QED
      BY <3>1, WriteIsSeq
  <2>3. source' \in [Entry -> Seq(Block)]
    BY <1>1, <2>1, <2>2 DEF SnapshotTypeOK
  <2>4. writes' \in 0..MaxWrites
    BY <1>1, <1>2, EntryAssumption DEF SnapshotTypeOK, Change, Changing
  <2>5. written' \subseteq Entry /\ UNCHANGED <<kind, moved, phase, walk, disk, table>>
    BY <1>1, <1>2 DEF SnapshotTypeOK, Change
  <2> QED
    BY <1>1, <2>3, <2>4, <2>5 DEF SnapshotTypeOK
<1>3. ASSUME NEW e \in Entry, Create(e) PROVE SnapshotTypeOK'
  <2>1. PICK k \in {"file", "dir", "other"}, size \in 0..MaxFile + 1 :
          /\ kind' = [kind EXCEPT ![e] = k]
          /\ source' = [source EXCEPT ![e] = [i \in 1..size |-> <<e, i, "later">>]]
    BY <1>3 DEF Create
  <2>2. [i \in 1..size |-> <<e, i, "later">>] \in Seq(Block)
    <3>1. size \in Nat /\ \A i \in 1..size : <<e, i, "later">> \in Block
      BY LimitAssumption, BlockTypes
    <3> QED
      BY <3>1
  <2>3. source' \in [Entry -> Seq(Block)] /\ kind' \in [Entry -> {"file", "dir", "other", "absent"}]
    BY <1>1, <2>1, <2>2 DEF SnapshotTypeOK
  <2>4. writes' \in 0..MaxWrites
    BY <1>1, <1>3, EntryAssumption DEF SnapshotTypeOK, Create, Changing
  <2>5. moved' \subseteq Entry /\ UNCHANGED <<written, phase, walk, disk, table>>
    BY <1>1, <1>3 DEF SnapshotTypeOK, Create
  <2> QED
    BY <1>1, <2>3, <2>4, <2>5 DEF SnapshotTypeOK
<1>4. ASSUME NEW e \in Entry, Delete(e) PROVE SnapshotTypeOK'
  <2>1. /\ writes' \in 0..MaxWrites /\ moved' \subseteq Entry
        /\ kind' \in [Entry -> {"file", "dir", "other", "absent"}]
        /\ UNCHANGED <<source, written, phase, walk, disk, table>>
    BY <1>1, <1>4, EntryAssumption DEF SnapshotTypeOK, Delete, Changing
  <2> QED
    BY <1>1, <2>1 DEF SnapshotTypeOK
<1>5. ASSUME NEW e \in Entry, Meets(e)
      PROVE  at' \in 0..MaxEntry /\ visited' \in 0..MaxEntries + 1
  <2>1. visited <= MaxEntries /\ visited \in Nat
    BY <1>1, <1>5, LimitAssumption DEF SnapInv, WalkInv, Clean, Meets, SnapshotTypeOK
  <2> QED
    BY <1>5, <2>1, EntryAssumption, LimitAssumption DEF Meets, Entry
<1>6. ASSUME NEW e \in Entry, VisitDirectory(e) \/ VisitRefused(e) PROVE SnapshotTypeOK'
  <2>1. /\ at' \in 0..MaxEntry /\ visited' \in 0..MaxEntries + 1
        /\ phase' \in {phase, "undo"} /\ UNCHANGED <<directory, copied, total, disk, table>>
    BY <1>5, <1>6 DEF VisitDirectory, VisitRefused
  <2> QED
    BY <1>1, <2>1 DEF SnapshotTypeOK
<1>7. ASSUME NEW e \in Entry, VisitFile(e) PROVE SnapshotTypeOK'
  <2>1. <<>> \in Seq(Block) /\ at' \in 0..MaxEntry /\ visited' \in 0..MaxEntries + 1
    BY <1>5, <1>7 DEF VisitFile
  <2>2. /\ DOMAIN copied' = Registered \cup {e}
        /\ \A f \in DOMAIN copied' : copied'[f] = IF f = e THEN <<>> ELSE copied[f]
    BY <1>7 DEF VisitFile
  <2>3. files' \in [Entry -> Seq(Block) \cup {NoFile}]
    BY <1>1, <1>7, <2>1 DEF VisitFile, SnapshotTypeOK
  <2>4. Registered' \subseteq Entry /\ \A f \in Registered' : copied'[f] \in Seq(Block)
    BY <1>1, <2>1, <2>2 DEF SnapshotTypeOK
  <2> QED
    BY <1>1, <1>7, <2>1, <2>3, <2>4 DEF SnapshotTypeOK, VisitFile
<1>8. CASE CopyBlock
  <2>1. at \in Registered /\ total <= MaxTotal
    BY <1>8 DEF SnapInv, WalkInv, Clean, CopyBlock
  <2>2. total' \in 0..MaxTotal + 1
    BY <1>1, <1>8, <2>1, LimitAssumption DEF SnapshotTypeOK, CopyBlock
  <2>3. CASE UNCHANGED <<copied, files>>
    BY <1>1, <1>8, <2>2, <2>3 DEF SnapshotTypeOK, CopyBlock
  <2>4. CASE ~ UNCHANGED <<copied, files>>
    <3> DEFINE b == source[at][Len(copied[at]) + 1]
    <3>1. /\ copied' = [copied EXCEPT ![at] = Append(@, b)]
          /\ files' = [files EXCEPT ![at] = Append(@, b)]
          /\ Len(copied[at]) < Len(source[at]) /\ phase' = phase
      BY <1>8, <2>4 DEF CopyBlock
    <3>2. /\ copied[at] \in Seq(Block) /\ source[at] \in Seq(Block)
          /\ files[at] = copied[at] /\ at \in Entry
      BY <1>1, <1>8, <2>1 DEF SnapInv, WalkInv, Clean, SnapshotTypeOK, CopyBlock
    <3>3. b \in Block /\ Append(copied[at], b) \in Seq(Block)
      <4>1. Len(copied[at]) + 1 \in 1..Len(source[at])
        BY <3>1, <3>2
      <4> QED
        BY <3>2, <4>1
    <3> HIDE DEF b
    <3>4. files' \in [Entry -> Seq(Block) \cup {NoFile}]
      BY <1>1, <3>1, <3>2, <3>3 DEF SnapshotTypeOK
    <3>5. Registered' \subseteq Entry /\ \A f \in Registered' : copied'[f] \in Seq(Block)
      BY <1>1, <2>1, <3>1, <3>2, <3>3 DEF SnapshotTypeOK
    <3> QED
      BY <1>1, <1>8, <2>2, <3>1, <3>4, <3>5 DEF SnapshotTypeOK, CopyBlock
  <2> QED
    BY <2>3, <2>4
<1>9. CASE CopyEnds \/ CopyFails \/ WalkEnds \/ Recover
  BY <1>1, <1>9 DEF SnapshotTypeOK, CopyEnds, CopyFails, WalkEnds, Recover
<1>10. CASE Undo
  <2>1. PICK e \in Registered :
          /\ copied' = [f \in Registered \ {e} |-> copied[f]]
          /\ files' \in {files, [files EXCEPT ![e] = NoFile]}
          /\ kept' \in {kept, kept \cup {e}}
    BY <1>10 DEF Undo, Forgets, Restrict
  <2>2. /\ files' \in [Entry -> Seq(Block) \cup {NoFile}] /\ kept' \subseteq Entry
        /\ Registered' \subseteq Entry /\ \A f \in Registered' : copied'[f] \in Seq(Block)
    BY <1>1, <2>1 DEF SnapshotTypeOK
  <2> QED
    BY <1>1, <1>10, <2>2 DEF SnapshotTypeOK, Undo
<1>11. CASE Commit \/ Crash
  <2>1. /\ at' = 0 /\ visited' = 0 /\ copied' = <<>> /\ total' = 0 /\ DOMAIN copied' = {}
        /\ at' \in 0..MaxEntry /\ visited' \in 0..MaxEntries + 1 /\ total' \in 0..MaxTotal + 1
    BY <1>11, EntryAssumption, LimitAssumption DEF Commit, Crash, Forget
  <2>2. rows' \subseteq [entry : Entry, hash : Seq(Block)] /\ status' \in {"pending", "complete", "incomplete"}
    <3>1. rows' = rows \/ rows' = Listed
      BY <1>11 DEF Commit, Crash, Listed
    <3>2. rows \subseteq RowSet /\ Listed \subseteq RowSet
      BY <1>1, ListedType DEF SnapshotTypeOK, RowSet
    <3> QED
      BY <1>1, <1>11, <3>1, <3>2 DEF RowSet, SnapshotTypeOK, Commit, Crash
  <2>3. phase' \in {"ended", "down"} /\ UNCHANGED disk
    BY <1>11 DEF Commit, Crash
  <2>4. UNCHANGED directory \/ LeaveDirectory
    BY <1>11 DEF Commit, Crash
  <2>5. /\ kind' \in [Entry -> {"file", "dir", "other", "absent"}]
        /\ source' \in [Entry -> Seq(Block)]
        /\ writes' \in 0..MaxWrites /\ written' \subseteq Entry /\ moved' \subseteq Entry
    <3>1. CASE UNCHANGED directory
      BY <1>1, <3>1 DEF SnapshotTypeOK
    <3>2. CASE LeaveDirectory
      <4>1. <<>> \in Seq(Block) /\ 0 \in 0..MaxWrites
        BY EntryAssumption
      <4> QED
        BY <3>2, <4>1 DEF LeaveDirectory
    <3> QED
      BY <2>4, <3>1, <3>2
  <2> QED
    BY <1>1, <2>1, <2>2, <2>3, <2>5 DEF SnapshotTypeOK
<1>12. ASSUME NEW e \in Entry, Damage(e) PROVE SnapshotTypeOK'
  <2>2. files' \in [Entry -> Seq(Block) \cup {NoFile}]
    BY <1>1, <1>12, DamageFile DEF SnapshotTypeOK
  <2> QED
    BY <1>1, <1>12, <2>2 DEF SnapshotTypeOK, Damage
<1>13. CASE UNCHANGED snapshotVars
  BY <1>1, <1>13 DEF SnapshotTypeOK
<1> QED
  BY <1>2, <1>3, <1>4, <1>6, <1>7, <1>8, <1>9, <1>10, <1>11, <1>12, <1>13, SnapshotCases
     DEF SnapshotNext

\* Before the transaction the tables are as they were.
OnTheWay ==
  /\ Working \/ phase = "down"
  /\ phase' # "ended" /\ UNCHANGED rows
  /\ phase' = "recovered" => phase = "down" /\ status' = "incomplete"
  /\ phase' # "recovered" => UNCHANGED status

\* Afterwards only a file may be damaged.
AtRest ==
  /\ phase \in {"ended", "down", "recovered"} /\ UNCHANGED <<rows, status, phase>>
  /\ (\E e \in Entry : Damage(e)) \/ UNCHANGED disk

\* The steps by what they do to the phase and the tables.
LEMMA PhaseCases ==
  ASSUME SnapInv, [Next]_vars
  PROVE  OnTheWay \/ Commit \/ AtRest
<1> USE DEF table, walk, disk, directory, snapshotVars, Working, Clean, OnTheWay, AtRest
<1>1. phase \in {"walk", "copy", "commit", "undo", "ended", "down", "recovered"}
  BY DEF SnapInv, SnapshotTypeOK
<1>2. CASE SnapshotNext
  <2>1. CASE \E e \in Entry : Change(e) \/ Create(e) \/ Delete(e)
    BY <2>1 DEF Change, Create, Delete, Changing
  <2>2. CASE \E e \in Entry : VisitDirectory(e) \/ VisitFile(e) \/ VisitRefused(e)
    BY <2>2 DEF VisitDirectory, VisitFile, VisitRefused, Meets
  <2>3. CASE CopyBlock \/ Undo \/ CopyEnds \/ CopyFails \/ WalkEnds
    BY <2>3 DEF CopyBlock, Undo, CopyEnds, CopyFails, WalkEnds
  <2>4. CASE Crash
    BY <2>4 DEF Crash
  <2>5. CASE Recover
    BY <2>5 DEF Recover, SnapInv, TableInv
  <2> QED
    BY <1>2, <2>1, <2>2, <2>3, <2>4, <2>5 DEF SnapshotNext
<1>3. CASE \E e \in Entry : Damage(e)
  BY <1>1, <1>3 DEF Damage
<1>4. CASE UNCHANGED snapshotVars
  BY <1>1, <1>4
<1> QED
  BY <1>2, <1>3, <1>4, SnapshotCases

\* The rows of a transaction are those of the files it has copied.
LEMMA CommitRows ==
  ASSUME SnapInv, Commit, phase = "commit"
  PROVE  /\ rows' = Listed /\ status' = "complete" /\ phase' = "ended" /\ UNCHANGED disk
         /\ \A r \in Listed : /\ r.entry \in Registered /\ r.hash = copied[r.entry]
                              /\ files[r.entry] = r.hash /\ r.hash \in Seq(Block)
<1>1. rows' = Listed /\ status' = "complete" /\ phase' = "ended" /\ UNCHANGED disk
  BY DEF Commit, Listed
<1>2. \A e \in Registered : files[e] = copied[e] /\ copied[e] \in Seq(Block)
  BY DEF SnapInv, SnapshotTypeOK, WalkInv, Clean
<1>3. \A r \in Listed : r.entry \in Registered /\ r.hash = copied[r.entry]
  BY DEF Listed, Row
<1> QED
  BY <1>1, <1>2, <1>3

LEMMA TableStep == SnapInv /\ [Next]_vars => TableInv'
<1> SUFFICES ASSUME SnapInv, [Next]_vars PROVE TableInv'
  OBVIOUS
<1>1. TableInv
  BY DEF SnapInv
<1>2. CASE OnTheWay
  BY <1>1, <1>2 DEF TableInv, Working, Clean, OnTheWay
<1>3. CASE Commit
  <2>1. CASE phase = "commit"
    <3>1. /\ rows' = Listed /\ status' = "complete" /\ phase' = "ended" /\ UNCHANGED files
          /\ \A r \in Listed : files[r.entry] \in Seq(Block)
      BY <1>3, <2>1, CommitRows DEF disk
    <3>2. \A q, r \in Listed : q.entry = r.entry => q = r
      BY DEF Listed, Row
    <3> QED
      BY <3>1, <3>2 DEF TableInv, Working, Clean
  <2>2. CASE phase = "undo"
    BY <1>1, <1>3, <2>2 DEF TableInv, Working, Clean, Commit, disk
  <2> QED
    BY <1>3, <2>1, <2>2 DEF Commit
<1>4. CASE AtRest
  <2>1. \A r \in rows : files'[r.entry] \in Seq(Block)
    <3>1. CASE UNCHANGED files
      BY <1>1, <3>1 DEF TableInv
    <3>2. ASSUME NEW e \in Entry, Damage(e) PROVE \A r \in rows : files'[r.entry] \in Seq(Block)
      <4>1. PICK f \in Seq(Block) : files' = [files EXCEPT ![e] = f]
        BY <3>2, DamageFile
      <4>2. files \in [Entry -> Seq(Block) \cup {NoFile}] /\ \A r \in rows : r.entry \in Entry
        BY DEF SnapInv, SnapshotTypeOK
      <4> QED
        BY <1>1, <4>1, <4>2 DEF TableInv
    <3> QED
      BY <1>4, <3>1, <3>2 DEF AtRest, disk
  <2> QED
    BY <1>1, <1>4, <2>1 DEF TableInv, Working, Clean, AtRest
<1> QED
  BY <1>2, <1>3, <1>4, PhaseCases

\* A complete result is acceptable, and an incomplete one is empty.
LEMMA ListStep == SnapInv /\ [Next]_vars => ListInv'
<1> SUFFICES ASSUME SnapInv, [Next]_vars PROVE ListInv'
  OBVIOUS
<1>1. ListInv /\ TableInv /\ FilesInv /\ SnapshotTypeOK
  BY DEF SnapInv
<1>2. CASE OnTheWay
  <2>1. rows' = {} /\ status' # "complete" /\ phase' # "ended"
    BY <1>1, <1>2 DEF TableInv, Working, Clean, OnTheWay
  <2> QED
    BY <2>1 DEF ListInv, CompleteIsAcceptable, RowMatchesFile, FailureLeavesNothing
<1>3. CASE Commit
  <2>1. CASE phase = "commit"
    <3>1. /\ rows' = Listed /\ status' = "complete" /\ phase' = "ended" /\ UNCHANGED files
          /\ \A r \in Listed : /\ r.entry \in Registered /\ r.hash = copied[r.entry]
                               /\ files[r.entry] = r.hash /\ r.hash \in Seq(Block)
      BY <1>3, <2>1, CommitRows DEF disk
    <3>2. /\ \A e \in Registered : Len(copied[e]) <= MaxFile
          /\ Cardinality(Registered) <= MaxFiles
          /\ Bytes(Listed) <= MaxTotal
      BY <2>1 DEF SnapInv, WalkInv, Clean
    <3>3. Cardinality(Listed) <= MaxFiles
      <4>1. /\ Cardinality(Listed) <= Cardinality(Registered) /\ Cardinality(Listed) \in Nat
            /\ Cardinality(Registered) \in Nat
        BY <1>1, ListedType, FS_CardinalityType
      <4> QED
        BY <3>2, <4>1, LimitAssumption
    <3>4. CompleteIsAcceptable'
      <4>1. Acceptable(Listed)
        BY <3>1, <3>2, <3>3 DEF Acceptable
      <4> QED
        BY <3>1, <4>1 DEF CompleteIsAcceptable, Acceptable
    <3>5. RowMatchesFile' /\ FailureLeavesNothing'
      BY <3>1 DEF RowMatchesFile, FailureLeavesNothing
    <3> QED
      BY <3>4, <3>5 DEF ListInv
  <2>2. CASE phase = "undo"
    <3>1. rows' = {} /\ status' = "incomplete" /\ UNCHANGED <<files, kept>> /\ Registered = {}
      BY <1>1, <1>3, <2>2 DEF Commit, TableInv, disk
    <3>2. \A e \in Entry \ kept : files[e] = NoFile
      BY <1>1, <2>2, <3>1 DEF FilesInv, Working, Clean
    <3> QED
      BY <3>1, <3>2 DEF ListInv, CompleteIsAcceptable, RowMatchesFile, FailureLeavesNothing
  <2> QED
    BY <1>3, <2>1, <2>2 DEF Commit
<1>4. CASE AtRest
  <2>1. CompleteIsAcceptable'
    BY <1>1, <1>4 DEF ListInv, CompleteIsAcceptable, Acceptable, AtRest
  <2>2. CASE \E e \in Entry : Damage(e)
    <3>1. damaged' /\ Artifacts # {}
      BY <2>2 DEF Damage
    <3>2. RowMatchesFile'
      BY <3>1 DEF RowMatchesFile
    <3>3. FailureLeavesNothing'
      BY <1>1, <1>4, <3>1 DEF ListInv, FailureLeavesNothing, Artifacts, AtRest
    <3> QED
      BY <2>1, <3>2, <3>3 DEF ListInv
  <2>3. CASE UNCHANGED disk /\ ~ \E e \in Entry : Damage(e)
    <3>1. UNCHANGED damaged
      BY <2>3, SnapshotCases DEF downloadVars
    <3> QED
      BY <1>1, <1>4, <2>1, <2>3, <3>1
         DEF ListInv, RowMatchesFile, FailureLeavesNothing, AtRest, disk
  <2> QED
    BY <1>4, <2>2, <2>3 DEF AtRest
<1> QED
  BY <1>2, <1>3, <1>4, PhaseCases

LEMMA FilesStep == SnapInv /\ [Next]_vars => FilesInv'
<1> SUFFICES ASSUME SnapInv, [Next]_vars, Working', NEW f \in Entry
             PROVE  \/ files'[f] = NoFile \/ f \in kept'
                    \/ f \in Registered' /\ files'[f] = copied'[f]
  BY DEF FilesInv
<1> USE DEF table, walk, directory, disk, snapshotVars, Working, Clean, Registered
<1>1. /\ Working => \/ files[f] = NoFile \/ f \in kept
                    \/ f \in Registered /\ files[f] = copied[f]
      /\ files \in [Entry -> Seq(Block) \cup {NoFile}]
  BY DEF SnapInv, FilesInv, SnapshotTypeOK
<1>2. ASSUME NEW e \in Entry, VisitFile(e)
      PROVE  \/ files'[f] = NoFile \/ f \in kept'
             \/ f \in Registered' /\ files'[f] = copied'[f]
  <2>1. /\ files' = [files EXCEPT ![e] = <<>>] /\ DOMAIN copied' = Registered \cup {e}
        /\ \A g \in DOMAIN copied' : copied'[g] = IF g = e THEN <<>> ELSE copied[g]
        /\ phase = "walk" /\ kept' = kept
    BY <1>2 DEF VisitFile, Meets
  <2> QED
    BY <1>1, <2>1
<1>3. CASE CopyBlock
  <2>1. at \in Registered /\ at \in Entry /\ files[at] = copied[at]
    BY <1>3 DEF SnapInv, WalkInv, CopyBlock, SnapshotTypeOK
  <2>2. CASE UNCHANGED <<copied, files>>
    BY <1>1, <1>3, <2>2 DEF CopyBlock
  <2>3. CASE ~ UNCHANGED <<copied, files>>
    <3> DEFINE b == source[at][Len(copied[at]) + 1]
    <3>1. /\ copied' = [copied EXCEPT ![at] = Append(@, b)]
          /\ files' = [files EXCEPT ![at] = Append(@, b)]
      BY <1>3, <2>3 DEF CopyBlock
    <3> HIDE DEF b
    <3> QED
      BY <1>1, <1>3, <2>1, <3>1 DEF CopyBlock
  <2> QED
    BY <2>2, <2>3
<1>4. CASE Undo
  <2>1. PICK e \in Registered :
          /\ copied' = [g \in Registered \ {e} |-> copied[g]]
          /\ \/ files' = [files EXCEPT ![e] = NoFile] /\ UNCHANGED kept
             \/ kept' = kept \cup {e} /\ UNCHANGED files
    BY <1>4 DEF Undo, Forgets, Restrict
  <2>2. phase = "undo"
    BY <1>4 DEF Undo
  <2>3. CASE f = e
    BY <1>1, <2>1, <2>3
  <2>4. CASE f # e
    BY <1>1, <2>1, <2>2, <2>4
  <2> QED
    BY <2>3, <2>4
<1>5. CASE \/ CopyEnds \/ CopyFails \/ WalkEnds
           \/ \E e \in Entry : VisitDirectory(e) \/ VisitRefused(e)
  BY <1>1, <1>5 DEF VisitDirectory, VisitRefused, Meets, CopyEnds, CopyFails, WalkEnds
<1>6. CASE \E e \in Entry : Change(e) \/ Create(e) \/ Delete(e)
  BY <1>1, <1>6 DEF Change, Create, Delete, Changing
<1>7. CASE Commit \/ Crash \/ Recover \/ \E e \in Entry : Damage(e)
  BY <1>7 DEF Commit, Crash, Recover, Damage
<1>8. CASE UNCHANGED snapshotVars
  BY <1>1, <1>8
<1> QED
  BY <1>2, <1>3, <1>4, <1>5, <1>6, <1>7, <1>8, SnapshotCases DEF SnapshotNext

\* What the walk has passed when it meets the next entry: nothing that was there
\* all the time is left out.
LEMMA MeetsNext ==
  ASSUME SnapInv, NEW e \in Entry, Meets(e)
  PROVE  /\ at' = e /\ at < e /\ at \in Nat /\ e \in Nat /\ phase = "walk"
         /\ \A f \in (1..e) \ moved : f \in 1..at \/ f = e \/ kind[f] = "absent"
         /\ Registered \subseteq 1..at /\ e \notin Registered
         /\ \A f \in (1..at) \ moved : f \in Registered <=> kind[f] = "file"
         /\ visited < MaxEntries => visited' <= MaxEntries
<1>1. at' = e /\ at < e /\ phase = "walk" /\ Between(e) \subseteq moved /\ visited' = visited + 1
  BY DEF Meets
<1>2. at \in 0..MaxEntry /\ e \in 1..MaxEntry /\ Entry = 1..MaxEntry /\ visited \in Nat
  BY LimitAssumption DEF SnapInv, SnapshotTypeOK, Entry
<1>3. ASSUME NEW f \in (1..e) \ moved PROVE f \in 1..at \/ f = e \/ kind[f] = "absent"
  <2>1. f \in Entry /\ f \notin Between(e)
    BY <1>1, <1>2, <1>3, EntryAssumption
  <2> QED
    BY <1>2, <1>3, <2>1, EntryAssumption DEF Between
<1>4. /\ Registered \subseteq 1..at
      /\ \A f \in (1..at) \ moved : f \in Registered <=> kind[f] = "file"
  BY <1>1 DEF SnapInv, WalkInv, Clean
<1>5. e \notin Registered
  BY <1>1, <1>2, <1>4, EntryAssumption
<1> QED
  BY <1>1, <1>2, <1>3, <1>4, <1>5, EntryAssumption, LimitAssumption

\* A file met is registered with nothing copied yet.
LEMMA VisitFileWalk ==
  ASSUME SnapInv, NEW e \in Entry, VisitFile(e)
  PROVE  WalkInv'
<1> USE DEF Clean
<1>1. /\ kind[e] = "file" /\ at' = e /\ phase' = "copy"
      /\ phase = "walk" /\ visited' <= MaxEntries
      /\ DOMAIN copied' = Registered \cup {e} /\ files' = [files EXCEPT ![e] = <<>>]
      /\ \A f \in DOMAIN copied' : copied'[f] = IF f = e THEN <<>> ELSE copied[f]
      /\ UNCHANGED <<kind, source, written, moved, total>> /\ Cardinality(Registered) < MaxFiles
  BY MeetsNext DEF VisitFile, Copyable, directory
<1>2. /\ \A f \in Registered : files[f] = copied[f] /\ Len(copied[f]) <= MaxFile
      /\ \A f \in Registered \ (written \cup moved) : copied[f] = source[f]
      /\ total = Bytes(Listed) /\ total <= MaxTotal
  BY <1>1 DEF SnapInv, WalkInv
<1>3. /\ SnapshotTypeOK /\ files \in [Entry -> Seq(Block) \cup {NoFile}]
      /\ source \in [Entry -> Seq(Block)] /\ Registered \subseteq Entry
      /\ \A f \in Registered : copied[f] \in Seq(Block)
  BY DEF SnapInv, SnapshotTypeOK
<1>4. Registered' = Registered \cup {e} /\ e \notin Registered
  BY <1>1, MeetsNext DEF Registered, VisitFile
<1>5. /\ Registered' \subseteq 1..e
      /\ \A f \in (1..e) \ moved : f \in Registered' <=> kind[f] = "file"
  <2>1. /\ at < e /\ at \in Nat /\ e \in Nat
        /\ \A f \in (1..e) \ moved : f \in 1..at \/ f = e \/ kind[f] = "absent"
        /\ Registered \subseteq 1..at
        /\ \A f \in (1..at) \ moved : f \in Registered <=> kind[f] = "file"
    BY MeetsNext DEF VisitFile
  <2>2. Registered' \subseteq 1..e
    BY <1>4, <2>1, EntryAssumption DEF Entry
  <2>3. ASSUME NEW f \in (1..e) \ moved PROVE f \in Registered' <=> kind[f] = "file"
    <3>1. CASE f = e
      BY <1>1, <1>4, <3>1
    <3>2. CASE f \in 1..at
      BY <1>4, <2>1, <2>3, <3>2
    <3>3. CASE f # e /\ f \notin 1..at
      BY <1>4, <2>1, <2>3, <3>3
    <3> QED
      BY <3>1, <3>2, <3>3
  <2> QED
    BY <2>2, <2>3
<1>6. ASSUME NEW f \in Registered' PROVE files'[f] = copied'[f] /\ Len(copied'[f]) <= MaxFile
  <2>1. CASE f = e
    BY <1>1, <1>3, <1>4, <2>1, LimitAssumption
  <2>2. CASE f # e
    BY <1>1, <1>2, <1>3, <1>4, <2>2
  <2> QED
    BY <2>1, <2>2
<1>7. ASSUME NEW f \in Registered' \ (written' \cup moved')
      PROVE  /\ IsPrefix(copied'[f], source'[f])
             /\ f = at' \/ copied'[f] = source'[f]
  <2>1. source[f] \in Seq(Block) /\ source'[f] = source[f] /\ copied'[f] = IF f = e THEN <<>> ELSE copied[f]
    BY <1>1, <1>3, <1>4
  <2>2. CASE f = e
    BY <1>1, <2>1, <2>2, PrefixIff
  <2>3. CASE f # e
    <3>1. copied'[f] = source[f]
      BY <1>1, <1>2, <1>4, <1>7, <2>1, <2>3
    <3>2. IsPrefix(source[f], source[f])
      BY <2>1, PrefixIff
    <3> QED
      BY <2>1, <3>1, <3>2
  <2> QED
    BY <2>2, <2>3
<1>8. Cardinality(Registered') <= MaxFiles
  <2>1. IsFiniteSet(Registered) /\ Cardinality(Registered) \in Nat
    BY <1>3, ListedType
  <2>2. Cardinality(Registered \cup {e}) = Cardinality(Registered) + 1
    BY <1>4, <2>1, FS_AddElement
  <2>3. MaxFiles \in Nat /\ Cardinality(Registered) + 1 <= MaxFiles
    BY <1>1, <2>1, LimitAssumption
  <2> QED
    BY <1>4, <2>2, <2>3
<1>9. total' = Bytes(Listed')
  <2> DEFINE r == [entry |-> e, hash |-> <<>>]
  <2>1. Listed' = Listed \cup {r}
    <3>1. Listed' = {[entry |-> f, hash |-> copied'[f]] : f \in Registered'}
      BY DEF Listed, Row
    <3>2. Listed = {[entry |-> f, hash |-> copied[f]] : f \in Registered}
      BY DEF Listed, Row
    <3> QED
      BY <1>1, <1>4, <3>1, <3>2
  <2>2. r \in RowSet \ Listed /\ Len(r.hash) = 0
    <3>1. r \in RowSet /\ r.entry = e /\ Len(r.hash) = 0
      BY <1>1 DEF RowSet
    <3>2. \A q \in Listed : q.entry \in Registered
      BY DEF Listed, Row
    <3> QED
      BY <1>4, <3>1, <3>2
  <2>3. Listed \in SUBSET RowSet /\ IsFiniteSet(Listed)
    BY <1>3, ListedType
  <2>4. Bytes(Listed \cup {r}) = Bytes(Listed) + Len(r.hash) /\ Bytes(Listed) \in Nat
    BY <2>2, <2>3, BytesAdd
  <2>5. Bytes(Listed \cup {r}) = Bytes(Listed)
    BY <2>2, <2>4
  <2> QED
    BY <1>1, <1>2, <2>1, <2>5
<1>10. CompleteIsWhole'
  BY <1>1 DEF CompleteIsWhole
<1> QED
  BY <1>1, <1>2, <1>4, <1>5, <1>6, <1>7, <1>8, <1>9, <1>10 DEF WalkInv

\* A block copied goes to the hash, to the file, and to the count.
LEMMA CopyBlockWalk ==
  ASSUME SnapInv, CopyBlock
  PROVE  WalkInv'
<1> USE DEF Clean
<1> DEFINE v == at
           s == copied[v]
           b == source[v][Len(s) + 1]
<1>1. /\ phase = "copy" /\ v \in Registered /\ Len(s) < Len(source[v])
      /\ total' = total + 1
      /\ UNCHANGED <<kind, source, written, moved, at, visited>>
      /\ \/ phase' = "undo"
         \/ /\ ~ (Len(s) + 1 > MaxFile \/ total + 1 > MaxTotal)
            /\ copied' = [copied EXCEPT ![v] = Append(@, b)]
            /\ files' = [files EXCEPT ![v] = Append(@, b)]
            /\ phase' = phase
  BY DEF SnapInv, WalkInv, CopyBlock, directory
<1>2. /\ Registered \subseteq 1..at /\ visited <= MaxEntries
      /\ \A f \in (1..at) \ moved : f \in Registered <=> kind[f] = "file"
      /\ \A f \in Registered : files[f] = copied[f] /\ Len(copied[f]) <= MaxFile
      /\ \A f \in Registered \ (written \cup moved) :
           /\ IsPrefix(copied[f], source[f])
           /\ f = v \/ copied[f] = source[f]
      /\ Cardinality(Registered) <= MaxFiles
      /\ total = Bytes(Listed) /\ total <= MaxTotal
  BY <1>1 DEF SnapInv, WalkInv
<1>3. /\ SnapshotTypeOK /\ files \in [Entry -> Seq(Block) \cup {NoFile}]
      /\ source \in [Entry -> Seq(Block)] /\ Registered \subseteq Entry
      /\ \A f \in Registered : copied[f] \in Seq(Block)
      /\ total \in Nat
  BY LimitAssumption DEF SnapInv, SnapshotTypeOK
<1>4. CASE phase' = "undo"
  BY <1>4 DEF WalkInv
<1>5. CASE phase' # "undo"
  <2>1. s \in Seq(Block) /\ b \in Block /\ v \in Entry
    <3>1. s \in Seq(Block) /\ source[v] \in Seq(Block) /\ v \in Entry
      BY <1>1, <1>3
    <3>2. Len(s) + 1 \in 1..Len(source[v])
      BY <1>1, <3>1
    <3> QED
      BY <3>1, <3>2
  <2> HIDE DEF b
  <2> DEFINE t == Append(s, b)
  <2>2. t \in Seq(Block) /\ Len(t) = Len(s) + 1 /\ Len(t) <= MaxFile /\ total + 1 <= MaxTotal
    BY <1>1, <1>3, <1>5, <2>1, LimitAssumption
  <2>3. /\ Registered' = Registered /\ copied'[v] = t /\ files'[v] = t /\ phase' = "copy"
        /\ \A f \in Registered \ {v} : copied'[f] = copied[f] /\ files'[f] = files[f]
    BY <1>1, <1>2, <1>3, <1>5, <2>1 DEF Registered
  <2>4. ASSUME NEW f \in Registered PROVE files'[f] = copied'[f] /\ Len(copied'[f]) <= MaxFile
    BY <1>2, <2>2, <2>3
  <2>5. ASSUME NEW f \in Registered \ (written' \cup moved')
        PROVE  /\ IsPrefix(copied'[f], source'[f])
               /\ f = at' \/ copied'[f] = source'[f]
    <3>1. CASE f = v
      <4>1. IsPrefix(s, source[v]) /\ source[v] \in Seq(Block)
        BY <1>1, <1>2, <1>3, <2>5, <3>1
      <4>2. IsPrefix(t, source[v])
        BY <1>1, <2>1, <4>1, PrefixIff DEF b
      <4> QED
        BY <1>1, <2>3, <3>1, <4>2
    <3>2. CASE f # v
      BY <1>1, <1>2, <2>3, <2>5, <3>2
    <3> QED
      BY <3>1, <3>2
  <2>6. total' = Bytes(Listed')
    <3> DEFINE rest == {Row(f) : f \in Registered \ {v}}
               q == [entry |-> v, hash |-> s]
               r == [entry |-> v, hash |-> t]
    <3>1. Listed = rest \cup {q}
      BY <1>1 DEF Listed, Row
    <3>2. Listed' = rest \cup {r}
      <4>1. Listed' = {[entry |-> f, hash |-> copied'[f]] : f \in Registered}
        BY <2>3 DEF Listed, Row
      <4> HIDE DEF t
      <4> QED
        BY <1>1, <2>3, <4>1 DEF Row
    <3>3. q \in RowSet /\ r \in RowSet /\ q \notin rest /\ r \notin rest
      <4>1. \A p \in rest : p.entry # v
        BY DEF Row
      <4> QED
        BY <2>1, <2>2, <4>1 DEF RowSet
    <3>4. rest \in SUBSET RowSet /\ IsFiniteSet(rest)
      <4>1. rest \in SUBSET Listed
        BY DEF Listed
      <4> QED
        BY <1>3, <4>1, ListedType, FS_Subset
    <3> HIDE DEF rest, t
    <3>5. /\ Bytes(rest) \in Nat
          /\ Bytes(rest \cup {q}) = Bytes(rest) + Len(q.hash)
          /\ Bytes(rest \cup {r}) = Bytes(rest) + Len(r.hash)
      BY <3>3, <3>4, BytesAdd
    <3>6. Len(q.hash) \in Nat /\ Len(r.hash) = Len(q.hash) + 1
      BY <2>1, <2>2
    <3> HIDE DEF q, r
    <3>7. Bytes(Listed') = Bytes(Listed) + 1
      BY <3>1, <3>2, <3>5, <3>6
    <3> QED
      BY <1>1, <1>2, <3>7
  <2>7. CompleteIsWhole'
    BY <2>3 DEF CompleteIsWhole
  <2> QED
    BY <1>1, <1>2, <2>2, <2>3, <2>4, <2>5, <2>6, <2>7 DEF WalkInv
<1> QED
  BY <1>4, <1>5

\* What happens in the directory concerns entries that are then known as
\* written to or moved.
LEMMA ChangeWalk ==
  ASSUME SnapInv, NEW e \in Entry, Change(e) \/ Create(e) \/ Delete(e)
  PROVE  WalkInv'
<1> USE DEF Clean
<1>1. /\ \/ written' = written \cup {e} /\ UNCHANGED <<kind, moved>>
         \/ moved' = moved \cup {e} /\ UNCHANGED written
      /\ phase \in {"walk", "copy"}
      /\ UNCHANGED <<phase, at, visited, copied, total, files>>
  BY DEF Change, Create, Delete, Changing, walk, disk
<1>2. \A f \in Entry \ {e} : kind'[f] = kind[f] /\ source'[f] = source[f]
  BY DEF Change, Create, Delete, SnapInv, SnapshotTypeOK
<1>3. WalkInv /\ SnapshotTypeOK
  BY DEF SnapInv
<1>4. Listed' = Listed /\ Registered' = Registered /\ Registered \subseteq Entry
  BY <1>1, <1>3 DEF Listed, Row, Registered, SnapshotTypeOK
<1>5. \A f \in (1..at) \ moved' : f \in Registered <=> kind'[f] = "file"
  <2>1. 1..at \subseteq Entry
    BY <1>3, EntryAssumption DEF SnapshotTypeOK, Entry
  <2> QED
    BY <1>1, <1>2, <1>3, <2>1 DEF WalkInv
<1>6. ASSUME NEW f \in Registered \ (written' \cup moved')
      PROVE  /\ IsPrefix(copied[f], source'[f])
             /\ (phase = "copy" /\ f = at) \/ copied[f] = source'[f]
  <2>1. f # e /\ f \in Registered \ (written \cup moved)
    BY <1>1, <1>6
  <2>2. source'[f] = source[f]
    BY <1>2, <1>4, <2>1
  <2> QED
    BY <1>1, <1>3, <2>1, <2>2 DEF WalkInv
<1>7. CompleteIsWhole'
  BY <1>1 DEF CompleteIsWhole
<1> QED
  BY <1>1, <1>3, <1>4, <1>5, <1>6, <1>7 DEF WalkInv

LEMMA WalkStep == SnapInv /\ [Next]_vars => WalkInv'
<1> SUFFICES ASSUME SnapInv, [Next]_vars PROVE WalkInv'
  OBVIOUS
<1> USE DEF table, directory, walk, disk, snapshotVars, Clean
<1>1. WalkInv /\ SnapshotTypeOK
  BY DEF SnapInv
<1>2. ASSUME NEW e \in Entry, Change(e) \/ Create(e) \/ Delete(e) PROVE WalkInv'
  BY <1>2, ChangeWalk
<1>3. ASSUME NEW e \in Entry, VisitDirectory(e) PROVE WalkInv'
  <2>1. /\ phase = "walk" /\ kind[e] = "dir" /\ visited' <= MaxEntries /\ at' = e
        /\ UNCHANGED <<kind, source, written, moved, phase, copied, total, files>>
    BY <1>3, MeetsNext DEF VisitDirectory
  <2>2. Listed' = Listed /\ Registered' = Registered
    BY <2>1 DEF Listed, Row, Registered
  <2>3. /\ Registered \subseteq 1..e
        /\ \A f \in (1..e) \ moved : f \in Registered <=> kind[f] = "file"
    <3>1. /\ at < e /\ at \in Nat /\ e \in Nat
          /\ \A f \in (1..e) \ moved : f \in 1..at \/ f = e \/ kind[f] = "absent"
          /\ Registered \subseteq 1..at /\ e \notin Registered
          /\ \A f \in (1..at) \ moved : f \in Registered <=> kind[f] = "file"
      BY <1>3, MeetsNext DEF VisitDirectory
    <3>2. Registered \subseteq 1..e
      BY <3>1
    <3>3. ASSUME NEW f \in (1..e) \ moved PROVE f \in Registered <=> kind[f] = "file"
      <4>1. CASE f \in 1..at
        BY <3>1, <3>3, <4>1
      <4>2. CASE f \notin 1..at
        <5>1. f \notin Registered
          BY <3>1, <4>2
        <5>2. kind[f] # "file"
          BY <2>1, <3>1, <3>3, <4>2
        <5> QED
          BY <5>1, <5>2
      <4> QED
        BY <4>1, <4>2
    <3> QED
      BY <3>2, <3>3
  <2>4. CompleteIsWhole'
    BY <2>1 DEF CompleteIsWhole
  <2> QED
    BY <1>1, <2>1, <2>2, <2>3, <2>4 DEF WalkInv
<1>4. ASSUME NEW e \in Entry, VisitFile(e) PROVE WalkInv'
  BY <1>4, VisitFileWalk
<1>5. CASE CopyBlock
  BY <1>5, CopyBlockWalk
<1>6. CASE CopyEnds
  <2>1. /\ phase = "copy" /\ phase' = "walk" /\ Len(copied[at]) >= Len(source[at])
        /\ UNCHANGED <<kind, source, written, moved, at, visited, copied, total, files>>
    BY <1>6 DEF CopyEnds
  <2>2. Listed' = Listed /\ Registered' = Registered
    BY <2>1 DEF Listed, Row, Registered
  <2>3. ASSUME at \notin written \cup moved PROVE copied[at] = source[at]
    <3>1. at \in Registered /\ IsPrefix(copied[at], source[at])
      BY <1>1, <2>1, <2>3 DEF WalkInv
    <3>2. copied[at] \in Seq(Block) /\ source[at] \in Seq(Block)
      BY <1>1, <3>1 DEF SnapshotTypeOK
    <3> QED
      BY <2>1, <3>1, <3>2, PrefixIff
  <2>4. CompleteIsWhole'
    BY <2>1 DEF CompleteIsWhole
  <2> QED
    BY <1>1, <2>1, <2>2, <2>3, <2>4 DEF WalkInv
<1>7. CASE WalkEnds
  <2>1. /\ phase = "walk" /\ phase' = "commit" /\ Between(MaxEntry + 1) \subseteq moved
        /\ UNCHANGED <<kind, source, written, moved, at, visited, copied, total, files>>
    BY <1>7 DEF WalkEnds
  <2>2. Listed' = Listed /\ Registered' = Registered
    BY <2>1 DEF Listed, Row, Registered
  <2>3. ASSUME NEW e \in Entry \ moved PROVE e \in Registered <=> kind[e] = "file"
    <3>1. e \in 1..MaxEntry /\ at \in 0..MaxEntry
      BY <1>1 DEF SnapshotTypeOK, Entry
    <3>2. CASE e \in 1..at
      BY <1>1, <2>1, <2>3, <3>2 DEF WalkInv
    <3>3. CASE e \notin 1..at
      <4>1. e \notin Registered
        BY <1>1, <2>1, <3>3 DEF WalkInv
      <4>2. at < e /\ e < MaxEntry + 1
        BY <3>1, <3>3, EntryAssumption
      <4>3. kind[e] = "absent"
        BY <2>1, <2>3, <4>2 DEF Between
      <4> QED
        BY <4>1, <4>3
    <3> QED
      BY <3>2, <3>3
  <2>4. \A e \in Registered \ (written \cup moved) : copied[e] = source[e]
    BY <1>1, <2>1 DEF WalkInv
  <2>5. CompleteIsWhole'
    BY <2>1, <2>2, <2>3, <2>4 DEF CompleteIsWhole
  <2> QED
    BY <1>1, <2>1, <2>2, <2>5 DEF WalkInv
<1>8. CASE \/ CopyFails \/ Undo \/ Commit \/ Crash \/ Recover
           \/ \E e \in Entry : Damage(e) \/ VisitRefused(e)
  <2>1. ~ Clean'
    BY <1>8 DEF VisitRefused, CopyFails, Undo, Commit, Crash, Recover, Damage
  <2> QED
    BY <2>1 DEF WalkInv
<1>9. CASE UNCHANGED snapshotVars
  <2>1. Listed' = Listed /\ Registered' = Registered
    BY <1>9 DEF Listed, Row, Registered
  <2>2. CompleteIsWhole'
    <3>1. phase = "commit" => CompleteIsWhole
      BY <1>1 DEF WalkInv
    <3> QED
      BY <1>9, <2>1, <3>1 DEF CompleteIsWhole
  <2> QED
    BY <1>1, <1>9, <2>1, <2>2 DEF WalkInv
<1> QED
  BY <1>2, <1>3, <1>4, <1>5, <1>6, <1>7, <1>8, <1>9, SnapshotCases DEF SnapshotNext

LEMMA SnapInit == Init => SnapInv
<1> SUFFICES ASSUME Init PROVE SnapInv
  OBVIOUS
<1>1. SnapshotInit
  BY DEF Init
<1>2. /\ writes = 0 /\ written = {} /\ moved = {} /\ kept = {}
      /\ phase = "walk" /\ at = 0 /\ visited = 0 /\ copied = <<>> /\ total = 0 /\ rows = {}
      /\ status = "pending" /\ files = [e \in Entry |-> NoFile] /\ DOMAIN copied = {}
      /\ kind \in [Entry -> {"file", "dir", "other", "absent"}]
  BY <1>1 DEF SnapshotInit
<1>3. source \in [Entry -> Seq(Block)]
  <2>1. PICK size \in [Entry -> 0..MaxFile + 1] :
          source = [e \in Entry |-> [i \in 1..size[e] |-> <<e, i, "first">>]]
    BY <1>1 DEF SnapshotInit
  <2>2. ASSUME NEW e \in Entry PROVE [i \in 1..size[e] |-> <<e, i, "first">>] \in Seq(Block)
    <3>1. size[e] \in Nat /\ \A i \in 1..size[e] : <<e, i, "first">> \in Block
      BY LimitAssumption DEF Block
    <3> QED
      BY <3>1
  <2> QED
    BY <2>1, <2>2
<1>4. SnapshotTypeOK
  <2>1. /\ writes \in 0..MaxWrites /\ at \in 0..MaxEntry /\ visited \in 0..MaxEntries + 1
        /\ total \in 0..MaxTotal + 1
    BY <1>2, EntryAssumption, LimitAssumption
  <2>2. files \in [Entry -> Seq(Block) \cup {NoFile}]
    BY <1>2
  <2> QED
    BY <1>2, <1>3, <2>1, <2>2 DEF SnapshotTypeOK, Registered
<1>5. TableInv /\ FilesInv
  BY <1>2 DEF TableInv, FilesInv, Working, Clean
<1>7. WalkInv
  <2>1. Registered = {} /\ Listed = {}
    BY <1>2 DEF Registered, Listed
  <2>2. 1..0 = {} /\ visited <= MaxEntries /\ CompleteIsWhole
    BY <1>2, LimitAssumption DEF CompleteIsWhole
  <2>3. Cardinality(Registered) <= MaxFiles /\ total <= MaxTotal
    BY <1>2, <2>1, LimitAssumption, FS_EmptySet
  <2> QED
    BY <1>2, <2>1, <2>2, <2>3, BytesAdd DEF WalkInv
<1>8. ListInv
  BY <1>2 DEF ListInv, CompleteIsAcceptable, RowMatchesFile, FailureLeavesNothing
<1> QED
  BY <1>4, <1>5, <1>7, <1>8 DEF SnapInv

\* The inductive invariant of the agent's side.
LEMMA SnapshotInductive == Spec => []SnapInv
<1>1. SnapInv /\ [Next]_vars => SnapInv'
  BY SnapshotTypeStep, TableStep, FilesStep, WalkStep, ListStep DEF SnapInv
<1> QED
  BY <1>1, SnapInit, PTL DEF Spec

\* The two sides apply the same limits: a complete result is never refused by
\* the controller, for any limits and any directory, even one written to during
\* the copy (artifacts.rs:79-159, core/src/remote/storage.rs:499-520).
THEOREM CompleteIsAcceptableHolds == Spec => []CompleteIsAcceptable
<1>1. SnapInv => CompleteIsAcceptable
  BY DEF SnapInv, ListInv
<1> QED
  BY <1>1, SnapshotInductive, PTL

-----------------------------------------------------------------------------
(***************************************************************************)
(* The types of the desktop's side.                                        *)
(***************************************************************************)
CallType == [pc : Busy \cup Outcome \cup {"new"}, artifact : Entry \cup {NoEntry},
             handle : Call \cup {NoInode}, retained : Nat, cursor : Nat, got : Nat,
             hashed : Seq(Block), from : Nat, left : Nat]

\* The steps at which a download has its file open.
Opened == {"length", "read", "send", "body", "check", "link"}

\* A download is of an artifact of the list, and writes inside its file or at
\* the end of it.
CallInv ==
  \A d \in Call :
    /\ call[d].pc # "new" => call[d].artifact \in Artifacts
    /\ call[d].pc \in Opened => call[d].handle \in Call
    /\ call[d].pc \in {"send", "body"} => call[d].cursor <= Len(Contents(d))

TypeInd == SnapInv /\ TypeOK /\ CallInv

\* A step of one download.
Alone(d) == call' \in [Call -> CallType] /\ \A f \in Call \ {d} : call'[f] = call[f]

\* Once there are rows they stay.
LEMMA RowsStay ==
  ASSUME SnapInv, [Next]_vars
  PROVE  /\ rows \subseteq rows' /\ Artifacts \subseteq Artifacts'
         /\ Artifacts # {} => rows' = rows
<1>1. rows \subseteq rows' /\ (rows # {} => rows' = rows)
  <2>1. phase # "ended" => rows = {}
    BY DEF SnapInv, TableInv
  <2>2. Commit => phase # "ended"
    BY DEF Commit
  <2> QED
    BY <2>1, <2>2, PhaseCases DEF OnTheWay, AtRest
<1> QED
  BY <1>1 DEF Artifacts

\* An artifact of the list has a file, with the recorded contents unless it was
\* damaged.
LEMMA ArtifactType ==
  ASSUME SnapInv, NEW a \in Artifacts
  PROVE  /\ a \in Entry /\ HashOf(a) \in Seq(Block) /\ files[a] \in Seq(Block)
         /\ Size(a) = Len(HashOf(a)) /\ Size(a) \in Nat
         /\ ~ damaged => files[a] = HashOf(a)
<1>1. PICK r \in rows : r.entry = a
  BY DEF Artifacts
<1>2. (CHOOSE q \in rows : q.entry = a) = r
  BY <1>1 DEF SnapInv, TableInv
<1>3. HashOf(a) = r.hash
  BY <1>2 DEF HashOf
<1>4. r.entry \in Entry /\ r.hash \in Seq(Block) /\ files[r.entry] \in Seq(Block)
  BY DEF SnapInv, SnapshotTypeOK, TableInv
<1>5. ASSUME ~ damaged PROVE files[a] = r.hash
  <2>1. phase = "ended"
    BY DEF SnapInv, TableInv
  <2> QED
    BY <1>1, <1>5, <2>1 DEF SnapInv, ListInv, RowMatchesFile
<1>6. Size(a) = Len(HashOf(a)) /\ Size(a) \in Nat
  BY <1>3, <1>4 DEF Size
<1> QED
  BY <1>1, <1>3, <1>4, <1>5, <1>6

LEMMA CallTypes ==
  ASSUME TypeInd, NEW d \in Call
  PROVE  /\ call[d] \in CallType /\ call \in [Call -> CallType]
         /\ data \in [Call -> Seq(Block)] /\ partial \in [Entry -> Call \cup {NoInode}]
         /\ target \in Call \cup {NoInode} /\ NoInode \notin Call
         /\ call[d].pc # "new" => call[d].artifact \in Artifacts /\ Partial(d) \in Call \cup {NoInode}
         /\ call[d].pc \in Opened => Contents(d) \in Seq(Block) /\ call[d].handle \in Call
<1>1. /\ call \in [Call -> CallType] /\ data \in [Call -> Seq(Block)]
      /\ partial \in [Entry -> Call \cup {NoInode}] /\ target \in Call \cup {NoInode}
  BY DEF TypeInd, TypeOK, CallType
<1>2. NoInode \notin Call
  BY DEF NoInode, Call
<1>3. ASSUME call[d].pc # "new"
      PROVE  call[d].artifact \in Artifacts /\ Partial(d) \in Call \cup {NoInode}
  <2>1. call[d].artifact \in Artifacts
    BY <1>3 DEF TypeInd, CallInv
  <2>2. call[d].artifact \in Entry
    BY <2>1, ArtifactType DEF TypeInd
  <2> QED
    BY <1>1, <2>1, <2>2 DEF Partial
<1>4. ASSUME call[d].pc \in Opened PROVE Contents(d) \in Seq(Block) /\ call[d].handle \in Call
  <2>1. call[d].handle \in Call
    BY <1>4 DEF TypeInd, CallInv
  <2> QED
    BY <1>1, <2>1 DEF Contents
<1> QED
  BY <1>1, <1>2, <1>3, <1>4

LEMMA UnusedType == Unused \in CallType /\ Unused.got = 0 /\ Unused.pc = "new"
<1>1. <<>> \in Seq(Block) /\ 0 \in Nat
  OBVIOUS
<1> QED
  BY <1>1 DEF CallType, Unused, Busy, Outcome

\* What is left of a download at its end.
LEMMA EndedType ==
  ASSUME TypeInd, NEW d \in Call, NEW outcome \in Outcome
  PROVE  LET n == Ended(d, outcome) IN
         /\ n \in CallType /\ n.pc = outcome /\ n.artifact = call[d].artifact
         /\ n.pc \notin Busy \cup {"new"}
<1> DEFINE n == Ended(d, outcome)
<1>1. call[d].artifact \in Entry \cup {NoEntry}
  BY CallTypes DEF CallType
<1>2. n = [Unused EXCEPT !.artifact = call[d].artifact, !.pc = outcome]
  BY DEF Ended
<1> HIDE DEF n
<1>3. n \in CallType /\ n.pc = outcome /\ n.artifact = call[d].artifact
  BY <1>1, <1>2, UnusedType DEF CallType
<1>4. outcome \notin Busy \cup {"new"}
  BY DEF Busy, Outcome
<1> QED
  BY <1>3, <1>4 DEF n

LEMMA BeginEffect ==
  ASSUME TypeInd, NEW d \in Call, NEW a \in Artifacts, Begin(d, a)
  PROVE  /\ Alone(d) /\ call[d].pc = "new" /\ call'[d].artifact = a /\ call'[d].got = 0
         /\ call'[d].pc = IF target = NoInode THEN "open" ELSE "exists"
         /\ overlapped \subseteq overlapped' /\ overlapped' \subseteq overlapped \cup {a}
         /\ target # NoInode => overlapped' = overlapped
         /\ target = NoInode /\ (\E c \in Active : call[c].artifact = a) => a \in overlapped'
         /\ UNCHANGED <<snapshotVars, cached, damaged, data, desktop, losses>>
<1> DEFINE n == [Unused EXCEPT !.artifact = a, !.pc = IF target # NoInode THEN "exists" ELSE "open"]
<1>1. /\ call' = [call EXCEPT ![d] = n] /\ call[d].pc = "new"
      /\ UNCHANGED <<snapshotVars, cached, damaged, data, desktop, losses>>
  BY DEF Begin
<1>2. a \in Entry
  BY ArtifactType DEF TypeInd
<1>3. /\ n \in CallType /\ n.artifact = a /\ n.got = 0
      /\ n.pc = IF target = NoInode THEN "open" ELSE "exists"
  <2>1. "exists" \in Busy \cup Outcome /\ "open" \in Busy \cup Outcome
    BY DEF Busy, Outcome
  <2> QED
    BY <1>2, <2>1, UnusedType DEF CallType
<1> HIDE DEF n
<1>4. /\ overlapped \subseteq overlapped' /\ overlapped' \subseteq overlapped \cup {a}
      /\ target # NoInode => overlapped' = overlapped
      /\ target = NoInode /\ (\E c \in Active : call[c].artifact = a) => a \in overlapped'
  BY DEF Begin
<1> QED
  BY <1>1, <1>3, <1>4, CallTypes DEF Alone

LEMMA OpenEffect ==
  ASSUME TypeInd, NEW d \in Call, Open(d)
  PROVE  LET c == call[d]  n == call'[d]
             inode == IF Partial(d) = NoInode THEN d ELSE Partial(d) IN
         /\ Alone(d) /\ c.pc = "open" /\ n.pc = "length" /\ n.artifact = c.artifact
         /\ n.handle = inode /\ inode \in Call /\ c.artifact \in Entry /\ n.got = c.got
         /\ partial' = [partial EXCEPT ![c.artifact] = inode]
         /\ UNCHANGED <<snapshotVars, cached, damaged, overlapped, data, target, published, losses>>
<1> DEFINE c == call[d]
           inode == IF Partial(d) = NoInode THEN d ELSE Partial(d)
           n == [c EXCEPT !.pc = "length", !.handle = inode]
<1>1. /\ call' = [call EXCEPT ![d].pc = "length", ![d].handle = inode] /\ c.pc = "open"
      /\ partial' = [partial EXCEPT ![c.artifact] = inode]
      /\ UNCHANGED <<snapshotVars, cached, damaged, overlapped, data, target, published, losses>>
  BY DEF Open
<1>2. inode \in Call /\ c \in CallType /\ call \in [Call -> CallType] /\ c.artifact \in Entry
  <2>1. c.artifact \in Artifacts /\ Partial(d) \in Call \cup {NoInode}
    BY <1>1, CallTypes
  <2>2. c.artifact \in Entry
    BY <2>1, ArtifactType DEF TypeInd
  <2> QED
    BY <2>1, <2>2, CallTypes
<1> HIDE DEF inode
<1>3. /\ n \in CallType /\ n.pc = "length" /\ n.handle = inode /\ n.artifact = c.artifact
      /\ n.got = c.got
  BY <1>2 DEF CallType, Busy
<1>4. call'[d] = n /\ \A f \in Call \ {d} : call'[f] = call[f]
  BY <1>1, <1>2 DEF CallType
<1>5. call' \in [Call -> CallType]
  <2>1. call' = [call EXCEPT ![d] = n]
    BY <1>1, <1>2 DEF CallType
  <2> HIDE DEF n
  <2> QED
    BY <1>2, <1>3, <2>1
<1> HIDE DEF n
<1> QED
  BY <1>1, <1>2, <1>3, <1>4, <1>5 DEF Alone, inode

\* A download goes to its next step, or ends.
LEMMA GotoEffect ==
  ASSUME TypeInd, NEW d \in Call, NEW pc \in Busy \cup Outcome, Goto(d, pc)
  PROVE  /\ Alone(d) /\ call'[d].pc = pc /\ call'[d].artifact = call[d].artifact
         /\ pc \in Busy => call'[d] = [call[d] EXCEPT !.pc = pc]
<1> DEFINE m == [call[d] EXCEPT !.pc = pc]
           n == IF pc \in Outcome THEN Ended(d, pc) ELSE m
<1>1. call[d] \in CallType /\ call \in [Call -> CallType] /\ call' = [call EXCEPT ![d] = n]
  BY CallTypes DEF Goto
<1>2. m \in CallType /\ m.pc = pc /\ m.artifact = call[d].artifact
  BY <1>1 DEF CallType
<1> HIDE DEF m
<1>3. n \in CallType /\ n.pc = pc /\ n.artifact = call[d].artifact
  BY <1>2, EndedType
<1>4. pc \in Busy => n = m
  BY DEF Busy, Outcome
<1> HIDE DEF n
<1>5. call'[d] = n /\ Alone(d)
  BY <1>1, <1>3 DEF Alone
<1> QED
  BY <1>3, <1>4, <1>5 DEF m

LEMMA LengthEffect ==
  ASSUME TypeInd, NEW d \in Call, Length(d)
  PROVE  LET c == call[d]  n == call'[d] IN
         /\ Alone(d) /\ c.pc = "length" /\ n.artifact = c.artifact
         /\ \/ n.pc = "unusable"
            \/ /\ n.pc = "read" /\ n.handle = c.handle /\ n.got = c.got
               /\ n.retained = Len(Contents(d))
         /\ UNCHANGED <<snapshotVars, cached, damaged, overlapped, data, desktop, losses>>
<1> DEFINE c == call[d]
           len == Len(Contents(d))
           n == [c EXCEPT !.retained = len, !.pc = "read"]
<1>1. /\ c.pc = "length"
      /\ UNCHANGED <<snapshotVars, cached, damaged, overlapped, data, desktop, losses>>
  BY DEF Length
<1>2. CASE Goto(d, "unusable")
  BY <1>1, <1>2, GotoEffect DEF Outcome
<1>3. CASE call' = [call EXCEPT ![d].retained = len, ![d].pc = "read"]
  <2>1. len \in Nat /\ c \in CallType /\ call \in [Call -> CallType]
    <3>1. Contents(d) \in Seq(Block)
      BY <1>1, CallTypes DEF Opened
    <3> QED
      BY <3>1, CallTypes
  <2> HIDE DEF len
  <2>2. /\ n \in CallType /\ n.pc = "read" /\ n.retained = len /\ n.got = c.got
        /\ n.artifact = c.artifact /\ n.handle = c.handle
    BY <2>1 DEF CallType, Busy
  <2>3. call' = [call EXCEPT ![d] = n]
    BY <1>3, <2>1 DEF CallType
  <2> HIDE DEF n
  <2> QED
    BY <1>1, <2>1, <2>2, <2>3 DEF Alone, len
<1> QED
  BY <1>2, <1>3 DEF Length

LEMMA ReadPartialEffect ==
  ASSUME TypeInd, NEW d \in Call, ReadPartial(d)
  PROVE  LET c == call[d]  n == call'[d] IN
         /\ Alone(d) /\ c.pc = "read" /\ n.artifact = c.artifact /\ n.handle = c.handle
         /\ n.retained = c.retained /\ n.got = c.got
         /\ n.hashed = Contents(d) /\ n.cursor = Len(Contents(d))
         /\ n.pc = IF c.retained < Size(c.artifact) THEN "send" ELSE "check"
         /\ UNCHANGED <<snapshotVars, cached, damaged, overlapped, data, desktop, losses>>
<1> DEFINE c == call[d]
           held == Contents(d)
           pc == IF c.retained < Size(c.artifact) THEN "send" ELSE "check"
           n == [c EXCEPT !.hashed = held, !.cursor = Len(held), !.pc = pc]
<1>1. /\ call' = [call EXCEPT ![d].hashed = held, ![d].cursor = Len(held), ![d].pc = pc]
      /\ c.pc = "read"
      /\ UNCHANGED <<snapshotVars, cached, damaged, overlapped, data, desktop, losses>>
  BY DEF ReadPartial
<1>2. held \in Seq(Block) /\ c \in CallType /\ call \in [Call -> CallType] /\ pc \in Busy
  BY <1>1, CallTypes DEF Opened, Busy
<1>3. pc = IF c.retained < Size(c.artifact) THEN "send" ELSE "check"
  OBVIOUS
<1> HIDE DEF held, pc
<1>4. /\ n \in CallType /\ n.pc = pc /\ n.hashed = held /\ n.cursor = Len(held)
      /\ n.artifact = c.artifact /\ n.handle = c.handle
      /\ n.retained = c.retained /\ n.got = c.got
  <2>1. Len(held) \in Nat
    BY <1>2
  <2> QED
    BY <1>2, <2>1 DEF CallType
<1>5. call' = [call EXCEPT ![d] = n]
  BY <1>1, <1>2 DEF CallType
<1> HIDE DEF n
<1> QED
  BY <1>1, <1>2, <1>3, <1>4, <1>5 DEF Alone, held

LEMMA AnswerEffect ==
  ASSUME TypeInd, NEW d \in Call, Answer(d)
  PROVE  LET c == call[d]  n == call'[d] IN
         /\ Alone(d) /\ c.pc = "send" /\ n.artifact = c.artifact
         /\ \/ n.pc = "refused"
            \/ /\ n.pc = "body" /\ n.from = c.retained /\ n.handle = c.handle
               /\ n.retained = c.retained /\ n.cursor = c.cursor /\ n.got = c.got
               /\ n.hashed = c.hashed
         /\ UNCHANGED <<snapshotVars, cached, damaged, overlapped, data, desktop, losses>>
<1> DEFINE c == call[d]
           answer == ByteRange(RangeHeader(d), Size(c.artifact))
<1>1. /\ c.pc = "send"
      /\ \/ /\ Expected(d, answer)
            /\ call' = [call EXCEPT ![d].pc = "body", ![d].from = answer.start,
                                    ![d].left = answer.length]
         \/ Goto(d, "refused")
      /\ UNCHANGED <<snapshotVars, cached, damaged, overlapped, data, desktop, losses>>
  BY DEF Answer
<1>2. /\ c \in CallType /\ call \in [Call -> CallType] /\ Size(c.artifact) \in Nat
      /\ c.retained \in Nat
  <2>1. c.artifact \in Artifacts /\ c \in CallType
    BY <1>1, CallTypes
  <2>2. Size(c.artifact) \in Nat
    BY <2>1, ArtifactType DEF TypeInd
  <2> QED
    BY <2>1, <2>2, CallTypes DEF CallType
<1>3. CASE Goto(d, "refused")
  BY <1>1, <1>3, GotoEffect DEF Outcome
<1>4. CASE /\ Expected(d, answer)
           /\ call' = [call EXCEPT ![d].pc = "body", ![d].from = answer.start,
                                   ![d].left = answer.length]
  <2>1. answer.start = c.retained /\ answer.length \in Nat
    <3>1. CASE c.retained > 0
      <4>1. \/ answer = Unsatisfiable
            \/ \E length \in Nat : answer = [start |-> c.retained, length |-> length, partial |-> TRUE]
        <5> DEFINE range == [start |-> c.retained, end |-> OpenEnd]
                   last == IF Size(c.artifact) = 0 THEN 0 ELSE Size(c.artifact) - 1
        <5>1. RangeHeader(d) = range /\ range # NoRange /\ range.start = c.retained
          BY <3>1 DEF RangeHeader, NoRange, OpenEnd
        <5>2. \/ answer = Unsatisfiable
              \/ /\ ~ (last < c.retained)
                 /\ answer = [start |-> c.retained, length |-> last - c.retained + 1, partial |-> TRUE]
          BY <5>1 DEF ByteRange
        <5>3. last \in Nat
          BY <1>2
        <5> HIDE DEF last
        <5>4. ~ (last < c.retained) => last - c.retained + 1 \in Nat
          BY <1>2, <5>3
        <5> QED
          BY <5>2, <5>4
      <4> HIDE DEF answer
      <4>2. CASE answer = Unsatisfiable
        <5>1. answer.start = 0 /\ answer.partial = TRUE
          BY <4>2 DEF Unsatisfiable
        <5>2. answer.start = c.retained
          BY <1>4, <5>1 DEF Expected
        <5> QED
          BY <1>2, <3>1, <5>1, <5>2
      <4> QED
        BY <4>1, <4>2
    <3>2. CASE ~ (c.retained > 0)
      <4>1. answer = [start |-> 0, length |-> Size(c.artifact), partial |-> FALSE]
        BY <3>2 DEF ByteRange, RangeHeader
      <4> QED
        BY <1>2, <3>2, <4>1
    <3> QED
      BY <3>1, <3>2
  <2> HIDE DEF answer
  <2> DEFINE n == [c EXCEPT !.pc = "body", !.from = answer.start, !.left = answer.length]
  <2>2. /\ n \in CallType /\ n.pc = "body" /\ n.artifact = c.artifact /\ n.handle = c.handle
        /\ n.retained = c.retained /\ n.cursor = c.cursor /\ n.got = c.got /\ n.hashed = c.hashed
        /\ n.from = c.retained
    BY <1>2, <2>1 DEF CallType, Busy
  <2>3. call' = [call EXCEPT ![d] = n]
    BY <1>2, <1>4 DEF CallType
  <2> HIDE DEF n
  <2> QED
    BY <1>1, <1>2, <2>2, <2>3 DEF Alone
<1> HIDE DEF answer
<1> QED
  BY <1>1, <1>3, <1>4

LEMMA ChunkEffect ==
  ASSUME TypeInd, NEW d \in Call, Chunk(d)
  PROVE  LET c == call[d]  n == call'[d]  file == files[c.artifact] IN
         /\ Alone(d) /\ c.pc = "body" /\ n.pc = "body"
         /\ n.artifact = c.artifact /\ n.handle = c.handle /\ c.handle \in Call
         /\ n.retained = c.retained /\ n.cursor = c.cursor + 1 /\ n.got = c.got + 1
         /\ n.hashed = Append(c.hashed, file[c.from + 1]) /\ n.from = c.from + 1
         /\ c.from < Len(file) /\ file[c.from + 1] \in Block
         /\ c.retained + c.got < Size(c.artifact)
         /\ data' = [data EXCEPT ![c.handle] = Write(@, c.cursor + 1, file[c.from + 1])]
         /\ UNCHANGED <<snapshotVars, cached, damaged, overlapped, desktop, losses>>
<1> DEFINE c == call[d]
           block == files[c.artifact][c.from + 1]
           n == [c EXCEPT !.hashed = Append(@, block), !.cursor = @ + 1, !.got = @ + 1,
                          !.from = @ + 1, !.left = @ - 1]
<1>1. /\ call' = [call EXCEPT ![d].hashed = Append(@, block), ![d].cursor = @ + 1,
                    ![d].got = @ + 1, ![d].from = @ + 1, ![d].left = @ - 1]
      /\ c.pc = "body" /\ c.left > 0 /\ c.from < Len(files[c.artifact])
      /\ c.retained + c.got < Size(c.artifact)
      /\ data' = [data EXCEPT ![c.handle] = Write(@, c.cursor + 1, block)]
      /\ UNCHANGED <<snapshotVars, cached, damaged, overlapped, desktop, losses>>
  BY DEF Chunk
<1>2. c \in CallType /\ call \in [Call -> CallType] /\ block \in Block /\ c.handle \in Call
  <2>1. c.artifact \in Artifacts /\ c \in CallType /\ c.handle \in Call
    BY <1>1, CallTypes DEF Opened
  <2>2. files[c.artifact] \in Seq(Block)
    BY <2>1, ArtifactType DEF TypeInd
  <2>3. c.from \in Nat
    BY <2>1 DEF CallType
  <2>4. Len(files[c.artifact]) \in Nat
    BY <2>2
  <2> HIDE DEF c
  <2>5. c.from + 1 \in 1..Len(files[c.artifact])
    BY <1>1, <2>3, <2>4
  <2>6. block \in Block
    BY <2>2, <2>5
  <2>7. call \in [Call -> CallType]
    BY CallTypes
  <2> QED
    BY <2>1, <2>6, <2>7
<1> HIDE DEF block
<1>3. /\ n \in CallType /\ n.pc = c.pc /\ n.hashed = Append(c.hashed, block) /\ n.cursor = c.cursor + 1
      /\ n.artifact = c.artifact /\ n.handle = c.handle /\ n.retained = c.retained
      /\ n.got = c.got + 1 /\ n.from = c.from + 1
  <2>1. c \in CallType /\ block \in Block /\ c.left > 0
    BY <1>1, <1>2
  <2> HIDE DEF c
  <2>2. /\ c.cursor \in Nat /\ c.got \in Nat /\ c.from \in Nat /\ c.left \in Nat
        /\ c.hashed \in Seq(Block)
    BY <2>1 DEF CallType
  <2>3. Append(c.hashed, block) \in Seq(Block)
    BY <2>1, <2>2
  <2>4. c.cursor + 1 \in Nat /\ c.got + 1 \in Nat /\ c.from + 1 \in Nat /\ c.left - 1 \in Nat
    BY <2>1, <2>2
  <2>5. n \in CallType
    BY <2>1, <2>3, <2>4 DEF CallType
  <2> QED
    BY <2>1, <2>5 DEF CallType
<1>4. call' = [call EXCEPT ![d] = n]
  BY <1>1, <1>2 DEF CallType
<1> HIDE DEF n
<1>5. Alone(d) /\ call'[d] = n
  BY <1>2, <1>3, <1>4 DEF Alone
<1> SUFFICES LET m == call'[d] IN
      /\ Alone(d) /\ c.pc = "body" /\ m.pc = "body"
      /\ m.artifact = c.artifact /\ m.handle = c.handle /\ c.handle \in Call
      /\ m.retained = c.retained /\ m.cursor = c.cursor + 1 /\ m.got = c.got + 1
      /\ m.hashed = Append(c.hashed, block) /\ m.from = c.from + 1
      /\ c.from < Len(files[c.artifact]) /\ block \in Block
      /\ c.retained + c.got < Size(c.artifact)
      /\ data' = [data EXCEPT ![c.handle] = Write(@, c.cursor + 1, block)]
      /\ UNCHANGED <<snapshotVars, cached, damaged, overlapped, desktop, losses>>
  BY DEF block
<1> HIDE DEF c
<1> QED
  BY <1>1, <1>2, <1>3, <1>5

\* The end of a step of one download.
LEMMA CallTypeFrame ==
  ASSUME TypeInd, SnapInv', UNCHANGED <<rows, cached, damaged>>, NEW d \in Call, Alone(d),
         overlapped' \subseteq Entry,
         /\ data' \in [Call -> Seq(Block)] /\ partial' \in [Entry -> Call \cup {NoInode}]
         /\ target' \in Call \cup {NoInode} /\ published' \in Entry \cup {NoEntry}
         /\ losses' \in 0..MaxLoss,
         \A f \in Call : Len(data'[f]) >= Len(data[f]),
         call'[d].pc # "new" => call'[d].artifact \in Artifacts,
         call'[d].pc \in Opened => call'[d].handle \in Call,
         call'[d].pc \in {"send", "body"} => call'[d].cursor <= Len(data'[call'[d].handle])
  PROVE  TypeOK' /\ CallInv'
<1>1. TypeOK'
  BY DEF TypeInd, TypeOK, Alone, CallType, SnapInv
<1>2. Artifacts' = Artifacts
  BY DEF Artifacts
<1>3. ASSUME NEW f \in Call, f # d
      PROVE  /\ call'[f].pc # "new" => call'[f].artifact \in Artifacts
             /\ call'[f].pc \in Opened => call'[f].handle \in Call
             /\ call'[f].pc \in {"send", "body"} => call'[f].cursor <= Len(data'[call'[f].handle])
  <2>1. call'[f] = call[f]
    BY <1>3 DEF Alone
  <2>2. /\ call[f].pc # "new" => call[f].artifact \in Artifacts
        /\ call[f].pc \in Opened => call[f].handle \in Call
        /\ call[f].pc \in {"send", "body"} => call[f].cursor <= Len(data[call[f].handle])
    BY DEF TypeInd, CallInv, Contents
  <2>3. ASSUME call[f].pc \in {"send", "body"} PROVE call[f].cursor <= Len(data'[call[f].handle])
    <3>1. call[f].handle \in Call /\ call[f].cursor \in Nat
      BY <2>2, <2>3, CallTypes DEF Opened, CallType
    <3>2. data[call[f].handle] \in Seq(Block) /\ data'[call[f].handle] \in Seq(Block)
      BY <3>1, CallTypes
    <3>3. Len(data[call[f].handle]) \in Nat /\ Len(data'[call[f].handle]) \in Nat
      BY <3>2
    <3>4. Len(data'[call[f].handle]) >= Len(data[call[f].handle])
      BY <3>1
    <3> QED
      BY <2>2, <2>3, <3>1, <3>3, <3>4
  <2> QED
    BY <2>1, <2>2, <2>3
<1>4. CallInv'
  BY <1>2, <1>3 DEF CallInv, Contents
<1> QED
  BY <1>1, <1>4

\* A step that concerns no download.
LEMMA NoCallFrame ==
  ASSUME TypeInd, SnapInv', [Next]_vars, UNCHANGED <<call, data>>,
         /\ cached' \subseteq rows' /\ damaged' \in BOOLEAN /\ overlapped' \subseteq Entry
         /\ partial' \in [Entry -> Call \cup {NoInode}]
         /\ target' \in Call \cup {NoInode} /\ published' \in Entry \cup {NoEntry}
         /\ losses' \in 0..MaxLoss
  PROVE  TypeOK' /\ CallInv'
<1>1. TypeOK'
  BY DEF TypeInd, TypeOK, SnapInv
<1>2. Artifacts \subseteq Artifacts'
  BY RowsStay DEF TypeInd
<1> QED
  BY <1>1, <1>2 DEF TypeInd, CallInv, Contents

LEMMA TypeIndStep == TypeInd /\ [Next]_vars => TypeInd'
<1> SUFFICES ASSUME TypeInd, [Next]_vars PROVE TypeOK' /\ CallInv'
  BY SnapshotTypeStep, TableStep, FilesStep, WalkStep, ListStep DEF SnapInv, TypeInd
<1>1. SnapInv'
  BY SnapshotTypeStep, TableStep, FilesStep, WalkStep, ListStep DEF SnapInv, TypeInd
<1>2. /\ cached \subseteq rows /\ damaged \in BOOLEAN /\ overlapped \subseteq Entry /\ data \in [Call -> Seq(Block)]
      /\ call \in [Call -> CallType]
      /\ partial \in [Entry -> Call \cup {NoInode}]
      /\ target \in Call \cup {NoInode} /\ published \in Entry \cup {NoEntry}
      /\ losses \in 0..MaxLoss
      /\ rows \subseteq rows'
  BY RowsStay DEF TypeInd, TypeOK, CallType
<1>3. losses \in Nat /\ MaxLoss \in Nat
  BY <1>2, CallAssumption
<1>4. CASE SnapshotNext /\ UNCHANGED downloadVars
  BY <1>1, <1>2, <1>4, NoCallFrame DEF downloadVars, desktop
<1>5. CASE \E e \in Entry : Damage(e)
  <2>1. damaged' = TRUE /\ UNCHANGED <<rows, cached, call, overlapped, data, desktop, losses>>
    BY <1>5 DEF Damage, table
  <2> QED
    BY <1>1, <1>2, <2>1, NoCallFrame DEF desktop
<1>6. CASE \E e \in Entry : DeletePartial(e)
  <2>1. PICK e \in Entry : partial' = [partial EXCEPT ![e] = NoInode]
    BY <1>6 DEF DeletePartial
  <2>2. UNCHANGED <<rows, cached, damaged, call, overlapped, data, target, published, losses>>
    BY <1>6 DEF DeletePartial, snapshotVars, table
  <2>3. partial' \in [Entry -> Call \cup {NoInode}]
    BY <1>2, <2>1
  <2> QED
    BY <1>1, <1>2, <2>2, <2>3, NoCallFrame
<1>7. CASE CacheArtifacts
  <2>1. cached' = rows' /\ UNCHANGED <<damaged, call, overlapped, data, desktop, losses>>
    BY <1>7 DEF CacheArtifacts, snapshotVars, table
  <2> QED
    BY <1>1, <1>2, <2>1, NoCallFrame DEF desktop
<1>8. CASE AppExit
  <2>1. /\ losses' = losses + Cardinality(Active) /\ losses + Cardinality(Active) <= MaxLoss
        /\ UNCHANGED <<snapshotVars, cached, damaged, overlapped, data, desktop>>
        /\ call' = [d \in Call |-> IF d \in Active THEN Ended(d, "interrupted") ELSE call[d]]
    BY <1>8 DEF AppExit
  <2>2. ASSUME NEW d \in Call
        PROVE  /\ call'[d] \in CallType
               /\ call'[d] = call[d] \/ (call'[d].pc = "interrupted" /\ call'[d].artifact = call[d].artifact
                                           /\ call[d].pc # "new")
    <3>1. d \in Active => call[d].pc # "new"
      BY DEF Active, Busy
    <3> QED
      BY <1>2, <2>1, <3>1, EndedType DEF Outcome
  <2>3. Cardinality(Active) \in Nat
    <3>1. IsFiniteSet(Call)
      BY CallAssumption, FS_Interval DEF Call
    <3> QED
      BY <3>1, FS_Subset, FS_CardinalityType DEF Active
  <2>4. losses' \in 0..MaxLoss
    BY <1>3, <2>1, <2>3
  <2>5. call' \in [Call -> CallType]
    BY <2>1, <2>2
  <2>6. TypeOK'
    BY <1>1, <1>2, <2>1, <2>4, <2>5 DEF TypeOK, SnapInv, CallType, desktop, snapshotVars, table
  <2>7. Artifacts' = Artifacts /\ data' = data
    BY <2>1 DEF Artifacts, snapshotVars, table
  <2>8. CallInv'
    BY <2>2, <2>7 DEF TypeInd, CallInv, Contents, Opened
  <2> QED
    BY <2>6, <2>8
<1>9. ASSUME NEW d \in Call, Step(d) \/ Lost(d) \/ \E a \in Artifacts : Begin(d, a)
      PROVE  TypeOK' /\ CallInv'
  <2>1. /\ call[d].pc # "new" => call[d].artifact \in Artifacts
        /\ call[d].pc \in Opened => call[d].handle \in Call
        /\ call[d].pc \in {"send", "body"} => call[d].cursor <= Len(data[call[d].handle])
        /\ \A f \in Call : Len(data[f]) \in Nat
    BY <1>2 DEF TypeInd, CallInv, Contents
  <2> USE DEF snapshotVars, table, desktop
  <2>0. ASSUME Alone(d), UNCHANGED <<snapshotVars, cached, damaged, data, desktop, losses>>,
               overlapped' \subseteq Entry,
               call'[d].artifact \in Artifacts,
               call'[d].pc \in Opened => call'[d].handle \in Call,
               call'[d].pc \in {"send", "body"} => call'[d].cursor <= Len(data[call'[d].handle])
        PROVE  TypeOK' /\ CallInv'
    <3>1. UNCHANGED <<rows, cached, damaged, data, partial, target, published, losses>>
      BY <2>0
    <3>2. \A f \in Call : Len(data'[f]) >= Len(data[f])
      BY <2>1, <3>1
    <3> QED
      BY <1>1, <1>2, <2>0, <3>1, <3>2, CallTypeFrame
  <2>2. ASSUME NEW a \in Artifacts, Begin(d, a) PROVE TypeOK' /\ CallInv'
    <3>1. call'[d].pc \in {"open", "exists"} /\ overlapped' \subseteq Entry
      <4>1. a \in Entry
        BY ArtifactType DEF TypeInd
      <4> QED
        BY <1>2, <2>2, <4>1, BeginEffect
    <3> QED
      BY <2>2, <2>0, <3>1, BeginEffect DEF Opened
  <2>3. CASE Open(d)
    <3>1. /\ Alone(d) /\ call[d].pc = "open" /\ call'[d].pc = "length" /\ call'[d].artifact = call[d].artifact
          /\ call'[d].handle \in Call /\ partial' = [partial EXCEPT ![call[d].artifact] = call'[d].handle]
          /\ UNCHANGED <<snapshotVars, cached, damaged, overlapped, data, target, published, losses>>
      BY <2>3, OpenEffect
    <3>2. partial' \in [Entry -> Call \cup {NoInode}]
      BY <1>2, <3>1
    <3>3. /\ UNCHANGED <<rows, cached, damaged>> /\ overlapped' \subseteq Entry
          /\ data' \in [Call -> Seq(Block)] /\ target' \in Call \cup {NoInode}
          /\ published' \in Entry \cup {NoEntry} /\ losses' \in 0..MaxLoss
          /\ \A f \in Call : Len(data'[f]) >= Len(data[f])
      BY <1>2, <2>1, <3>1
    <3>4. /\ call'[d].artifact \in Artifacts /\ call'[d].handle \in Call
          /\ call'[d].pc \notin {"send", "body"}
      BY <2>1, <3>1
    <3> QED
      BY <1>1, <3>1, <3>2, <3>3, <3>4, CallTypeFrame
  <2>4. CASE Length(d)
    <3>1. /\ Alone(d) /\ call[d].pc = "length" /\ call'[d].artifact = call[d].artifact
          /\ call'[d].pc = "unusable" \/ (call'[d].pc = "read" /\ call'[d].handle = call[d].handle)
          /\ UNCHANGED <<snapshotVars, cached, damaged, overlapped, data, desktop, losses>>
      BY <2>4, LengthEffect
    <3> QED
      BY <1>2, <2>1, <2>0, <3>1 DEF Opened
  <2>5. CASE ReadPartial(d)
    <3>1. /\ Alone(d) /\ call[d].pc = "read" /\ call'[d].artifact = call[d].artifact
          /\ call'[d].handle = call[d].handle /\ call'[d].cursor = Len(data[call[d].handle])
          /\ UNCHANGED <<snapshotVars, cached, damaged, overlapped, data, desktop, losses>>
      BY <2>5, ReadPartialEffect DEF Contents
    <3>2. Len(data[call[d].handle]) \in Nat
      BY <2>1, <3>1 DEF Opened
    <3> QED
      BY <1>2, <2>1, <2>0, <3>1, <3>2 DEF Opened
  <2>6. CASE Answer(d)
    <3>1. /\ Alone(d) /\ call[d].pc = "send" /\ call'[d].artifact = call[d].artifact
          /\ \/ call'[d].pc = "refused"
             \/ call'[d].handle = call[d].handle /\ call'[d].cursor = call[d].cursor
          /\ UNCHANGED <<snapshotVars, cached, damaged, overlapped, data, desktop, losses>>
      BY <2>6, AnswerEffect
    <3> QED
      BY <1>2, <2>1, <2>0, <3>1 DEF Opened
  <2>7. CASE Chunk(d)
    <3> DEFINE h == call[d].handle
               block == files[call[d].artifact][call[d].from + 1]
               w == Write(data[h], call[d].cursor + 1, block)
    <3>1. /\ Alone(d) /\ call[d].pc = "body" /\ call'[d].pc = "body"
          /\ call'[d].artifact = call[d].artifact /\ call'[d].handle = h /\ h \in Call
          /\ call'[d].cursor = call[d].cursor + 1 /\ block \in Block
          /\ data' = [data EXCEPT ![h] = w]
          /\ UNCHANGED <<snapshotVars, cached, damaged, overlapped, desktop, losses>>
      BY <2>7, ChunkEffect
    <3> HIDE DEF block
    <3>2. data[h] \in Seq(Block) /\ call[d].cursor + 1 \in 1..Len(data[h]) + 1
      <4>1. call[d].cursor \in Nat
        BY <1>2 DEF CallType
      <4>2. data[h] \in Seq(Block) /\ Len(data[h]) \in Nat /\ call[d].cursor <= Len(data[h])
        BY <1>2, <2>1, <3>1
      <4> HIDE DEF h
      <4> QED
        BY <4>1, <4>2
    <3>3. w \in Seq(Block) /\ Len(w) >= Len(data[h]) /\ call[d].cursor + 1 <= Len(w)
      BY <3>1, <3>2, WriteIsSeq
    <3> HIDE DEF w, h
    <3>4. /\ data' \in [Call -> Seq(Block)] /\ \A f \in Call : Len(data'[f]) >= Len(data[f])
          /\ data'[h] = w
      BY <1>2, <2>1, <3>1, <3>3
    <3> QED
      BY <1>1, <1>2, <2>1, <3>1, <3>3, <3>4, CallTypeFrame DEF Opened, h
  <2>8. CASE BodyEnds(d) \/ Check(d) \/ Link(d) \/ Unlink(d) \/ Lost(d)
    <3>1. PICK pc \in {"check", "interrupted", "link", "mismatch", "unlink", "failed", "ok"} : Goto(d, pc)
      BY <2>8 DEF BodyEnds, Check, Link, Unlink, Lost
    <3>2. pc \in Busy \cup Outcome /\ pc \notin {"send", "body", "new"}
      BY DEF Busy, Outcome
    <3>3. /\ Alone(d) /\ call'[d].pc = pc /\ call'[d].artifact = call[d].artifact
          /\ pc \in Busy => call'[d] = [call[d] EXCEPT !.pc = pc]
      BY <3>1, <3>2, GotoEffect
    <3>4. pc \in Busy => call'[d].handle = call[d].handle
      BY <1>2, <3>3 DEF CallType
    <3>5. /\ call[d].pc # "new" /\ (pc \in Opened => call[d].pc \in Opened)
          /\ UNCHANGED <<snapshotVars, cached, damaged, overlapped, data>>
      <4>1. CASE BodyEnds(d) \/ Check(d) \/ Lost(d)
        BY <4>1, <3>3 DEF BodyEnds, Check, Lost, Opened
      <4>2. CASE Link(d) \/ Unlink(d)
        <5>1. pc \notin Opened
          <6>1. Goto(d, "unlink") \/ Goto(d, "failed") \/ Goto(d, "ok")
            BY <4>2 DEF Link, Unlink
          <6>2. call'[d].pc \in {"unlink", "failed", "ok"}
            BY <6>1, GotoEffect DEF Busy, Outcome
          <6> QED
            BY <3>3, <6>2 DEF Opened
        <5> QED
          BY <4>2, <5>1 DEF Link, Unlink
      <4> QED
        BY <2>8, <4>1, <4>2
    <3>6. /\ partial' \in [Entry -> Call \cup {NoInode}] /\ target' \in Call \cup {NoInode}
          /\ published' \in Entry \cup {NoEntry} /\ losses' \in 0..MaxLoss
      <4>1. call[d].artifact \in Artifacts /\ call[d].artifact \in Entry /\ Partial(d) \in Call \cup {NoInode}
        BY <2>1, <3>5, CallTypes, ArtifactType DEF TypeInd
      <4>2. CASE BodyEnds(d) \/ Check(d)
        BY <1>2, <4>2 DEF BodyEnds, Check
      <4>3. CASE Lost(d)
        BY <1>2, <1>3, <4>3 DEF Lost
      <4>4. CASE Link(d)
        BY <1>2, <4>1, <4>4 DEF Link
      <4>5. CASE Unlink(d)
        BY <1>2, <4>1, <4>5 DEF Unlink
      <4> QED
        BY <2>8, <4>2, <4>3, <4>4, <4>5
    <3>7. /\ call'[d].pc # "new" => call'[d].artifact \in Artifacts
          /\ call'[d].pc \in Opened => call'[d].handle \in Call
          /\ call'[d].pc \notin {"send", "body"}
      BY <2>1, <3>2, <3>3, <3>4, <3>5 DEF Opened, Busy
    <3>8. UNCHANGED <<rows, cached, damaged, overlapped, data>> /\ \A f \in Call : Len(data'[f]) >= Len(data[f])
      BY <2>1, <3>5
    <3> QED
      BY <1>1, <1>2, <3>3, <3>6, <3>7, <3>8, CallTypeFrame
  <2> QED
    BY <1>9, <2>2, <2>3, <2>4, <2>5, <2>6, <2>7, <2>8 DEF Step
<1>10. CASE UNCHANGED vars
  BY <1>1, <1>2, <1>10, NoCallFrame DEF vars, downloadVars, desktop
<1> QED
  BY <1>4, <1>5, <1>6, <1>7, <1>8, <1>9, <1>10 DEF Next

\* Both sides start with their types.
LEMMA TypeIndInit == Init => TypeInd
<1> SUFFICES ASSUME Init PROVE TypeInd
  OBVIOUS
<1>1. SnapInv
  BY SnapInit
<1>2. /\ cached = {} /\ damaged = FALSE /\ overlapped = {} /\ call = [d \in Call |-> Unused]
      /\ data = [d \in Call |-> <<>>] /\ partial = [e \in Entry |-> NoInode]
      /\ target = NoInode /\ published = NoEntry /\ losses = 0
  BY DEF Init
<1>3. call \in [Call -> CallType] /\ \A d \in Call : call[d].pc = "new"
  <2>1. Unused \in CallType /\ Unused.pc = "new"
    BY UnusedType
  <2> HIDE DEF Unused
  <2> QED
    BY <1>2, <2>1
<1>4. TypeOK
  <2>1. losses \in 0..MaxLoss /\ data \in [Call -> Seq(Block)]
    BY <1>2, CallAssumption
  <2>2. partial \in [Entry -> Call \cup {NoInode}] /\ cached \in SUBSET rows
    BY <1>2
  <2>3. damaged \in BOOLEAN /\ overlapped \subseteq Entry
    BY <1>2
  <2> QED
    BY <1>1, <1>2, <1>3, <2>1, <2>2, <2>3 DEF TypeOK, CallType, SnapInv
<1>5. CallInv
  BY <1>3 DEF CallInv, Opened
<1> QED
  BY <1>1, <1>4, <1>5 DEF TypeInd

\* The state of both sides has its type: no download writes past the end of its
\* file, even when several share it.
THEOREM TypeCorrect == Spec => []TypeOK
<1>1. TypeInd => TypeOK
  BY DEF TypeInd
<1> QED
  BY <1>1, TypeIndInit, TypeIndStep, PTL DEF Spec

\* What the agent's side promises holds for any directory, limits, writes
\* during the copy, failures and crashes (artifacts.rs:12-168).
THEOREM SnapshotInvHolds == Spec => []SnapshotInv
<1>1. TypeInd => SnapshotInv
  <2>1. WalkInv => CompleteIsWhole
    BY DEF WalkInv, Clean, CompleteIsWhole
  <2> QED
    BY <2>1 DEF TypeInd, SnapInv, ListInv, SnapshotInv
<1> QED
  BY <1>1, TypeIndInit, TypeIndStep, PTL DEF Spec

-----------------------------------------------------------------------------
(***************************************************************************)
(* The desktop's side, of the artifacts no two downloads of which          *)
(* overlapped.                                                             *)
(***************************************************************************)
Fresh == {"new", "open", "exists"}
Apart == Artifacts \ overlapped

OneActive ==
  \A d, f \in Call :
    call[d].pc \in Busy /\ call[f].pc \in Busy /\ call[d].artifact = call[f].artifact =>
      d = f \/ call[d].artifact \in overlapped

\* A download that has opened nothing has no file; a .partial file, and the one
\* a download has open, was created by a download of the same artifact.
EntryInv ==
  /\ \A d \in Call : call[d].pc \in Fresh =>
       data[d] = <<>> /\ call[d].got = 0 /\ target # d /\ \A a \in Entry : partial[a] # d
  /\ \A a \in Entry : partial[a] # NoInode => call[partial[a]].artifact = a
  /\ \A d \in Call : call[d].pc \in Opened =>
       call[call[d].handle].pc \notin Fresh /\ call[call[d].handle].artifact = call[d].artifact

\* What is published is not written to any more.
TargetInv ==
  target # NoInode =>
    /\ published \in Artifacts /\ call[target].artifact = published
    /\ published \notin overlapped =>
         /\ data[target] = HashOf(published)
         /\ \A d \in Call :
              call[d].pc \in Busy /\ call[d].artifact = published => call[d].pc = "unlink"

\* What a download knows of its file, which is the one of the .partial entry
\* unless that was deleted: what it has hashed is what is in it, and what it
\* writes next is what comes next.
StageOf(c, entry, held, hash) ==
  /\ entry \in {c.handle, NoInode}
  /\ c.pc = "read" => c.retained = Len(held)
  /\ c.pc \in {"send", "body", "check"} => c.hashed = held
  /\ c.pc \in {"send", "body"} => c.cursor = Len(held) /\ c.cursor = c.retained + c.got
  /\ c.pc \in {"length", "read", "send"} => c.got = 0
  /\ c.pc = "body" => c.from = c.cursor
  /\ c.pc = "link" => held = hash

StageInv ==
  \A d \in Call, a \in Apart : call[d].pc \in Opened /\ call[d].artifact = a =>
    StageOf(call[d], partial[a], data[call[d].handle], HashOf(a))

DownloadInv ==
  TypeInd /\ OneActive /\ EntryInv /\ TargetInv /\ StageInv /\ PartialIsPrefix

\* A list that is there stays, with the hashes of it.
LEMMA HashStays ==
  ASSUME TypeInd, [Next]_vars, NEW a \in Artifacts
  PROVE  a \in Artifacts' /\ Artifacts' = Artifacts /\ HashOf(a)' = HashOf(a) /\ Size(a)' = Size(a)
<1>1. rows' = rows
  BY RowsStay DEF TypeInd
<1> QED
  BY <1>1 DEF Artifacts, HashOf, Size

\* An artifact two downloads of which overlapped is left out for good.
LEMMA ApartStays ==
  ASSUME TypeInd, [Next]_vars, overlapped \subseteq overlapped', Artifacts # {}
  PROVE  /\ Artifacts' = Artifacts /\ Apart' \subseteq Apart
         /\ \A a \in Artifacts : HashOf(a)' = HashOf(a)
<1>1. Artifacts' = Artifacts /\ \A a \in Artifacts : HashOf(a)' = HashOf(a)
  BY HashStays
<1> QED
  BY <1>1 DEF Apart

\* What is known of a download that has its file open.
LEMMA StageFacts ==
  ASSUME DownloadInv, NEW d \in Call, call[d].pc \in Opened
  PROVE  LET a == call[d].artifact  h == call[d].handle IN
         /\ a \in Artifacts /\ a \in Entry /\ h \in Call /\ call[d] \in CallType
         /\ call[h].artifact = a /\ call[h].pc \notin Fresh
         /\ partial[a] \in Call \cup {NoInode}
         /\ data[h] \in Seq(Block) /\ HashOf(a) \in Seq(Block)
         /\ a \in Apart => StageOf(call[d], partial[a], data[h], HashOf(a))
<1> DEFINE a == call[d].artifact
           h == call[d].handle
<1>1. call[d].pc # "new"
  BY DEF Opened
<1>2. /\ a \in Artifacts /\ call[d] \in CallType /\ h \in Call
      /\ data[h] \in Seq(Block) /\ partial[a] \in Call \cup {NoInode}
  BY <1>1, CallTypes DEF DownloadInv, Contents, Partial
<1>3. a \in Entry /\ HashOf(a) \in Seq(Block)
  BY <1>2, ArtifactType DEF DownloadInv, TypeInd
<1>4. call[h].artifact = a /\ call[h].pc \notin Fresh
  BY DEF DownloadInv, EntryInv
<1>5. a \in Apart => StageOf(call[d], partial[a], data[h], HashOf(a))
  BY DEF DownloadInv, StageInv
<1> QED
  BY <1>2, <1>3, <1>4, <1>5

\* A file that is there belongs to a download of the same artifact.
LEMMA PartialFacts ==
  ASSUME DownloadInv, NEW a \in Entry, partial[a] # NoInode
  PROVE  /\ partial[a] \in Call /\ call[partial[a]].artifact = a
         /\ call[partial[a]].pc \notin Fresh /\ Artifacts # {}
<1>1. partial[a] \in Call
  BY DEF DownloadInv, TypeInd, TypeOK
<1>2. call[partial[a]].artifact = a /\ call[partial[a]].pc \notin Fresh
  BY <1>1 DEF DownloadInv, EntryInv
<1>3. call[partial[a]].artifact \in Artifacts
  BY <1>1, <1>2 DEF DownloadInv, TypeInd, CallInv, Fresh
<1> QED
  BY <1>1, <1>2, <1>3

\* What a step may do to the record of a download, if it writes nothing.
Onward(f) ==
  \/ call'[f] = call[f]
  \/ /\ call[f].pc \in Busy /\ call'[f].artifact = call[f].artifact
     /\ call'[f].pc \notin Fresh
     /\ call'[f].pc \in Busy =>
          /\ call[f].pc \in Opened /\ call'[f].pc \in Opened
          /\ call'[f].handle = call[f].handle
          /\ call[f].artifact \in Apart =>
               StageOf(call'[f], partial[call[f].artifact], data[call[f].handle],
                       HashOf(call[f].artifact))

\* The invariant after a step that writes, opens and links nothing.
LEMMA Frame ==
  ASSUME DownloadInv, TypeInd', [Next]_vars, UNCHANGED <<overlapped, data, target, published>>,
         damaged => damaged',
         \A a \in Entry : partial'[a] \in {partial[a], NoInode},
         \A f \in Call : Onward(f)
  PROVE  DownloadInv'
<1>1. \A f \in Call : /\ call'[f].pc \in Busy => call[f].pc \in Busy
                      /\ call'[f].pc \in Opened => call[f].pc \in Opened
                      /\ call'[f].artifact = call[f].artifact
  BY DEF Onward, Opened, Busy
<1>2. OneActive'
  BY <1>1 DEF DownloadInv, OneActive
<1>3. Artifacts # {} => /\ Artifacts' = Artifacts /\ Apart' \subseteq Apart
                        /\ \A a \in Artifacts : HashOf(a)' = HashOf(a)
  BY ApartStays DEF DownloadInv
<1>4. EntryInv'
  <2>1. ASSUME NEW f \in Call, call'[f].pc \in Fresh
        PROVE  /\ data'[f] = <<>> /\ call'[f].got = 0
               /\ target' # f /\ \A a \in Entry : partial'[a] # f
    <3>1. f # NoInode /\ call'[f] = call[f]
      BY <2>1 DEF Call, NoInode, Onward
    <3> QED
      BY <2>1, <3>1 DEF DownloadInv, EntryInv
  <2>2. ASSUME NEW a \in Entry, partial'[a] # NoInode PROVE call'[partial'[a]].artifact = a
    <3>1. partial'[a] = partial[a] /\ partial[a] \in Call /\ call[partial[a]].artifact = a
      BY <2>2, PartialFacts
    <3> QED
      BY <1>1, <3>1
  <2>3. ASSUME NEW f \in Call, call'[f].pc \in Opened
        PROVE  /\ call'[call'[f].handle].pc \notin Fresh
               /\ call'[call'[f].handle].artifact = call'[f].artifact
    <3>1. call[f].pc \in Opened /\ call'[f].handle = call[f].handle
      BY <1>1, <2>3 DEF Onward, Opened, Busy
    <3> DEFINE h == call[f].handle
    <3>2. h \in Call /\ call[h].artifact = call[f].artifact /\ call[h].pc \notin Fresh
      BY <3>1, StageFacts
    <3> HIDE DEF h
    <3>3. call'[h].pc \notin Fresh /\ call'[h].artifact = call[h].artifact
      BY <1>1, <3>2 DEF Onward
    <3> QED
      BY <1>1, <3>1, <3>2, <3>3 DEF h
  <2> QED
    BY <2>1, <2>2, <2>3 DEF EntryInv
<1>5. TargetInv'
  <2> SUFFICES ASSUME target # NoInode PROVE TargetInv'
    BY DEF TargetInv
  <2>1. published \in Artifacts /\ call[target].artifact = published /\ target \in Call
    BY DEF DownloadInv, TargetInv, TypeInd, TypeOK
  <2>2. ASSUME published \notin overlapped
        PROVE  /\ data[target] = HashOf(published)
               /\ \A d \in Call : call'[d].pc \in Busy /\ call'[d].artifact = published
                                     => call'[d].pc = "unlink"
    <3>1. data[target] = HashOf(published)
      BY <2>2 DEF DownloadInv, TargetInv
    <3>2. ASSUME NEW d \in Call, call'[d].pc \in Busy, call'[d].artifact = published
          PROVE  call'[d].pc = "unlink"
      <4>1. call[d].pc = "unlink"
        BY <1>1, <2>2, <3>2 DEF DownloadInv, TargetInv
      <4> QED
        BY <3>2, <4>1 DEF Onward, Opened
    <3> QED
      BY <3>1, <3>2
  <2>3. HashOf(published)' = HashOf(published)
    <3>1. PICK a \in Artifacts : a = published
      BY <2>1
    <3>2. HashOf(a)' = HashOf(a)
      BY <1>3
    <3> QED
      BY <3>1, <3>2 DEF HashOf
  <2> QED
    BY <1>1, <1>3, <2>1, <2>2, <2>3 DEF TargetInv
<1>6. StageInv'
  <2> SUFFICES ASSUME NEW f \in Call, NEW a \in Apart', call'[f].pc \in Opened, call'[f].artifact = a
               PROVE  StageOf(call'[f], partial'[a], data'[call'[f].handle], HashOf(a)')
    BY DEF StageInv
  <2>1. call[f].pc \in Opened /\ call[f].artifact = a /\ a \in Artifacts /\ a \in Entry
    BY <1>1, StageFacts
  <2>2. a \in Apart /\ HashOf(a)' = HashOf(a)
    BY <1>3, <2>1
  <2>3. call'[f].handle = call[f].handle /\ StageOf(call'[f], partial[a], data[call[f].handle], HashOf(a))
    <3>1. CASE call'[f] = call[f]
      BY <2>1, <2>2, <3>1 DEF DownloadInv, StageInv
    <3>2. CASE call'[f] # call[f]
      BY <2>1, <2>2, <3>2 DEF Onward, Opened, Busy
    <3> QED
      BY <3>1, <3>2
  <2>4. partial'[a] \in {partial[a], NoInode}
    BY <2>1
  <2> QED
    BY <2>2, <2>3, <2>4 DEF StageOf
<1>7. PartialIsPrefix'
  <2> SUFFICES ASSUME ~ damaged', NEW a \in Apart', partial'[a] # NoInode
               PROVE  IsPrefix(data'[partial'[a]], HashOf(a)')
    BY DEF PartialIsPrefix, Apart
  <2>1. a \in Entry
    BY DEF TypeInd, SnapInv, SnapshotTypeOK, Artifacts, Apart
  <2>2. partial'[a] = partial[a] /\ Artifacts # {}
    BY <2>1, PartialFacts
  <2>3. a \in Apart /\ HashOf(a)' = HashOf(a)
    BY <1>3, <2>2 DEF Apart
  <2> QED
    BY <2>2, <2>3 DEF DownloadInv, PartialIsPrefix, Apart
<1> QED
  BY <1>2, <1>4, <1>5, <1>6, <1>7 DEF DownloadInv

\* A .partial file is opened, or a fresh one.
LEMMA OpenInv ==
  ASSUME DownloadInv, TypeInd', [Next]_vars, NEW d \in Call, Open(d)
  PROVE  DownloadInv'
<1> DEFINE a == call[d].artifact
           inode == IF Partial(d) = NoInode THEN d ELSE Partial(d)
<1>1. /\ Alone(d) /\ call[d].pc = "open" /\ call'[d].pc = "length" /\ call'[d].artifact = a
      /\ call'[d].handle = inode /\ inode \in Call /\ a \in Entry /\ call'[d].got = call[d].got
      /\ partial' = [partial EXCEPT ![a] = inode]
      /\ UNCHANGED <<snapshotVars, cached, damaged, overlapped, data, target, published, losses>>
  BY OpenEffect DEF DownloadInv
<1>2. \A f \in Call \ {d} : call'[f] = call[f]
  BY <1>1 DEF Alone
<1>3. /\ data[d] = <<>> /\ call[d].got = 0 /\ target # d /\ \A b \in Entry : partial[b] # d
      /\ partial \in [Entry -> Call \cup {NoInode}]
      /\ inode = IF partial[a] = NoInode THEN d ELSE partial[a]
  BY <1>1 DEF DownloadInv, EntryInv, TypeInd, TypeOK, Partial, Fresh
<1>4. a \in Artifacts
  BY <1>1 DEF DownloadInv, TypeInd, CallInv
<1>5. Artifacts' = Artifacts /\ Apart' = Apart /\ \A b \in Artifacts : HashOf(b)' = HashOf(b)
  BY <1>1, <1>4, HashStays DEF DownloadInv, Apart
<1>6. call'[inode].artifact = a /\ call'[inode].pc \notin Fresh
  <2>1. CASE inode = d
    BY <1>1, <2>1 DEF Fresh
  <2>2. CASE inode # d
    BY <1>1, <1>2, <1>3, <2>2, PartialFacts
  <2> QED
    BY <2>1, <2>2
<1> HIDE DEF inode, a
<1>7. \A f \in Call : /\ call'[f].artifact = call[f].artifact
                      /\ call'[f].pc \in Busy <=> call[f].pc \in Busy
  BY <1>1, <1>2 DEF a, Busy
<1>8. OneActive'
  BY <1>1, <1>7 DEF DownloadInv, OneActive
<1>9. EntryInv'
  <2>1. ASSUME NEW f \in Call, call'[f].pc \in Fresh
        PROVE  /\ data'[f] = <<>> /\ call'[f].got = 0
               /\ target' # f /\ \A b \in Entry : partial'[b] # f
    <3>1. f # d /\ call'[f] = call[f] /\ f # inode
      BY <1>1, <1>2, <1>6, <2>1 DEF Fresh
    <3>2. /\ data[f] = <<>> /\ call[f].got = 0
          /\ target # f /\ \A b \in Entry : partial[b] # f
      BY <2>1, <3>1 DEF DownloadInv, EntryInv
    <3> QED
      BY <1>1, <1>3, <3>1, <3>2
  <2>2. ASSUME NEW b \in Entry, partial'[b] # NoInode PROVE call'[partial'[b]].artifact = b
    <3>1. CASE b = a
      BY <1>1, <1>3, <1>6, <3>1
    <3>2. CASE b # a
      <4>1. partial'[b] = partial[b]
        BY <1>1, <1>3, <3>2
      <4> QED
        BY <1>7, <2>2, <4>1, PartialFacts
    <3> QED
      BY <3>1, <3>2
  <2>3. ASSUME NEW f \in Call, call'[f].pc \in Opened
        PROVE  /\ call'[call'[f].handle].pc \notin Fresh
               /\ call'[call'[f].handle].artifact = call'[f].artifact
    <3>1. CASE f = d
      BY <1>1, <1>6, <3>1
    <3>2. CASE f # d
      <4> DEFINE h == call[f].handle
      <4>1. call'[f] = call[f] /\ call[f].pc \in Opened
        BY <1>2, <2>3, <3>2
      <4>2. h \in Call /\ call[h].artifact = call[f].artifact /\ call[h].pc \notin Fresh
        BY <4>1, StageFacts
      <4> HIDE DEF h
      <4>3. h # d
        BY <1>1, <4>2 DEF Fresh
      <4>4. call'[h] = call[h] /\ call'[f].handle = h
        BY <1>2, <4>1, <4>2, <4>3 DEF h
      <4> QED
        BY <4>1, <4>2, <4>4
    <3> QED
      BY <3>1, <3>2
  <2> QED
    BY <2>1, <2>2, <2>3 DEF EntryInv
<1>10. TargetInv'
  <2> SUFFICES ASSUME target # NoInode PROVE TargetInv'
    BY <1>1 DEF TargetInv
  <2>1. published \in Artifacts /\ call[target].artifact = published /\ target \in Call
    BY DEF DownloadInv, TargetInv, TypeInd, TypeOK
  <2>2. ASSUME published \notin overlapped
        PROVE  /\ data[target] = HashOf(published)
               /\ \A f \in Call : call'[f].pc \in Busy /\ call'[f].artifact = published
                                     => call'[f].pc = "unlink"
    <3>1. /\ data[target] = HashOf(published)
          /\ \A f \in Call : call[f].pc \in Busy /\ call[f].artifact = published
                                => call[f].pc = "unlink"
      BY <2>2 DEF DownloadInv, TargetInv
    <3>2. a # published
      BY <1>1, <3>1 DEF Busy, a
    <3> QED
      BY <1>1, <1>2, <1>7, <3>1, <3>2 DEF a
  <2>3. HashOf(published)' = HashOf(published)
    BY <1>1 DEF HashOf, snapshotVars, table
  <2> QED
    BY <1>1, <1>5, <1>7, <2>1, <2>2, <2>3 DEF TargetInv
<1>11. StageInv'
  <2>1. ASSUME NEW f \in Call, NEW b \in Apart, call'[f].pc \in Opened, call'[f].artifact = b
        PROVE  StageOf(call'[f], partial'[b], data'[call'[f].handle], HashOf(b))
    <3>1. CASE f = d
      <4>1. partial'[b] = inode
        BY <1>1, <1>3, <2>1, <3>1
      <4> QED
        BY <1>1, <1>3, <3>1, <4>1 DEF StageOf
    <3>2. CASE f # d
      <4>1. call'[f] = call[f] /\ call[f].pc \in Opened /\ call[f].artifact = b
        BY <1>2, <2>1, <3>2
      <4>2. b # a
        BY <1>1, <2>1, <3>2, <4>1 DEF DownloadInv, OneActive, Apart, Opened, Busy, a
      <4>3. partial'[b] = partial[b]
        BY <1>1, <1>3, <4>2
      <4> QED
        BY <1>1, <4>1, <4>3 DEF DownloadInv, StageInv
    <3> QED
      BY <3>1, <3>2
  <2> QED
    BY <1>5, <2>1 DEF StageInv, Apart
<1>12. PartialIsPrefix'
  <2>1. ASSUME ~ damaged, NEW b \in Apart, partial'[b] # NoInode
        PROVE  IsPrefix(data[partial'[b]], HashOf(b))
    <3>1. b \in Entry /\ HashOf(b) \in Seq(Block)
      BY ArtifactType DEF DownloadInv, TypeInd, Apart
    <3>2. CASE partial'[b] = partial[b]
      BY <2>1, <3>2 DEF DownloadInv, PartialIsPrefix, Apart
    <3>3. CASE partial'[b] # partial[b]
      <4>1. partial'[b] = d
        BY <1>1, <1>3, <3>1, <3>3
      <4>2. <<>> \in Seq(Block)
        OBVIOUS
      <4> QED
        BY <1>3, <3>1, <4>1, <4>2, PrefixIff
    <3> QED
      BY <3>2, <3>3
  <2> QED
    BY <1>1, <1>5, <2>1 DEF PartialIsPrefix, Apart
<1> QED
  BY <1>8, <1>9, <1>10, <1>11, <1>12 DEF DownloadInv

\* A block is written behind what the file holds, and is the next of the
\* artifact, if no other download writes there.
LEMMA ChunkInv ==
  ASSUME DownloadInv, TypeInd', [Next]_vars, NEW d \in Call, Chunk(d)
  PROVE  DownloadInv'
<1> DEFINE h == call[d].handle
           a == call[d].artifact
           held == data[h]
           block == files[call[d].artifact][call[d].from + 1]
<1>1. /\ Alone(d) /\ call[d].pc = "body" /\ call'[d].pc = "body"
      /\ call'[d].artifact = a /\ call'[d].handle = h
      /\ call'[d].retained = call[d].retained /\ call'[d].cursor = call[d].cursor + 1
      /\ call'[d].got = call[d].got + 1
      /\ call'[d].hashed = Append(call[d].hashed, block) /\ call'[d].from = call[d].from + 1
      /\ call[d].from < Len(files[call[d].artifact]) /\ block \in Block
      /\ data' = [data EXCEPT ![h] = Write(@, call[d].cursor + 1, block)]
      /\ UNCHANGED <<rows, overlapped, damaged, partial, target, published>>
  BY ChunkEffect DEF DownloadInv, snapshotVars, table, desktop
<1>2. /\ a \in Artifacts /\ a \in Entry /\ h \in Call /\ call[d] \in CallType
      /\ call[h].artifact = a /\ call[h].pc \notin Fresh
      /\ held \in Seq(Block) /\ HashOf(a) \in Seq(Block)
      /\ a \in Apart => StageOf(call[d], partial[a], held, HashOf(a))
  BY <1>1, StageFacts DEF Opened
<1>3. a \in Apart => /\ call[d].hashed = held /\ call[d].cursor = Len(held)
                     /\ call[d].from = Len(held) /\ partial[a] \in {h, NoInode}
                     /\ call[d].cursor = call[d].retained + call[d].got
  BY <1>1, <1>2 DEF StageOf
<1>4. \A f \in Call \ {d} : call'[f] = call[f]
  BY <1>1 DEF Alone
<1>5. Artifacts' = Artifacts /\ Apart' = Apart /\ \A b \in Artifacts : HashOf(b)' = HashOf(b)
  BY <1>1, <1>2, HashStays DEF DownloadInv, Apart
<1>6. \A f \in Call : /\ call'[f].artifact = call[f].artifact /\ call'[f].pc = call[f].pc
                      /\ call'[f].handle = call[f].handle
  BY <1>1, <1>4
<1>7. data' = [data EXCEPT ![h] = Write(held, call[d].cursor + 1, block)]
      /\ data \in [Call -> Seq(Block)] /\ \A f \in Call \ {h} : data'[f] = data[f]
  BY <1>1, <1>2 DEF DownloadInv, TypeInd, TypeOK
<1>8. a \in Apart => data'[h] = Append(held, block)
  <2>1. Len(held) + 1 \in 1..Len(held) + 1
    BY <1>2
  <2>2. Write(held, Len(held) + 1, block) = Append(held, block)
    BY <1>1, <1>2, <2>1, WriteIsSeq
  <2> QED
    BY <1>2, <1>3, <1>7, <2>2
<1> HIDE DEF block, h, a, held
<1>9. OneActive'
  BY <1>1, <1>6 DEF DownloadInv, OneActive
<1>10. EntryInv'
  <2>1. ASSUME NEW f \in Call, call'[f].pc \in Fresh
        PROVE  /\ data'[f] = <<>> /\ call'[f].got = 0
               /\ target' # f /\ \A b \in Entry : partial'[b] # f
    <3>1. f # d /\ call'[f] = call[f]
      BY <1>1, <1>4, <2>1 DEF Fresh
    <3>2. /\ data[f] = <<>> /\ call[f].got = 0
          /\ target # f /\ \A b \in Entry : partial[b] # f
      BY <2>1, <3>1 DEF DownloadInv, EntryInv
    <3>3. f # h
      BY <1>2, <2>1, <3>1
    <3> QED
      BY <1>1, <1>7, <3>1, <3>2, <3>3
  <2>2. ASSUME NEW b \in Entry, partial'[b] # NoInode PROVE call'[partial'[b]].artifact = b
    BY <1>1, <1>6, <2>2, PartialFacts
  <2>3. ASSUME NEW f \in Call, call'[f].pc \in Opened
        PROVE  /\ call'[call'[f].handle].pc \notin Fresh
               /\ call'[call'[f].handle].artifact = call'[f].artifact
    <3> DEFINE g == call[f].handle
    <3>1. call'[f].handle = g /\ call[f].pc \in Opened
      BY <1>6, <2>3
    <3>2. g \in Call /\ call[g].artifact = call[f].artifact /\ call[g].pc \notin Fresh
      BY <3>1, StageFacts
    <3> HIDE DEF g
    <3> QED
      BY <1>6, <3>1, <3>2
  <2> QED
    BY <2>1, <2>2, <2>3 DEF EntryInv
<1>11. TargetInv'
  <2> SUFFICES ASSUME target # NoInode PROVE TargetInv'
    BY <1>1 DEF TargetInv
  <2>1. published \in Artifacts /\ call[target].artifact = published /\ target \in Call
    BY DEF DownloadInv, TargetInv, TypeInd, TypeOK
  <2>2. ASSUME published \notin overlapped
        PROVE  /\ data'[target] = HashOf(published)
               /\ \A f \in Call : call'[f].pc \in Busy /\ call'[f].artifact = published
                                     => call'[f].pc = "unlink"
    <3>1. /\ data[target] = HashOf(published)
          /\ \A f \in Call : call[f].pc \in Busy /\ call[f].artifact = published
                                => call[f].pc = "unlink"
      BY <2>2 DEF DownloadInv, TargetInv
    <3>2. a # published
      BY <1>1, <3>1 DEF Busy, a
    <3>3. target # h
      BY <1>2, <2>1, <3>2
    <3> QED
      BY <1>6, <1>7, <2>1, <3>1, <3>3
  <2>3. HashOf(published)' = HashOf(published)
    BY <1>1 DEF HashOf
  <2> QED
    BY <1>1, <1>5, <1>6, <2>1, <2>2, <2>3 DEF TargetInv
<1>12. StageInv'
  <2>1. ASSUME a \in Apart PROVE StageOf(call'[d], partial'[a], Append(held, block), HashOf(a))
    <3>1. Len(Append(held, block)) = Len(held) + 1 /\ Len(held) \in Nat
      BY <1>1, <1>2
    <3>2. call[d].retained \in Nat /\ call[d].got \in Nat
      BY <1>2 DEF CallType
    <3>3. call'[d].cursor = call'[d].retained + call'[d].got
      BY <1>1, <1>3, <2>1, <3>2
    <3> QED
      BY <1>1, <1>2, <1>3, <2>1, <3>1, <3>3 DEF StageOf
  <2>2. ASSUME NEW f \in Call, NEW b \in Apart, call'[f].pc \in Opened, call'[f].artifact = b
        PROVE  StageOf(call'[f], partial'[b], data'[call'[f].handle], HashOf(b))
    <3>1. CASE f = d
      BY <1>1, <1>8, <2>1, <2>2, <3>1
    <3>2. CASE f # d
      <4>1. call'[f] = call[f] /\ call[f].pc \in Opened /\ call[f].artifact = b
        BY <1>4, <2>2, <3>2
      <4>2. b # a
        BY <1>1, <2>2, <3>2, <4>1 DEF DownloadInv, OneActive, Apart, Opened, Busy, a
      <4>3. call[f].handle # h /\ call[f].handle \in Call
        BY <1>2, <4>1, <4>2, StageFacts
      <4> QED
        BY <1>1, <1>7, <4>1, <4>3 DEF DownloadInv, StageInv
    <3> QED
      BY <3>1, <3>2
  <2> QED
    BY <1>5, <2>2 DEF StageInv, Apart
<1>13. PartialIsPrefix'
  <2>1. ASSUME ~ damaged, NEW b \in Apart, partial[b] # NoInode
        PROVE  IsPrefix(data'[partial[b]], HashOf(b))
    <3>1. b \in Entry
      BY ArtifactType DEF DownloadInv, TypeInd, Apart
    <3>2. /\ IsPrefix(data[partial[b]], HashOf(b)) /\ partial[b] \in Call
          /\ call[partial[b]].artifact = b
      BY <2>1, <3>1, PartialFacts DEF DownloadInv, PartialIsPrefix, Apart
    <3>3. CASE partial[b] = h
      <4>1. b = a
        BY <1>2, <3>2, <3>3
      <4>2. files[a] = HashOf(a) /\ IsPrefix(held, HashOf(a)) /\ a \in Apart
        BY <1>2, <2>1, <3>2, <3>3, <4>1, ArtifactType DEF DownloadInv, TypeInd, held
      <4>3. Len(held) < Len(HashOf(a)) /\ block = HashOf(a)[Len(held) + 1]
        BY <1>1, <1>2, <1>3, <4>2 DEF block, a
      <4>4. IsPrefix(Append(held, block), HashOf(a))
        BY <1>1, <1>2, <4>2, <4>3, PrefixIff
      <4> QED
        BY <1>8, <3>3, <4>1, <4>2, <4>4
    <3>4. CASE partial[b] # h
      BY <1>7, <3>2, <3>4
    <3> QED
      BY <3>3, <3>4
  <2> QED
    BY <1>1, <1>5, <2>1 DEF PartialIsPrefix, Apart
<1> QED
  BY <1>9, <1>10, <1>11, <1>12, <1>13 DEF DownloadInv

\* The link: what is published is what was verified.
LEMMA LinkedInv ==
  ASSUME DownloadInv, TypeInd', [Next]_vars, NEW d \in Call, call[d].pc = "link",
         target = NoInode, Partial(d) # NoInode,
         target' = Partial(d), published' = call[d].artifact, Goto(d, "unlink"),
         UNCHANGED <<rows, overlapped, damaged, data, partial>>
  PROVE  DownloadInv'
<1> DEFINE a == call[d].artifact
           h == call[d].handle
<1>1. /\ a \in Artifacts /\ a \in Entry /\ h \in Call
      /\ a \in Apart => StageOf(call[d], partial[a], data[h], HashOf(a))
  BY StageFacts DEF Opened
<1>2. partial[a] # NoInode /\ target' = partial[a] /\ published' = a
  BY DEF Partial
<1>3. /\ partial[a] \in Call /\ call[partial[a]].artifact = a
      /\ call[partial[a]].pc \notin Fresh
  BY <1>1, <1>2, PartialFacts
<1>4. a \in Apart => data[partial[a]] = HashOf(a)
  BY <1>1, <1>2 DEF StageOf
<1>5. Alone(d) /\ call'[d].pc = "unlink" /\ call'[d].artifact = a
  BY GotoEffect DEF DownloadInv, Busy
<1>6. \A f \in Call \ {d} : call'[f] = call[f]
  BY <1>5 DEF Alone
<1>7. Artifacts' = Artifacts /\ Apart' = Apart /\ \A b \in Artifacts : HashOf(b)' = HashOf(b)
  BY <1>1, HashStays DEF DownloadInv, Apart
<1>8. \A f \in Call : /\ call'[f].artifact = call[f].artifact
                      /\ call'[f].pc \in Busy <=> call[f].pc \in Busy
                      /\ call'[f].pc \in Fresh <=> call[f].pc \in Fresh
                      /\ call'[f].pc \in Opened => f # d
  BY <1>5, <1>6 DEF Busy, Fresh, Opened
<1> HIDE DEF a, h
<1>9. OneActive'
  BY <1>8 DEF DownloadInv, OneActive
<1>10. EntryInv'
  <2>1. ASSUME NEW f \in Call, call'[f].pc \in Fresh
        PROVE  /\ data'[f] = <<>> /\ call'[f].got = 0
               /\ target' # f /\ \A b \in Entry : partial'[b] # f
    <3>1. call[f].pc \in Fresh /\ f # d
      BY <1>5, <1>8, <2>1 DEF Fresh
    <3>2. /\ data[f] = <<>> /\ call[f].got = 0 /\ \A b \in Entry : partial[b] # f
      BY <3>1 DEF DownloadInv, EntryInv
    <3> QED
      BY <1>1, <1>2, <1>6, <3>1, <3>2
  <2>2. ASSUME NEW b \in Entry, partial'[b] # NoInode PROVE call'[partial'[b]].artifact = b
    BY <1>8, <2>2, PartialFacts
  <2>3. ASSUME NEW f \in Call, call'[f].pc \in Opened
        PROVE  /\ call'[call'[f].handle].pc \notin Fresh
               /\ call'[call'[f].handle].artifact = call'[f].artifact
    <3> DEFINE g == call[f].handle
    <3>1. call'[f] = call[f] /\ call[f].pc \in Opened
      BY <1>6, <1>8, <2>3
    <3>2. g \in Call /\ call[g].artifact = call[f].artifact /\ call[g].pc \notin Fresh
      BY <3>1, StageFacts
    <3>3. call'[f].handle = g
      BY <3>1
    <3> HIDE DEF g
    <3> QED
      BY <1>8, <3>1, <3>2, <3>3
  <2> QED
    BY <2>1, <2>2, <2>3 DEF EntryInv
<1>11. TargetInv'
  <2>1. published' \in Artifacts' /\ call'[target'].artifact = published'
    <3>1. a \in Artifacts /\ call'[partial[a]].artifact = a
      BY <1>1, <1>3, <1>8
    <3> QED
      BY <1>2, <1>7, <3>1
  <2>2. ASSUME published' \notin overlapped' PROVE data'[target'] = HashOf(published)'
    <3>1. PICK b \in Artifacts : b = a /\ b = published'
      BY <1>1, <1>2
    <3>2. b \in Apart /\ data'[target'] = HashOf(a)
      BY <1>1, <1>2, <1>4, <2>2, <3>1 DEF Apart
    <3>3. HashOf(b)' = HashOf(b)
      BY <1>7
    <3>4. HashOf(published)' = HashOf(b)' /\ HashOf(a) = HashOf(b)
      BY <3>1 DEF HashOf
    <3> QED
      BY <3>2, <3>3, <3>4
  <2>3. ASSUME published' \notin overlapped', NEW f \in Call,
               call'[f].pc \in Busy, call'[f].artifact = published'
        PROVE  call'[f].pc = "unlink"
    <3>1. f = d
      BY <1>2, <1>8, <2>3 DEF DownloadInv, OneActive, Busy, a
    <3> QED
      BY <1>5, <3>1
  <2> QED
    BY <2>1, <2>2, <2>3 DEF TargetInv
<1>12. StageInv'
  <2>1. ASSUME NEW f \in Call, NEW b \in Apart, call'[f].pc \in Opened, call'[f].artifact = b
        PROVE  StageOf(call'[f], partial'[b], data'[call'[f].handle], HashOf(b))
    BY <1>6, <1>8, <2>1 DEF DownloadInv, StageInv
  <2> QED
    BY <1>7, <2>1 DEF StageInv, Apart
<1>13. PartialIsPrefix'
  BY <1>7 DEF DownloadInv, PartialIsPrefix, Apart
<1> QED
  BY <1>9, <1>10, <1>11, <1>12, <1>13 DEF DownloadInv

\* A download that begins opens nothing once the place is taken, and overlaps
\* one of its artifact that is still at work.
LEMMA BeginInv ==
  ASSUME DownloadInv, TypeInd', [Next]_vars,
         NEW d \in Call, NEW a \in Artifacts, Begin(d, a)
  PROVE  DownloadInv'
<1>1. /\ Alone(d) /\ call[d].pc = "new" /\ call'[d].artifact = a /\ call'[d].got = 0
      /\ call'[d].pc = IF target = NoInode THEN "open" ELSE "exists"
      /\ overlapped \subseteq overlapped' /\ overlapped' \subseteq overlapped \cup {a}
      /\ target # NoInode => overlapped' = overlapped
      /\ target = NoInode /\ (\E c \in Active : call[c].artifact = a) => a \in overlapped'
      /\ UNCHANGED <<rows, damaged, data, partial, target, published>>
  BY BeginEffect DEF DownloadInv, snapshotVars, table, desktop
<1>2. \A f \in Call \ {d} : call'[f] = call[f]
  BY <1>1 DEF Alone
<1>3. /\ Artifacts' = Artifacts /\ Apart' \subseteq Apart
      /\ \A b \in Artifacts : HashOf(b)' = HashOf(b)
  BY <1>1, ApartStays DEF DownloadInv
<1>4. /\ data[d] = <<>> /\ call[d].got = 0 /\ target # d /\ \A b \in Entry : partial[b] # d
      /\ call[d].pc \in Fresh /\ call'[d].pc \in Fresh
      /\ call'[d].pc \notin Opened /\ (target # NoInode => call'[d].pc \notin Busy)
  BY <1>1 DEF DownloadInv, EntryInv, Fresh, Opened, Busy
<1>5. \A f \in Call : call'[f].pc \in Opened => f # d /\ call'[f] = call[f]
  BY <1>2, <1>4
<1>6. OneActive'
  <2>1. ASSUME NEW f \in Call, f # d, call'[f].pc \in Busy, call'[d].pc \in Busy,
               call'[f].artifact = call'[d].artifact
        PROVE  a \in overlapped'
    <3>1. f \in Active /\ call[f].artifact = a
      BY <1>1, <1>2, <2>1 DEF Active
    <3>2. target = NoInode
      BY <1>4, <2>1
    <3> QED
      BY <1>1, <3>1, <3>2
  <2>2. ASSUME NEW e \in Call, NEW f \in Call, e # d, f # d,
               call'[e].pc \in Busy /\ call'[f].pc \in Busy /\ call'[e].artifact = call'[f].artifact
        PROVE  e = f \/ call'[e].artifact \in overlapped'
    BY <1>1, <1>2, <2>2 DEF DownloadInv, OneActive
  <2> QED
    BY <1>1, <2>1, <2>2 DEF OneActive
<1>7. EntryInv'
  <2>1. ASSUME NEW f \in Call, call'[f].pc \in Fresh
        PROVE  /\ data'[f] = <<>> /\ call'[f].got = 0
               /\ target' # f /\ \A b \in Entry : partial'[b] # f
    <3>1. CASE f = d
      BY <1>1, <1>4, <3>1
    <3>2. CASE f # d
      BY <1>1, <1>2, <2>1, <3>2 DEF DownloadInv, EntryInv
    <3> QED
      BY <3>1, <3>2
  <2>2. ASSUME NEW b \in Entry, partial'[b] # NoInode PROVE call'[partial'[b]].artifact = b
    <3>1. partial[b] \in Call /\ partial[b] # d /\ call[partial[b]].artifact = b
      BY <1>1, <1>4, <2>2, PartialFacts
    <3> QED
      BY <1>1, <1>2, <3>1
  <2>3. ASSUME NEW f \in Call, call'[f].pc \in Opened
        PROVE  /\ call'[call'[f].handle].pc \notin Fresh
               /\ call'[call'[f].handle].artifact = call'[f].artifact
    <3> DEFINE g == call[f].handle
    <3>1. call'[f] = call[f] /\ call[f].pc \in Opened
      BY <1>5, <2>3
    <3>2. g \in Call /\ call[g].artifact = call[f].artifact /\ call[g].pc \notin Fresh
      BY <3>1, StageFacts
    <3>3. call'[f].handle = g
      BY <3>1
    <3> HIDE DEF g
    <3>4. g # d
      BY <1>4, <3>2
    <3> QED
      BY <1>2, <3>1, <3>2, <3>3, <3>4
  <2> QED
    BY <2>1, <2>2, <2>3 DEF EntryInv
<1>8. TargetInv'
  <2> SUFFICES ASSUME target # NoInode PROVE TargetInv'
    BY <1>1 DEF TargetInv
  <2>1. published \in Artifacts /\ call[target].artifact = published /\ target \in Call
    BY DEF DownloadInv, TargetInv, TypeInd, TypeOK
  <2>2. call'[target].artifact = published
    BY <1>2, <1>4, <2>1
  <2>3. ASSUME published \notin overlapped
        PROVE  /\ data[target] = HashOf(published)
               /\ \A f \in Call : call'[f].pc \in Busy /\ call'[f].artifact = published
                                     => call'[f].pc = "unlink"
    <3>1. /\ data[target] = HashOf(published)
          /\ \A f \in Call : call[f].pc \in Busy /\ call[f].artifact = published
                                => call[f].pc = "unlink"
      BY <2>3 DEF DownloadInv, TargetInv
    <3> QED
      BY <1>2, <1>4, <3>1
  <2>4. HashOf(published)' = HashOf(published)
    BY <1>1 DEF HashOf
  <2> QED
    BY <1>1, <1>3, <2>1, <2>2, <2>3, <2>4 DEF TargetInv
<1>9. StageInv'
  <2>1. ASSUME NEW f \in Call, NEW b \in Apart', call'[f].pc \in Opened, call'[f].artifact = b
        PROVE  StageOf(call'[f], partial'[b], data'[call'[f].handle], HashOf(b)')
    BY <1>1, <1>3, <1>5, <2>1 DEF DownloadInv, StageInv, Apart
  <2> QED
    BY <2>1 DEF StageInv
<1>10. PartialIsPrefix'
  BY <1>1, <1>3 DEF DownloadInv, PartialIsPrefix, Apart
<1> QED
  BY <1>6, <1>7, <1>8, <1>9, <1>10 DEF DownloadInv

\* One download goes on, and the others stay where they are.
LEMMA AloneOnward ==
  ASSUME NEW d \in Call, Alone(d), Onward(d)
  PROVE  \A f \in Call : Onward(f)
BY DEF Alone, Onward

\* Of one that has ended nothing more is said.
LEMMA EndedOnward ==
  ASSUME NEW d \in Call, NEW pc \in Outcome \ {"exists"}, call[d].pc \in Busy,
         call'[d].pc = pc, call'[d].artifact = call[d].artifact
  PROVE  Onward(d)
BY DEF Onward, Outcome, Busy, Fresh

\* The steps of a download that only read its file.
LEMMA ReadingOnward ==
  ASSUME DownloadInv, NEW d \in Call, Length(d) \/ ReadPartial(d) \/ Answer(d)
  PROVE  Alone(d) /\ Onward(d) /\ UNCHANGED <<overlapped, damaged, data, partial, target, published>>
<1> DEFINE a == call[d].artifact
           held == data[call[d].handle]
<1>1. /\ Alone(d) /\ call[d].pc \in {"length", "read", "send"} /\ call'[d].artifact = a
      /\ UNCHANGED <<overlapped, damaged, data, partial, target, published>>
  BY LengthEffect, ReadPartialEffect, AnswerEffect DEF DownloadInv, desktop
<1>2. /\ call[d] \in CallType /\ held \in Seq(Block)
      /\ a \in Apart => StageOf(call[d], partial[a], held, HashOf(a))
  BY <1>1, StageFacts DEF Opened
<1>3. call[d].retained \in Nat /\ Len(held) \in Nat
  BY <1>2 DEF CallType
<1>4. a \in Apart => call[d].got = 0 /\ partial[a] \in {call[d].handle, NoInode}
  BY <1>1, <1>2 DEF StageOf
<1>5. \/ call'[d].pc \in {"unusable", "refused"}
      \/ /\ call'[d].pc \in {"read", "send", "check", "body"} /\ call'[d].handle = call[d].handle
         /\ a \in Apart => StageOf(call'[d], partial[a], held, HashOf(a))
  <2>1. CASE Length(d)
    <3>1. \/ call'[d].pc = "unusable"
          \/ /\ call'[d].pc = "read" /\ call'[d].handle = call[d].handle
             /\ call'[d].got = call[d].got /\ call'[d].retained = Len(held)
      BY <2>1, LengthEffect DEF DownloadInv, Contents
    <3> HIDE DEF a, held
    <3> QED
      BY <1>4, <3>1 DEF StageOf
  <2>2. CASE ReadPartial(d)
    <3>1. /\ call'[d].hashed = held /\ call'[d].cursor = Len(held)
          /\ call'[d].retained = call[d].retained /\ call[d].pc = "read"
          /\ call'[d].got = call[d].got /\ call'[d].handle = call[d].handle
          /\ call'[d].pc \in {"send", "check"}
      BY <2>2, ReadPartialEffect DEF DownloadInv, Contents
    <3>2. a \in Apart => call[d].retained = Len(held)
      BY <1>2, <3>1 DEF StageOf
    <3> HIDE DEF a, held
    <3>3. a \in Apart => call'[d].cursor = call'[d].retained + call'[d].got
      BY <1>3, <1>4, <3>1, <3>2
    <3> QED
      BY <1>4, <3>1, <3>3 DEF StageOf
  <2>3. CASE Answer(d)
    <3>1. \/ call'[d].pc = "refused"
          \/ /\ call'[d].pc = "body" /\ call'[d].from = call[d].retained
             /\ call'[d].handle = call[d].handle /\ call'[d].retained = call[d].retained
             /\ call'[d].cursor = call[d].cursor /\ call'[d].got = call[d].got
             /\ call'[d].hashed = call[d].hashed
      BY <2>3, AnswerEffect DEF DownloadInv
    <3>2. call[d].pc = "send"
      BY <2>3, AnswerEffect DEF DownloadInv
    <3>3. a \in Apart => /\ call[d].hashed = held /\ call[d].cursor = Len(held)
                         /\ call[d].cursor = call[d].retained + call[d].got
      BY <1>2, <3>2 DEF StageOf
    <3> HIDE DEF a, held
    <3>4. a \in Apart => call[d].cursor = call[d].retained
      BY <1>3, <1>4, <3>3
    <3> QED
      BY <1>4, <3>1, <3>3, <3>4 DEF StageOf
  <2> QED
    BY <1>1, <2>1, <2>2, <2>3
<1>6. CASE call'[d].pc \in {"unusable", "refused"}
  <2>1. call'[d].pc \in Outcome \ {"exists"} /\ call[d].pc \in Busy
    BY <1>1, <1>6 DEF Outcome, Busy
  <2> QED
    BY <1>1, <2>1, EndedOnward
<1>7. CASE /\ call'[d].pc \in {"read", "send", "check", "body"} /\ call'[d].handle = call[d].handle
           /\ a \in Apart => StageOf(call'[d], partial[a], held, HashOf(a))
  <2>1. /\ call[d].pc \in Busy /\ call[d].pc \in Opened
        /\ call'[d].pc \notin Fresh /\ call'[d].pc \in Opened
    BY <1>1, <1>7 DEF Busy, Opened, Fresh
  <2> QED
    BY <1>1, <1>7, <2>1 DEF Onward
<1> QED
  BY <1>1, <1>5, <1>6, <1>7

\* The end of the answer, a lost connection, and the check of the hash.
LEMMA EndingOnward ==
  ASSUME DownloadInv, NEW d \in Call, BodyEnds(d) \/ Check(d) \/ Lost(d)
  PROVE  Alone(d) /\ Onward(d) /\ UNCHANGED <<overlapped, damaged, data, partial, target, published>>
<1> DEFINE a == call[d].artifact
           held == data[call[d].handle]
<1>1. PICK pc \in {"check", "interrupted", "link", "mismatch"} :
        /\ call[d].pc \in {"send", "body", "check"} /\ Goto(d, pc)
        /\ pc = "check" => call[d].pc = "body"
        /\ pc = "link" => call[d].pc = "check" /\ call[d].hashed = HashOf(a)
        /\ UNCHANGED <<overlapped, damaged, data, partial, target, published>>
  BY DEF BodyEnds, Check, Lost, desktop
<1>2. /\ Alone(d) /\ call'[d].pc = pc /\ call'[d].artifact = a
      /\ pc \in Busy => call'[d] = [call[d] EXCEPT !.pc = pc]
  <2>1. pc \in Busy \cup Outcome
    BY DEF Busy, Outcome
  <2> QED
    BY <1>1, <2>1, GotoEffect DEF DownloadInv
<1>3. call[d].pc \in Busy /\ call[d].pc \in Opened
  BY <1>1 DEF Busy, Opened
<1>4. CASE pc \in {"interrupted", "mismatch"}
  <2>1. pc \in Outcome \ {"exists"}
    BY <1>4 DEF Outcome
  <2> QED
    BY <1>1, <1>2, <1>3, <2>1, EndedOnward
<1>5. CASE pc \in {"check", "link"}
  <2>1. /\ call[d] \in CallType
        /\ a \in Apart => StageOf(call[d], partial[a], held, HashOf(a))
    BY <1>3, StageFacts
  <2>2. call'[d].handle = call[d].handle /\ call'[d].hashed = call[d].hashed
    BY <1>2, <1>5, <2>1 DEF CallType, Busy
  <2>3. a \in Apart => call[d].hashed = held /\ partial[a] \in {call[d].handle, NoInode}
    BY <1>1, <2>1 DEF StageOf
  <2>4. pc \notin Fresh /\ pc \in Opened
    BY <1>5 DEF Fresh, Opened
  <2> HIDE DEF a, held
  <2>5. a \in Apart => StageOf(call'[d], partial[a], held, HashOf(a))
    BY <1>1, <1>2, <1>5, <2>2, <2>3 DEF StageOf
  <2> QED
    BY <1>1, <1>2, <1>3, <2>2, <2>4, <2>5 DEF Onward, a, held
<1> QED
  BY <1>4, <1>5

LEMMA DownloadStep == DownloadInv /\ [Next]_vars => DownloadInv'
<1> SUFFICES ASSUME DownloadInv, [Next]_vars PROVE DownloadInv'
  OBVIOUS
<1>1. TypeInd'
  BY TypeIndStep DEF DownloadInv
<1>2. partial \in [Entry -> Call \cup {NoInode}]
  BY DEF DownloadInv, TypeInd, TypeOK
<1>3. UNCHANGED call => \A f \in Call : Onward(f)
  BY DEF Onward
<1>4. CASE SnapshotNext /\ UNCHANGED downloadVars
  <2>1. UNCHANGED <<call, overlapped, data, damaged, partial, target, published>>
    BY <1>4 DEF downloadVars, desktop
  <2> QED
    BY <1>1, <1>3, <2>1, Frame
<1>5. CASE \E e \in Entry : Damage(e)
  <2>1. damaged' /\ UNCHANGED <<call, overlapped, data, partial, target, published>>
    BY <1>5 DEF Damage, desktop
  <2> QED
    BY <1>1, <1>3, <2>1, Frame
<1>6. CASE \E e \in Entry : DeletePartial(e)
  <2>1. PICK e \in Entry : partial' = [partial EXCEPT ![e] = NoInode]
    BY <1>6 DEF DeletePartial
  <2>2. UNCHANGED <<call, overlapped, data, damaged, target, published>>
    BY <1>6 DEF DeletePartial
  <2>3. \A a \in Entry : partial'[a] \in {partial[a], NoInode}
    BY <1>2, <2>1
  <2> QED
    BY <1>1, <1>3, <2>2, <2>3, Frame
<1>7. CASE CacheArtifacts \/ UNCHANGED vars
  <2>1. UNCHANGED <<call, overlapped, data, damaged, partial, target, published>>
    BY <1>7 DEF CacheArtifacts, vars, downloadVars, desktop
  <2> QED
    BY <1>1, <1>3, <2>1, Frame
<1>8. CASE AppExit
  <2>1. /\ call' = [d \in Call |-> IF d \in Active THEN Ended(d, "interrupted") ELSE call[d]]
        /\ UNCHANGED <<overlapped, damaged, data, partial, target, published>>
    BY <1>8 DEF AppExit, desktop
  <2>2. ASSUME NEW f \in Call PROVE Onward(f)
    <3>1. CASE f \in Active
      <4>1. "interrupted" \in Outcome \ {"exists"} /\ call[f].pc \in Busy
        BY <3>1 DEF Outcome, Active
      <4>2. call'[f].pc = "interrupted" /\ call'[f].artifact = call[f].artifact
        BY <2>1, <3>1, <4>1, EndedType DEF DownloadInv
      <4> QED
        BY <4>1, <4>2, EndedOnward
    <3>2. CASE f \notin Active
      BY <2>1, <3>2 DEF Onward
    <3> QED
      BY <3>1, <3>2
  <2> QED
    BY <1>1, <2>1, <2>2, Frame
<1>9. ASSUME NEW d \in Call, Step(d) \/ Lost(d) PROVE DownloadInv'
  <2>1. CASE Open(d) \/ Chunk(d)
    BY <1>1, <2>1, OpenInv, ChunkInv
  <2>2. CASE Length(d) \/ ReadPartial(d) \/ Answer(d) \/ BodyEnds(d) \/ Check(d) \/ Lost(d)
    <3>1. Alone(d) /\ Onward(d) /\ UNCHANGED <<overlapped, damaged, data, partial, target, published>>
      BY <2>2, ReadingOnward, EndingOnward
    <3>2. \A f \in Call : Onward(f)
      BY <3>1, AloneOnward
    <3> QED
      BY <1>1, <3>1, <3>2, Frame
  <2>3. CASE Link(d)
    <3>1. call[d].pc = "link" /\ UNCHANGED <<rows, overlapped, damaged, data, partial>>
      BY <2>3 DEF Link, snapshotVars, table
    <3>2. CASE /\ target = NoInode /\ Partial(d) # NoInode
               /\ target' = Partial(d) /\ published' = call[d].artifact /\ Goto(d, "unlink")
      BY <1>1, <3>1, <3>2, LinkedInv
    <3>3. CASE Goto(d, "failed") /\ UNCHANGED <<target, published>>
      <4>1. "failed" \in Outcome \ {"exists"} /\ call[d].pc \in Busy
        BY <3>1 DEF Outcome, Busy
      <4>2. Alone(d) /\ call'[d].pc = "failed" /\ call'[d].artifact = call[d].artifact
        BY <3>3, <4>1, GotoEffect DEF DownloadInv
      <4>3. \A f \in Call : Onward(f)
        BY <4>1, <4>2, EndedOnward, AloneOnward
      <4> QED
        BY <1>1, <3>1, <3>3, <4>3, Frame
    <3> QED
      BY <2>3, <3>2, <3>3 DEF Link
  <2>4. CASE Unlink(d)
    <3>1. PICK pc \in {"failed", "ok"} :
            /\ call[d].pc = "unlink" /\ Goto(d, pc)
            /\ partial' = [partial EXCEPT ![call[d].artifact] = NoInode]
            /\ UNCHANGED <<overlapped, damaged, data, target, published>>
      BY <2>4 DEF Unlink
    <3>2. pc \in Outcome \ {"exists"} /\ call[d].pc \in Busy
      BY <3>1 DEF Outcome, Busy
    <3>3. Alone(d) /\ call'[d].pc = pc /\ call'[d].artifact = call[d].artifact
      BY <3>1, <3>2, GotoEffect DEF DownloadInv
    <3>4. \A f \in Call : Onward(f)
      BY <3>2, <3>3, EndedOnward, AloneOnward
    <3>5. \A a \in Entry : partial'[a] \in {partial[a], NoInode}
      BY <1>2, <3>1
    <3> QED
      BY <1>1, <3>1, <3>4, <3>5, Frame
  <2> QED
    BY <1>9, <2>1, <2>2, <2>3, <2>4 DEF Step
<1>10. ASSUME NEW d \in Call, NEW a \in Artifacts, Begin(d, a) PROVE DownloadInv'
  BY <1>1, <1>10, BeginInv
<1> QED
  BY <1>4, <1>5, <1>6, <1>7, <1>8, <1>9, <1>10 DEF Next

LEMMA DownloadInit == Init => DownloadInv
<1> SUFFICES ASSUME Init PROVE DownloadInv
  OBVIOUS
<1>1. TypeInd
  BY TypeIndInit
<1>2. /\ \A d \in Call : call[d] = Unused /\ data[d] = <<>>
      /\ \A a \in Entry : partial[a] = NoInode
      /\ target = NoInode
  BY DEF Init
<1>3. \A d \in Call : call[d].pc = "new" /\ call[d].got = 0
  BY <1>2, UnusedType
<1>4. OneActive /\ StageInv
  BY <1>3 DEF OneActive, StageInv, Busy, Opened
<1>5. EntryInv
  BY <1>2, <1>3 DEF EntryInv, Call, NoInode, Opened
<1>6. TargetInv
  BY <1>2 DEF TargetInv
<1>7. PartialIsPrefix
  <2>1. \A a \in Artifacts : partial[a] = NoInode
    BY <1>1, <1>2, ArtifactType DEF TypeInd
  <2> QED
    BY <2>1 DEF PartialIsPrefix
<1> QED
  BY <1>1, <1>4, <1>5, <1>6, <1>7 DEF DownloadInv

\* What an interrupted download leaves is a beginning of the artifact
\* (client.rs:104-128), for any number of downloads, of different artifacts at
\* the same time too: only two of one artifact write over one another.
THEOREM PartialIsPrefixHolds == Spec => []PartialIsPrefix
<1>1. DownloadInv => PartialIsPrefix
  BY DEF DownloadInv
<1> QED
  BY <1>1, DownloadInit, DownloadStep, PTL DEF Spec

\* The file the user gets is the artifact the agent took and stays it, whatever
\* was lost, resumed, damaged or deleted on the way and whatever else is being
\* downloaded to the same place, unless two downloads of this very artifact
\* overlapped (client.rs:167-178).
THEOREM PublishedIsArtifactHolds == Spec => []PublishedIsArtifact
<1>1. DownloadInv => PublishedIsArtifact
  BY DEF DownloadInv, TargetInv, PublishedIsArtifact
<1> QED
  BY <1>1, DownloadInit, DownloadStep, PTL DEF Spec

-----------------------------------------------------------------------------
(***************************************************************************)
(* The promise: every step settles the result, delivers a file, or changes *)
(* nothing of either.                                                      *)
(***************************************************************************)
\* What a step does to the tables is what collect or recover promises.
LEMMA SettleStep ==
  ASSUME SnapInv, SnapInv', [Next]_vars
  PROVE  \/ /\ status = "pending" /\ status' = "complete"
            /\ rows' \subseteq [entry : Entry, hash : Seq(Block)]
         \/ status = "pending" /\ status' = "incomplete" /\ UNCHANGED rows
         \/ UNCHANGED <<status, rows>>
<1>1. CASE OnTheWay
  <2>1. status = "pending"
    BY <1>1 DEF OnTheWay, SnapInv, TableInv
  <2> QED
    BY <1>1, <2>1 DEF OnTheWay
<1>2. CASE Commit
  <2>1. status = "pending"
    BY <1>2 DEF Commit, SnapInv, TableInv, Working, Clean
  <2>2. rows' \subseteq [entry : Entry, hash : Seq(Block)]
    BY DEF SnapInv, SnapshotTypeOK
  <2> QED
    BY <1>2, <2>1, <2>2 DEF Commit
<1>3. CASE AtRest
  BY <1>3 DEF AtRest
<1> QED
  BY <1>1, <1>2, <1>3, PhaseCases

\* Whether two downloads of an artifact have overlapped is not revised, and is
\* settled when something is published.
LEMMA OverlapStays ==
  ASSUME TypeInd, [Next]_vars
  PROVE  overlapped \subseteq overlapped' /\ (target # NoInode => overlapped' = overlapped)
<1>1. CASE SnapshotNext /\ UNCHANGED downloadVars
  BY <1>1 DEF downloadVars
<1>2. CASE \E e \in Entry : Damage(e) \/ DeletePartial(e)
  BY <1>2 DEF Damage, DeletePartial
<1>3. CASE CacheArtifacts \/ AppExit \/ UNCHANGED vars
  BY <1>3 DEF CacheArtifacts, AppExit, vars, downloadVars
<1>4. ASSUME NEW d \in Call, NEW a \in Artifacts, Begin(d, a)
      PROVE  overlapped \subseteq overlapped' /\ (target # NoInode => overlapped' = overlapped)
  BY <1>4, BeginEffect
<1>5. ASSUME NEW d \in Call, Step(d) \/ Lost(d) PROVE overlapped' = overlapped
  BY <1>5 DEF Step, Open, Length, ReadPartial, Answer, Chunk, BodyEnds, Check, Link, Unlink, Lost
<1> QED
  BY <1>1, <1>2, <1>3, <1>4, <1>5 DEF Next

\* The steps by what they do to the place: only a link into an empty place
\* changes the entry, and what is linked there is not written to.
LEMMA PlaceStep ==
  ASSUME DownloadInv, DownloadInv', [Next]_vars
  PROVE  \/ UNCHANGED Delivered
         \/ /\ Delivered = {} /\ \E r \in rows : Delivered' = {r}
            /\ UNCHANGED <<status, rows>>
<1>1. \/ UNCHANGED <<target, published>>
      \/ target = NoInode /\ UNCHANGED <<status, rows>>
  <2>1. CASE SnapshotNext /\ UNCHANGED downloadVars
    BY <2>1 DEF downloadVars, desktop
  <2>2. CASE \E e \in Entry : Damage(e) \/ DeletePartial(e)
    BY <2>2 DEF Damage, DeletePartial, desktop
  <2>3. CASE CacheArtifacts \/ AppExit \/ UNCHANGED vars
    BY <2>3 DEF CacheArtifacts, AppExit, vars, downloadVars, desktop
  <2>4. ASSUME NEW d \in Call, Step(d) \/ Lost(d) \/ \E a \in Artifacts : Begin(d, a)
        PROVE  \/ UNCHANGED <<target, published>>
               \/ target = NoInode /\ UNCHANGED <<status, rows>>
    <3>1. CASE Link(d)
      BY <3>1 DEF Link, snapshotVars, table
    <3>2. CASE Open(d) \/ Length(d) \/ ReadPartial(d) \/ Unlink(d) \/ Lost(d)
      BY <3>2 DEF Open, Length, ReadPartial, Unlink, Lost, desktop
    <3>3. CASE BodyEnds(d) \/ Check(d)
      BY <3>3 DEF BodyEnds, Check, desktop
    <3>4. CASE Chunk(d) \/ Answer(d)
      <4>1. UNCHANGED desktop
        BY <3>4, ChunkEffect, AnswerEffect DEF DownloadInv
      <4> QED
        BY <4>1 DEF desktop
    <3>5. CASE \E a \in Artifacts : Begin(d, a)
      BY <3>5 DEF Begin, desktop
    <3> QED
      BY <2>4, <3>1, <3>2, <3>3, <3>4, <3>5 DEF Step
  <2> QED
    BY <2>1, <2>2, <2>3, <2>4 DEF Next
<1>2. ASSUME target # NoInode, UNCHANGED <<target, published>>, published \notin overlapped
      PROVE  UNCHANGED Delivered
  <2>0. published \notin overlapped'
    BY <1>2, OverlapStays DEF DownloadInv
  <2>1. published \in Artifacts /\ data[target] = HashOf(published)
    BY <1>2 DEF DownloadInv, TargetInv
  <2>2. data'[target] = HashOf(published)'
    BY <1>2, <2>0 DEF DownloadInv, TargetInv
  <2>3. PICK a \in Artifacts : a = published /\ a = published'
    BY <1>2, <2>1
  <2>4. HashOf(a)' = HashOf(a)
    BY HashStays DEF DownloadInv
  <2>5. HashOf(published)' = HashOf(published)
    BY <2>3, <2>4 DEF HashOf
  <2> QED
    BY <1>2, <2>0, <2>1, <2>2, <2>5 DEF Delivered
<1>3. ASSUME \/ target = NoInode /\ target' = NoInode
             \/ target # NoInode /\ UNCHANGED <<target, published>> /\ published \in overlapped
             \/ target = NoInode /\ published' \in overlapped'
      PROVE  UNCHANGED Delivered
  BY <1>3, OverlapStays DEF Delivered, DownloadInv
<1>4. ASSUME target = NoInode, target' # NoInode, published' \notin overlapped',
             UNCHANGED <<status, rows>>
      PROVE  Delivered = {} /\ \E r \in rows : Delivered' = {r}
  <2>1. published' \in Artifacts' /\ data'[target'] = HashOf(published)'
    BY <1>4 DEF DownloadInv, TargetInv
  <2>2. PICK r \in rows' : r.entry = published'
    BY <2>1 DEF Artifacts
  <2>3. (CHOOSE q \in rows' : q.entry = published') = r
    BY <2>2 DEF DownloadInv, TypeInd, SnapInv, TableInv
  <2>4. HashOf(published)' = r.hash
    BY <2>3 DEF HashOf
  <2>5. r = [entry |-> r.entry, hash |-> r.hash]
    BY <2>2 DEF DownloadInv, TypeInd, SnapInv, SnapshotTypeOK
  <2>6. Delivered' = {r}
    BY <1>4, <2>1, <2>2, <2>4, <2>5 DEF Delivered
  <2> QED
    BY <1>4, <2>2, <2>6 DEF Delivered
<1> QED
  BY <1>1, <1>2, <1>3, <1>4

LEMMA DeliveryStep ==
  ASSUME DownloadInv, DownloadInv', [Next]_vars
  PROVE  [Delivery!Next]_(Delivery!vars)
<1>1. SnapInv /\ SnapInv'
  BY DEF DownloadInv, TypeInd
<1>2. CASE UNCHANGED Delivered
  BY <1>1, <1>2, SettleStep
    DEF Delivery!Next, Delivery!vars, Delivery!Complete, Delivery!GiveUp
<1>3. CASE /\ Delivered = {} /\ \E r \in rows : Delivered' = {r}
           /\ UNCHANGED <<status, rows>>
  BY <1>3 DEF Delivery!Next, Delivery!Deliver
<1> QED
  BY <1>2, <1>3, PlaceStep

\* The agent's snapshot, its routes and the downloads together implement the
\* abstract promise: a result is settled once, and a file of it appears in its
\* place whole and at once and stays as it is, unless two downloads of that
\* artifact overlapped.
THEOREM DeliveryRefinement == Spec => ImplementsDelivery
<1>1. Init => Delivery!Init
  BY DEF Init, SnapshotInit, Delivery!Init, Delivered
<1>2. DownloadInv /\ DownloadInv' /\ [Next]_vars => [Delivery!Next]_(Delivery!vars)
  BY DeliveryStep
<1> QED
  BY <1>1, <1>2, DownloadInit, DownloadStep, PTL DEF Spec, ImplementsDelivery, Delivery!Spec
=============================================================================
