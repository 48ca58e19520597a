----------------------------- MODULE RfsProofs -----------------------------
(***************************************************************************)
(* Proofs about the file system: directories stay whole and blocks have    *)
(* one owner (src/fs/rfs.c).                                               *)
(***************************************************************************)
EXTENDS Rfs, FiniteSetTheorems, SequenceTheorems, TLAPS

(***************************************************************************)
(* Least elements.                                                         *)
(***************************************************************************)

\* Every non-empty set of natural numbers has a least element, which is its Min.
LEMMA LeastIsMin ==
    ASSUME NEW S, S \subseteq Nat, S # {}
    PROVE  Min(S) \in S /\ \A k \in S : Min(S) <= k
  <1> DEFINE T == {U \in SUBSET Nat : \E t \in S : U = 0 .. t}
             R == StrictSubsetOrdering(Nat)
  <1>1. IsWellFoundedOn(R, FiniteSubsetsOf(Nat))
    BY FS_StrictSubsetOrderingWellFounded
  <1>2. T \subseteq FiniteSubsetsOf(Nat)
    BY FS_Interval DEF FiniteSubsetsOf
  <1>3. T # {}
    <2>1. PICK t \in S : TRUE
      OBVIOUS
    <2>2. (0 .. t) \in T
      BY <2>1
    <2>3. QED
      BY <2>2
  <1> HIDE DEF T
  <1>4. PICK U \in T : \A V \in T : ~ (<<V, U>> \in R)
    <2> HIDE DEF R
    <2>1. QED
      BY <1>1, <1>2, <1>3, WFMin
  <1>5. PICK m \in S : U = 0 .. m
    BY <1>4 DEF T
  <1>6. ASSUME NEW k \in S, k < m PROVE FALSE
    <2>1. (0 .. k) \in T
      BY DEF T
    <2>2. (0 .. k) \subseteq U /\ (0 .. k) # U
      BY <1>5, <1>6
    <2>3. <<0 .. k, U>> \in R
      BY <2>1, <2>2, <1>5 DEF StrictSubsetOrdering
    <2>4. QED
      BY <1>4, <2>1, <2>3
  <1>7. \E x \in S : \A y \in S : x <= y
    BY <1>6
  <1>8. QED
    BY <1>7 DEF Min

\* alloc_block gives a block that is free, or 0 when none is.
LEMMA FreeBlockIsFree ==
    /\ FreeBlock # 0 => FreeBlock \in (1 .. NumBlocks) \ blockBitmap
    /\ FreeBlock = 0 => 1 .. NumBlocks \subseteq blockBitmap
  <1>1. FreeDataBlocks = (1 .. NumBlocks) \ blockBitmap /\ FreeDataBlocks \subseteq Nat
    BY RfsAssumption DEF FreeDataBlocks
  <1>2. CASE FreeDataBlocks = {}
    BY <1>1, <1>2 DEF FreeBlock
  <1>3. CASE FreeDataBlocks # {}
    <2>1. Min(FreeDataBlocks) \in FreeDataBlocks
      BY <1>1, <1>3, LeastIsMin
    <2>2. FreeBlock \in (1 .. NumBlocks) \ blockBitmap
      BY <1>1, <1>3, <2>1 DEF FreeBlock
    <2>3. FreeBlock # 0
      BY <2>2
    <2>4. QED
      BY <2>2, <2>3
  <1>4. QED
    BY <1>2, <1>3

(***************************************************************************)
(* The invariant.  A visible entry is a directory d in use with a position *)
(* k within its size; it gives a name to an inode.                         *)
(***************************************************************************)

Entry == [name : Names, inode : Inodes]

Visible(d, k) == d \in Directories /\ k \in 1 .. inode[d].size

EntryAt(d, k) == entries[inode[d].block][k]
NameOf(d, k)  == EntryAt(d, k).name
Named(d, k)   == EntryAt(d, k).inode

\* Types of what is on the disk; the root is a directory, and no file is longer
\* than MaxSize.
Typed ==
    /\ inodeBitmap \subseteq Inodes
    /\ blockBitmap \subseteq 1 .. NumBlocks
    /\ inode \in [Inodes -> [type : Types, size : Nat, block : 0 .. NumBlocks]]
    /\ moreBlocks \in [Inodes -> SUBSET (1 .. NumBlocks)]
    /\ entries \in [0 .. NumBlocks -> Seq(Entry)]
    /\ Root \in Directories /\ superblock \in BOOLEAN
    /\ \A i \in inodeBitmap : inode[i].type = "FILE" => inode[i].size <= MaxSize

\* A descriptor is open on a file in use.
FilesInv ==
    /\ OpenSlots \subseteq FileSlots
    /\ file \in [OpenSlots -> [inode : Inodes, flags : Flags, offset : 0 .. MaxSize]]
    /\ \A s \in OpenSlots : /\ file[s].inode \in inodeBitmap
                            /\ inode[file[s].inode].type = "FILE"

\* A directory in use has a block with all the entries its size makes visible; the block
\* is not that of the superblock, as long as this is whole.
DirectoriesHold ==
    \A d \in Directories :
        /\ superblock => inode[d].block # 0
        /\ inode[d].size <= Len(entries[inode[d].block])

\* Visible entries name inodes in use, every one of them, none twice.
NamesInUse == \A d, k : Visible(d, k) => Named(d, k) \in inodeBitmap \ {Root}
AllNamed   == \A i \in inodeBitmap \ {Root} : \E d, k : Visible(d, k) /\ Named(d, k) = i
NamedOnce  == \A d, k, e, j : /\ Visible(d, k) /\ Visible(e, j)
                              /\ Named(d, k) = Named(e, j)
                              => d = e /\ k = j

\* The names in a directory differ.
NamesDiffer ==
    \A d, k, j : Visible(d, k) /\ Visible(d, j) /\ NameOf(d, k) = NameOf(d, j) => k = j

NamesInv == NamesInUse /\ AllNamed /\ NamedOnce /\ NamesDiffer

TreeInv == Typed /\ DirectoriesHold /\ NamesInv /\ BlocksOwned

FsInv == TreeInv /\ FilesInv

(***************************************************************************)
(* Looking up paths.                                                       *)
(***************************************************************************)

\* What find_in_directory answers is 0 or the inode of a visible entry.
LEMMA Found ==
    ASSUME Typed, NEW d \in inodeBitmap \cup {0}, NEW name,
           FindInDirectory(d, name) # 0
    PROVE  \E k : /\ Visible(d, k) /\ NameOf(d, k) = name
                  /\ Named(d, k) = FindInDirectory(d, name)
  <1> DEFINE es == entries[inode[d].block]
             hits == {k \in 1 .. inode[d].size : es[k].name = name}
             found(k) == es[k].name = name /\ \A j \in 1 .. (k - 1) : es[j].name # name
  <1>1. d # 0 /\ d \in Inodes /\ inode[d].type = "DIR" /\ hits # {} /\ inode[d].size \in Nat
    BY DEF FindInDirectory, Typed, Inodes
  <1>2. Min(hits) \in hits /\ \A k \in hits : Min(hits) <= k
    <2>1. hits \subseteq Nat
      OBVIOUS
    <2>2. QED
      BY <1>1, <2>1, LeastIsMin
  <1>3. found(Min(hits))
    <2> DEFINE m == Min(hits)
    <2>1. m \in 1 .. inode[d].size /\ es[m].name = name
      BY <1>2
    <2>2. ASSUME NEW j \in 1 .. (m - 1) PROVE es[j].name # name
      <3>1. j \in 1 .. inode[d].size /\ j < m
        <4> HIDE DEF m
        <4>1. QED
          BY <1>1, <2>1
      <3>2. j \notin hits
        BY <1>2, <3>1
      <3>3. QED
        BY <3>1, <3>2
    <2>3. QED
      BY <2>1, <2>2
  <1>4. PICK k \in 1 .. inode[d].size :
           FindInDirectory(d, name) = es[k].inode /\ es[k].name = name
    <2> DEFINE c == CHOOSE k \in 1 .. inode[d].size : found(k)
    <2>1. c \in 1 .. inode[d].size /\ found(c)
      <3> HIDE DEF found
      <3>1. QED
        BY <1>2, <1>3
    <2>2. \E k \in 1 .. inode[d].size : es[k].name = name
      BY <1>1
    <2>3. FindInDirectory(d, name) = es[c].inode
      BY <1>1, <2>2 DEF FindInDirectory
    <2>4. QED
      BY <2>1, <2>3
  <1>5. QED
    BY <1>1, <1>4 DEF Visible, Named, NameOf, EntryAt, Directories

\* It answers the inode of the visible entry with that name, as names differ ...
LEMMA FoundOne ==
    ASSUME Typed, NamesInv, NEW d, NEW k, Visible(d, k)
    PROVE  FindInDirectory(d, NameOf(d, k)) = Named(d, k)
  <1> DEFINE name == NameOf(d, k)
             es == entries[inode[d].block]
             found(j) == es[j].name = name /\ \A m \in 1 .. (j - 1) : es[m].name # name
             c == CHOOSE j \in 1 .. inode[d].size : found(j)
  <1>1. d \in Directories /\ k \in 1 .. inode[d].size /\ inode[d].size \in Nat
        /\ d # 0 /\ inode[d].type = "DIR"
    BY DEF Visible, Directories, Typed, Inodes
  <1>2. \A j \in 1 .. inode[d].size : es[j].name = name => j = k
    BY <1>1 DEF NamesInv, NamesDiffer, Visible, NameOf, EntryAt
  <1>3. es[k].name = name
    BY DEF NameOf, EntryAt
  <1>4. found(k)
    <2>1. ASSUME NEW m \in 1 .. (k - 1) PROVE es[m].name # name
      <3>1. m \in 1 .. inode[d].size /\ m # k
        BY <1>1
      <3>2. QED
        BY <1>2, <3>1
    <2>2. QED
      BY <1>3, <2>1
  <1>5. c \in 1 .. inode[d].size /\ found(c)
    <2> HIDE DEF found
    <2>1. QED
      BY <1>1, <1>4
  <1>6. c = k
    BY <1>2, <1>5
  <1>7. FindInDirectory(d, name) = es[c].inode
    BY <1>1, <1>3 DEF FindInDirectory
  <1>8. QED
    BY <1>6, <1>7 DEF Named, EntryAt

\* ... and 0 if there is none.
LEMMA FoundNone ==
    ASSUME Typed, NEW d \in inodeBitmap \cup {0}, NEW name,
           \A k : Visible(d, k) => NameOf(d, k) # name
    PROVE  FindInDirectory(d, name) = 0
  BY Found

\* The function that PathToInode chooses.
Reached(path) ==
    CHOOSE r : r = [k \in 0 .. Len(path) |->
                       IF k = 0 THEN Root ELSE FindInDirectory(r[k - 1], path[k])]

\* Walks(path, n, r): r holds what the first n names of path lead to.
Walks(path, n, r) ==
    r = [k \in 0 .. n |-> IF k = 0 THEN Root ELSE FindInDirectory(r[k - 1], path[k])]

\* One name more.
LEMMA WalkFurther ==
    ASSUME NEW path, NEW n \in Nat, NEW r, Walks(path, n, r)
    PROVE  \E q : Walks(path, n + 1, q)
  <1> DEFINE q == [k \in 0 .. (n + 1) |->
                      IF k = n + 1 THEN FindInDirectory(r[n], path[n + 1]) ELSE r[k]]
             F(k) == IF k = 0 THEN Root ELSE FindInDirectory(q[k - 1], path[k])
  <1>1. \A k \in 0 .. n : r[k] = IF k = 0 THEN Root ELSE FindInDirectory(r[k - 1], path[k])
    BY DEF Walks
  <1>2. ASSUME NEW k \in 0 .. (n + 1) PROVE q[k] = F(k)
    <2>1. CASE k = n + 1
      <3>1. k - 1 = n /\ n \in 0 .. (n + 1) /\ n # n + 1 /\ k # 0
        BY <2>1
      <3>2. q[k - 1] = r[n]
        BY <3>1
      <3>3. q[k] = FindInDirectory(r[n], path[n + 1])
        BY <2>1
      <3>4. QED
        BY <2>1, <3>1, <3>2, <3>3
    <2>2. CASE k = 0
      BY <1>1, <2>2
    <2>3. CASE k # 0 /\ k # n + 1
      <3>1. k \in 0 .. n /\ k - 1 \in 0 .. (n + 1) /\ k - 1 # n + 1
        BY <2>3
      <3>2. q[k - 1] = r[k - 1] /\ q[k] = r[k]
        BY <2>3, <3>1
      <3>3. r[k] = FindInDirectory(r[k - 1], path[k])
        BY <1>1, <2>3, <3>1
      <3>4. QED
        BY <2>3, <3>2, <3>3
    <2>4. QED
      BY <2>1, <2>2, <2>3
  <1>3. q = [k \in 0 .. (n + 1) |-> F(k)]
    <2> HIDE DEF F
    <2>1. QED
      BY <1>2
  <1>4. Walks(path, n + 1, q)
    <2> HIDE DEF q
    <2>1. QED
      BY <1>3 DEF Walks
  <1>5. QED
    BY <1>4

\* Every path can be walked.
LEMMA WalkExists ==
    ASSUME NEW path, NEW n \in Nat
    PROVE  \E r : Walks(path, n, r)
  <1> DEFINE Bad == {m \in Nat : ~ \E r : Walks(path, m, r)}
  <1>1. ASSUME Bad # {} PROVE FALSE
    <2> DEFINE m == Min(Bad)
    <2>1. m \in Bad /\ \A k \in Bad : m <= k
      BY <1>1, LeastIsMin
    <2>2. m # 0
      <3> DEFINE z == [k \in 0 .. 0 |-> Root]
                 F(k) == IF k = 0 THEN Root ELSE FindInDirectory(z[k - 1], path[k])
      <3>1. \A k \in 0 .. 0 : z[k] = F(k)
        OBVIOUS
      <3>2. z = [k \in 0 .. 0 |-> F(k)]
        <4> HIDE DEF F
        <4>1. QED
          BY <3>1
      <3>3. Walks(path, 0, z)
        <4> HIDE DEF z
        <4>1. QED
          BY <3>2 DEF Walks
      <3>4. QED
        BY <2>1, <3>3
    <2>3. PICK k \in Nat : k + 1 = m
      <3>1. m - 1 \in Nat /\ (m - 1) + 1 = m
        BY <2>1, <2>2
      <3>2. QED
        BY <3>1
    <2>4. k \notin Bad
      BY <2>1, <2>3
    <2>5. PICK r : Walks(path, k, r)
      BY <2>4
    <2>6. \E q : Walks(path, k + 1, q)
      BY <2>5, WalkFurther
    <2>7. QED
      BY <2>1, <2>3, <2>6
  <1>2. QED
    BY <1>1

\* PathToInode is where the walk of the whole path ends.
LEMMA PathWalk ==
    ASSUME NEW path, Len(path) \in Nat
    PROVE  Walks(path, Len(path), Reached(path)) /\ PathToInode(path) = Reached(path)[Len(path)]
  <1>1. \E r : Walks(path, Len(path), r)
    BY WalkExists
  <1>2. Reached(path) = CHOOSE r : Walks(path, Len(path), r)
    BY DEF Reached, Walks
  <1>3. PathToInode(path) = Reached(path)[Len(path)]
    BY DEF PathToInode, Reached
  <1>4. QED
    BY <1>1, <1>2, <1>3

\* "/" is the root; a longer path leads where its last name leads from the inode
\* of the path before it.
LEMMA LookUp ==
    ASSUME NEW path \in Seq(Names)
    PROVE  /\ path = <<>> => PathToInode(path) = Root
           /\ path # <<>> =>
                PathToInode(path) = FindInDirectory(PathToInode(Front(path)), Last(path))
  <1> DEFINE n == Len(path)
             front == Front(path)
             r == Reached(path)
             q == Reached(front)
  <1>1. n \in Nat /\ Walks(path, n, r) /\ PathToInode(path) = r[n]
    BY PathWalk, LenProperties
  <1>2. \A k \in 0 .. n : r[k] = IF k = 0 THEN Root ELSE FindInDirectory(r[k - 1], path[k])
    <2> HIDE DEF r
    <2>1. QED
      BY <1>1 DEF Walks
  <1>3. ASSUME path = <<>> PROVE PathToInode(path) = Root
    <2>1. n = 0
      BY <1>3, EmptySeq
    <2>2. QED
      BY <1>1, <1>2, <2>1
  <1>4. ASSUME path # <<>>
        PROVE  PathToInode(path) = FindInDirectory(PathToInode(front), Last(path))
    <2>1. PICK m \in Nat : n = m + 1
      <3>1. n \in Nat \ {0}
        BY <1>4, EmptySeq
      <3>2. n - 1 \in Nat /\ (n - 1) + 1 = n
        <4> HIDE DEF n
        <4>1. QED
          BY <3>1
      <3>3. QED
        BY <3>2
    <2>2. Len(front) = m /\ \A k \in 1 .. m : front[k] = path[k]
      <3>1. \A k \in 1 .. n : path[k] \in Names
        BY ElementOfSeq
      <3>2. 1 \in Int /\ m \in Int /\ \A k \in 1 .. m : path[k] \in Names
        BY <2>1, <3>1
      <3>3. /\ Len(SubSeq(path, 1, m)) = IF 1 <= m THEN m - 1 + 1 ELSE 0
            /\ \A k \in 1 .. (m - 1 + 1) : SubSeq(path, 1, m)[k] = path[1 + k - 1]
        BY <3>2, SubSeqProperties
      <3>4. n - 1 = m
        BY <2>1
      <3>5. front = SubSeq(path, 1, m)
        BY <3>4 DEF Front
      <3>6. QED
        BY <3>3, <3>5
    <2>3. Walks(front, m, q) /\ PathToInode(front) = q[m]
      BY <2>2, PathWalk
    <2>4. \A k \in 0 .. m : q[k] = IF k = 0 THEN Root ELSE FindInDirectory(q[k - 1], front[k])
      <3> HIDE DEF q, front
      <3>1. QED
        BY <2>3 DEF Walks
    <2> DEFINE Bad == {k \in 0 .. m : q[k] # r[k]}
    <2>5. ASSUME Bad # {} PROVE FALSE
      <3> DEFINE k == Min(Bad)
      <3>1. k \in Bad /\ \A j \in Bad : k <= j
        <4>1. Bad \subseteq Nat
          OBVIOUS
        <4>2. QED
          BY <2>5, <4>1, LeastIsMin
      <3>2. k \in 0 .. m /\ k \in 0 .. n /\ k \in Int
        BY <2>1, <3>1
      <3>3. k # 0
        BY <1>2, <2>4, <3>1, <3>2
      <3>4. k - 1 \in 0 .. m /\ ~(k <= k - 1) /\ k \in 1 .. m
        <4> HIDE DEF k
        <4>1. QED
          BY <3>2, <3>3
      <3>5. q[k - 1] = r[k - 1]
        BY <3>1, <3>4
      <3>6. q[k] = FindInDirectory(q[k - 1], front[k]) /\ r[k] = FindInDirectory(r[k - 1], path[k])
        BY <1>2, <2>4, <3>2, <3>3
      <3>7. QED
        BY <2>2, <3>1, <3>4, <3>5, <3>6
    <2>6. q[m] = r[m]
      BY <2>5
    <2>7. n \in 0 .. n /\ n # 0 /\ n - 1 = m
      BY <2>1
    <2>8. r[n] = FindInDirectory(r[m], path[n])
      BY <1>2, <2>7
    <2>9. QED
      BY <1>1, <2>3, <2>6, <2>8 DEF Last
  <1>5. QED
    BY <1>3, <1>4

\* A path leads nowhere or to an inode in use.
LEMMA PathInUse ==
    ASSUME TreeInv, NEW path \in Seq(Names)
    PROVE  PathToInode(path) \in inodeBitmap \cup {0}
  <1> DEFINE n == Len(path)
             r == Reached(path)
             Bad == {k \in 0 .. n : r[k] \notin inodeBitmap \cup {0}}
  <1>1. n \in Nat /\ Walks(path, n, r) /\ PathToInode(path) = r[n]
    BY PathWalk, LenProperties
  <1>2. \A k \in 0 .. n : r[k] = IF k = 0 THEN Root ELSE FindInDirectory(r[k - 1], path[k])
    <2> HIDE DEF r
    <2>1. QED
      BY <1>1 DEF Walks
  <1>3. Root \in inodeBitmap
    BY DEF TreeInv, Typed, Directories
  <1>4. ASSUME Bad # {} PROVE FALSE
    <2> DEFINE k == Min(Bad)
    <2>1. k \in Bad /\ \A j \in Bad : k <= j
      <3>1. Bad \subseteq Nat
        OBVIOUS
      <3>2. QED
        BY <1>4, <3>1, LeastIsMin
    <2>2. k \in 0 .. n /\ k \in Int
      BY <2>1
    <2>3. k # 0
      BY <1>2, <1>3, <2>1, <2>2
    <2>4. k - 1 \in 0 .. n /\ ~(k <= k - 1)
      <3> HIDE DEF k
      <3>1. QED
        BY <1>1, <2>2, <2>3
    <2>5. r[k - 1] \in inodeBitmap \cup {0}
      BY <2>1, <2>4
    <2>6. r[k] = FindInDirectory(r[k - 1], path[k]) /\ r[k] # 0
      BY <1>2, <2>1, <2>2, <2>3
    <2>7. \E j : Visible(r[k - 1], j) /\ Named(r[k - 1], j) = r[k]
      <3> HIDE DEF r
      <3>1. QED
        BY <2>5, <2>6, Found DEF TreeInv
    <2>8. r[k] \in inodeBitmap
      <3> HIDE DEF r
      <3>1. QED
        BY <2>7 DEF TreeInv, NamesInv, NamesInUse
    <2>9. QED
      BY <2>1, <2>8
  <1>5. n \in 0 .. n
    BY <1>1
  <1>6. QED
    BY <1>1, <1>4, <1>5

(***************************************************************************)
(* What the names say after a step.                                        *)
(***************************************************************************)

\* A step leaves the visible entries alone.
SameEntries ==
    /\ \A d, k : Visible(d, k)' <=> Visible(d, k)
    /\ \A d, k : Visible(d, k) => EntryAt(d, k)' = EntryAt(d, k)

\* Entry n of directory d becomes visible and gives name to inode i.
Appended(d, n, name, i) ==
    /\ ~ Visible(d, n)
    /\ EntryAt(d, n)' = [name |-> name, inode |-> i]
    /\ \A e, k : Visible(e, k)' <=> Visible(e, k) \/ (e = d /\ k = n)
    /\ \A e, k : Visible(e, k) => EntryAt(e, k)' = EntryAt(e, k)

\* Entry g of the n entries of directory d goes; those behind it move down.
TakenOut(d, n, g) ==
    /\ n \in Nat /\ g \in 1 .. n
    /\ \A k : Visible(d, k) <=> k \in 1 .. n
    /\ \A k : Visible(d, k)' <=> k \in 1 .. (n - 1)
    /\ \A e, k : e # d => (Visible(e, k)' <=> Visible(e, k))
    /\ \A e, k : e # d /\ Visible(e, k) => EntryAt(e, k)' = EntryAt(e, k)
    /\ \A k \in 1 .. (n - 1) :
          EntryAt(d, k)' = IF k < g THEN EntryAt(d, k) ELSE EntryAt(d, k + 1)

\* The step makes path a name of inode i.
NameComes(path, i) ==
    \E d \in Directories : \E n : d = PathToInode(Front(path)) /\ Appended(d, n, Last(path), i)

\* The step takes path, the name of inode i, away.
NameGoes(path, i) ==
    \E d \in Directories : \E n, g :
        /\ d = PathToInode(Front(path)) /\ TakenOut(d, n, g)
        /\ Named(d, g) = i /\ NameOf(d, g) = Last(path)

\* The step keeps the types of the inodes js and the sizes of the files.
KeepsInodes(js) ==
    \A j \in js :
        /\ inode'[j].type = inode[j].type
        /\ inode[j].type = "FILE" => inode'[j].size = inode[j].size

\* Where the entry that is at k of directory e was before that.
Was(e, k, d, g) == IF e = d /\ ~(k < g) THEN k + 1 ELSE k

\* A step that leaves the bitmap of inodes and the entries alone leaves the names alone.
LEMMA SameNames ==
    ASSUME NamesInv, UNCHANGED inodeBitmap, SameEntries
    PROVE  NamesInv'
  <1>1. \A d, k : Visible(d, k) => Named(d, k)' = Named(d, k) /\ NameOf(d, k)' = NameOf(d, k)
    BY DEF SameEntries, Named, NameOf
  <1>2. \A d, k : Visible(d, k)' <=> Visible(d, k)
    BY DEF SameEntries
  <1>3. NamesInUse'
    BY <1>1, <1>2 DEF NamesInv, NamesInUse
  <1>4. AllNamed'
    BY <1>1, <1>2 DEF NamesInv, AllNamed
  <1>5. NamedOnce'
    BY <1>1, <1>2 DEF NamesInv, NamedOnce
  <1>6. NamesDiffer'
    BY <1>1, <1>2 DEF NamesInv, NamesDiffer
  <1>7. QED
    BY <1>3, <1>4, <1>5, <1>6 DEF NamesInv

\* A new name, for an inode that was not in use.
LEMMA NameAdded ==
    ASSUME NamesInv, Root \in inodeBitmap, NEW i, i \notin inodeBitmap,
           NEW d, NEW n, NEW name, Appended(d, n, name, i),
           inodeBitmap' = inodeBitmap \cup {i},
           \A k : Visible(d, k) => NameOf(d, k) # name
    PROVE  NamesInv'
  <1>1. \A e, k : Visible(e, k) => Named(e, k) # i
    BY DEF NamesInv, NamesInUse
  <1>2. /\ ~ Visible(d, n) /\ Named(d, n)' = i /\ NameOf(d, n)' = name
        /\ \A e, k : Visible(e, k)' <=> Visible(e, k) \/ (e = d /\ k = n)
        /\ \A e, k : Visible(e, k) => Named(e, k)' = Named(e, k) /\ NameOf(e, k)' = NameOf(e, k)
    BY DEF Appended, Named, NameOf
  <1>3. NamesInUse'
    BY <1>2 DEF NamesInv, NamesInUse
  <1>4. AllNamed'
    BY <1>2 DEF NamesInv, AllNamed
  <1>5. NamedOnce'
    BY <1>1, <1>2 DEF NamesInv, NamedOnce
  <1>6. NamesDiffer'
    BY <1>2 DEF NamesInv, NamesDiffer
  <1>7. QED
    BY <1>3, <1>4, <1>5, <1>6 DEF NamesInv

\* Where the entries come from when one is taken out.
LEMMA MovedDown ==
    ASSUME NEW d, NEW n, NEW g, TakenOut(d, n, g)
    PROVE  /\ \A e, k : Visible(e, k)' =>
                /\ Visible(e, Was(e, k, d, g)) /\ ~(e = d /\ Was(e, k, d, g) = g)
                /\ EntryAt(e, k)' = EntryAt(e, Was(e, k, d, g))
           /\ \A e, k : Visible(e, k) /\ ~(e = d /\ k = g) =>
                \E j : Visible(e, j)' /\ Was(e, j, d, g) = k
           /\ \A e, j, k : Visible(e, j)' /\ Visible(e, k)' /\ Was(e, j, d, g) = Was(e, k, d, g)
                           => j = k
           /\ Visible(d, g)
  <1>1. /\ n \in Nat /\ g \in 1 .. n
        /\ \A k : Visible(d, k) <=> k \in 1 .. n
        /\ \A k : Visible(d, k)' <=> k \in 1 .. (n - 1)
        /\ \A e, k : e # d => (Visible(e, k)' <=> Visible(e, k))
    BY DEF TakenOut
  <1>2. /\ \A e, k : e # d /\ Visible(e, k) => EntryAt(e, k)' = EntryAt(e, k)
        /\ \A k \in 1 .. (n - 1) :
              EntryAt(d, k)' = IF k < g THEN EntryAt(d, k) ELSE EntryAt(d, k + 1)
    BY DEF TakenOut
  <1>3. ASSUME NEW e, NEW k, Visible(e, k)'
        PROVE  /\ Visible(e, Was(e, k, d, g)) /\ ~(e = d /\ Was(e, k, d, g) = g)
               /\ EntryAt(e, k)' = EntryAt(e, Was(e, k, d, g))
               /\ e = d => k \in Int
    <2>1. CASE e # d
      BY <1>1, <1>2, <1>3, <2>1 DEF Was
    <2>2. CASE e = d
      <3>1. k \in 1 .. (n - 1)
        BY <1>1, <1>3, <2>2
      <3>2. k \in Int /\ k \in 1 .. n /\ k + 1 \in 1 .. n /\ (~(k < g) => k + 1 # g)
        BY <1>1, <3>1
      <3>3. EntryAt(e, k)' = EntryAt(e, Was(e, k, d, g))
        BY <1>2, <2>2, <3>1 DEF Was
      <3>4. Was(e, k, d, g) \in 1 .. n /\ Was(e, k, d, g) # g
        BY <1>1, <2>2, <3>2 DEF Was
      <3>5. QED
        BY <1>1, <2>2, <3>2, <3>3, <3>4
    <2>3. QED
      BY <2>1, <2>2
  <1>4. ASSUME NEW e, NEW k, Visible(e, k), ~(e = d /\ k = g)
        PROVE  \E j : Visible(e, j)' /\ Was(e, j, d, g) = k
    <2>1. CASE e # d
      BY <1>1, <1>4, <2>1 DEF Was
    <2>2. CASE e = d /\ k < g
      <3>1. k \in 1 .. n
        BY <1>1, <1>4, <2>2
      <3>2. k \in 1 .. (n - 1)
        BY <1>1, <2>2, <3>1
      <3>3. QED
        BY <1>1, <2>2, <3>2 DEF Was
    <2>3. CASE e = d /\ ~(k < g)
      <3>1. k \in 1 .. n /\ k # g
        BY <1>1, <1>4, <2>3
      <3>2. k - 1 \in 1 .. (n - 1) /\ ~(k - 1 < g) /\ (k - 1) + 1 = k
        BY <1>1, <2>3, <3>1
      <3>3. QED
        BY <1>1, <2>3, <3>2 DEF Was
    <2>4. QED
      BY <2>1, <2>2, <2>3
  <1>5. ASSUME NEW e, NEW j, NEW k, Visible(e, j)', Visible(e, k)', Was(e, j, d, g) = Was(e, k, d, g)
        PROVE  j = k
    <2>1. CASE e # d
      BY <1>5, <2>1 DEF Was
    <2>2. CASE e = d
      <3>1. j \in Int /\ k \in Int
        BY <1>3, <1>5, <2>2
      <3>2. QED
        BY <1>1, <1>5, <2>2, <3>1 DEF Was
    <2>3. QED
      BY <2>1, <2>2
  <1>6. Visible(d, g)
    BY <1>1
  <1>7. QED
    BY <1>3, <1>4, <1>5, <1>6

\* A name taken out, with its inode.
LEMMA NameRemoved ==
    ASSUME NamesInv, NEW i, NEW d, NEW n, NEW g, TakenOut(d, n, g), Named(d, g) = i,
           inodeBitmap' = inodeBitmap \ {i}
    PROVE  NamesInv'
  <1> DEFINE was(e, k) == Was(e, k, d, g)
  <1>1. /\ \A e, k : Visible(e, k)' =>
             /\ Visible(e, was(e, k)) /\ ~(e = d /\ was(e, k) = g)
             /\ EntryAt(e, k)' = EntryAt(e, was(e, k))
        /\ \A e, k : Visible(e, k) /\ ~(e = d /\ k = g) => \E j : Visible(e, j)' /\ was(e, j) = k
        /\ \A e, j, k : Visible(e, j)' /\ Visible(e, k)' /\ was(e, j) = was(e, k) => j = k
        /\ Visible(d, g)
    BY MovedDown
  <1> HIDE DEF was
  <1>2. \A e, k : Visible(e, k)' =>
            Named(e, k)' = Named(e, was(e, k)) /\ NameOf(e, k)' = NameOf(e, was(e, k))
    BY <1>1 DEF Named, NameOf
  <1>3. NamesInUse'
    <2>1. ASSUME NEW e, NEW k, Visible(e, k)'
          PROVE  Named(e, k)' \in inodeBitmap \ {Root} /\ Named(e, k)' # i
      <3>1. Visible(e, was(e, k)) /\ Named(e, k)' = Named(e, was(e, k))
        BY <1>1, <1>2, <2>1
      <3>2. Named(e, was(e, k)) = i => e = d /\ was(e, k) = g
        BY <1>1, <3>1 DEF NamesInv, NamedOnce
      <3>3. QED
        BY <1>1, <2>1, <3>1, <3>2 DEF NamesInv, NamesInUse
    <2>2. QED
      BY <2>1 DEF NamesInUse
  <1>4. AllNamed'
    <2>1. ASSUME NEW j \in inodeBitmap' \ {Root}
          PROVE  \E e, k : Visible(e, k)' /\ Named(e, k)' = j
      <3>1. PICK e, k : Visible(e, k) /\ Named(e, k) = j
        BY <2>1 DEF NamesInv, AllNamed
      <3>2. ~(e = d /\ k = g)
        BY <2>1, <3>1
      <3>3. PICK m : Visible(e, m)' /\ was(e, m) = k
        BY <1>1, <3>1, <3>2
      <3>4. QED
        BY <1>2, <3>1, <3>3
    <2>2. QED
      BY <2>1 DEF AllNamed
  <1>5. NamedOnce'
    <2>1. ASSUME NEW e, NEW j, NEW f, NEW k, Visible(e, j)', Visible(f, k)',
                 Named(e, j)' = Named(f, k)'
          PROVE  e = f /\ j = k
      <3>1. /\ Visible(e, was(e, j)) /\ Visible(f, was(f, k))
            /\ Named(e, was(e, j)) = Named(f, was(f, k))
        BY <1>1, <1>2, <2>1
      <3>2. e = f /\ was(e, j) = was(f, k)
        BY <3>1 DEF NamesInv, NamedOnce
      <3>3. QED
        BY <1>1, <2>1, <3>2
    <2>2. QED
      BY <2>1 DEF NamedOnce
  <1>6. NamesDiffer'
    <2>1. ASSUME NEW e, NEW j, NEW k, Visible(e, j)', Visible(e, k)', NameOf(e, j)' = NameOf(e, k)'
          PROVE  j = k
      <3>1. /\ Visible(e, was(e, j)) /\ Visible(e, was(e, k))
            /\ NameOf(e, was(e, j)) = NameOf(e, was(e, k))
        BY <1>1, <1>2, <2>1
      <3>2. was(e, j) = was(e, k)
        BY <3>1 DEF NamesInv, NamesDiffer
      <3>3. QED
        BY <1>1, <2>1, <3>2
    <2>2. QED
      BY <2>1 DEF NamesDiffer
  <1>7. QED
    BY <1>3, <1>4, <1>5, <1>6 DEF NamesInv

(***************************************************************************)
(* Blocks and entries.                                                     *)
(***************************************************************************)

\* The path before the last name, and the last name.
LEMMA PathParts ==
    ASSUME NEW path \in Paths, path # <<>>
    PROVE  Front(path) \in Seq(Names) /\ Last(path) \in Names /\ path \in Seq(Names)
  <1>1. path \in Seq(Names)
    BY RfsAssumption
  <1>2. PICK n \in Nat : Len(path) = n /\ n # 0
    BY <1>1, EmptySeq, LenProperties
  <1>3. \A k \in 1 .. n : path[k] \in Names
    BY <1>1, <1>2, ElementOfSeq
  <1>4. \A k \in 1 .. (n - 1) : path[k] \in Names
    BY <1>3
  <1>5. SubSeq(path, 1, n - 1) \in Seq(Names)
    <2>1. 1 \in Int /\ n - 1 \in Int
      OBVIOUS
    <2>2. QED
      BY <1>4, <2>1, SubSeqProperties
  <1>6. n \in 1 .. n
    BY <1>2
  <1>7. QED
    BY <1>1, <1>2, <1>3, <1>5, <1>6 DEF Front, Last

\* The entries that a directory's size makes visible.
LEMMA VisibleOnes ==
    ASSUME Typed, DirectoriesHold, NEW d \in Directories
    PROVE  /\ inode[d].size \in Nat /\ inode[d].block \in 0 .. NumBlocks
           /\ superblock => inode[d].block \in 1 .. NumBlocks
           /\ VisibleEntries(d) \in Seq(Entry) /\ Len(VisibleEntries(d)) = inode[d].size
           /\ \A k \in 1 .. inode[d].size :
                 /\ VisibleEntries(d)[k] = entries[inode[d].block][k]
                 /\ entries[inode[d].block][k] \in Entry
  <1> DEFINE es == entries[inode[d].block]
  <1>1. PICK n \in Nat : n = inode[d].size
    BY DEF Typed, Directories
  <1>2. /\ inode[d].block \in 0 .. NumBlocks
        /\ superblock => inode[d].block \in 1 .. NumBlocks
    <2>1. d \in Inodes /\ inode[d].block \in 0 .. NumBlocks
      BY DEF Typed, Directories
    <2>2. superblock => inode[d].block # 0
      BY DEF DirectoriesHold
    <2>3. QED
      BY <2>1, <2>2, RfsAssumption
  <1>3. es \in Seq(Entry) /\ n <= Len(es)
    BY <1>1, <1>2 DEF Typed, DirectoriesHold
  <1> HIDE DEF es
  <1>4. \A k \in 1 .. n : es[k] \in Entry
    <2>1. Len(es) \in Nat
      BY <1>3, LenProperties
    <2>2. \A k \in 1 .. n : k \in 1 .. Len(es)
      BY <1>3, <2>1
    <2>3. QED
      BY <1>3, <2>2, ElementOfSeq
  <1>5. /\ SubSeq(es, 1, n) \in Seq(Entry)
        /\ Len(SubSeq(es, 1, n)) = IF 1 <= n THEN n - 1 + 1 ELSE 0
        /\ \A k \in 1 .. (n - 1 + 1) : SubSeq(es, 1, n)[k] = es[1 + k - 1]
    <2>1. 1 \in Int /\ n \in Int
      OBVIOUS
    <2>2. QED
      BY <1>4, <2>1, SubSeqProperties
  <1>6. VisibleEntries(d) = SubSeq(es, 1, n)
    BY <1>1 DEF VisibleEntries, es
  <1>7. Len(SubSeq(es, 1, n)) = n /\ \A k \in 1 .. n : SubSeq(es, 1, n)[k] = es[k]
    <2>1. \A k \in 1 .. n : k \in 1 .. (n - 1 + 1) /\ 1 + k - 1 = k
      OBVIOUS
    <2>2. QED
      BY <1>5, <2>1
  <1>8. QED
    BY <1>1, <1>2, <1>4, <1>5, <1>6, <1>7 DEF es

\* The entries es of directory d with one more, which gives name to inode i.
OneMore(es, d, name, i) ==
    /\ es \in Seq(Entry) /\ Len(es) = inode[d].size + 1
    /\ \A k \in 1 .. inode[d].size : es[k] = entries[inode[d].block][k]
    /\ es[inode[d].size + 1] = [name |-> name, inode |-> i]

\* The entries es of directory d without entry g, which is for inode i.
OneLess(es, d, g, i) ==
    /\ es \in Seq(Entry) /\ Len(es) = inode[d].size
    /\ g \in 1 .. inode[d].size /\ Named(d, g) = i
    /\ \A k \in 1 .. (inode[d].size - 1) :
          es[k] = entries[inode[d].block][IF k < g THEN k ELSE k + 1]

\* A directory's block with one more entry.
LEMMA EntryAdded ==
    ASSUME Typed, DirectoriesHold, NEW path \in Paths, path # <<>>, NEW i \in Inodes,
           NEW d \in Directories, d = PathToInode(Front(path))
    PROVE  \E es : /\ OneMore(es, d, Last(path), i)
                   /\ WithEntry(path, i) = [entries EXCEPT ![inode[d].block] = es]
  <1> DEFINE e == [name |-> Last(path), inode |-> i]
             v == VisibleEntries(d)
             es == Append(v, e)
  <1>1. WithEntry(path, i) = [entries EXCEPT ![inode[d].block] = es]
    BY DEF WithEntry
  <1>2. e \in Entry
    BY PathParts DEF Entry
  <1>3. e = [name |-> Last(path), inode |-> i]
    OBVIOUS
  <1>4. /\ v \in Seq(Entry) /\ Len(v) = inode[d].size
        /\ \A k \in 1 .. inode[d].size : v[k] = entries[inode[d].block][k]
    BY VisibleOnes
  <1> HIDE DEF e, v
  <1>5. /\ es \in Seq(Entry) /\ Len(es) = Len(v) + 1
        /\ \A k \in 1 .. Len(v) : es[k] = v[k]
        /\ es[Len(v) + 1] = e
    BY <1>2, <1>4, AppendProperties
  <1> HIDE DEF es
  <1>6. QED
    BY <1>1, <1>3, <1>4, <1>5 DEF OneMore

\* A directory's block after the entry for inode i is taken out.
LEMMA EntryRemoved ==
    ASSUME Typed, DirectoriesHold, NEW path, NEW i,
           NEW d \in Directories, d = PathToInode(Front(path)),
           \E k : Visible(d, k) /\ Named(d, k) = i
    PROVE  \E es, g : /\ OneLess(es, d, g, i)
                      /\ WithoutEntry(path, i) = [entries EXCEPT ![inode[d].block] = es]
  <1> DEFINE n == inode[d].size
             old == entries[inode[d].block]
             v == VisibleEntries(d)
             g == CHOOSE k \in 1 .. n : v[k].inode = i
             at(k) == IF k < g \/ k = n THEN v[k] ELSE v[k + 1]
             es == [k \in 1 .. n |-> at(k)]
  <1>1. WithoutEntry(path, i) = [entries EXCEPT ![inode[d].block] = es]
    BY DEF WithoutEntry
  <1>2. /\ n \in Nat
        /\ \A k \in 1 .. n : v[k] = old[k] /\ old[k] \in Entry
    BY VisibleOnes
  <1>3. g \in 1 .. n /\ Named(d, g) = i
    <2>1. PICK k : k \in 1 .. n /\ old[k].inode = i
      BY DEF Visible, Named, EntryAt
    <2>2. v[k].inode = i
      BY <1>2, <2>1
    <2>3. g \in 1 .. n /\ v[g].inode = i
      BY <2>1, <2>2
    <2>4. QED
      BY <1>2, <2>3 DEF Named, EntryAt
  <1> HIDE DEF n, g, v, old
  <1>4. \A k \in 1 .. n : at(k) \in Entry
    <2>1. ASSUME NEW k \in 1 .. n, k # n PROVE k + 1 \in 1 .. n
      BY <1>2, <2>1
    <2>2. QED
      BY <1>2, <2>1
  <1>5. es \in Seq(Entry)
    <2> HIDE DEF at
    <2>1. QED
      BY <1>2, <1>4, IsASeq
  <1>6. Len(es) = n
    BY <1>2
  <1>7. ASSUME NEW k \in 1 .. (n - 1)
        PROVE  es[k] = old[IF k < g THEN k ELSE k + 1]
    <2>1. k \in 1 .. n /\ k # n /\ k + 1 \in 1 .. n
      BY <1>2
    <2>2. QED
      BY <1>2, <2>1
  <1> HIDE DEF es
  <1>8. QED
    <2>1. OneLess(es, d, g, i)
      BY <1>3, <1>5, <1>6, <1>7 DEF n, old, OneLess
    <2>2. QED
      BY <1>1, <2>1

(***************************************************************************)
(* The steps on the disk.                                                  *)
(***************************************************************************)

\* Only a directory without a block of its own costs the superblock.
SparesSuperblock(type, b) ==
    superblock' \in BOOLEAN /\ (superblock' => type # "DIR" \/ b # 0)

\* Creating a file or a directory with inode i and block b (0 for none).
LEMMA Creation ==
    ASSUME TreeInv, superblock, NEW path \in Paths, CanCreate(path), NEW i, FirstFreeInode(i),
           NEW type \in Types, NEW b \in (0 .. NumBlocks) \ blockBitmap,
           inodeBitmap' = inodeBitmap \cup {i},
           NEW d, d = PathToInode(Front(path)),
           inode' = [Resized(inode, d, inode[d].size + 1)
                        EXCEPT ![i] = [type |-> type, size |-> 0, block |-> b]],
           entries' = WithEntry(path, i),
           moreBlocks' = [moreBlocks EXCEPT ![i] = {}],
           blockBitmap' = blockBitmap \cup ({b} \ {0}),
           SparesSuperblock(type, b)
    PROVE  /\ TreeInv' /\ inode'[i].type = type /\ inode'[i].size = 0
           /\ KeepsInodes(inodeBitmap) /\ NameComes(path, i)
  <1> USE RfsAssumption
  <1>1. /\ Typed /\ DirectoriesHold /\ NamesInv /\ BlocksOwned
        /\ path # <<>> /\ i \in Inodes /\ i \notin inodeBitmap
        /\ superblock' \in BOOLEAN /\ (superblock' => type # "DIR" \/ b # 0)
    BY DEF TreeInv, CanCreate, FirstFreeInode, SparesSuperblock
  <1>2. d \in Directories /\ d \in inodeBitmap /\ d \in Inodes /\ i # d
    <2>1. d \in inodeBitmap \cup {0}
      BY <1>1, PathParts, PathInUse
    <2>2. d # 0 /\ inode[d].type = "DIR"
      BY DEF CanCreate
    <2>3. QED
      BY <1>1, <2>1, <2>2 DEF Directories, Typed
  <1>3. inode[d].size \in Nat /\ inode[d].block \in 1 .. NumBlocks
    BY <1>1, <1>2, VisibleOnes
  <1>4. PICK n \in Nat : n = inode[d].size
    BY <1>3
  <1>5. PICK B \in 1 .. NumBlocks : B = inode[d].block
    BY <1>3
  <1>6. n + 1 \in Nat /\ n + 1 \notin 1 .. n
    OBVIOUS
  <1>7. PICK es \in Seq(Entry) :
              /\ entries' = [entries EXCEPT ![B] = es]
              /\ Len(es) = n + 1
              /\ \A k \in 1 .. n : es[k] = entries[B][k]
              /\ es[n + 1] = [name |-> Last(path), inode |-> i]
    <2>1. PICK es : /\ OneMore(es, d, Last(path), i)
                    /\ WithEntry(path, i) = [entries EXCEPT ![inode[d].block] = es]
      BY <1>1, <1>2, EntryAdded
    <2>2. QED
      BY <1>4, <1>5, <2>1 DEF OneMore
  <1>8. /\ inode'[i] = [type |-> type, size |-> 0, block |-> b]
        /\ inode'[d] = [inode[d] EXCEPT !.size = n + 1]
        /\ \A j \in Inodes \ {i, d} : inode'[j] = inode[j]
        /\ DOMAIN inode' = Inodes
    BY <1>1, <1>2, <1>4 DEF Typed, Resized
  <1>9. /\ inode'[d].size = n + 1 /\ inode'[d].block = B /\ inode'[d].type = "DIR"
        /\ inode'[i].size = 0 /\ inode'[i].block = b /\ inode'[i].type = type
        /\ inode[d].type = "DIR"
    <2>1. inode[d] \in [type : Types, size : Nat, block : 0 .. NumBlocks] /\ inode[d].type = "DIR"
      BY <1>1, <1>2 DEF Typed, Directories
    <2>2. \A r \in [type : Types, size : Nat, block : 0 .. NumBlocks] :
            /\ [r EXCEPT !.size = n + 1].size = n + 1
            /\ [r EXCEPT !.size = n + 1].block = r.block
            /\ [r EXCEPT !.size = n + 1].type = r.type
      OBVIOUS
    <2>3. QED
      BY <1>5, <1>8, <2>1, <2>2
  <1>10. inode' \in [Inodes -> [type : Types, size : Nat, block : 0 .. NumBlocks]]
    <2> DEFINE Record == [type : Types, size : Nat, block : 0 .. NumBlocks]
    <2>1. [type |-> type, size |-> 0, block |-> b] \in Record
      OBVIOUS
    <2>2. inode \in [Inodes -> Record]
      BY <1>1 DEF Typed
    <2>3. [inode[d] EXCEPT !.size = n + 1] \in Record
      <3>1. inode[d] \in Record
        BY <1>2, <2>2
      <3>2. QED
        BY <1>6, <3>1
    <2> HIDE DEF Record
    <2>4. \A j \in Inodes : inode'[j] \in Record
      BY <1>8, <2>1, <2>2, <2>3
    <2>5. inode' = [j \in Inodes |-> inode'[j]]
      BY <1>1, <2>2 DEF Resized
    <2>6. inode' \in [Inodes -> Record]
      BY <2>4, <2>5
    <2>7. QED
      BY <2>6 DEF Record
  <1>11. /\ entries' \in [0 .. NumBlocks -> Seq(Entry)] /\ entries'[B] = es
        /\ \A x \in (0 .. NumBlocks) \ {B} : entries'[x] = entries[x]
    BY <1>1, <1>6, <1>7 DEF Typed
  <1>12. \A e : e \in Directories' <=> e \in Directories \/ (e = i /\ type = "DIR")
    <2>1. ASSUME NEW e
          PROVE  e \in Directories' <=> e \in Directories \/ (e = i /\ type = "DIR")
      <3>1. e \in Directories' <=> e \in inodeBitmap \cup {i} /\ inode'[e].type = "DIR"
        BY DEF Directories
      <3>2. CASE e = i
        BY <1>1, <1>9, <3>1, <3>2 DEF Directories
      <3>3. CASE e = d
        BY <1>2, <1>9, <3>1, <3>3
      <3>4. CASE e # i /\ e # d
        <4>1. e \in inodeBitmap => inode'[e] = inode[e]
          BY <1>1, <1>8, <3>4 DEF Typed
        <4>2. QED
          BY <3>1, <3>4, <4>1 DEF Directories
      <3>5. QED
        BY <3>2, <3>3, <3>4
    <2>2. QED
      BY <2>1
  <1>13. \A e \in Directories : e # d =>
            /\ e # i /\ e \in Inodes /\ inode'[e] = inode[e]
            /\ inode[e].block \in (0 .. NumBlocks) \ {B}
    <2>1. ASSUME NEW e \in Directories, e # d
          PROVE  e # i /\ e \in Inodes /\ inode'[e] = inode[e]
      BY <1>1, <1>8, <2>1 DEF Directories, Typed
    <2>2. ASSUME NEW e \in Directories, e # d
          PROVE  inode[e].block \in (0 .. NumBlocks) \ {B}
      <3>1. e \in inodeBitmap /\ B \in BlocksOf(d) /\ BlocksOf(e) \cap BlocksOf(d) = {}
        <4>1. e \in inodeBitmap
          BY <2>2 DEF Directories
        <4>2. B \in BlocksOf(d)
          BY <1>5 DEF BlocksOf
        <4>3. BlocksOf(e) \cap BlocksOf(d) = {}
          BY <1>1, <1>2, <2>2, <4>1 DEF BlocksOwned
        <4>4. QED
          BY <4>1, <4>2, <4>3
      <3>2. inode[e].block # B
        <4>1. B # 0
          OBVIOUS
        <4>2. inode[e].block = B => B \in BlocksOf(e)
          BY <4>1 DEF BlocksOf
        <4>3. QED
          BY <3>1, <4>2
      <3>3. QED
        BY <1>1, <2>1, <2>2, <3>2 DEF Typed
    <2>3. QED
      BY <2>1, <2>2
  <1>14. Typed'
    <2>1. inodeBitmap' \subseteq Inodes /\ blockBitmap' \subseteq 1 .. NumBlocks
      BY <1>1 DEF Typed
    <2>2. Root \in Directories' /\ superblock' \in BOOLEAN
          /\ moreBlocks' \in [Inodes -> SUBSET (1 .. NumBlocks)]
      BY <1>1, <1>12 DEF Typed
    <2>3. ASSUME NEW j \in inodeBitmap', inode'[j].type = "FILE"
          PROVE  inode'[j].size <= MaxSize
      <3>1. j # d
        BY <1>9, <2>3
      <3>2. CASE j = i
        BY <1>9, <3>2
      <3>3. CASE j # i
        <4>1. j \in inodeBitmap /\ j \in Inodes /\ inode'[j] = inode[j]
          BY <1>1, <1>8, <3>1, <3>3 DEF Typed
        <4>2. QED
          BY <1>1, <2>3, <4>1 DEF Typed
      <3>4. QED
        BY <3>2, <3>3
    <2>4. QED
      BY <1>10, <1>11, <2>1, <2>2, <2>3 DEF Typed
  <1>15. DirectoriesHold'
    <2>1. ASSUME NEW e \in Directories'
          PROVE  /\ superblock' => inode'[e].block # 0
                 /\ inode'[e].size <= Len(entries'[inode'[e].block])
      <3>1. CASE e = d
        BY <1>6, <1>7, <1>9, <1>11, <3>1
      <3>2. CASE e = i
        <4>1. type = "DIR"
          BY <1>1, <1>12, <2>1, <3>2 DEF Directories
        <4>2. entries'[b] \in Seq(Entry)
          BY <1>11
        <4>3. Len(entries'[b]) \in Nat
          BY <4>2, LenProperties
        <4>4. superblock' => b # 0
          BY <1>1, <4>1
        <4>5. QED
          BY <1>9, <3>2, <4>3, <4>4
      <3>3. CASE e # d /\ e # i
        <4>1. e \in Directories
          BY <1>12, <2>1, <3>3
        <4>2. inode'[e] = inode[e] /\ entries'[inode[e].block] = entries[inode[e].block]
          BY <1>11, <1>13, <3>3, <4>1
        <4>3. QED
          BY <1>1, <4>1, <4>2 DEF DirectoriesHold
      <3>4. QED
        BY <3>1, <3>2, <3>3
    <2>2. QED
      BY <2>1 DEF DirectoriesHold
  <1>16. Appended(d, n + 1, Last(path), i)
    <2>1. ASSUME NEW e, NEW k
          PROVE  Visible(e, k)' <=> Visible(e, k) \/ (e = d /\ k = n + 1)
      <3>1. CASE e = d
        <4>1. Visible(e, k)' <=> k \in 1 .. (n + 1)
          BY <1>2, <1>9, <1>12, <3>1 DEF Visible
        <4>2. Visible(e, k) <=> k \in 1 .. n
          BY <1>2, <1>4, <3>1 DEF Visible
        <4>3. k \in 1 .. (n + 1) <=> k \in 1 .. n \/ k = n + 1
          BY <1>6
        <4>4. QED
          BY <3>1, <4>1, <4>2, <4>3
      <3>2. CASE e = i
        <4>1. ~ Visible(e, k) /\ e # d
          BY <1>1, <1>2, <3>2 DEF Visible, Directories
        <4>2. ~ Visible(e, k)'
          BY <1>9, <3>2 DEF Visible
        <4>3. QED
          BY <4>1, <4>2
      <3>3. CASE e # d /\ e # i
        BY <1>12, <1>13, <3>3 DEF Visible
      <3>4. QED
        BY <3>1, <3>2, <3>3
    <2>2. ASSUME NEW e, NEW k, Visible(e, k)
          PROVE  EntryAt(e, k)' = EntryAt(e, k)
      <3>1. CASE e = d
        <4>1. k \in 1 .. n
          BY <1>4, <2>2, <3>1 DEF Visible
        <4>2. entries'[inode'[e].block] = es /\ entries[inode[e].block] = entries[B]
          BY <1>9, <1>11, <1>5, <3>1
        <4>3. QED
          BY <1>7, <4>1, <4>2 DEF EntryAt
      <3>2. CASE e # d
        <4>1. inode'[e] = inode[e] /\ entries'[inode[e].block] = entries[inode[e].block]
          BY <1>11, <1>13, <2>2, <3>2 DEF Visible
        <4>2. QED
          BY <4>1 DEF EntryAt
      <3>3. QED
        BY <3>1, <3>2
    <2>3. EntryAt(d, n + 1)' = [name |-> Last(path), inode |-> i]
      BY <1>7, <1>9, <1>11 DEF EntryAt
    <2>4. ~ Visible(d, n + 1)
      BY <1>6, <1>4 DEF Visible
    <2>5. QED
      BY <2>1, <2>2, <2>3, <2>4 DEF Appended
  <1>17. NamesInv'
    <2>1. Root \in inodeBitmap
      BY <1>1 DEF Typed, Directories
    <2>2. ASSUME NEW k, Visible(d, k), NameOf(d, k) = Last(path) PROVE FALSE
      <3>1. FindInDirectory(d, Last(path)) = Named(d, k)
        BY <1>1, <2>2, FoundOne
      <3>2. PathToInode(path) = FindInDirectory(d, Last(path))
        BY <1>1, PathParts, LookUp
      <3>3. PathToInode(path) = 0
        BY DEF CanCreate
      <3>4. Named(d, k) \in Inodes
        BY <1>1, <2>2 DEF NamesInv, NamesInUse, Typed
      <3>5. QED
        BY <3>1, <3>2, <3>3, <3>4 DEF Inodes
    <2>3. QED
      BY <1>1, <1>16, <2>1, <2>2, NameAdded
  <1>18. \A j \in inodeBitmap : j # i /\ inode'[j].block = inode[j].block
                                /\ inode'[j].type = inode[j].type
                                /\ (inode[j].type = "FILE" => inode'[j].size = inode[j].size)
    <2>1. ASSUME NEW j \in inodeBitmap
          PROVE  /\ j # i /\ inode'[j].block = inode[j].block /\ inode'[j].type = inode[j].type
                 /\ inode[j].type = "FILE" => inode'[j].size = inode[j].size
      <3>1. j # i /\ j \in Inodes
        BY <1>1 DEF Typed
      <3>2. CASE j = d
        BY <1>5, <1>9, <3>1, <3>2
      <3>3. CASE j # d
        BY <1>8, <3>1, <3>3
      <3>4. QED
        BY <3>1, <3>2, <3>3
    <2>2. QED
      BY <2>1
  <1>19. BlocksOwned'
    <2>1. \A j \in inodeBitmap : j # i /\ moreBlocks'[j] = moreBlocks[j]
      BY <1>1 DEF Typed
    <2>2. \A j \in inodeBitmap : BlocksOf(j)' = BlocksOf(j)
      BY <1>18, <2>1 DEF BlocksOf
    <2>3. BlocksOf(i)' = {b} \ {0}
      BY <1>1, <1>9 DEF BlocksOf, Typed
    <2>4. /\ blockBitmap = UNION {BlocksOf(j) : j \in inodeBitmap}
          /\ \A j, k \in inodeBitmap : j # k => BlocksOf(j) \cap BlocksOf(k) = {}
      BY <1>1 DEF BlocksOwned
    <2>5. \A j \in inodeBitmap : BlocksOf(j) \cap ({b} \ {0}) = {}
      BY <2>4
    <2>6. blockBitmap' = UNION {BlocksOf(j)' : j \in inodeBitmap'}
      BY <2>2, <2>3, <2>4
    <2>7. ASSUME NEW j \in inodeBitmap', NEW k \in inodeBitmap', j # k
          PROVE  BlocksOf(j)' \cap BlocksOf(k)' = {}
      BY <2>2, <2>3, <2>4, <2>5, <2>7
    <2>8. QED
      BY <2>6, <2>7 DEF BlocksOwned
  <1>20. KeepsInodes(inodeBitmap) /\ NameComes(path, i)
    BY <1>2, <1>16, <1>18 DEF KeepsInodes, NameComes
  <1>21. QED
    BY <1>1, <1>9, <1>14, <1>15, <1>17, <1>19, <1>20 DEF TreeInv

\* Taking a path out of the tree: a file, or a directory without entries.
LEMMA Removal ==
    ASSUME TreeInv, superblock, NEW path \in Paths, path # <<>>, NEW i, i = PathToInode(path),
           i # 0, inode[i].type = "FILE" \/ inode[i].size = 0, Removed(path, i)
    PROVE  /\ TreeInv' /\ inodeBitmap' = inodeBitmap \ {i} /\ file' = file
           /\ i \in inodeBitmap /\ KeepsInodes(inodeBitmap') /\ NameGoes(path, i)
  <1> USE RfsAssumption
  <1> DEFINE Record == [type : Types, size : Nat, block : 0 .. NumBlocks]
  <1>1. PICK d : d = PathToInode(Front(path))
    OBVIOUS
  <1>2. /\ Typed /\ DirectoriesHold /\ NamesInv /\ BlocksOwned
        /\ moreBlocks' = [moreBlocks EXCEPT ![i] = {}]
        /\ entries' = WithoutEntry(path, i)
        /\ inode' = [Resized(inode, d, inode[d].size - 1) EXCEPT ![i].block = 0]
        /\ blockBitmap' = blockBitmap \ BlocksOf(i)
        /\ inodeBitmap' = inodeBitmap \ {i}
        /\ superblock' = superblock /\ file' = file
    BY <1>1 DEF TreeInv, Removed
  <1>3. \E k : Visible(d, k) /\ NameOf(d, k) = Last(path) /\ Named(d, k) = i
    <2>1. d \in inodeBitmap \cup {0}
      BY <1>1, PathParts, PathInUse
    <2>2. i = FindInDirectory(d, Last(path))
      BY <1>1, PathParts, LookUp
    <2>3. QED
      BY <1>2, <2>1, <2>2, Found
  <1>4. d \in Directories /\ i \in inodeBitmap /\ i # Root
    BY <1>2, <1>3 DEF NamesInv, NamesInUse, Visible
  <1>5. d \in Inodes /\ i \in Inodes /\ inode \in [Inodes -> Record]
    BY <1>2, <1>4 DEF Typed, Directories
  <1>6. inode[d].type = "DIR" /\ inode[d] \in Record /\ inode[i] \in Record
    BY <1>4, <1>5 DEF Directories
  <1>7. inode[d].size \in Nat /\ inode[d].block \in 1 .. NumBlocks
    BY <1>2, <1>4, VisibleOnes
  <1>8. PICK n \in Nat : n = inode[d].size
    BY <1>7
  <1>9. PICK B \in 1 .. NumBlocks : B = inode[d].block
    BY <1>7
  <1>10. n # 0 /\ n - 1 \in Nat /\ n - 1 <= n
    <2>1. \E k : k \in 1 .. n
      BY <1>3, <1>8 DEF Visible
    <2>2. QED
      BY <2>1
  <1>11. i # d
    BY <1>6, <1>8, <1>10
  <1>12. PICK es, g : OneLess(es, d, g, i)
                      /\ WithoutEntry(path, i) = [entries EXCEPT ![inode[d].block] = es]
    BY <1>1, <1>2, <1>3, <1>4, EntryRemoved
  <1>13. /\ entries' = [entries EXCEPT ![B] = es]
         /\ es \in Seq(Entry) /\ Len(es) = n /\ g \in 1 .. n /\ Named(d, g) = i
         /\ \A k \in 1 .. (n - 1) : es[k] = entries[B][IF k < g THEN k ELSE k + 1]
    BY <1>2, <1>8, <1>9, <1>12 DEF OneLess
  <1>14. /\ inode'[i] = [inode[i] EXCEPT !.block = 0]
         /\ inode'[d] = [inode[d] EXCEPT !.size = n - 1]
         /\ \A j \in Inodes \ {i, d} : inode'[j] = inode[j]
         /\ inode' = [j \in Inodes |-> inode'[j]]
    BY <1>2, <1>5, <1>8, <1>11 DEF Resized
  <1>15. /\ inode'[d] \in Record
         /\ inode'[d].size = n - 1 /\ inode'[d].block = B /\ inode'[d].type = "DIR"
    <2>1. \A r \in Record :
            /\ [r EXCEPT !.size = n - 1] \in Record
            /\ [r EXCEPT !.size = n - 1].size = n - 1
            /\ [r EXCEPT !.size = n - 1].block = r.block
            /\ [r EXCEPT !.size = n - 1].type = r.type
      BY <1>10
    <2> HIDE DEF Record
    <2>2. QED
      BY <1>6, <1>9, <1>14, <2>1
  <1>16. inode'[i] \in Record
    <2>1. \A r \in Record : [r EXCEPT !.block = 0] \in Record
      OBVIOUS
    <2> HIDE DEF Record
    <2>2. QED
      BY <1>6, <1>14, <2>1
  <1> HIDE DEF Record
  <1>17. inode' \in [Inodes -> Record]
    <2>1. \A j \in Inodes : inode'[j] \in Record
      BY <1>5, <1>14, <1>15, <1>16
    <2>2. QED
      BY <1>14, <2>1
  <1>18. /\ entries' \in [0 .. NumBlocks -> Seq(Entry)] /\ entries'[B] = es
         /\ \A x \in (0 .. NumBlocks) \ {B} : entries'[x] = entries[x]
    BY <1>2, <1>13 DEF Typed
  <1>19. \A j \in inodeBitmap' :
            /\ j \in inodeBitmap /\ j \in Inodes /\ j # i
            /\ inode'[j].block = inode[j].block /\ inode'[j].type = inode[j].type
            /\ j # d => inode'[j] = inode[j]
    <2>1. \A j \in inodeBitmap' : j \in inodeBitmap /\ j \in Inodes /\ j # i
      BY <1>2 DEF Typed
    <2>2. QED
      BY <1>6, <1>9, <1>14, <1>15, <2>1
  <1>20. \A e : e \in Directories' <=> e \in Directories /\ e # i
    BY <1>2, <1>19 DEF Directories
  <1>21. \A e \in Directories : e # d => inode[e].block \in (0 .. NumBlocks) \ {B}
    <2>1. ASSUME NEW e \in Directories, e # d
          PROVE  inode[e].block \in (0 .. NumBlocks) \ {B}
      <3>1. e \in inodeBitmap /\ d \in inodeBitmap /\ e \in Inodes
        BY <1>2, <1>4, <2>1 DEF Typed, Directories
      <3>2. inode[e].block # B
        <4>1. BlocksOf(e) \cap BlocksOf(d) = {}
          BY <1>2, <2>1, <3>1 DEF BlocksOwned
        <4>2. B \in BlocksOf(d) /\ B # 0
          BY <1>9 DEF BlocksOf
        <4>3. QED
          BY <4>1, <4>2 DEF BlocksOf
      <3>3. QED
        BY <1>5, <3>1, <3>2 DEF Record
    <2>2. QED
      BY <2>1
  <1>22. Typed'
    <2>1. inodeBitmap' \subseteq Inodes /\ blockBitmap' \subseteq 1 .. NumBlocks
      BY <1>2 DEF Typed
    <2>2. Root \in Directories' /\ superblock' \in BOOLEAN
          /\ moreBlocks' \in [Inodes -> SUBSET (1 .. NumBlocks)]
      BY <1>2, <1>4, <1>20 DEF Typed
    <2>3. ASSUME NEW j \in inodeBitmap', inode'[j].type = "FILE"
          PROVE  inode'[j].size <= MaxSize
      <3>1. j # d
        BY <1>15, <2>3
      <3>2. j \in inodeBitmap /\ inode'[j] = inode[j]
        BY <1>19, <3>1
      <3>3. QED
        BY <1>2, <2>3, <3>2 DEF Typed
    <2>4. QED
      BY <1>17, <1>18, <2>1, <2>2, <2>3 DEF Typed, Record
  <1>23. DirectoriesHold'
    <2>1. ASSUME NEW e \in Directories'
          PROVE  /\ superblock' => inode'[e].block # 0
                 /\ inode'[e].size <= Len(entries'[inode'[e].block])
      <3>1. CASE e = d
        BY <1>10, <1>13, <1>15, <1>18, <3>1
      <3>2. CASE e # d
        <4>1. e \in Directories /\ inode'[e] = inode[e]
          BY <1>19, <1>20, <2>1, <3>2 DEF Directories
        <4>2. entries'[inode[e].block] = entries[inode[e].block]
          BY <1>18, <1>21, <3>2, <4>1
        <4>3. QED
          BY <1>2, <4>1, <4>2 DEF DirectoriesHold
      <3>3. QED
        BY <3>1, <3>2
    <2>2. QED
      BY <2>1 DEF DirectoriesHold
  <1>24. TakenOut(d, n, g)
    <2>1. \A k : Visible(d, k) <=> k \in 1 .. n
      BY <1>4, <1>8 DEF Visible
    <2>2. \A k : Visible(d, k)' <=> k \in 1 .. (n - 1)
      BY <1>4, <1>11, <1>15, <1>20 DEF Visible
    <2>3. ASSUME NEW e, NEW k, e # d PROVE Visible(e, k)' <=> Visible(e, k)
      <3>1. CASE e = i
        <4>1. ~ Visible(e, k)
          <5>1. ASSUME e \in Directories PROVE inode[i].size = 0
            BY <3>1, <5>1 DEF Directories
          <5>2. QED
            BY <3>1, <5>1 DEF Visible
        <4>2. QED
          BY <1>20, <3>1, <4>1 DEF Visible
      <3>2. CASE e # i
        <4>1. e \in Directories' <=> e \in Directories
          BY <1>20, <3>2
        <4>2. e \in Directories' => inode'[e] = inode[e]
          BY <1>19, <2>3 DEF Directories
        <4>3. QED
          BY <4>1, <4>2 DEF Visible
      <3>3. QED
        BY <3>1, <3>2
    <2>4. ASSUME NEW e, NEW k, e # d, Visible(e, k) PROVE EntryAt(e, k)' = EntryAt(e, k)
      <3>1. e \in Directories' /\ e \in Directories
        BY <2>3, <2>4 DEF Visible
      <3>2. inode'[e] = inode[e]
        BY <1>19, <2>4, <3>1 DEF Directories
      <3>3. entries'[inode[e].block] = entries[inode[e].block]
        BY <1>18, <1>21, <2>4, <3>1
      <3>4. QED
        BY <3>2, <3>3 DEF EntryAt
    <2>5. ASSUME NEW k \in 1 .. (n - 1)
          PROVE  EntryAt(d, k)' = IF k < g THEN EntryAt(d, k) ELSE EntryAt(d, k + 1)
      BY <1>9, <1>13, <1>15, <1>18 DEF EntryAt
    <2>6. QED
      BY <1>13, <2>1, <2>2, <2>3, <2>4, <2>5 DEF TakenOut
  <1>25. NameOf(d, g) = Last(path)
    <2>1. Visible(d, g)
      BY <1>4, <1>8, <1>13 DEF Visible
    <2>2. QED
      BY <1>2, <1>3, <1>13, <2>1 DEF NamesInv, NamedOnce
  <1>26. NamesInv'
    <2>1. Named(d, g) = i /\ inodeBitmap' = inodeBitmap \ {i}
      BY <1>2, <1>13
    <2>2. QED
      BY <1>2, <1>24, <2>1, NameRemoved
  <1>27. BlocksOwned'
    <2>1. \A j \in inodeBitmap' : j \in inodeBitmap /\ j # i /\ BlocksOf(j)' = BlocksOf(j)
      <3>1. ASSUME NEW j \in inodeBitmap'
            PROVE  j \in inodeBitmap /\ j # i /\ BlocksOf(j)' = BlocksOf(j)
        <4>1. j \in inodeBitmap /\ j # i /\ inode'[j].block = inode[j].block
          BY <1>2, <1>19
        <4>2. moreBlocks'[j] = moreBlocks[j]
          BY <1>2, <4>1 DEF Typed
        <4>3. QED
          BY <4>1, <4>2 DEF BlocksOf
      <3>2. QED
        BY <3>1
    <2>2. /\ blockBitmap = UNION {BlocksOf(j) : j \in inodeBitmap}
          /\ \A j, k \in inodeBitmap : j # k => BlocksOf(j) \cap BlocksOf(k) = {}
      BY <1>2 DEF BlocksOwned
    <2>3. blockBitmap' = UNION {BlocksOf(j)' : j \in inodeBitmap'}
      <3>1. ASSUME NEW x \in blockBitmap' PROVE \E j \in inodeBitmap' : x \in BlocksOf(j)'
        <4>1. PICK j \in inodeBitmap : x \in BlocksOf(j) /\ x \notin BlocksOf(i)
          BY <1>2, <2>2
        <4>2. j \in inodeBitmap'
          BY <1>2, <4>1
        <4>3. QED
          BY <2>1, <4>1, <4>2
      <3>2. ASSUME NEW j \in inodeBitmap', NEW x \in BlocksOf(j)' PROVE x \in blockBitmap'
        BY <1>2, <1>4, <2>1, <2>2
      <3>3. QED
        BY <3>1, <3>2
    <2>4. \A j, k \in inodeBitmap' : j # k => BlocksOf(j)' \cap BlocksOf(k)' = {}
      BY <2>1, <2>2
    <2>5. QED
      BY <2>3, <2>4 DEF BlocksOwned
  <1>28. \A j \in inodeBitmap' : inode[j].type = "FILE" => inode'[j].size = inode[j].size
    BY <1>6, <1>19
  <1>29. KeepsInodes(inodeBitmap') /\ NameGoes(path, i)
    BY <1>1, <1>4, <1>13, <1>19, <1>24, <1>25, <1>28 DEF KeepsInodes, NameGoes
  <1>30. QED
    BY <1>2, <1>4, <1>22, <1>23, <1>27, <1>26, <1>29 DEF TreeInv

\* The block a write to file i goes to, or 0.
BlockFor(i) == IF inode[i].block = 0 THEN FreeBlock ELSE inode[i].block

\* File i gets block b, more blocks and the new size.
Written(i, b, more, size) ==
    /\ inode' = [inode EXCEPT ![i].block = b, ![i].size = size]
    /\ moreBlocks' = [moreBlocks EXCEPT ![i] = @ \cup more]
    /\ blockBitmap' = blockBitmap \cup {b} \cup more
    /\ UNCHANGED <<inodeBitmap, entries, superblock>>

\* Writing to a file: it takes free blocks, the first write one at least.
LEMMA Writing ==
    ASSUME TreeInv, NEW i \in inodeBitmap, inode[i].type = "FILE",
           NEW b, b = BlockFor(i), b # 0,
           NEW more \in SUBSET (FreeDataBlocks \ {b}),
           NEW size \in 0 .. MaxSize, Written(i, b, more, size)
    PROVE  /\ TreeInv' /\ SameEntries /\ inodeBitmap' = inodeBitmap
           /\ KeepsInodes(inodeBitmap \ {i})
           /\ inode'[i].type = "FILE" /\ inode'[i].size = size
  <1> USE RfsAssumption
  <1> DEFINE Record == [type : Types, size : Nat, block : 0 .. NumBlocks]
  <1>1. /\ Typed /\ DirectoriesHold /\ NamesInv /\ BlocksOwned
        /\ inodeBitmap' = inodeBitmap /\ entries' = entries /\ superblock' = superblock
        /\ moreBlocks' = [moreBlocks EXCEPT ![i] = @ \cup more]
        /\ blockBitmap' = blockBitmap \cup {b} \cup more
    BY DEF TreeInv, Written
  <1>2. i \in Inodes /\ inode \in [Inodes -> Record] /\ inode[i] \in Record
    BY <1>1 DEF Typed
  <1>3. b \in 1 .. NumBlocks /\ (b # inode[i].block => b \notin blockBitmap /\ inode[i].block = 0)
    <2>1. CASE inode[i].block = 0
      <3>1. FreeBlock # 0 => FreeBlock \in (1 .. NumBlocks) \ blockBitmap
        BY FreeBlockIsFree
      <3>2. QED
        BY <2>1, <3>1 DEF BlockFor
    <2>2. CASE inode[i].block # 0
      BY <1>2, <2>2 DEF BlockFor
    <2>3. QED
      BY <2>1, <2>2
  <1>4. /\ inode'[i] \in Record /\ inode'[i].type = "FILE" /\ inode'[i].block = b
        /\ inode'[i].size = size
    <2>1. b \in 0 .. NumBlocks /\ size \in Nat
      BY <1>3
    <2>2. \A r \in Record :
            /\ [r EXCEPT !.block = b] \in Record
            /\ [r EXCEPT !.block = b].type = r.type
            /\ [r EXCEPT !.block = b].block = b
      BY <2>1
    <2>3. \A r \in Record :
            /\ [r EXCEPT !.size = size] \in Record
            /\ [r EXCEPT !.size = size].type = r.type
            /\ [r EXCEPT !.size = size].block = r.block
            /\ [r EXCEPT !.size = size].size = size
      BY <2>1
    <2>4. inode'[i] = [[inode[i] EXCEPT !.block = b] EXCEPT !.size = size]
      BY <1>2 DEF Written
    <2>5. PICK r \in Record : r = [inode[i] EXCEPT !.block = b]
      BY <1>2, <2>2
    <2>6. r.type = "FILE" /\ r.block = b /\ inode'[i] = [r EXCEPT !.size = size]
      BY <1>2, <2>2, <2>4, <2>5
    <2> HIDE DEF Record
    <2>7. QED
      BY <2>3, <2>6
  <1> HIDE DEF Record
  <1>5. /\ \A j \in Inodes \ {i} : inode'[j] = inode[j]
        /\ inode' = [j \in Inodes |-> inode'[j]]
    BY <1>2 DEF Written
  <1>6. inode' \in [Inodes -> Record]
    BY <1>2, <1>4, <1>5
  <1>7. \A j \in inodeBitmap :
            /\ j \in Inodes /\ inode'[j].type = inode[j].type
            /\ j # i => inode'[j] = inode[j]
    BY <1>1, <1>4, <1>5 DEF Typed
  <1>8. Directories' = Directories /\ i \notin Directories
    BY <1>1, <1>7 DEF Directories
  <1>9. \A e \in Directories : inode'[e] = inode[e]
    BY <1>7, <1>8 DEF Directories
  <1>10. Typed'
    <2>1. /\ blockBitmap' \subseteq 1 .. NumBlocks
          /\ moreBlocks' \in [Inodes -> SUBSET (1 .. NumBlocks)]
      BY <1>1, <1>2, <1>3 DEF Typed, FreeDataBlocks
    <2>2. ASSUME NEW j \in inodeBitmap, inode'[j].type = "FILE"
          PROVE  inode'[j].size <= MaxSize
      <3>1. CASE j = i
        BY <1>4, <3>1
      <3>2. CASE j # i
        <4>1. inode'[j] = inode[j]
          BY <1>7, <3>2
        <4>2. inode[j].type = "FILE" => inode[j].size <= MaxSize
          BY <1>1 DEF Typed
        <4>3. QED
          BY <2>2, <4>1, <4>2
      <3>3. QED
        BY <3>1, <3>2
    <2>3. QED
      BY <1>1, <1>6, <1>8, <2>1, <2>2 DEF Typed, Record
  <1>11. DirectoriesHold'
    BY <1>1, <1>8, <1>9 DEF DirectoriesHold
  <1>12. SameEntries
    <2>1. \A e, k : Visible(e, k)' <=> Visible(e, k)
      BY <1>8, <1>9 DEF Visible
    <2>2. \A e, k : Visible(e, k) => EntryAt(e, k)' = EntryAt(e, k)
      BY <1>1, <1>9 DEF Visible, EntryAt
    <2>3. QED
      BY <2>1, <2>2 DEF SameEntries
  <1>13. BlocksOwned'
    <2>1. \A j \in inodeBitmap : j # i => BlocksOf(j)' = BlocksOf(j)
      <3>1. ASSUME NEW j \in inodeBitmap, j # i PROVE BlocksOf(j)' = BlocksOf(j)
        <4>1. inode'[j] = inode[j] /\ moreBlocks'[j] = moreBlocks[j]
          BY <1>1, <1>7, <3>1 DEF Typed
        <4>2. QED
          BY <4>1 DEF BlocksOf
      <3>2. QED
        BY <3>1
    <2>2. BlocksOf(i)' = BlocksOf(i) \cup {b} \cup more
      <3>1. moreBlocks'[i] = moreBlocks[i] \cup more
        BY <1>1, <1>2 DEF Typed
      <3>2. inode'[i].block = b /\ (inode[i].block = b \/ inode[i].block = 0)
        BY <1>3, <1>4
      <3>3. QED
        BY <3>1, <3>2 DEF BlocksOf
    <2>3. /\ blockBitmap = UNION {BlocksOf(j) : j \in inodeBitmap}
          /\ \A j, k \in inodeBitmap : j # k => BlocksOf(j) \cap BlocksOf(k) = {}
      BY <1>1 DEF BlocksOwned
    <2>4. \A j \in inodeBitmap : j # i => BlocksOf(j) \cap BlocksOf(i)' = {}
      <3>1. ASSUME NEW j \in inodeBitmap, j # i PROVE BlocksOf(j) \cap BlocksOf(i)' = {}
        <4>1. BlocksOf(j) \cap BlocksOf(i) = {} /\ BlocksOf(j) \subseteq blockBitmap
          BY <2>3, <3>1
        <4>2. BlocksOf(j) \cap more = {}
          BY <4>1 DEF FreeDataBlocks
        <4>3. b \notin BlocksOf(j)
          BY <1>3, <4>1 DEF BlocksOf
        <4>4. QED
          BY <2>2, <4>1, <4>2, <4>3
      <3>2. QED
        BY <3>1
    <2>5. blockBitmap' = UNION {BlocksOf(j)' : j \in inodeBitmap'}
      <3>1. ASSUME NEW x \in blockBitmap' PROVE \E j \in inodeBitmap' : x \in BlocksOf(j)'
        <4>1. CASE x \in {b} \cup more
          BY <1>1, <2>2, <4>1
        <4>2. CASE x \in blockBitmap
          <5>1. PICK j \in inodeBitmap : x \in BlocksOf(j)
            BY <2>3, <4>2
          <5>2. QED
            BY <1>1, <2>1, <2>2, <5>1
        <4>3. QED
          BY <1>1, <4>1, <4>2
      <3>2. ASSUME NEW j \in inodeBitmap', NEW x \in BlocksOf(j)' PROVE x \in blockBitmap'
        BY <1>1, <2>1, <2>2, <2>3
      <3>3. QED
        BY <3>1, <3>2
    <2>6. ASSUME NEW j \in inodeBitmap', NEW k \in inodeBitmap', j # k
          PROVE  BlocksOf(j)' \cap BlocksOf(k)' = {}
      <3>1. j \in inodeBitmap /\ k \in inodeBitmap
        BY <1>1
      <3>2. QED
        BY <2>1, <2>3, <2>4, <2>6, <3>1
    <2>7. QED
      BY <2>5, <2>6 DEF BlocksOwned
  <1>14. NamesInv'
    BY <1>1, <1>12, SameNames
  <1>15. QED
    BY <1>1, <1>4, <1>7, <1>10, <1>11, <1>12, <1>13, <1>14 DEF TreeInv, KeepsInodes

(***************************************************************************)
(* The steps of the specification.                                         *)
(***************************************************************************)

\* A newly formatted disk.
LEMMA FsInvStarts == RfsInit => FsInv
  <1> USE RfsAssumption
  <1> SUFFICES ASSUME RfsInit PROVE FsInv
    OBVIOUS
  <1>1. Root \in Inodes /\ 1 \in 1 .. NumBlocks
    BY DEF Root, Inodes
  <1>2. /\ inodeBitmap = {Root} /\ blockBitmap = {1} /\ superblock = TRUE
        /\ inode[Root].type = "DIR" /\ inode[Root].size = 0 /\ inode[Root].block = 1
        /\ inode \in [Inodes -> [type : Types, size : Nat, block : 0 .. NumBlocks]]
        /\ moreBlocks = [i \in Inodes |-> {}]
        /\ entries = [b \in 0 .. NumBlocks |-> <<>>] /\ OpenSlots = {}
        /\ file \in [OpenSlots -> [inode : Inodes, flags : Flags, offset : 0 .. MaxSize]]
    BY <1>1 DEF RfsInit, Types, OpenSlots
  <1>3. Directories = {Root}
    BY <1>2 DEF Directories
  <1>4. Typed
    <2>1. entries \in [0 .. NumBlocks -> Seq(Entry)]
      BY <1>2, EmptySeq
    <2>2. QED
      BY <1>1, <1>2, <1>3, <2>1 DEF Typed
  <1>5. DirectoriesHold
    <2>1. entries[1] = <<>> /\ Len(<<>>) = 0
      BY <1>1, <1>2
    <2>2. QED
      BY <1>2, <1>3, <2>1 DEF DirectoriesHold
  <1>6. NamesInv
    <2>1. \A d, k : ~ Visible(d, k)
      BY <1>2, <1>3 DEF Visible
    <2>2. QED
      BY <1>2, <2>1 DEF NamesInv, NamesInUse, AllNamed, NamedOnce, NamesDiffer
  <1>7. BlocksOwned
    <2>1. BlocksOf(Root) = {1}
      BY <1>1, <1>2 DEF BlocksOf
    <2>2. QED
      BY <1>2, <2>1 DEF BlocksOwned
  <1>8. FilesInv
    BY <1>2 DEF FilesInv
  <1>9. QED
    BY <1>2, <1>4, <1>5, <1>6, <1>7, <1>8 DEF FsInv, TreeInv

\* An open-file table in which one slot is opened on a file in use.
LEMMA Opening ==
    ASSUME FilesInv, NEW i \in Inodes, NEW flags \in Flags, NEW size \in 0 .. MaxSize,
           OpenAs(i, flags, size), i \in inodeBitmap', inode'[i].type = "FILE",
           \A j \in inodeBitmap : j \in inodeBitmap' /\ inode'[j].type = inode[j].type
    PROVE  FilesInv'
  <1> DEFINE File == [inode : Inodes, flags : Flags, offset : 0 .. MaxSize]
             new == [inode |-> i, flags |-> flags,
                     offset |-> IF "APPEND" \in flags THEN size ELSE 0]
  <1>1. PICK s \in FileSlots \ OpenSlots :
          file' = [r \in OpenSlots \cup {s} |-> IF r # s THEN file[r] ELSE new]
    BY DEF OpenAs
  <1>2. new \in File /\ new.inode = i
    BY RfsAssumption
  <1>3. OpenSlots' = OpenSlots \cup {s} /\ file'[s] = new
        /\ \A r \in OpenSlots : file'[r] = file[r]
    BY <1>1 DEF OpenSlots
  <1>4. OpenSlots \subseteq FileSlots /\ file \in [OpenSlots -> File]
        /\ \A r \in OpenSlots : file[r].inode \in inodeBitmap /\ inode[file[r].inode].type = "FILE"
    BY DEF FilesInv
  <1> HIDE DEF File, new
  <1>5. file' \in [OpenSlots' -> File]
    BY <1>1, <1>2, <1>3, <1>4
  <1>6. \A r \in OpenSlots' : file'[r].inode \in inodeBitmap' /\ inode'[file'[r].inode].type = "FILE"
    BY <1>2, <1>3, <1>4
  <1>7. QED
    BY <1>1, <1>3, <1>4, <1>5, <1>6 DEF FilesInv, File

\* A step that keeps the slots, or closes some, and moves offsets.
LEMMA Moving ==
    ASSUME FilesInv, OpenSlots' \subseteq OpenSlots, DOMAIN file' = OpenSlots',
           file' = [s \in OpenSlots' |-> file'[s]],
           \A s \in OpenSlots' :
              \E offset \in 0 .. MaxSize : file'[s] = [file[s] EXCEPT !.offset = offset],
           \A s \in OpenSlots' : file[s].inode \in inodeBitmap',
           \A j \in inodeBitmap' : j \in inodeBitmap => inode'[j].type = inode[j].type
    PROVE  FilesInv'
  <1> DEFINE File == [inode : Inodes, flags : Flags, offset : 0 .. MaxSize]
  <1>1. OpenSlots \subseteq FileSlots /\ file \in [OpenSlots -> File]
        /\ \A r \in OpenSlots : file[r].inode \in inodeBitmap /\ inode[file[r].inode].type = "FILE"
    BY DEF FilesInv
  <1>2. \A f \in File, o \in 0 .. MaxSize :
          [f EXCEPT !.offset = o] \in File /\ [f EXCEPT !.offset = o].inode = f.inode
    OBVIOUS
  <1> HIDE DEF File
  <1>3. ASSUME NEW s \in OpenSlots'
        PROVE  s \in OpenSlots /\ file'[s] \in File /\ file'[s].inode = file[s].inode
    <2>1. s \in OpenSlots
      OBVIOUS
    <2>2. PICK o \in 0 .. MaxSize : file'[s] = [file[s] EXCEPT !.offset = o]
      OBVIOUS
    <2>3. PICK f \in File : f = file[s]
      BY <1>1, <2>1
    <2>4. QED
      BY <1>2, <2>1, <2>2, <2>3
  <1>4. file' \in [OpenSlots' -> File]
    BY <1>3
  <1>5. \A r \in OpenSlots' : file'[r].inode \in inodeBitmap' /\ inode'[file'[r].inode].type = "FILE"
    BY <1>1, <1>3
  <1>6. QED
    BY <1>1, <1>4, <1>5 DEF FilesInv, File

\* A step that leaves the disk alone.
LEMMA SameTree ==
    ASSUME TreeInv, UNCHANGED treeVars
    PROVE  TreeInv'
  BY DEF TreeInv, treeVars, Typed, DirectoriesHold, NamesInv, NamesInUse, AllNamed, NamedOnce,
         NamesDiffer, Visible, EntryAt, Named, NameOf, Directories, BlocksOwned, BlocksOf

\* A step that leaves the open-file table alone and every open file in use.
LEMMA SameFiles ==
    ASSUME FilesInv, file' = file,
           \A s \in OpenSlots : file[s].inode \in inodeBitmap',
           \A j \in inodeBitmap' : j \in inodeBitmap => inode'[j].type = inode[j].type
    PROVE  FilesInv'
  <1>1. OpenSlots' = OpenSlots
    BY DEF OpenSlots
  <1>2. QED
    BY <1>1 DEF FilesInv

\* The step creates path as inode i.
Made(path, i, type) ==
    /\ CanCreate(path) /\ i \in Inodes \ inodeBitmap /\ inodeBitmap' = inodeBitmap \cup {i}
    /\ TreeInv' /\ inode'[i].type = type /\ inode'[i].size = 0
    /\ KeepsInodes(inodeBitmap) /\ NameComes(path, i)

\* create_file does what a creation is known by: a free inode in use, one entry more.
LEMMA CreateFileMakes ==
    ASSUME TreeInv, superblock, NEW path \in Paths, NEW i \in Inodes,
           CreateFile(path, i, "FILE")
    PROVE  Made(path, i, "FILE")
  <1>1. PICK d : d = PathToInode(Front(path))
    OBVIOUS
  <1>2. /\ CanCreate(path) /\ FirstFreeInode(i)
        /\ inodeBitmap' = inodeBitmap \cup {i} /\ entries' = WithEntry(path, i)
        /\ blockBitmap' = blockBitmap \cup ({0} \ {0}) /\ superblock' = superblock
        /\ moreBlocks' = [moreBlocks EXCEPT ![i] = {}]
        /\ inode' = [Resized(inode, d, inode[d].size + 1)
                        EXCEPT ![i] = [type |-> "FILE", size |-> 0, block |-> 0]]
    BY <1>1 DEF CreateFile, Created
  <1>3. /\ "FILE" \in Types /\ 0 \in (0 .. NumBlocks) \ blockBitmap /\ "FILE" # "DIR"
        /\ SparesSuperblock("FILE", 0)
    BY <1>2, RfsAssumption DEF TreeInv, Typed, Types, SparesSuperblock
  <1>4. /\ TreeInv' /\ inode'[i].type = "FILE" /\ inode'[i].size = 0
        /\ KeepsInodes(inodeBitmap) /\ NameComes(path, i)
    BY <1>1, <1>2, <1>3, Creation
  <1>5. i \in Inodes \ inodeBitmap
    BY <1>2 DEF FirstFreeInode
  <1>6. QED
    BY <1>2, <1>4, <1>5 DEF Made

\* Every operation keeps the invariant.
LEMMA FsOpenKeeps ==
    ASSUME FsInv, superblock, NEW path \in Paths, NEW flags \in Flags, FsOpen(path, flags)
    PROVE  FsInv'
  <1> USE RfsAssumption
  <1>1. TreeInv /\ FilesInv /\ Typed
    BY DEF FsInv, TreeInv
  <1>2. CASE LET i == PathToInode(path) IN
             /\ i # 0 /\ inode[i].type = "FILE"
             /\ OpenAs(i, flags, inode[i].size)
             /\ UNCHANGED treeVars
    <2>1. PICK i : i = PathToInode(path)
      OBVIOUS
    <2>2. /\ i # 0 /\ inode[i].type = "FILE" /\ OpenAs(i, flags, inode[i].size)
          /\ UNCHANGED treeVars
      BY <1>2, <2>1
    <2>3. path \in Seq(Names)
      OBVIOUS
    <2>4. i \in inodeBitmap
      BY <1>1, <2>1, <2>2, <2>3, PathInUse
    <2>5. i \in Inodes /\ inode[i].size \in 0 .. MaxSize
      <3>1. i \in Inodes /\ inode[i].size \in Nat
        BY <1>1, <2>4 DEF Typed
      <3>2. inode[i].size <= MaxSize
        BY <1>1, <2>2, <2>4 DEF Typed
      <3>3. QED
        BY <3>1, <3>2
    <2>6. inodeBitmap' = inodeBitmap /\ inode' = inode
      BY <2>2 DEF treeVars
    <2>7. FilesInv'
      BY <1>1, <2>2, <2>4, <2>5, <2>6, Opening
    <2>8. QED
      BY <1>1, <2>2, <2>7, SameTree DEF FsInv
  <1>3. ASSUME NEW i \in Inodes, CreateFile(path, i, "FILE"),
               OpenAs(i, flags, 0) \/ UNCHANGED file
        PROVE  FsInv'
    <2>1. /\ TreeInv' /\ inode'[i].type = "FILE" /\ KeepsInodes(inodeBitmap)
          /\ inodeBitmap' = inodeBitmap \cup {i}
      BY <1>1, <1>3, CreateFileMakes DEF Made
    <2>2. /\ i \in inodeBitmap'
          /\ \A j \in inodeBitmap : j \in inodeBitmap' /\ inode'[j].type = inode[j].type
      BY <2>1 DEF KeepsInodes
    <2>3. FilesInv'
      <3>1. CASE OpenAs(i, flags, 0)
        <4>1. 0 \in 0 .. MaxSize
          OBVIOUS
        <4>2. QED
          BY <1>1, <2>1, <2>2, <3>1, <4>1, Opening
      <3>2. CASE UNCHANGED file
        <4>1. \A s \in OpenSlots : file[s].inode \in inodeBitmap
          BY <1>1 DEF FilesInv
        <4>2. QED
          BY <1>1, <2>1, <2>2, <3>2, <4>1, SameFiles
      <3>3. QED
        BY <1>3, <3>1, <3>2
    <2>4. QED
      BY <2>1, <2>3 DEF FsInv
  <1>4. QED
    BY <1>2, <1>3 DEF FsOpen

\* fs_mkdir does the same for a directory, whose inode gets a block of its own, or block 0.
LEMMA FsMkdirMakes ==
    ASSUME TreeInv, superblock, NEW path \in Paths, FsMkdir(path)
    PROVE  file' = file /\ \E i : Made(path, i, "DIR")
  <1>1. TreeInv /\ Typed /\ superblock
    BY DEF TreeInv
  <1>2. PICK i \in Inodes :
          /\ CanCreate(path) /\ FirstFreeInode(i)
          /\ inodeBitmap' = inodeBitmap \cup {i}
          /\ inode' = [Created(path, i, "DIR") EXCEPT ![i].block = FreeBlock, ![i].size = 0]
          /\ moreBlocks' = [moreBlocks EXCEPT ![i] = {}]
          /\ entries' = WithEntry(path, i)
          /\ blockBitmap' = blockBitmap \cup ({FreeBlock} \ {0})
          /\ superblock' = (superblock /\ FreeBlock # 0)
          /\ UNCHANGED file
    BY DEF FsMkdir
  <1>3. PICK b : b = FreeBlock
    OBVIOUS
  <1>4. PICK d : d = PathToInode(Front(path))
    OBVIOUS
  <1>5. b \in (0 .. NumBlocks) \ blockBitmap
    BY <1>1, <1>3, RfsAssumption, FreeBlockIsFree DEF Typed
  <1>6. "DIR" \in Types
    BY DEF Types
  <1>7. SparesSuperblock("DIR", b) /\ blockBitmap' = blockBitmap \cup ({b} \ {0})
    <2>1. superblock' = (b # 0)
      BY <1>2, <1>3
    <2>2. QED
      BY <1>2, <1>3, <2>1 DEF SparesSuperblock
  <1>8. inode' = [Resized(inode, d, inode[d].size + 1)
                    EXCEPT ![i] = [type |-> "DIR", size |-> 0, block |-> b]]
    <2> DEFINE R == Resized(inode, d, inode[d].size + 1)
               new == [type |-> "DIR", size |-> 0, block |-> 0]
    <2>1. DOMAIN R = Inodes
      BY <1>1 DEF Typed, Resized
    <2>2. Created(path, i, "DIR") = [R EXCEPT ![i] = new]
      BY <1>4 DEF Created
    <2>3. [[new EXCEPT !.block = b] EXCEPT !.size = 0] = [type |-> "DIR", size |-> 0, block |-> b]
      <3>1. [new EXCEPT !.block = b] = [type |-> "DIR", size |-> 0, block |-> b]
        OBVIOUS
      <3>2. PICK m : m = [type |-> "DIR", size |-> 0, block |-> b]
        OBVIOUS
      <3>3. [m EXCEPT !.size = 0] = m
        BY <3>2
      <3>4. QED
        BY <3>1, <3>2, <3>3
    <2> HIDE DEF R, new
    <2>4. inode' = [R EXCEPT ![i] = [[new EXCEPT !.block = b] EXCEPT !.size = 0]]
      BY <1>2, <1>3, <2>1, <2>2
    <2>5. QED
      BY <2>3, <2>4 DEF R
  <1>9. /\ CanCreate(path) /\ FirstFreeInode(i) /\ entries' = WithEntry(path, i)
        /\ inodeBitmap' = inodeBitmap \cup {i} /\ file' = file
        /\ moreBlocks' = [moreBlocks EXCEPT ![i] = {}]
    BY <1>2
  <1>10. /\ TreeInv' /\ inode'[i].type = "DIR" /\ inode'[i].size = 0
         /\ KeepsInodes(inodeBitmap) /\ NameComes(path, i)
    BY <1>1, <1>4, <1>5, <1>6, <1>7, <1>8, <1>9, Creation
  <1>11. i \in Inodes \ inodeBitmap
    BY <1>9 DEF FirstFreeInode
  <1>12. QED
    BY <1>9, <1>10, <1>11 DEF Made

\* fs_mkdir keeps the file system sound.
LEMMA FsMkdirKeeps ==
    ASSUME FsInv, superblock, NEW path \in Paths, FsMkdir(path)
    PROVE  FsInv'
  <1>1. TreeInv /\ FilesInv
    BY DEF FsInv
  <1>2. PICK i : Made(path, i, "DIR")
    BY <1>1, FsMkdirMakes
  <1>3. TreeInv' /\ KeepsInodes(inodeBitmap) /\ inodeBitmap' = inodeBitmap \cup {i} /\ file' = file
    BY <1>1, <1>2, FsMkdirMakes DEF Made
  <1>4. \A s \in OpenSlots : file[s].inode \in inodeBitmap'
    BY <1>1, <1>3 DEF FilesInv
  <1>5. FilesInv'
    BY <1>1, <1>3, <1>4, SameFiles DEF KeepsInodes
  <1>6. QED
    BY <1>3, <1>5 DEF FsInv

\* fs_rmdir and fs_unlink keep the file system sound.
LEMMA RemovalKeeps ==
    ASSUME FsInv, superblock, NEW path \in Paths, FsRmdir(path) \/ FsUnlink(path)
    PROVE  FsInv'
  <1>1. TreeInv /\ FilesInv
    BY DEF FsInv
  <1>2. PICK i : i = PathToInode(path)
    OBVIOUS
  <1>3. /\ path # <<>> /\ i # 0 /\ Removed(path, i)
        /\ inode[i].type = "FILE" \/ inode[i].size = 0
    BY <1>2 DEF FsRmdir, FsUnlink
  <1>4. \A s \in OpenSlots : file[s].inode # i
    <2>1. CASE FsRmdir(path)
      <3>1. inode[i].type = "DIR"
        BY <1>2, <2>1 DEF FsRmdir
      <3>2. QED
        BY <1>1, <3>1 DEF FilesInv
    <2>2. CASE FsUnlink(path)
      BY <1>2, <2>2 DEF FsUnlink
    <2>3. QED
      BY <2>1, <2>2
  <1>5. /\ TreeInv' /\ inodeBitmap' = inodeBitmap \ {i} /\ file' = file
        /\ KeepsInodes(inodeBitmap')
    BY <1>1, <1>2, <1>3, Removal
  <1>6. \A s \in OpenSlots : file[s].inode \in inodeBitmap'
    BY <1>1, <1>4, <1>5 DEF FilesInv
  <1>7. QED
    BY <1>1, <1>5, <1>6, SameFiles DEF FsInv, KeepsInodes

\* Closing, reading and seeking touch the open files only.
LEMMA FileStepsKeep ==
    ASSUME FsInv, NEW s \in OpenSlots,
           \/ FsClose(s)
           \/ \E count \in 1 .. MaxSize : FsRead(s, count)
           \/ \E offset \in -1 .. MaxSize, whence \in {"SET", "CUR", "END"} :
                 FsLseek(s, offset, whence)
    PROVE  FsInv'
  <1> USE RfsAssumption
  <1>1. TreeInv /\ FilesInv /\ Typed
    BY DEF FsInv, TreeInv
  <1>2. UNCHANGED treeVars
    BY DEF FsClose, FsRead, FsLseek
  <1>3. inodeBitmap' = inodeBitmap /\ inode' = inode
    BY <1>2 DEF treeVars
  <1>4. \A r \in OpenSlots :
            /\ file[r].inode \in inodeBitmap
            /\ file[r] \in [inode : Inodes, flags : Flags, offset : 0 .. MaxSize]
    BY <1>1 DEF FilesInv
  <1>5. \A f \in [inode : Inodes, flags : Flags, offset : 0 .. MaxSize] :
          f = [f EXCEPT !.offset = f.offset] /\ f.offset \in 0 .. MaxSize
    OBVIOUS
  <1>6. ASSUME FsClose(s) PROVE FilesInv'
    <2>1. file' = [r \in OpenSlots \ {s} |-> file[r]]
      BY <1>6 DEF FsClose
    <2>2. OpenSlots' = OpenSlots \ {s} /\ \A r \in OpenSlots' : file'[r] = file[r]
      BY <2>1 DEF OpenSlots
    <2>3. DOMAIN file' = OpenSlots' /\ file' = [r \in OpenSlots' |-> file'[r]]
      BY <2>1, <2>2
    <2>4. \A r \in OpenSlots' : \E o \in 0 .. MaxSize : file'[r] = [file[r] EXCEPT !.offset = o]
      BY <1>4, <1>5, <2>2
    <2>5. QED
      BY <1>1, <1>3, <1>4, <2>2, <2>3, <2>4, Moving
  <1>7. ASSUME NEW o \in 0 .. MaxSize, file' = [file EXCEPT ![s].offset = o] PROVE FilesInv'
    <2>1. OpenSlots' = OpenSlots /\ DOMAIN file' = OpenSlots'
      BY <1>7 DEF OpenSlots
    <2>2. file'[s] = [file[s] EXCEPT !.offset = o]
          /\ \A r \in OpenSlots : r # s => file'[r] = file[r]
      BY <1>7 DEF OpenSlots
    <2>3. file' = [r \in OpenSlots' |-> file'[r]]
      BY <1>7, <2>1 DEF OpenSlots
    <2>4. \A r \in OpenSlots' : \E x \in 0 .. MaxSize : file'[r] = [file[r] EXCEPT !.offset = x]
      <3>1. ASSUME NEW r \in OpenSlots PROVE \E x \in 0 .. MaxSize : file'[r] = [file[r] EXCEPT !.offset = x]
        <4>1. CASE r = s
          BY <2>2, <4>1
        <4>2. CASE r # s
          BY <1>4, <1>5, <2>2, <4>2
        <4>3. QED
          BY <4>1, <4>2
      <3>2. QED
        BY <2>1, <3>1
    <2>5. QED
      BY <1>1, <1>3, <1>4, <2>1, <2>3, <2>4, Moving
  <1>8. ASSUME NEW count \in 1 .. MaxSize, FsRead(s, count) PROVE FilesInv'
    <2>1. PICK size : size = inode[file[s].inode].size
      OBVIOUS
    <2>2. PICK offset : offset = file[s].offset
      OBVIOUS
    <2>3. /\ offset < size
          /\ file' = [file EXCEPT ![s].offset = Min({offset + count, size})]
      BY <1>8, <2>1, <2>2 DEF FsRead
    <2>4. size \in 0 .. MaxSize /\ offset \in 0 .. MaxSize
      <3>1. offset \in 0 .. MaxSize
        BY <1>4, <2>2
      <3>2. size \in Nat /\ size <= MaxSize
        BY <1>1, <2>1 DEF FilesInv, Typed
      <3>3. QED
        BY <3>1, <3>2
    <2>5. Min({offset + count, size}) \in {offset + count, size}
          /\ Min({offset + count, size}) <= size
      <3>1. {offset + count, size} \subseteq Nat
        BY <2>4
      <3>2. QED
        BY <3>1, LeastIsMin
    <2>6. Min({offset + count, size}) \in 0 .. MaxSize
      <3>1. PICK m : m = Min({offset + count, size})
        OBVIOUS
      <3>2. (m = offset + count \/ m = size) /\ m <= size
        BY <2>5, <3>1
      <3>3. m \in 0 .. MaxSize
        BY <2>4, <3>2
      <3>4. QED
        BY <3>1, <3>3
    <2>7. QED
      BY <1>7, <2>3, <2>6
  <1>9. ASSUME NEW offset, NEW whence, FsLseek(s, offset, whence) PROVE FilesInv'
    <2>1. \E o \in 0 .. MaxSize : file' = [file EXCEPT ![s].offset = o]
      BY <1>9 DEF FsLseek
    <2>2. QED
      BY <1>7, <2>1
  <1>10. FilesInv'
    BY <1>6, <1>8, <1>9
  <1>11. QED
    BY <1>1, <1>2, <1>10, SameTree DEF FsInv

\* fs_write makes a file in use longer, or leaves its length, and moves the offset.
LEMMA FsWriteShows ==
    ASSUME FsInv, NEW s \in OpenSlots, NEW count \in 1 .. MaxSize, FsWrite(s, count),
           NEW i, i = file[s].inode
    PROVE  /\ TreeInv' /\ SameEntries /\ inodeBitmap' = inodeBitmap
           /\ i \in inodeBitmap /\ KeepsInodes(inodeBitmap \ {i})
           /\ inode[i].type = "FILE" /\ inode'[i].type = "FILE"
           /\ inode[i].size \in Nat /\ inode'[i].size \in Nat /\ inode'[i].size >= inode[i].size
           /\ \E end \in 0 .. MaxSize : file' = [file EXCEPT ![s].offset = end]
  <1> USE RfsAssumption
  <1> DEFINE File == [inode : Inodes, flags : Flags, offset : 0 .. MaxSize]
  <1>1. TreeInv /\ FilesInv /\ Typed
    BY DEF FsInv, TreeInv
  <1>2. PICK end : end = file[s].offset + count
    OBVIOUS
  <1>3. PICK b : b = BlockFor(i)
    OBVIOUS
  <1>4. PICK size : size = Max({inode[i].size, end})
    OBVIOUS
  <1>5. /\ b # 0 /\ end <= MaxSize
        /\ file' = [file EXCEPT ![s].offset = end]
    BY <1>2, <1>3 DEF FsWrite, BlockFor
  <1>6. PICK more \in SUBSET (FreeDataBlocks \ {b}) : Written(i, b, more, size)
    <2>1. PICK more \in SUBSET (FreeDataBlocks \ {b}) :
          /\ inode' = [inode EXCEPT ![i].block = b, ![i].size = Max({@, end})]
          /\ moreBlocks' = [moreBlocks EXCEPT ![i] = @ \cup more]
          /\ blockBitmap' = blockBitmap \cup {b} \cup more
          /\ UNCHANGED <<inodeBitmap, entries, superblock>>
      BY <1>2, <1>3 DEF FsWrite, BlockFor
    <2>2. inode' = [inode EXCEPT ![i].block = b, ![i].size = Max({inode[i].size, end})]
      BY <2>1
    <2>3. QED
      BY <1>4, <2>1, <2>2 DEF Written
  <1>7. i \in inodeBitmap /\ inode[i].type = "FILE" /\ file[s].offset \in 0 .. MaxSize
    BY <1>1 DEF FilesInv
  <1>8. inode[i].size \in Nat /\ inode[i].size <= MaxSize
    BY <1>1, <1>7 DEF Typed
  <1>9. end \in 0 .. MaxSize
    BY <1>2, <1>5, <1>7
  <1>10. size \in 0 .. MaxSize /\ size >= inode[i].size
    <2>1. PICK x : x = inode[i].size
      OBVIOUS
    <2>2. x \in 0 .. MaxSize
      BY <1>8, <2>1
    <2>3. \E m \in {x, end} : \A y \in {x, end} : m >= y
      BY <1>9, <2>2
    <2>4. Max({x, end}) \in {x, end} /\ \A y \in {x, end} : Max({x, end}) >= y
      BY <2>3 DEF Max
    <2>5. QED
      BY <1>4, <1>9, <2>1, <2>2, <2>4
  <1>11. /\ TreeInv' /\ SameEntries /\ inodeBitmap' = inodeBitmap /\ KeepsInodes(inodeBitmap \ {i})
         /\ inode'[i].type = "FILE" /\ inode'[i].size = size
    BY <1>1, <1>3, <1>5, <1>6, <1>7, <1>10, Writing
  <1>12. size \in Nat
    BY <1>10
  <1>13. \E o \in 0 .. MaxSize : file' = [file EXCEPT ![s].offset = o]
    <2> WITNESS end \in 0 .. MaxSize
    <2>1. QED
      BY <1>5
  <1> HIDE DEF File
  <1>14. QED
    BY <1>7, <1>8, <1>10, <1>11, <1>12, <1>13

\* fs_write moves one offset and raises at most the size of one inode.
LEMMA FsWriteKeeps ==
    ASSUME FsInv, NEW s \in OpenSlots, NEW count \in 1 .. MaxSize, FsWrite(s, count)
    PROVE  FsInv'
  <1> USE RfsAssumption
  <1> DEFINE File == [inode : Inodes, flags : Flags, offset : 0 .. MaxSize]
  <1>1. FilesInv /\ file \in [OpenSlots -> File]
    BY DEF FsInv, FilesInv
  <1>2. PICK i : i = file[s].inode
    OBVIOUS
  <1>3. /\ TreeInv' /\ inodeBitmap' = inodeBitmap /\ KeepsInodes(inodeBitmap \ {i})
        /\ i \in inodeBitmap /\ inode[i].type = "FILE" /\ inode'[i].type = "FILE"
    BY <1>2, FsWriteShows
  <1>4. PICK end \in 0 .. MaxSize : file' = [file EXCEPT ![s].offset = end]
    BY <1>2, FsWriteShows
  <1>5. \A j \in inodeBitmap : inode'[j].type = inode[j].type
    BY <1>3 DEF KeepsInodes
  <1>6. FilesInv'
    <2>1. OpenSlots' = OpenSlots /\ DOMAIN file' = OpenSlots'
      BY <1>4 DEF OpenSlots
    <2>2. file'[s] = [file[s] EXCEPT !.offset = end]
          /\ \A r \in OpenSlots : r # s => file'[r] = file[r]
      BY <1>4 DEF OpenSlots
    <2>3. file' = [r \in OpenSlots' |-> file'[r]]
      BY <1>4, <2>1 DEF OpenSlots
    <2>4. \A f \in File : f = [f EXCEPT !.offset = f.offset] /\ f.offset \in 0 .. MaxSize
      OBVIOUS
    <2> HIDE DEF File
    <2>5. \A r \in OpenSlots' : \E x \in 0 .. MaxSize : file'[r] = [file[r] EXCEPT !.offset = x]
      <3>1. ASSUME NEW r \in OpenSlots PROVE \E x \in 0 .. MaxSize : file'[r] = [file[r] EXCEPT !.offset = x]
        <4>1. CASE r = s
          BY <1>4, <2>2, <4>1
        <4>2. CASE r # s
          BY <1>1, <2>2, <2>4, <4>2
        <4>3. QED
          BY <4>1, <4>2
      <3>2. QED
        BY <2>1, <3>1
    <2>6. \A r \in OpenSlots' : file[r].inode \in inodeBitmap'
      BY <1>1, <1>3, <2>1 DEF FilesInv
    <2>7. QED
      BY <1>1, <1>3, <1>5, <2>1, <2>3, <2>5, <2>6, Moving
  <1>7. QED
    BY <1>3, <1>6 DEF FsInv

(***************************************************************************)
(* The theorems.                                                           *)
(***************************************************************************)

\* A step of any kind keeps the invariant.
LEMMA FsInvKept ==
    ASSUME FsInv, [RfsNext]_rfsVars
    PROVE  FsInv'
  <1>0. UNCHANGED rfsVars \/ superblock
    BY DEF RfsNext
  <1>1. CASE superblock /\ \E path \in Paths, flags \in Flags : FsOpen(path, flags)
    BY <1>1, FsOpenKeeps
  <1>2. CASE superblock /\ \E path \in Paths : FsMkdir(path) \/ FsRmdir(path) \/ FsUnlink(path)
    BY <1>2, FsMkdirKeeps, RemovalKeeps
  <1>3. CASE \E s \in OpenSlots : FsClose(s)
    BY <1>3, FileStepsKeep
  <1>4. CASE \E s \in OpenSlots, count \in 1 .. MaxSize : FsRead(s, count) \/ FsWrite(s, count)
    BY <1>4, FileStepsKeep, FsWriteKeeps
  <1>5. CASE \E s \in OpenSlots, offset \in -1 .. MaxSize, whence \in {"SET", "CUR", "END"} :
                FsLseek(s, offset, whence)
    BY <1>5, FileStepsKeep
  <1>6. CASE UNCHANGED rfsVars
    <2>1. UNCHANGED treeVars /\ file' = file
      BY <1>6 DEF rfsVars, treeVars
    <2>2. inodeBitmap' = inodeBitmap /\ inode' = inode /\ TreeInv /\ FilesInv
      BY <2>1 DEF treeVars, FsInv
    <2>3. \A s \in OpenSlots : file[s].inode \in inodeBitmap'
      BY <2>2 DEF FilesInv
    <2>4. QED
      BY <2>1, <2>2, <2>3, SameTree, SameFiles DEF FsInv
  <1>7. QED
    BY <1>0, <1>1, <1>2, <1>3, <1>4, <1>5, <1>6 DEF RfsNext

\* The invariant holds in every state.
THEOREM FsAlwaysSound == RfsSpec => []FsInv
  <1>1. FsInv /\ [RfsNext]_rfsVars => FsInv'
    BY FsInvKept
  <1>2. QED
    BY <1>1, FsInvStarts, PTL DEF RfsSpec

\* The invariant is what OneEntryPerInode says of the names, and more.
LEMMA FsInvNames == FsInv => OneEntryPerInode
  <1> SUFFICES ASSUME FsInv PROVE OneEntryPerInode
    OBVIOUS
  <1>1. Typed /\ DirectoriesHold /\ NamesInUse /\ AllNamed /\ NamedOnce
    BY DEF FsInv, TreeInv, NamesInv
  <1>2. \A d \in Directories : \A k \in 1 .. inode[d].size :
          Visible(d, k) /\ VisibleEntries(d)[k].inode = Named(d, k)
    BY <1>1, VisibleOnes DEF Visible, Named, EntryAt
  <1>3. \A d, k : Visible(d, k) => d \in Directories /\ k \in 1 .. inode[d].size
    BY DEF Visible
  <1>4. \A d \in Directories : \A k \in 1 .. inode[d].size :
          VisibleEntries(d)[k].inode \in inodeBitmap \ {Root}
    BY <1>1, <1>2 DEF NamesInUse
  <1>5. ASSUME NEW i \in inodeBitmap \ {Root}
        PROVE  \E d \in Directories : \E k \in 1 .. inode[d].size :
                 /\ VisibleEntries(d)[k].inode = i
                 /\ \A e \in Directories : \A j \in 1 .. inode[e].size :
                       VisibleEntries(e)[j].inode = i => e = d /\ j = k
    <2>1. PICK d, k : Visible(d, k) /\ Named(d, k) = i
      BY <1>1 DEF AllNamed
    <2>2. \A e, j : Visible(e, j) /\ Named(e, j) = i => e = d /\ j = k
      BY <1>1, <2>1 DEF NamedOnce
    <2>3. d \in Directories /\ k \in 1 .. inode[d].size /\ VisibleEntries(d)[k].inode = i
      BY <1>2, <1>3, <2>1
    <2>4. QED
      BY <1>2, <2>2, <2>3
  <1>6. QED
    BY <1>4, <1>5 DEF OneEntryPerInode

\* The tables keep their types, offsets their bound, and a descriptor a slot.
THEOREM RfsTyped == RfsSpec => []RfsTypeOK
  <1>1. FsInv => RfsTypeOK
    <2>1. ASSUME Typed PROVE DOMAIN entries = 0 .. NumBlocks
      BY <2>1 DEF Typed
    <2>2. QED
      BY <2>1 DEF FsInv, TreeInv, Typed, FilesInv, RfsTypeOK
  <1>2. QED
    BY <1>1, FsAlwaysSound, PTL

\* On every disk, whatever is created, removed and created again, an inode in use
\* has exactly one name and no name leads to a free inode.
THEOREM OneNamePerInode == RfsSpec => []OneEntryPerInode
  BY FsInvNames, FsAlwaysSound, PTL

\* No block is ever owned twice or lost, however many of them the files take.
THEOREM BlocksAlwaysOwned == RfsSpec => []BlocksOwned
  <1>1. FsInv => BlocksOwned
    BY DEF FsInv, TreeInv
  <1>2. QED
    BY <1>1, FsAlwaysSound, PTL

\* Block 0 is whole, or every data block is marked in use.
SpaceGone == superblock \/ 1 .. NumBlocks \subseteq blockBitmap

\* Only mkdir writes block 0, and alloc_block has no block for it only then.
LEMMA SpaceGoneAfter ==
    ASSUME FsInv, SpaceGone, [RfsNext]_rfsVars
    PROVE  SpaceGone'
  <1> USE DEF SpaceGone
  <1>1. CASE UNCHANGED <<blockBitmap, superblock>>
    BY <1>1
  <1>2. CASE superblock /\ UNCHANGED superblock
    BY <1>2
  <1>3. ASSUME superblock, NEW path \in Paths, FsMkdir(path) PROVE SpaceGone'
    <2>1. /\ blockBitmap' = blockBitmap \cup ({FreeBlock} \ {0})
          /\ superblock' = (superblock /\ FreeBlock # 0)
      BY <1>3 DEF FsMkdir
    <2>2. CASE FreeBlock # 0
      BY <1>3, <2>1, <2>2
    <2>3. CASE FreeBlock = 0
      BY <2>1, <2>3, FreeBlockIsFree
    <2>4. QED
      BY <2>2, <2>3
  <1>4. ASSUME NEW path \in Paths, FsRmdir(path) \/ FsUnlink(path) PROVE UNCHANGED superblock
    BY <1>4 DEF FsRmdir, FsUnlink, Removed
  <1>5. ASSUME NEW path \in Paths, NEW flags \in Flags, FsOpen(path, flags)
        PROVE  UNCHANGED superblock
    BY <1>5 DEF FsOpen, CreateFile, treeVars
  <1>6. ASSUME NEW s, NEW count, FsRead(s, count) \/ FsWrite(s, count)
        PROVE  UNCHANGED superblock
    BY <1>6 DEF FsRead, FsWrite, treeVars
  <1>7. ASSUME NEW s, NEW offset, NEW whence, FsClose(s) \/ FsLseek(s, offset, whence)
        PROVE  UNCHANGED superblock
    BY <1>7 DEF FsClose, FsLseek, treeVars
  <1>8. CASE UNCHANGED rfsVars
    BY <1>1, <1>8 DEF rfsVars, treeVars
  <1>9. CASE RfsNext
    BY <1>2, <1>3, <1>4, <1>5, <1>6, <1>7, <1>9 DEF RfsNext
  <1>10. QED
    BY <1>8, <1>9

\* mkdir writes over block 0 (line 340) only on a disk whose every block belongs to an
\* inode in use, whatever was written, created and removed before.
THEOREM SuperblockSafe == RfsSpec => []SuperblockOutlastsSpace
  <1>1. RfsInit => SpaceGone
    BY DEF RfsInit, SpaceGone
  <1>2. FsInv /\ SpaceGone /\ [RfsNext]_rfsVars => SpaceGone'
    BY SpaceGoneAfter
  <1>3. FsInv /\ SpaceGone => SuperblockOutlastsSpace
    BY DEF FsInv, TreeInv, Typed, BlocksOwned, SpaceGone, SuperblockOutlastsSpace
  <1>4. QED
    BY <1>1, <1>2, <1>3, FsAlwaysSound, PTL DEF RfsSpec

(***************************************************************************)
(* The file system implements a tree of paths.                             *)
(***************************************************************************)

\* What lookups say, as formulas that can be carried to the next state.
LooksUp ==
    \A path \in Seq(Names) :
        /\ path = <<>> => PathToInode(path) = Root
        /\ path # <<>> =>
             PathToInode(path) = FindInDirectory(PathToInode(Front(path)), Last(path))

Finds ==
    /\ \A name : FindInDirectory(0, name) = 0
    /\ \A d, k : Visible(d, k) => FindInDirectory(d, NameOf(d, k)) = Named(d, k)
    /\ \A d \in inodeBitmap : \A name :
          (\A k : Visible(d, k) => NameOf(d, k) # name) => FindInDirectory(d, name) = 0

\* A path is looked up name by name, in every state.
LEMMA LooksUpAlways == LooksUp
  BY LookUp DEF LooksUp

\* find_in_directory finds exactly the entries there are.
LEMMA FindsAlways == TreeInv => Finds
  <1> SUFFICES ASSUME TreeInv PROVE Finds
    OBVIOUS
  <1>1. Typed /\ NamesInv
    BY DEF TreeInv
  <1>2. \A name : FindInDirectory(0, name) = 0
    BY DEF FindInDirectory
  <1>3. \A d, k : Visible(d, k) => FindInDirectory(d, NameOf(d, k)) = Named(d, k)
    BY <1>1, FoundOne
  <1>4. \A d \in inodeBitmap : \A name :
          (\A k : Visible(d, k) => NameOf(d, k) # name) => FindInDirectory(d, name) = 0
    BY <1>1, FoundNone
  <1>5. QED
    BY <1>2, <1>3, <1>4 DEF Finds

\* A path without its last name, and a path from its parts.
LEMMA Parts ==
    ASSUME NEW q \in Seq(Names), q # <<>>
    PROVE  /\ Front(q) \in Seq(Names) /\ Len(q) \in Nat /\ Len(Front(q)) = Len(q) - 1
           /\ Len(q) - 1 \in Nat
           /\ \A p \in Seq(Names) : p # <<>> /\ Front(p) = Front(q) /\ Last(p) = Last(q) => p = q
  <1>1. ASSUME NEW r \in Seq(Names), r # <<>>
        PROVE  /\ Len(r) \in Nat \ {0} /\ Len(r) - 1 \in Nat
               /\ Front(r) \in Seq(Names) /\ Len(Front(r)) = Len(r) - 1
               /\ \A k \in 1 .. (Len(r) - 1) : r[k] = Front(r)[k]
    <2>1. PICK n \in Nat \ {0} : Len(r) = n
      BY <1>1, EmptySeq
    <2>2. n - 1 \in Nat /\ 1 \in Int /\ n - 1 \in Int /\ \A k \in 1 .. (n - 1) : k \in 1 .. n
      OBVIOUS
    <2>3. \A k \in 1 .. (n - 1) : r[k] \in Names
      BY <2>1, <2>2, ElementOfSeq
    <2>4. /\ SubSeq(r, 1, n - 1) \in Seq(Names)
          /\ Len(SubSeq(r, 1, n - 1)) = IF 1 <= n - 1 THEN n - 1 - 1 + 1 ELSE 0
          /\ \A k \in 1 .. (n - 1 - 1 + 1) : SubSeq(r, 1, n - 1)[k] = r[1 + k - 1]
      BY <2>2, <2>3, SubSeqProperties
    <2>5. Front(r) = SubSeq(r, 1, n - 1)
      BY <2>1 DEF Front
    <2>6. Len(Front(r)) = n - 1
      BY <2>2, <2>4, <2>5
    <2>7. \A k \in 1 .. (n - 1) : k \in 1 .. (n - 1 - 1 + 1) /\ 1 + k - 1 = k
      OBVIOUS
    <2>8. \A k \in 1 .. (n - 1) : r[k] = Front(r)[k]
      BY <2>4, <2>5, <2>7
    <2>9. QED
      BY <2>1, <2>2, <2>4, <2>5, <2>6, <2>8
  <1>2. ASSUME NEW p \in Seq(Names), p # <<>>, Front(p) = Front(q), Last(p) = Last(q)
        PROVE  p = q
    <2>1. PICK n \in Nat \ {0} : Len(q) = n
      BY <1>1
    <2>2. PICK m \in Nat \ {0} : Len(p) = m
      BY <1>1, <1>2
    <2>3. m = n
      <3>1. m - 1 = n - 1
        BY <1>1, <1>2, <2>1, <2>2
      <3>2. QED
        BY <3>1
    <2>4. ASSUME NEW k \in 1 .. n PROVE p[k] = q[k]
      <3>1. CASE k = n
        BY <1>2, <2>1, <2>2, <2>3, <3>1 DEF Last
      <3>2. CASE k # n
        <4>1. k \in 1 .. (n - 1)
          BY <3>2
        <4>2. QED
          BY <1>1, <1>2, <2>1, <2>2, <2>3, <4>1
      <3>3. QED
        BY <3>1, <3>2
    <2>5. QED
      BY <2>1, <2>2, <2>3, <2>4, SeqEqual
  <1>3. QED
    BY <1>1, <1>2

\* One inode, one path: every entry but one for the root has a name, and one only.
LEMMA PathUnique ==
    ASSUME TreeInv, NEW p \in Seq(Names), NEW q \in Seq(Names),
           PathToInode(p) = PathToInode(q), PathToInode(p) # 0
    PROVE  p = q
  <1> DEFINE Wrong(r) == \E t \in Seq(Names) : /\ PathToInode(r) = PathToInode(t)
                                             /\ PathToInode(r) # 0 /\ r # t
             Bad == {n \in Nat : \E r \in Seq(Names) : Len(r) = n /\ Wrong(r)}
  <1>1. Finds /\ LooksUp /\ Typed /\ NamesInv
    BY FindsAlways, LooksUpAlways DEF TreeInv
  <1>2. ASSUME NEW r \in Seq(Names), r # <<>>, PathToInode(r) # 0
        PROVE  \E k : LET d == PathToInode(Front(r)) IN
                  Visible(d, k) /\ NameOf(d, k) = Last(r) /\ Named(d, k) = PathToInode(r)
    <2>1. PICK d : d = PathToInode(Front(r))
      OBVIOUS
    <2>2. d \in inodeBitmap \cup {0}
      BY <1>2, <2>1, Parts, PathInUse
    <2>3. PathToInode(r) = FindInDirectory(d, Last(r))
      BY <1>1, <1>2, <2>1 DEF LooksUp
    <2>4. QED
      BY <1>1, <1>2, <2>1, <2>2, <2>3, Found
  <1>3. ASSUME Bad # {} PROVE FALSE
    <2> DEFINE n == Min(Bad)
    <2>1. n \in Bad /\ \A m \in Bad : n <= m
      BY <1>3, LeastIsMin
    <2>2. PICK r \in Seq(Names) : Len(r) = n /\ Wrong(r)
      BY <2>1
    <2>3. PICK t \in Seq(Names) : /\ PathToInode(r) = PathToInode(t)
                                 /\ PathToInode(r) # 0 /\ r # t
      BY <2>2
    <2>4. r # <<>> /\ t # <<>>
      <3>1. ASSUME NEW u \in Seq(Names), u # <<>>, PathToInode(u) = Root PROVE FALSE
        <4>1. Root # 0
          BY DEF Root
        <4>2. PICK k : LET d == PathToInode(Front(u)) IN Visible(d, k) /\ Named(d, k) = Root
          BY <1>2, <3>1, <4>1
        <4>3. QED
          BY <1>1, <4>2 DEF NamesInv, NamesInUse
      <3>2. \A u \in Seq(Names) : u = <<>> => PathToInode(u) = Root
        BY <1>1 DEF LooksUp
      <3>3. QED
        BY <2>3, <3>1, <3>2
    <2>5. PICK d, k : /\ d = PathToInode(Front(r)) /\ Visible(d, k) /\ NameOf(d, k) = Last(r)
                      /\ Named(d, k) = PathToInode(r)
      BY <1>2, <2>3, <2>4
    <2>6. PICK e, j : /\ e = PathToInode(Front(t)) /\ Visible(e, j) /\ NameOf(e, j) = Last(t)
                      /\ Named(e, j) = PathToInode(t)
      BY <1>2, <2>3, <2>4
    <2>7. d = e /\ k = j
      BY <1>1, <2>3, <2>5, <2>6 DEF NamesInv, NamedOnce
    <2>8. Last(r) = Last(t) /\ PathToInode(Front(r)) = PathToInode(Front(t))
      BY <2>5, <2>6, <2>7
    <2>9. PathToInode(Front(r)) # 0
      BY <1>1, <2>5 DEF Visible, Directories, Typed, Inodes
    <2>10. Front(r) # Front(t)
      BY <2>3, <2>4, <2>8, Parts
    <2>11. Front(r) \in Seq(Names) /\ Front(t) \in Seq(Names) /\ Len(Front(r)) = n - 1 /\ n - 1 \in Nat
      BY <2>2, <2>4, Parts
    <2>12. Wrong(Front(r))
      BY <2>8, <2>9, <2>10, <2>11
    <2>13. n - 1 \in Bad
      <3> HIDE DEF n, Wrong
      <3>1. QED
        BY <2>11, <2>12
    <2>14. n \in Nat /\ ~(n <= n - 1)
      <3>1. n \in Nat
        BY <2>1
      <3> HIDE DEF n
      <3>2. QED
        BY <3>1
    <2>15. QED
      BY <2>1, <2>13, <2>14
  <1>4. Len(p) \in Nat
    BY LenProperties
  <1>5. QED
    BY <1>3, <1>4

\* Only path may lead elsewhere after a step, and leads to v.
OnlyPath(path, v) ==
    /\ PathToInode(path)' = v
    /\ \A q \in Seq(Names) \ {path} : PathToInode(q)' = PathToInode(q)

\* A step that changes no lookup but that of the last name of path, when nothing is
\* below path before and after it, changes no other path.
LEMMA OtherPaths ==
    ASSUME TreeInv, NEW path \in Seq(Names), path # <<>>,
           NEW d, d = PathToInode(Front(path)), d # 0,
           NEW v, v = FindInDirectory(d, Last(path))',
           \A e \in inodeBitmap : \A y : ~(e = d /\ y = Last(path)) /\ e # PathToInode(path)
              => FindInDirectory(e, y)' = FindInDirectory(e, y),
           \A y : FindInDirectory(PathToInode(path), y) = 0,
           \A y : FindInDirectory(v, y)' = 0
    PROVE  OnlyPath(path, v)
  <1> DEFINE Differs(q) == q # path /\ PathToInode(q)' # PathToInode(q)
             Bad == {n \in Nat : \E q \in Seq(Names) : Len(q) = n /\ Differs(q)}
  <1>1. LooksUp /\ Finds
    BY FindsAlways, LooksUpAlways
  <1>2. LooksUp'
    BY LooksUpAlways, PTL
  <1>3. \A y : FindInDirectory(0, y) = 0 /\ FindInDirectory(0, y)' = 0
    BY DEF FindInDirectory
  <1>4. Front(path) \in Seq(Names) /\ Front(path) # path
    BY Parts
  <1>5. ASSUME PathToInode(Front(path))' = d PROVE PathToInode(path)' = v
    BY <1>2, <1>5 DEF LooksUp
  <1>6. ASSUME Bad # {} PROVE FALSE
    <2> DEFINE n == Min(Bad)
    <2>1. n \in Bad /\ \A m \in Bad : n <= m
      BY <1>6, LeastIsMin
    <2>2. PICK q \in Seq(Names) : Len(q) = n /\ Differs(q)
      BY <2>1
    <2>3. q # <<>>
      BY <1>1, <1>2, <2>2 DEF LooksUp
    <2>4. PICK f : f = Front(q)
      OBVIOUS
    <2>5. f \in Seq(Names) /\ Len(f) = n - 1 /\ n - 1 \in Nat
      BY <2>2, <2>3, <2>4, Parts
    <2>6. \A r \in Seq(Names) : Len(r) \in Nat /\ Len(r) < n => ~ Differs(r)
      <3>1. ASSUME NEW r \in Seq(Names), Len(r) \in Nat, Len(r) < n, Differs(r) PROVE FALSE
        <4>1. Len(r) \in Bad
          BY <3>1
        <4>2. n \in Nat /\ n <= Len(r)
          BY <2>1, <4>1
        <4> HIDE DEF n
        <4>3. QED
          BY <3>1, <4>2
      <3>2. QED
        BY <3>1
    <2>7. ~ Differs(f)
      <3>1. Len(f) \in Nat /\ Len(f) < n
        <4>1. n \in Nat
          BY <2>1
        <4> HIDE DEF n
        <4>2. QED
          BY <2>5, <4>1
      <3>2. QED
        BY <2>5, <2>6, <3>1
    <2>8. PICK y : y = Last(q)
      OBVIOUS
    <2>9. /\ PathToInode(q) = FindInDirectory(PathToInode(f), y)
          /\ PathToInode(q)' = FindInDirectory(PathToInode(f), y)'
      BY <1>1, <1>2, <2>3, <2>4, <2>8 DEF LooksUp
    <2>10. CASE f # path
      <3>1. PICK e : e = PathToInode(f)
        OBVIOUS
      <3>2. e = PathToInode(f)'
        BY <2>7, <2>10, <3>1
      <3>3. FindInDirectory(e, y)' # FindInDirectory(e, y)
        BY <2>2, <2>9, <3>1, <3>2
      <3>4. e \in inodeBitmap
        BY <1>3, <2>5, <3>1, <3>3, PathInUse
      <3>5. e # 0
        BY <1>3, <3>3
      <3>6. e # PathToInode(path)
        BY <2>5, <2>10, <3>1, <3>5, PathUnique
      <3>7. e = d /\ y = Last(path)
        BY <3>3, <3>4, <3>6
      <3>8. f = Front(path)
        BY <1>4, <2>5, <3>1, <3>5, <3>7, PathUnique
      <3>9. q = path
        BY <2>3, <2>4, <2>8, <3>7, <3>8, Parts
      <3>10. QED
        BY <2>2, <3>9
    <2>11. CASE f = path
      <3>1. PathToInode(q) = 0
        BY <2>9, <2>11
      <3>2. Len(Front(path)) = Len(path) - 1 /\ Len(path) - 1 \in Nat /\ Len(path) \in Nat
        BY Parts
      <3>3. Len(Front(path)) \in Nat /\ Len(Front(path)) < n
        <4>1. n \in Nat /\ Len(path) = n - 1
          BY <2>1, <2>5, <2>11
        <4> HIDE DEF n
        <4>2. QED
          BY <3>2, <4>1
      <3>4. PathToInode(Front(path))' = d
        BY <1>4, <2>6, <3>3
      <3>5. PathToInode(f)' = v
        BY <1>5, <2>11, <3>4
      <3>6. PathToInode(q)' = 0
        BY <2>9, <3>5
      <3>7. QED
        BY <2>2, <3>1, <3>6
    <2>12. QED
      BY <2>10, <2>11
  <1>7. \A q \in Seq(Names) : ~ Differs(q)
    <2>1. \A q \in Seq(Names) : Len(q) \in Nat
      BY LenProperties
    <2>2. QED
      BY <1>6, <2>1
  <1>8. PathToInode(Front(path))' = d
    BY <1>4, <1>7
  <1>9. QED
    BY <1>5, <1>7, <1>8 DEF OnlyPath

\* A step that leaves the entries alone changes no path.
LEMMA SamePaths ==
    ASSUME TreeInv, TreeInv', SameEntries, inodeBitmap' = inodeBitmap, NEW p \in Seq(Names)
    PROVE  PathToInode(p)' = PathToInode(p)
  <1> DEFINE Differs(q) == PathToInode(q)' # PathToInode(q)
             Bad == {n \in Nat : \E q \in Seq(Names) : Len(q) = n /\ Differs(q)}
  <1>1. LooksUp /\ Finds
    BY FindsAlways, LooksUpAlways
  <1>2. LooksUp' /\ Finds'
    BY FindsAlways, LooksUpAlways, PTL
  <1>3. ASSUME NEW e \in inodeBitmap, NEW y
        PROVE  FindInDirectory(e, y)' = FindInDirectory(e, y)
    <2>1. CASE \E k : Visible(e, k) /\ NameOf(e, k) = y
      <3>1. PICK k : Visible(e, k) /\ NameOf(e, k) = y
        BY <2>1
      <3>2. Visible(e, k)' /\ NameOf(e, k)' = y /\ Named(e, k)' = Named(e, k)
        BY <3>1 DEF SameEntries, NameOf, Named
      <3>3. FindInDirectory(e, y) = Named(e, k) /\ FindInDirectory(e, y)' = Named(e, k)'
        BY <1>1, <1>2, <3>1, <3>2 DEF Finds
      <3>4. QED
        BY <3>2, <3>3
    <2>2. CASE ~ \E k : Visible(e, k) /\ NameOf(e, k) = y
      <3>1. \A k : Visible(e, k)' => NameOf(e, k)' # y
        BY <2>2 DEF SameEntries, NameOf
      <3>2. FindInDirectory(e, y) = 0 /\ FindInDirectory(e, y)' = 0
        BY <1>1, <1>2, <2>2, <3>1 DEF Finds
      <3>3. QED
        BY <3>2
    <2>3. QED
      BY <2>1, <2>2
  <1>4. \A y : FindInDirectory(0, y) = 0 /\ FindInDirectory(0, y)' = 0
    BY DEF FindInDirectory
  <1>5. ASSUME Bad # {} PROVE FALSE
    <2> DEFINE n == Min(Bad)
    <2>1. n \in Bad /\ \A m \in Bad : n <= m
      BY <1>5, LeastIsMin
    <2>2. PICK q \in Seq(Names) : Len(q) = n /\ Differs(q)
      BY <2>1
    <2>3. q # <<>>
      BY <1>1, <1>2, <2>2 DEF LooksUp
    <2>4. PICK f : f = Front(q)
      OBVIOUS
    <2>5. f \in Seq(Names) /\ Len(f) = n - 1 /\ n - 1 \in Nat
      BY <2>2, <2>3, <2>4, Parts
    <2>6. ~ Differs(f)
      <3>1. ASSUME Differs(f) PROVE FALSE
        <4>1. Len(f) \in Bad
          BY <2>5, <3>1
        <4>2. n \in Nat /\ n <= Len(f)
          BY <2>1, <4>1
        <4> HIDE DEF n
        <4>3. QED
          BY <2>5, <4>2
      <3>2. QED
        BY <3>1
    <2>7. /\ PathToInode(q) = FindInDirectory(PathToInode(f), Last(q))
          /\ PathToInode(q)' = FindInDirectory(PathToInode(f), Last(q))'
      BY <1>1, <1>2, <2>3, <2>4 DEF LooksUp
    <2>8. PICK e : e = PathToInode(f)
      OBVIOUS
    <2>9. e = PathToInode(f)' /\ e \in inodeBitmap \cup {0}
      BY <2>5, <2>6, <2>8, PathInUse
    <2>10. FindInDirectory(e, Last(q))' = FindInDirectory(e, Last(q))
      BY <1>3, <1>4, <2>9
    <2>11. QED
      BY <2>2, <2>7, <2>8, <2>9, <2>10
  <1>6. Len(p) \in Nat
    BY LenProperties
  <1>7. QED
    BY <1>5, <1>6

\* The new name leads to the new inode, and nothing else is found elsewhere.
LEMMA FindsAfterCreation ==
    ASSUME TreeInv, TreeInv', NEW path \in Paths, path # <<>>, PathToInode(path) = 0,
           NEW i, i \notin inodeBitmap, i # 0, inodeBitmap' = inodeBitmap \cup {i},
           NameComes(path, i)
    PROVE  OnlyPath(path, i)
  <1>1. Finds /\ Finds' /\ inodeBitmap \subseteq Inodes
    BY FindsAlways, PTL DEF TreeInv, Typed
  <1>2. path \in Seq(Names)
    BY PathParts
  <1>3. PICK d, n : d \in Directories /\ d = PathToInode(Front(path)) /\ Appended(d, n, Last(path), i)
    BY DEF NameComes
  <1>4. d \in inodeBitmap /\ d # 0 /\ d # i
    BY <1>1, <1>3 DEF Directories, Inodes
  <1>5. /\ NameOf(d, n)' = Last(path) /\ Named(d, n)' = i
        /\ \A e, k : Visible(e, k)' <=> Visible(e, k) \/ (e = d /\ k = n)
        /\ \A e, k : Visible(e, k) => NameOf(e, k)' = NameOf(e, k) /\ Named(e, k)' = Named(e, k)
    BY <1>3 DEF Appended, NameOf, Named
  <1>6. ASSUME NEW e \in inodeBitmap, NEW y, ~(e = d /\ y = Last(path))
        PROVE  FindInDirectory(e, y)' = FindInDirectory(e, y)
    <2>1. CASE \E k : Visible(e, k) /\ NameOf(e, k) = y
      <3>1. PICK k : Visible(e, k) /\ NameOf(e, k) = y
        BY <2>1
      <3>2. Visible(e, k)' /\ NameOf(e, k)' = y /\ Named(e, k)' = Named(e, k)
        BY <1>5, <3>1
      <3>3. FindInDirectory(e, y) = Named(e, k) /\ FindInDirectory(e, y)' = Named(e, k)'
        BY <1>1, <3>1, <3>2 DEF Finds
      <3>4. QED
        BY <3>2, <3>3
    <2>2. CASE ~ \E k : Visible(e, k) /\ NameOf(e, k) = y
      <3>1. \A k : Visible(e, k)' => NameOf(e, k)' # y
        BY <1>5, <1>6, <2>2
      <3>2. e \in inodeBitmap'
        OBVIOUS
      <3>3. FindInDirectory(e, y) = 0 /\ FindInDirectory(e, y)' = 0
        BY <1>1, <2>2, <3>1, <3>2 DEF Finds
      <3>4. QED
        BY <3>3
    <2>3. QED
      BY <2>1, <2>2
  <1>7. FindInDirectory(d, Last(path))' = i
    <2>1. Visible(d, n)'
      BY <1>5
    <2>2. PICK y : y = Last(path)
      OBVIOUS
    <2>3. NameOf(d, n)' = y
      BY <1>5, <2>2
    <2>4. FindInDirectory(d, y)' = Named(d, n)'
      BY <1>1, <2>1, <2>3 DEF Finds
    <2>5. QED
      BY <1>5, <2>2, <2>4
  <1>8. \A y : FindInDirectory(PathToInode(path), y) = 0
    BY <1>1 DEF Finds
  <1>9. \A y : FindInDirectory(i, y)' = 0
    <2>1. \A k : ~ Visible(i, k)'
      BY <1>4, <1>5 DEF Visible, Directories
    <2>2. i \in inodeBitmap'
      OBVIOUS
    <2>3. QED
      BY <1>1, <2>1, <2>2 DEF Finds
  <1>10. \A e \in inodeBitmap : \A y : ~(e = d /\ y = Last(path)) /\ e # PathToInode(path)
            => FindInDirectory(e, y)' = FindInDirectory(e, y)
    BY <1>6
  <1>11. d = PathToInode(Front(path))
    BY <1>3
  <1>12. QED
    BY <1>2, <1>4, <1>7, <1>8, <1>9, <1>10, <1>11, OtherPaths

\* The name that is taken out leads nowhere, and all others are found as before.
LEMMA FindsAfterRemoval ==
    ASSUME TreeInv, TreeInv', NEW path \in Paths, path # <<>>,
           NEW i, i = PathToInode(path), i \in inodeBitmap,
           inode[i].type = "FILE" \/ inode[i].size = 0,
           inodeBitmap' = inodeBitmap \ {i}, NameGoes(path, i)
    PROVE  OnlyPath(path, 0) /\ \A y : FindInDirectory(i, y) = 0
  <1>1. Finds /\ Finds' /\ inodeBitmap \subseteq Inodes
    BY FindsAlways, PTL DEF TreeInv, Typed
  <1>2. path \in Seq(Names)
    BY PathParts
  <1>3. PICK d, n, g :
            /\ d \in Directories
            /\ d = PathToInode(Front(path)) /\ TakenOut(d, n, g)
            /\ Named(d, g) = i /\ NameOf(d, g) = Last(path)
    BY DEF NameGoes
  <1>4. PICK y : y = Last(path)
    OBVIOUS
  <1>5. /\ \A e, k : Visible(e, k)' =>
             /\ Visible(e, Was(e, k, d, g)) /\ ~(e = d /\ Was(e, k, d, g) = g)
             /\ NameOf(e, k)' = NameOf(e, Was(e, k, d, g))
             /\ Named(e, k)' = Named(e, Was(e, k, d, g))
        /\ \A e, k : Visible(e, k) /\ ~(e = d /\ k = g) =>
             \E j : Visible(e, j)' /\ Was(e, j, d, g) = k
        /\ Visible(d, g)
    BY <1>3, MovedDown DEF NameOf, Named
  <1>6. \A k : ~ Visible(i, k)
    BY DEF Visible, Directories
  <1>7. d \in inodeBitmap /\ d # 0 /\ d # i /\ d \in inodeBitmap'
    BY <1>1, <1>3, <1>5, <1>6 DEF Directories, Inodes
  <1>8. \A z : FindInDirectory(i, z) = 0
    BY <1>1, <1>6 DEF Finds
  <1>9. ASSUME NEW e \in inodeBitmap, NEW z, ~(e = d /\ z = y), e # i
        PROVE  FindInDirectory(e, z)' = FindInDirectory(e, z)
    <2>1. e \in inodeBitmap'
      BY <1>9
    <2>2. CASE \E k : Visible(e, k) /\ NameOf(e, k) = z
      <3>1. PICK k : Visible(e, k) /\ NameOf(e, k) = z
        BY <2>2
      <3>2. PICK j : Visible(e, j)' /\ Was(e, j, d, g) = k
        BY <1>3, <1>4, <1>5, <1>9, <3>1
      <3>3. NameOf(e, j)' = z /\ Named(e, j)' = Named(e, k)
        BY <1>5, <3>1, <3>2
      <3>4. FindInDirectory(e, z) = Named(e, k) /\ FindInDirectory(e, z)' = Named(e, j)'
        BY <1>1, <3>1, <3>2, <3>3 DEF Finds
      <3>5. QED
        BY <3>3, <3>4
    <2>3. CASE ~ \E k : Visible(e, k) /\ NameOf(e, k) = z
      <3>1. \A k : Visible(e, k)' => NameOf(e, k)' # z
        BY <1>5, <2>3
      <3>2. FindInDirectory(e, z) = 0 /\ FindInDirectory(e, z)' = 0
        BY <1>1, <2>1, <2>3, <3>1 DEF Finds
      <3>3. QED
        BY <3>2
    <2>4. QED
      BY <2>2, <2>3
  <1>10. FindInDirectory(d, y)' = 0
    <2>1. ASSUME NEW k, Visible(d, k)', NameOf(d, k)' = y PROVE FALSE
      <3>1. PICK j : j = Was(d, k, d, g)
        OBVIOUS
      <3>2. Visible(d, j) /\ j # g /\ NameOf(d, j) = NameOf(d, g)
        BY <1>3, <1>4, <1>5, <2>1, <3>1
      <3>3. QED
        BY <1>5, <3>2 DEF TreeInv, NamesInv, NamesDiffer
    <2>2. \A k : Visible(d, k)' => NameOf(d, k)' # y
      BY <2>1
    <2>3. QED
      BY <1>1, <1>7, <2>2 DEF Finds
  <1>11. 0 = FindInDirectory(d, Last(path))'
    BY <1>4, <1>10
  <1>12. \A e \in inodeBitmap : \A z : ~(e = d /\ z = Last(path)) /\ e # PathToInode(path)
            => FindInDirectory(e, z)' = FindInDirectory(e, z)
    BY <1>4, <1>9
  <1>13. /\ \A z : FindInDirectory(PathToInode(path), z) = 0
         /\ \A z : FindInDirectory(0, z)' = 0
    BY <1>1, <1>8 DEF Finds
  <1>14. OnlyPath(path, 0)
    BY <1>2, <1>3, <1>7, <1>11, <1>12, <1>13, OtherPaths
  <1>15. QED
    BY <1>8, <1>14

\* The paths that exist, and what a path that leads to inode i shows.
Known == {q \in Paths \cup {<<>>} : PathToInode(q) # 0}

Shown(i) ==
    [type |-> inode[i].type, size |-> IF inode[i].type = "DIR" THEN 0 ELSE inode[i].size]

\* The tree, as a formula that can be carried to the next state.
TreeShows ==
    /\ TreeOfPaths = [p \in Known |-> TreeOfPaths[p]]
    /\ \A p \in Known : TreeOfPaths[p] = Shown(PathToInode(p))
    /\ \A p : p \in Known <=> p \in Paths \cup {<<>>} /\ PathToInode(p) # 0

\* The tree has the paths that lead to an inode, each with what its inode shows.
LEMMA TreeShowsAlways == TreeShows
  BY DEF TreeShows, TreeOfPaths, Known, Shown

\* A step that keeps an inode keeps what it shows.
LEMMA ShownKept ==
    ASSUME Typed, NEW j \in inodeBitmap, NEW js, j \in js, KeepsInodes(js)
    PROVE  Shown(j)' = Shown(j)
  <1>1. inode[j].type \in {"DIR", "FILE"}
    BY DEF Typed, Types
  <1>2. inode'[j].type = inode[j].type /\ (inode[j].type = "FILE" => inode'[j].size = inode[j].size)
    BY DEF KeepsInodes
  <1>3. Shown(j)' = [type |-> inode'[j].type,
                     size |-> IF inode'[j].type = "DIR" THEN 0 ELSE inode'[j].size]
    BY DEF Shown
  <1>4. QED
    BY <1>1, <1>2, <1>3 DEF Shown

\* A change of one path is seen as one.
LEMMA OneChange ==
    ASSUME TreeInv, NEW path \in Paths, NEW v, OnlyPath(path, v),
           \A q \in Known \ {path} : Shown(PathToInode(q))' = Shown(PathToInode(q))
    PROVE  /\ \A q : q # path => (q \in Known' <=> q \in Known)
           /\ path \in Known' <=> v # 0
           /\ \A q \in Known \ {path} : TreeOfPaths'[q] = TreeOfPaths[q]
           /\ DOMAIN TreeOfPaths = Known /\ DOMAIN TreeOfPaths' = Known'
           /\ Tree!SameBut(path, TreeOfPaths, TreeOfPaths')
  <1> USE RfsAssumption
  <1>1. TreeShows /\ TreeShows'
    BY TreeShowsAlways, PTL
  <1>2. \A q \in Paths \cup {<<>>} : q \in Seq(Names)
    BY EmptySeq
  <1>3. DOMAIN TreeOfPaths = Known /\ DOMAIN TreeOfPaths' = Known'
    BY <1>1 DEF TreeShows
  <1>4. \A q : q # path => (q \in Known' <=> q \in Known)
    BY <1>1, <1>2 DEF TreeShows, OnlyPath
  <1>5. path \in Known' <=> v # 0
    BY <1>1 DEF TreeShows, OnlyPath
  <1>6. \A q \in Known \ {path} : TreeOfPaths'[q] = TreeOfPaths[q]
    <2>1. ASSUME NEW q \in Known \ {path} PROVE TreeOfPaths'[q] = TreeOfPaths[q]
      <3>1. q \in Known'
        BY <1>4
      <3>2. TreeOfPaths'[q] = Shown(PathToInode(q))'
        BY <1>1, <3>1 DEF TreeShows
      <3>3. TreeOfPaths[q] = Shown(PathToInode(q))
        BY <1>1 DEF TreeShows
      <3>4. QED
        BY <3>2, <3>3
    <2>2. QED
      BY <2>1
  <1>7. Tree!SameBut(path, TreeOfPaths, TreeOfPaths')
    <2>1. Known \ {path} = Known' \ {path}
      BY <1>4
    <2>2. QED
      BY <1>3, <1>6, <2>1 DEF Tree!SameBut
  <1>8. QED
    BY <1>3, <1>4, <1>5, <1>6, <1>7

\* Every step is a step of the tree, or none.
TreeStep == Tree!Next \/ UNCHANGED TreeOfPaths

\* A change of one path is a step of the tree.
LEMMA StepOf ==
    ASSUME NEW path \in Paths, Tree!SameBut(path, TreeOfPaths, TreeOfPaths'),
           \/ Tree!Appears(path, TreeOfPaths, TreeOfPaths')
           \/ Tree!Disappears(path, TreeOfPaths, TreeOfPaths')
           \/ Tree!Grows(path, TreeOfPaths, TreeOfPaths')
    PROVE  TreeStep
  BY DEF TreeStep, Tree!Next

\* Creating a file or a directory.
LEMMA CreationAppears ==
    ASSUME PathsClosed, TreeInv, NEW path \in Paths, NEW i, NEW type \in Types,
           Made(path, i, type)
    PROVE  TreeStep
  <1> USE RfsAssumption
  <1> SUFFICES ASSUME CanCreate(path), TreeInv', inodeBitmap' = inodeBitmap \cup {i},
                      i \notin inodeBitmap, i # 0,
                      inode'[i].type = type, inode'[i].size = 0,
                      KeepsInodes(inodeBitmap), NameComes(path, i)
               PROVE  TreeStep
    BY DEF Made, Inodes
  <1>1. path # <<>> /\ PathToInode(path) = 0 /\ path \in Seq(Names) /\ Typed
    BY DEF CanCreate, TreeInv
  <1>2. OnlyPath(path, i)
    BY <1>1, FindsAfterCreation
  <1>3. \A q \in Paths \cup {<<>>} : q \in Seq(Names)
    BY EmptySeq
  <1>4. ASSUME NEW q \in Known \ {path} PROVE Shown(PathToInode(q))' = Shown(PathToInode(q))
    <2>1. PICK j : j = PathToInode(q)
      OBVIOUS
    <2>2. q \in Seq(Names) /\ j # 0
      BY <1>3, <2>1 DEF Known
    <2>3. j = PathToInode(q)' /\ j \in inodeBitmap
      BY <1>2, <2>1, <2>2, PathInUse DEF OnlyPath
    <2>4. Shown(j)' = Shown(j)
      BY <1>1, <2>3, ShownKept
    <2>5. QED
      BY <2>1, <2>3, <2>4
  <1>5. /\ \A q : q # path => (q \in Known' <=> q \in Known)
        /\ path \in Known' <=> i # 0
        /\ DOMAIN TreeOfPaths = Known /\ DOMAIN TreeOfPaths' = Known'
        /\ Tree!SameBut(path, TreeOfPaths, TreeOfPaths')
    BY <1>2, <1>4, OneChange
  <1>6. TreeShows /\ TreeShows'
    BY TreeShowsAlways, PTL
  <1>7. path \notin Known /\ path \in Known'
    BY <1>1, <1>5 DEF Known
  <1>8. Front(path) \in Known /\ TreeOfPaths[Front(path)].type = "DIR"
    <2>1. PICK d : d = PathToInode(Front(path)) /\ d # 0 /\ inode[d].type = "DIR"
      BY DEF CanCreate
    <2>2. Front(path) \in Known
      BY <1>1, <2>1 DEF PathsClosed, Known
    <2>3. TreeOfPaths[Front(path)] = Shown(d)
      BY <1>6, <2>1, <2>2 DEF TreeShows
    <2>4. QED
      BY <2>1, <2>2, <2>3 DEF Shown
  <1>9. TreeOfPaths'[path] \in {Tree!Directory, Tree!NewFile}
    <2>1. TreeOfPaths'[path] = Shown(PathToInode(path))'
      BY <1>6, <1>7 DEF TreeShows
    <2>2. Shown(i)' = [type |-> type, size |-> 0]
      BY DEF Shown
    <2>3. i = PathToInode(path)'
      BY <1>2 DEF OnlyPath
    <2>4. TreeOfPaths'[path] = [type |-> type, size |-> 0]
      BY <2>1, <2>2, <2>3
    <2>5. QED
      BY <2>4 DEF Types, Tree!Directory, Tree!NewFile
  <1>10. Tree!Appears(path, TreeOfPaths, TreeOfPaths')
    BY <1>5, <1>7, <1>8, <1>9 DEF Tree!Appears, Tree!Front, Front
  <1>11. QED
    BY <1>5, <1>10, StepOf

\* Removing a file or an empty directory.
LEMMA RemovalDisappears ==
    ASSUME TreeInv, superblock, NEW path \in Paths, FsRmdir(path) \/ FsUnlink(path)
    PROVE  TreeStep
  <1> USE RfsAssumption
  <1>1. PICK i : i = PathToInode(path)
    OBVIOUS
  <1>2. /\ path # <<>> /\ i # 0 /\ Removed(path, i) /\ path \in Seq(Names)
        /\ inode[i].type = "FILE" \/ inode[i].size = 0
    BY <1>1 DEF FsRmdir, FsUnlink
  <1>3. /\ TreeInv' /\ inodeBitmap' = inodeBitmap \ {i} /\ i \in inodeBitmap
        /\ KeepsInodes(inodeBitmap') /\ NameGoes(path, i) /\ Typed
    BY <1>1, <1>2, Removal DEF TreeInv
  <1>4. OnlyPath(path, 0) /\ \A y : FindInDirectory(i, y) = 0
    BY <1>1, <1>2, <1>3, FindsAfterRemoval
  <1>5. \A q \in Paths \cup {<<>>} : q \in Seq(Names)
    BY EmptySeq
  <1>6. ASSUME NEW q \in Known \ {path} PROVE Shown(PathToInode(q))' = Shown(PathToInode(q))
    <2>1. PICK j : j = PathToInode(q)
      OBVIOUS
    <2>2. q \in Seq(Names) /\ j # 0
      BY <1>5, <2>1 DEF Known
    <2>3. j = PathToInode(q)' /\ j \in inodeBitmap
      BY <1>4, <2>1, <2>2, PathInUse DEF OnlyPath
    <2>4. j # i
      BY <1>1, <1>2, <2>1, <2>2, PathUnique
    <2>5. j \in inodeBitmap'
      BY <1>3, <2>3, <2>4
    <2>6. Shown(j)' = Shown(j)
      BY <1>3, <2>3, <2>5, ShownKept
    <2>7. QED
      BY <2>1, <2>3, <2>6
  <1>7. /\ path \in Known' <=> 0 # 0
        /\ DOMAIN TreeOfPaths = Known /\ DOMAIN TreeOfPaths' = Known'
        /\ Tree!SameBut(path, TreeOfPaths, TreeOfPaths')
    BY <1>4, <1>6, OneChange
  <1>8. path \in Known
    BY <1>1, <1>2 DEF Known
  <1>9. ASSUME NEW q \in Known \ {<<>>} PROVE Front(q) # path
    <2>1. q \in Seq(Names) /\ PathToInode(q) # 0
      BY <1>5 DEF Known
    <2>2. PathToInode(q) = FindInDirectory(PathToInode(Front(q)), Last(q))
      BY <2>1, LooksUpAlways DEF LooksUp
    <2>3. QED
      BY <1>1, <1>4, <2>1, <2>2
  <1>10. Tree!Disappears(path, TreeOfPaths, TreeOfPaths')
    BY <1>7, <1>8, <1>9 DEF Tree!Disappears, Tree!Front, Front
  <1>11. QED
    BY <1>7, <1>10, StepOf

\* Writing to a file: its path grows, or shows the same.
LEMMA WritingGrows ==
    ASSUME FsInv, NEW s \in OpenSlots, NEW count \in 1 .. MaxSize, FsWrite(s, count)
    PROVE  TreeStep
  <1> USE RfsAssumption
  <1>1. PICK i : i = file[s].inode
    OBVIOUS
  <1>2. /\ TreeInv /\ TreeInv' /\ Typed /\ i \in inodeBitmap /\ inode[i].type = "FILE"
        /\ SameEntries /\ inodeBitmap' = inodeBitmap /\ KeepsInodes(inodeBitmap \ {i})
        /\ inode'[i].type = "FILE" /\ inode'[i].size >= inode[i].size
        /\ inode'[i].size \in Nat /\ inode[i].size \in Nat
    <2>1. TreeInv /\ Typed
      BY DEF FsInv, TreeInv
    <2>2. QED
      BY <1>1, <2>1, FsWriteShows
  <1>3. \A q \in Seq(Names) : PathToInode(q)' = PathToInode(q)
    BY <1>2, SamePaths
  <1>4. \A q \in Paths \cup {<<>>} : q \in Seq(Names)
    BY EmptySeq
  <1>5. ASSUME NEW q \in Known PROVE
          \/ Shown(PathToInode(q))' = Shown(PathToInode(q)) /\ PathToInode(q) # i
          \/ PathToInode(q) = i /\ q \in Paths
    <2>1. PICK j : j = PathToInode(q)
      OBVIOUS
    <2>2. q \in Seq(Names) /\ j # 0
      BY <1>4, <2>1 DEF Known
    <2>3. j = PathToInode(q)' /\ j \in inodeBitmap
      BY <1>2, <1>3, <2>1, <2>2, PathInUse
    <2>4. CASE j # i
      <3>1. Shown(j)' = Shown(j)
        BY <1>2, <2>3, <2>4, ShownKept
      <3>2. QED
        BY <2>1, <2>3, <2>4, <3>1
    <2>5. CASE j = i
      <3>1. q # <<>>
        <4>1. PathToInode(<<>>) = Root
          BY LooksUpAlways, EmptySeq DEF LooksUp
        <4>2. inode[Root].type = "DIR"
          BY <1>2 DEF Typed, Directories
        <4>3. QED
          BY <1>2, <2>1, <2>5, <4>1, <4>2
      <3>2. QED
        BY <2>1, <2>5, <3>1 DEF Known
    <2>6. QED
      BY <2>4, <2>5
  <1>6. Known' = Known
    BY <1>3, <1>4 DEF Known
  <1>7. TreeShows /\ TreeShows'
    BY TreeShowsAlways, PTL
  <1>8. ASSUME \A q \in Known : Shown(PathToInode(q))' = Shown(PathToInode(q))
        PROVE  TreeStep
    <2>1. ASSUME NEW q \in Known PROVE TreeOfPaths'[q] = TreeOfPaths[q]
      <3>1. TreeOfPaths'[q] = Shown(PathToInode(q))'
        BY <1>6, <1>7 DEF TreeShows
      <3>2. TreeOfPaths[q] = Shown(PathToInode(q))
        BY <1>7 DEF TreeShows
      <3>3. QED
        BY <1>8, <3>1, <3>2
    <2>2. /\ TreeOfPaths = [q \in Known |-> TreeOfPaths[q]]
          /\ TreeOfPaths' = [q \in Known |-> TreeOfPaths'[q]]
      BY <1>6, <1>7 DEF TreeShows
    <2>3. TreeOfPaths' = TreeOfPaths
      BY <2>1, <2>2
    <2>4. QED
      BY <2>3 DEF TreeStep
  <1>9. ASSUME NEW path \in Paths, path \in Known, PathToInode(path) = i
        PROVE  TreeStep
    <2>1. OnlyPath(path, i)
      BY <1>3, <1>4, <1>9 DEF OnlyPath
    <2>2. \A q \in Known \ {path} : PathToInode(q) # i
      BY <1>4, <1>9, <1>2, PathUnique DEF Known
    <2>3. \A q \in Known \ {path} : Shown(PathToInode(q))' = Shown(PathToInode(q))
      BY <1>5, <2>2
    <2>4. /\ DOMAIN TreeOfPaths = Known /\ DOMAIN TreeOfPaths' = Known'
          /\ Tree!SameBut(path, TreeOfPaths, TreeOfPaths')
      BY <1>2, <2>1, <2>3, OneChange
    <2>5. /\ TreeOfPaths[path] = Shown(i)
          /\ TreeOfPaths'[path] = Shown(PathToInode(path))'
      BY <1>6, <1>7, <1>9 DEF TreeShows
    <2>6. i = PathToInode(path)'
      BY <2>1 DEF OnlyPath
    <2>7. /\ TreeOfPaths[path] = [type |-> "FILE", size |-> inode[i].size]
          /\ TreeOfPaths'[path] = [type |-> "FILE", size |-> inode'[i].size]
      <3>1. Shown(i) = [type |-> "FILE", size |-> inode[i].size]
        BY <1>2 DEF Shown
      <3>2. Shown(i)' = [type |-> "FILE", size |-> inode'[i].size]
        BY <1>2 DEF Shown
      <3>3. QED
        BY <2>5, <2>6, <3>1, <3>2
    <2>8. CASE inode'[i].size > inode[i].size
      <3>1. Tree!Grows(path, TreeOfPaths, TreeOfPaths')
        BY <1>6, <1>9, <2>4, <2>7, <2>8 DEF Tree!Grows
      <3>2. QED
        BY <2>4, <3>1, StepOf
    <2>9. CASE inode'[i].size = inode[i].size
      <3>1. TreeOfPaths' = TreeOfPaths
        <4>1. Shown(PathToInode(path))' = Shown(PathToInode(path))
          BY <1>9, <2>5, <2>7, <2>9
        <4>2. \A q \in Known : Shown(PathToInode(q))' = Shown(PathToInode(q))
          BY <2>3, <4>1
        <4>3. \A q \in Known : TreeOfPaths'[q] = TreeOfPaths[q]
          BY <1>6, <1>7, <4>2 DEF TreeShows
        <4>4. /\ TreeOfPaths = [q \in Known |-> TreeOfPaths[q]]
              /\ TreeOfPaths' = [q \in Known |-> TreeOfPaths'[q]]
          BY <1>6, <1>7 DEF TreeShows
        <4>5. QED
          BY <4>3, <4>4
      <3>2. QED
        BY <3>1 DEF TreeStep
    <2>10. QED
      BY <1>2, <2>8, <2>9
  <1>10. QED
    <2>1. CASE \E q \in Known : PathToInode(q) = i
      BY <1>5, <1>9, <2>1
    <2>2. CASE ~ \E q \in Known : PathToInode(q) = i
      BY <1>5, <1>8, <2>2
    <2>3. QED
      BY <2>1, <2>2

\* An operation that leaves the disk alone leaves the tree alone.
LEMMA SameDisk ==
    ASSUME TreeInv, UNCHANGED treeVars
    PROVE  TreeStep
  <1>1. /\ inodeBitmap' = inodeBitmap /\ inode' = inode /\ entries' = entries
    BY DEF treeVars
  <1>2. QED
    BY <1>1 DEF TreeStep, TreeOfPaths, PathToInode, FindInDirectory

\* A new file system is a tree with a root and nothing else.
LEMMA TreeStarts == RfsInit => Tree!Init
  <1> SUFFICES ASSUME RfsInit PROVE Tree!Init
    OBVIOUS
  <1>1. TreeInv
    BY FsInvStarts DEF FsInv
  <1>2. inodeBitmap = {Root} /\ inode[Root].type = "DIR" /\ inode[Root].size = 0 /\ Root # 0
    BY RfsAssumption DEF RfsInit, Root, Inodes
  <1>3. \A d, k : ~ Visible(d, k)
    BY <1>2 DEF Visible, Directories
  <1>4. Finds /\ LooksUp
    BY <1>1, FindsAlways, LooksUpAlways
  <1>5. \A d \in inodeBitmap \cup {0} : \A y : FindInDirectory(d, y) = 0
    BY <1>3, <1>4 DEF Finds
  <1>6. \A q \in Paths \ {<<>>} : PathToInode(q) = 0
    <2>1. ASSUME NEW q \in Paths, q # <<>> PROVE PathToInode(q) = 0
      <3>1. q \in Seq(Names) /\ Front(q) \in Seq(Names)
        BY <2>1, PathParts
      <3>2. PathToInode(Front(q)) \in inodeBitmap \cup {0}
        BY <1>1, <3>1, PathInUse
      <3>3. PathToInode(q) = FindInDirectory(PathToInode(Front(q)), Last(q))
        BY <1>4, <2>1, <3>1 DEF LooksUp
      <3>4. QED
        BY <1>5, <3>2, <3>3
    <2>2. QED
      BY <2>1
  <1>7. PathToInode(<<>>) = Root
    BY <1>4, EmptySeq DEF LooksUp
  <1>8. Known = {<<>>}
    BY <1>2, <1>6, <1>7 DEF Known
  <1>9. Shown(Root) = Tree!Directory
    BY <1>2 DEF Shown, Tree!Directory
  <1>10. TreeOfPaths = [p \in {<<>>} |-> Tree!Directory]
    <2>1. TreeShows
      BY TreeShowsAlways
    <2>2. TreeOfPaths = [p \in {<<>>} |-> TreeOfPaths[p]]
      BY <1>8, <2>1 DEF TreeShows
    <2>3. TreeOfPaths[<<>>] = Tree!Directory
      BY <1>7, <1>8, <1>9, <2>1 DEF TreeShows
    <2>4. QED
      BY <2>2, <2>3
  <1>11. QED
    BY <1>10 DEF Tree!Init

\* Every operation of the file system is a step of the tree, or none.
LEMMA TreeStepTaken ==
    ASSUME PathsClosed, FsInv, [RfsNext]_rfsVars
    PROVE  [Tree!Next]_TreeOfPaths
  <1>1. TreeInv
    BY DEF FsInv
  <1>2. "DIR" \in Types /\ "FILE" \in Types
    BY DEF Types
  <1>3. ASSUME superblock, NEW path \in Paths, NEW flags \in Flags, FsOpen(path, flags)
        PROVE  TreeStep
    <2>1. CASE UNCHANGED treeVars
      BY <1>1, <2>1, SameDisk
    <2>2. ASSUME NEW i \in Inodes, CreateFile(path, i, "FILE") PROVE TreeStep
      <3>1. Made(path, i, "FILE")
        BY <1>1, <1>3, <2>2, CreateFileMakes
      <3>2. QED
        BY <1>1, <1>2, <3>1, CreationAppears
    <2>3. QED
      BY <1>3, <2>1, <2>2 DEF FsOpen
  <1>4. ASSUME superblock, NEW path \in Paths, FsMkdir(path) PROVE TreeStep
    <2>1. PICK i : Made(path, i, "DIR")
      BY <1>1, <1>4, FsMkdirMakes
    <2>2. QED
      BY <1>1, <1>2, <2>1, CreationAppears
  <1>5. ASSUME superblock, NEW path \in Paths, FsRmdir(path) \/ FsUnlink(path) PROVE TreeStep
    BY <1>1, <1>5, RemovalDisappears
  <1>6. ASSUME NEW s \in OpenSlots, NEW count \in 1 .. MaxSize, FsWrite(s, count) PROVE TreeStep
    BY <1>6, WritingGrows
  <1>7. ASSUME UNCHANGED treeVars PROVE TreeStep
    BY <1>1, <1>7, SameDisk
  <1>8. TreeStep
    <2>0. UNCHANGED rfsVars \/ superblock
      BY DEF RfsNext
    <2>1. CASE superblock /\ \E path \in Paths, flags \in Flags : FsOpen(path, flags)
      BY <1>3, <2>1
    <2>2. CASE superblock /\ \E path \in Paths : FsMkdir(path) \/ FsRmdir(path) \/ FsUnlink(path)
      BY <1>4, <1>5, <2>2
    <2>3. CASE \E s \in OpenSlots : FsClose(s)
      BY <1>7, <2>3 DEF FsClose
    <2>4. CASE \E s \in OpenSlots, count \in 1 .. MaxSize : FsRead(s, count) \/ FsWrite(s, count)
      BY <1>6, <1>7, <2>4 DEF FsRead
    <2>5. CASE \E s \in OpenSlots, offset \in -1 .. MaxSize, whence \in {"SET", "CUR", "END"} :
                  FsLseek(s, offset, whence)
      BY <1>7, <2>5 DEF FsLseek
    <2>6. CASE UNCHANGED rfsVars
      BY <1>7, <2>6 DEF rfsVars
    <2>7. QED
      BY <2>0, <2>1, <2>2, <2>3, <2>4, <2>5, <2>6 DEF RfsNext
  <1>9. QED
    BY <1>8 DEF TreeStep

\* Inodes, entries and blocks implement a tree of paths: what is done to one path
\* shows at no other one, however inodes and blocks are used again.
THEOREM TreeImplemented ==
    ASSUME PathsClosed
    PROVE  RfsSpec => ImplementsTree
  <1>1. RfsInit => Tree!Init
    BY TreeStarts
  <1>2. FsInv /\ [RfsNext]_rfsVars => [Tree!Next]_TreeOfPaths
    BY TreeStepTaken
  <1>3. QED
    BY <1>1, <1>2, FsAlwaysSound, PTL DEF RfsSpec, ImplementsTree, Tree!Spec
=============================================================================
