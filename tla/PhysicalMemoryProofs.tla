------------------------ MODULE PhysicalMemoryProofs ------------------------
(***************************************************************************)
(* What the page frames and the buddy allocator keep, for every memory map,*)
(* page size and number of orders.                                         *)
(***************************************************************************)
EXTENDS PhysicalMemory, FiniteSetTheorems, FunctionTheorems, SequenceTheorems,
        WellFoundedInduction, TLAPS

-----------------------------------------------------------------------------
(***************************************************************************)
(* Least elements and powers of two.                                       *)
(***************************************************************************)

\* Every non-empty set of natural numbers has a least element.
LEMMA LeastNatural ==
    ASSUME NEW S, S \subseteq Nat, S # {}
    PROVE  \E m \in S : \A k \in S : m <= k
  <1> DEFINE upTo == [t \in Nat |-> 0 .. t]
             T == {U \in SUBSET Nat : \E t \in S : U = 0 .. t}
             R == StrictSubsetOrdering(Nat)
  <1>1. IsWellFoundedOn(R, FiniteSubsetsOf(Nat))
    BY FS_StrictSubsetOrderingWellFounded
  <1>2. T \subseteq FiniteSubsetsOf(Nat)
    BY FS_Interval DEF FiniteSubsetsOf
  <1>3. T # {}
    <2>1. PICK t \in S : TRUE
      OBVIOUS
    <2>2. (0 .. t) \in T
      BY <2>1
    <2>3. QED
      BY <2>2
  <1> HIDE DEF T
  <1>4. PICK U \in T : \A V \in T : ~ (<<V, U>> \in R)
    <2> HIDE DEF R
    <2>1. QED
      BY <1>1, <1>2, <1>3, WFMin
  <1>5. PICK m \in S : U = 0 .. m
    BY <1>4 DEF T
  <1>6. ASSUME NEW k \in S, k < m PROVE FALSE
    <2>1. (0 .. k) \in T
      BY DEF T
    <2>2. (0 .. k) \subseteq U /\ (0 .. k) # U
      BY <1>5, <1>6
    <2>3. <<0 .. k, U>> \in R
      BY <2>1, <2>2, <1>5 DEF StrictSubsetOrdering
    <2>4. QED
      BY <1>4, <2>1, <2>3
  <1>7. QED
    BY <1>6

\* 2^n is the number of subsets of a set of n elements.
LEMMA PowerIsCount ==
    ASSUME NEW n \in Nat
    PROVE  2^n \in Nat /\ 2^n = Cardinality(SUBSET (1 .. n)) /\ IsFiniteSet(SUBSET (1 .. n))
  <1> DEFINE S == 1 .. n
  <1>1. IsFiniteSet(S) /\ Cardinality(S) = n
    <2>1. IsFiniteSet(1 .. n) /\ Cardinality(1 .. n) = IF 1 > n THEN 0 ELSE n - 1 + 1
      BY FS_Interval
    <2>2. QED
      BY <2>1
  <1> HIDE DEF S
  <1>2. IsFiniteSet(SUBSET S) /\ Cardinality(SUBSET S) = 2^Cardinality(S)
    BY <1>1, FS_SUBSET
  <1>3. Cardinality(SUBSET S) \in Nat
    BY <1>2, FS_CardinalityType
  <1>4. Cardinality(SUBSET S) = 2^n
    BY <1>1, <1>2
  <1>5. QED
    BY <1>2, <1>3, <1>4 DEF S

\* Half of the subsets of 1 .. n + 1 hold n + 1.
LEMMA PowerDoubles ==
    ASSUME NEW n \in Nat
    PROVE  2^(n + 1) = 2^n + 2^n
  <1> DEFINE A == SUBSET (1 .. n)
             B == {X \in SUBSET (1 .. (n + 1)) : n + 1 \in X}
             f == [X \in A |-> X \cup {n + 1}]
  <1>1. f \in Bijection(A, B)
    <2>1. f \in [A -> B]
      OBVIOUS
    <2>2. \A X, Y \in A : f[X] = f[Y] => X = Y
      OBVIOUS
    <2>3. ASSUME NEW Y \in B PROVE \E X \in A : f[X] = Y
      <3>1. Y \ {n + 1} \in A /\ f[Y \ {n + 1}] = Y
        OBVIOUS
      <3>2. QED
        BY <3>1
    <2>4. QED
      BY <2>1, <2>2, <2>3 DEF Bijection, Injection, Surjection, IsInjective
  <1>2. IsFiniteSet(A) /\ Cardinality(A) = 2^n
    BY PowerIsCount
  <1>3. IsFiniteSet(B) /\ Cardinality(B) = 2^n
    BY <1>1, <1>2, FS_Bijection DEF ExistsBijection
  <1>4. SUBSET (1 .. (n + 1)) = A \cup B /\ A \cap B = {}
    OBVIOUS
  <1>5. 2^(n + 1) = Cardinality(A \cup B)
    BY <1>4, PowerIsCount
  <1> HIDE DEF A, B
  <1>6. Cardinality(A \cup B) = 2^n + 2^n
    <2>1. Cardinality(A \cup B) = Cardinality(A) + Cardinality(B) - Cardinality(A \cap B)
      BY <1>2, <1>3, FS_Union
    <2>2. Cardinality(A \cap B) = 0
      BY <1>4, FS_EmptySet
    <2>3. Cardinality(A) \in Nat /\ Cardinality(B) \in Nat
      BY <1>2, <1>3, FS_CardinalityType
    <2> DEFINE a == Cardinality(A)
               b == Cardinality(B)
    <2>4. a = 2^n /\ b = 2^n /\ a \in Nat /\ b \in Nat /\ Cardinality(A \cup B) = a + b
      BY <1>2, <1>3, <2>1, <2>2, <2>3
    <2> HIDE DEF a, b
    <2>5. QED
      BY <2>4
  <1>7. QED
    BY <1>5, <1>6

\* The pages of a block of order o: 2^o, a name of its own for the provers.
Size(o) == 2^o


\* What a proof needs to know of the number of pages of a block.
LEMMA SizeFacts ==
    ASSUME NEW n \in Nat
    PROVE  /\ Size(n) \in Nat \ {0}
           /\ Size(n + 1) = Size(n) + Size(n)
           /\ Size(0) = 1
  <1>1. 2^n # 0
    <2>1. {} \in SUBSET (1 .. n)
      OBVIOUS
    <2> DEFINE T == SUBSET (1 .. n)
    <2>2. T # {} /\ IsFiniteSet(T) /\ 2^n = Cardinality(T)
      BY <2>1, PowerIsCount
    <2> HIDE DEF T
    <2>3. QED
      BY <2>2, FS_EmptySet
  <1>2. 2^0 = 1
    OBVIOUS
  <1>3. 2^n \in Nat /\ 2^(n + 1) = 2^n + 2^n
    BY PowerIsCount, PowerDoubles
  <1>4. Size(n) \in Nat \ {0}
    BY <1>1, <1>3 DEF Size
  <1>5. Size(n + 1) = Size(n) + Size(n)
    BY <1>3 DEF Size
  <1>6. Size(0) = 1
    BY <1>2 DEF Size
  <1>7. QED
    BY <1>4, <1>5, <1>6

\* A larger block is made of whole smaller ones.
LEMMA SizeMultiple ==
    ASSUME NEW p \in Nat, NEW o \in Nat, p <= o
    PROVE  \E k \in Nat \ {0} : Size(o) = k * Size(p)
  <1> DEFINE Holds(n) == \E k \in Nat \ {0} : Size(n) = k * Size(p)
             S == {n \in Nat : p <= n /\ ~Holds(n)}
  <1>1. Holds(p)
    BY SizeFacts
  <1>2. ASSUME NEW n \in Nat, Holds(n) PROVE Holds(n + 1)
    <2>1. PICK k \in Nat \ {0} : Size(n) = k * Size(p)
      BY <1>2
    <2>2. Size(n + 1) = (k + k) * Size(p)
      BY <2>1, SizeFacts
    <2>3. QED
      BY <2>1, <2>2
  <1>3. S = {}
    <2> SUFFICES ASSUME S # {} PROVE FALSE
      OBVIOUS
    <2>1. PICK m \in S : \A n \in S : m <= n
      BY LeastNatural
    <2>2. m \in Nat /\ p <= m /\ ~Holds(m)
      OBVIOUS
    <2>3. m # p
      BY <1>1, <2>2
    <2> HIDE DEF Holds
    <2>4. m - 1 \in Nat /\ p <= m - 1 /\ m - 1 \notin S
      BY <2>1, <2>2, <2>3
    <2>5. Holds(m - 1) /\ (m - 1) + 1 = m
      BY <2>4
    <2>6. QED
      BY <1>2, <2>2, <2>4, <2>5
  <1>4. QED
    BY <1>3

\* Two blocks of an order fit into one of any higher order.
LEMMA SizeGrows ==
    ASSUME NEW p \in Nat, NEW o \in Nat, p < o
    PROVE  Size(p) + Size(p) <= Size(o)
  <1>1. p + 1 \in Nat /\ p + 1 <= o
    OBVIOUS
  <1>2. PICK k \in Nat \ {0} : Size(o) = k * Size(p + 1)
    BY <1>1, SizeMultiple
  <1>3. Size(p + 1) \in Nat /\ Size(p + 1) = Size(p) + Size(p)
    BY <1>1, SizeFacts
  <1>4. k * Size(p + 1) >= Size(p + 1)
    BY <1>3
  <1>5. QED
    BY <1>2, <1>3, <1>4

\* The quotient is the only number whose multiples enclose n.
LEMMA Quotient ==
    ASSUME NEW n \in Nat, NEW d \in Nat \ {0}, NEW q \in Nat, q * d <= n, n < q * d + d
    PROVE  n \div d = q
  <1>1. n \div d \in Nat /\ (n \div d) * d <= n /\ n < (n \div d) * d + d
    OBVIOUS
  <1> DEFINE r == n \div d
  <1> HIDE DEF r
  <1>2. r \in Nat /\ r * d <= n /\ n < r * d + d
    BY <1>1 DEF r
  <1>3. ~ (r + 1 <= q)
    <2> SUFFICES ASSUME r + 1 <= q PROVE FALSE
      OBVIOUS
    <2>1. (r + 1) * d <= q * d /\ (r + 1) * d = r * d + d
      BY <1>2
    <2>2. QED
      BY <1>2, <2>1
  <1>4. ~ (q + 1 <= r)
    <2> SUFFICES ASSUME q + 1 <= r PROVE FALSE
      OBVIOUS
    <2>1. (q + 1) * d <= r * d /\ (q + 1) * d = q * d + d
      BY <1>2
    <2>2. QED
      BY <1>2, <2>1
  <1>5. r = q
    BY <1>2, <1>3, <1>4
  <1>6. QED
    BY <1>5 DEF r

\* Remainder 0 means multiple.
LEMMA Remainder ==
    ASSUME NEW n \in Nat, NEW d \in Nat \ {0}
    PROVE  n % d = 0 <=> \E i \in Nat : n = i * d
  <1>1. n % d = 0 => \E i \in Nat : n = i * d
    <2>1. n = (n \div d) * d + (n % d) /\ n \div d \in Nat
      OBVIOUS
    <2>2. QED
      BY <2>1
  <1>2. ASSUME NEW i \in Nat, n = i * d PROVE n % d = 0
    <2>1. n \div d = i
      BY <1>2, Quotient
    <2>2. n = (n \div d) * d + (n % d) /\ n % d \in Int
      OBVIOUS
    <2>3. QED
      BY <1>2, <2>1, <2>2
  <1>3. QED
    BY <1>1, <1>2

-----------------------------------------------------------------------------
(***************************************************************************)
(* Blocks, tilings and lists.                                              *)
(***************************************************************************)

\* What a block is.
BlockType == [address : Nat, order : Orders]

\* Blocks that are aligned and do not overlap.
Tiles(S) ==
    /\ S \subseteq BlockType
    /\ \A b \in S : b.address % 2^b.order = 0
    /\ \A b, c \in S : b # c => Pages(b) \cap Pages(c) = {}

\* The pages of a set of blocks.
Cover(S) == UNION {Pages(b) : b \in S}

\* The fields and the pages of a block.
LEMMA PagesOf ==
    ASSUME NEW b \in BlockType
    PROVE  /\ b.address \in Nat /\ b.order \in Orders /\ b.order \in Nat
           /\ Size(b.order) \in Nat \ {0}
           /\ Pages(b) = b.address .. (b.address + Size(b.order) - 1)
           /\ b.address \in Pages(b)
           /\ b = Block(b.address, b.order)
  <1>1. b.address \in Nat /\ b.order \in Orders /\ b.order \in Nat
    BY OrderAssumption DEF BlockType, Orders
  <1>2. Size(b.order) \in Nat \ {0}
    BY <1>1, SizeFacts
  <1>3. Pages(b) = b.address .. (b.address + Size(b.order) - 1)
    BY DEF Pages, Size
  <1>4. b.address \in Pages(b)
    BY <1>1, <1>2, <1>3
  <1>5. b = Block(b.address, b.order)
    BY DEF BlockType, Block
  <1>6. QED
    BY <1>1, <1>2, <1>3, <1>4, <1>5

\* The fields and the pages of a block that is made.
LEMMA BlockFields ==
    ASSUME NEW a \in Nat, NEW o \in Orders
    PROVE  /\ Block(a, o) \in BlockType /\ Block(a, o).address = a /\ Block(a, o).order = o
           /\ Pages(Block(a, o)) = a .. (a + Size(o) - 1)
  BY DEF Block, BlockType, Pages, Size

\* Blocks that are replaced by others with the same pages leave a tiling.
LEMMA Replaced ==
    ASSUME NEW S, NEW R, NEW T, Tiles(S), R \subseteq S, Tiles(T), Cover(T) = Cover(R)
    PROVE  /\ Tiles((S \ R) \cup T)
           /\ Cover((S \ R) \cup T) = Cover(S)
           /\ T \cap (S \ R) = {}
  <1>1. ASSUME NEW b \in S \ R, NEW c \in T PROVE Pages(b) \cap Pages(c) = {}
    <2> SUFFICES ASSUME NEW x \in Pages(b), x \in Pages(c) PROVE FALSE
      OBVIOUS
    <2>1. x \in Cover(R)
      BY DEF Cover
    <2>2. PICK d \in R : x \in Pages(d)
      BY <2>1 DEF Cover
    <2>3. b # d /\ b \in S /\ d \in S
      OBVIOUS
    <2>4. QED
      BY <2>2, <2>3 DEF Tiles
  <1>2. Tiles((S \ R) \cup T)
    <2> DEFINE N == (S \ R) \cup T
    <2>1. N \subseteq BlockType /\ \A b \in N : b.address % 2^b.order = 0
      BY DEF Tiles
    <2>2. ASSUME NEW b \in N, NEW c \in N, b # c PROVE Pages(b) \cap Pages(c) = {}
      <3>1. CASE b \in S \ R /\ c \in S \ R
        BY <2>2, <3>1 DEF Tiles
      <3>2. CASE b \in T /\ c \in T
        BY <2>2, <3>2 DEF Tiles
      <3>3. QED
        BY <1>1, <3>1, <3>2
    <2>3. QED
      BY <2>1, <2>2 DEF Tiles
  <1>3. Cover((S \ R) \cup T) = Cover(S)
    <2>1. Cover((S \ R) \cup T) = Cover(S \ R) \cup Cover(T)
      BY DEF Cover
    <2>2. Cover(S) = Cover(S \ R) \cup Cover(R)
      BY DEF Cover
    <2>3. QED
      BY <2>1, <2>2
  <1>4. T \cap (S \ R) = {}
    <2> SUFFICES ASSUME NEW b \in T, b \in S \ R PROVE FALSE
      OBVIOUS
    <2>1. b \in BlockType
      BY DEF Tiles
    <2>2. b.address \in Pages(b)
      BY <2>1, PagesOf
    <2>3. QED
      BY <2>2, <1>1
  <1>5. QED
    BY <1>2, <1>3, <1>4

\* A list without repeats.
Injective(s) == \A i, j \in DOMAIN s : s[i] = s[j] => i = j

\* What a list holds after a push.
LEMMA Pushed ==
    ASSUME NEW s \in Seq(Nat), Injective(s), NEW a \in Nat, a \notin ToSet(s)
    PROVE  /\ <<a>> \o s \in Seq(Nat) /\ Injective(<<a>> \o s)
           /\ ToSet(<<a>> \o s) = ToSet(s) \cup {a}
  <1> DEFINE n == <<a>> \o s
  <1>1. n \in Seq(Nat) /\ DOMAIN n = 1 .. (Len(s) + 1) /\ DOMAIN s = 1 .. Len(s) /\ Len(s) \in Nat
    OBVIOUS
  <1>2. n[1] = a /\ \A i \in 1 .. Len(s) : n[i + 1] = s[i]
    OBVIOUS
  <1>3. \A i \in DOMAIN n : i = 1 \/ \E j \in DOMAIN s : i = j + 1
    <2> SUFFICES ASSUME NEW i \in DOMAIN n, i # 1 PROVE \E j \in DOMAIN s : i = j + 1
      OBVIOUS
    <2>1. i - 1 \in DOMAIN s /\ i = (i - 1) + 1
      BY <1>1
    <2>2. QED
      BY <2>1
  <1> HIDE DEF n
  <1>4. ToSet(n) = ToSet(s) \cup {a}
    <2>1. ToSet(n) \subseteq ToSet(s) \cup {a}
      BY <1>1, <1>2, <1>3 DEF ToSet
    <2>2. a \in ToSet(n)
      BY <1>1, <1>2 DEF ToSet
    <2>3. ASSUME NEW j \in DOMAIN s PROVE s[j] \in ToSet(n)
      <3>1. j + 1 \in DOMAIN n /\ n[j + 1] = s[j]
        BY <1>1, <1>2
      <3>2. QED
        BY <3>1 DEF ToSet
    <2>4. QED
      BY <2>1, <2>2, <2>3 DEF ToSet
  <1>5. Injective(n)
    <2> SUFFICES ASSUME NEW i \in DOMAIN n, NEW j \in DOMAIN n, n[i] = n[j] PROVE i = j
      BY DEF Injective
    <2>1. \A k \in DOMAIN s : s[k] # a
      BY DEF ToSet
    <2>2. \A k \in DOMAIN s : n[k + 1] # n[1]
      BY <1>1, <1>2, <2>1
    <2>3. CASE i # 1 /\ j # 1
      <3>1. PICK k \in DOMAIN s, l \in DOMAIN s : i = k + 1 /\ j = l + 1
        BY <1>3, <2>3
      <3>2. s[k] = s[l]
        BY <1>1, <1>2, <3>1
      <3>3. QED
        BY <3>1, <3>2 DEF Injective
    <2>4. QED
      BY <1>3, <2>2, <2>3
  <1>6. QED
    BY <1>1, <1>4, <1>5 DEF n

\* What a list holds after its head is taken.
LEMMA Popped ==
    ASSUME NEW s \in Seq(Nat), Injective(s), s # <<>>
    PROVE  /\ Head(s) \in Nat /\ Head(s) \in ToSet(s)
           /\ Tail(s) \in Seq(Nat) /\ Injective(Tail(s))
           /\ ToSet(Tail(s)) = ToSet(s) \ {Head(s)}
  <1> DEFINE n == Tail(s)
  <1>1. /\ n \in Seq(Nat) /\ DOMAIN n = 1 .. (Len(s) - 1) /\ DOMAIN s = 1 .. Len(s)
        /\ Len(s) \in Nat \ {0} /\ Head(s) = s[1] /\ 1 \in DOMAIN s
    OBVIOUS
  <1>2. \A i \in DOMAIN n : n[i] = s[i + 1] /\ i + 1 \in DOMAIN s /\ i + 1 # 1
    OBVIOUS
  <1>3. \A j \in DOMAIN s : j = 1 \/ (j - 1 \in DOMAIN n /\ n[j - 1] = s[j])
    OBVIOUS
  <1> HIDE DEF n
  <1>4. ToSet(n) = ToSet(s) \ {Head(s)}
    <2>1. ASSUME NEW i \in DOMAIN n PROVE n[i] \in ToSet(s) \ {Head(s)}
      BY <1>1, <1>2 DEF ToSet, Injective
    <2>2. ASSUME NEW j \in DOMAIN s, s[j] # Head(s) PROVE s[j] \in ToSet(n)
      <3>1. j # 1
        BY <1>1, <2>2
      <3>2. QED
        BY <1>3, <3>1 DEF ToSet
    <2>3. QED
      BY <2>1, <2>2 DEF ToSet
  <1>5. Injective(n)
    <2> SUFFICES ASSUME NEW i \in DOMAIN n, NEW j \in DOMAIN n, n[i] = n[j] PROVE i = j
      BY DEF Injective
    <2>1. s[i + 1] = s[j + 1] /\ i + 1 \in DOMAIN s /\ j + 1 \in DOMAIN s /\ i \in Int /\ j \in Int
      BY <1>1, <1>2
    <2>2. i + 1 = j + 1
      BY <2>1 DEF Injective
    <2>3. QED
      BY <2>1, <2>2
  <1>6. Head(s) \in Nat /\ Head(s) \in ToSet(s)
    <2>1. s[1] \in Nat /\ s[1] \in ToSet(s)
      BY <1>1 DEF ToSet
    <2>2. QED
      BY <1>1, <2>1
  <1>7. QED
    BY <1>1, <1>4, <1>5, <1>6 DEF n

\* Positions of a sequence without its i-th element, in the whole sequence.
LEMMA Between ==
    ASSUME NEW m \in Nat, NEW k \in 1 .. (m - 1), NEW i \in 1 .. m
    PROVE  /\ k \in Int /\ k \in 1 .. m /\ k + 1 \in 1 .. m
           /\ (k < i => k # i) /\ (~(k < i) => k + 1 # i)
  OBVIOUS

\* Positions of a sequence, in the sequence without its i-th element.
LEMMA Shifted ==
    ASSUME NEW m \in Nat, NEW i \in 1 .. m, NEW j \in 1 .. m, j # i
    PROVE  \/ j < i /\ j \in 1 .. (m - 1)
           \/ ~(j < i) /\ j - 1 \in 1 .. (m - 1) /\ ~(j - 1 < i) /\ (j - 1) + 1 = j
  OBVIOUS

\* What a list holds after one of its addresses is taken out.
LEMMA Removed ==
    ASSUME NEW s \in Seq(Nat), Injective(s), NEW e \in ToSet(s)
    PROVE  /\ RemoveFirst(s, e) \in Seq(Nat) /\ Injective(RemoveFirst(s, e))
           /\ ToSet(RemoveFirst(s, e)) = ToSet(s) \ {e}
  <1>1. PICK i \in DOMAIN s : s[i] = e
    BY DEF ToSet
  <1>2. PICK m \in Nat : m = Len(s) /\ DOMAIN s = 1 .. m
    OBVIOUS
  <1>13. i \in 1 .. m /\ i \in Int /\ m \in Int /\ 1 <= i /\ i <= m
    BY <1>2
  <1> DEFINE n == SubSeq(s, 1, i - 1) \o SubSeq(s, i + 1, Len(s))
  <1>3. RemoveFirst(s, e) = n
    <2>1. {k \in 1 .. Len(s) : s[k] = e} = {i}
      BY <1>1, <1>2, <1>13 DEF Injective
    <2>2. Min({i}) = i
      BY <1>13 DEF Min
    <2>3. QED
      BY <1>1, <1>2, <1>13, <2>1, <2>2 DEF RemoveFirst, RemoveAt, SelectInSeq
  <1> DEFINE A == SubSeq(s, 1, i - 1)
             B == SubSeq(s, i + 1, m)
  <1>9. \A k \in 1 .. m : s[k] \in Nat
    BY <1>2
  <1>10. /\ A \in Seq(Nat) /\ Len(A) = i - 1
         /\ \A k \in 1 .. (i - 1) : A[k] = s[k]
    <2>1. 1 \in Int /\ i - 1 \in Int /\ \A k \in 1 .. (i - 1) : s[k] \in Nat
      BY <1>2, <1>13, <1>9
    <2>2. /\ A \in Seq(Nat) /\ Len(A) = IF 1 <= i - 1 THEN (i - 1) - 1 + 1 ELSE 0
          /\ \A k \in 1 .. ((i - 1) - 1 + 1) : A[k] = s[1 + k - 1]
      BY <2>1, SubSeqProperties
    <2> HIDE DEF A
    <2>3. QED
      BY <1>13, <2>2
  <1>11. /\ B \in Seq(Nat) /\ Len(B) = m - i
         /\ \A k \in 1 .. (m - i) : B[k] = s[i + k]
    <2>1. i + 1 \in Int /\ m \in Int /\ \A k \in (i + 1) .. m : s[k] \in Nat
      BY <1>2, <1>13, <1>9
    <2>2. /\ B \in Seq(Nat) /\ Len(B) = IF i + 1 <= m THEN m - (i + 1) + 1 ELSE 0
          /\ \A k \in 1 .. (m - (i + 1) + 1) : B[k] = s[(i + 1) + k - 1]
      BY <2>1, SubSeqProperties
    <2> HIDE DEF B
    <2>3. Len(B) = m - i
      BY <1>13, <2>2
    <2>4. ASSUME NEW k \in 1 .. (m - i) PROVE B[k] = s[i + k]
      <3>1. k \in 1 .. (m - (i + 1) + 1) /\ (i + 1) + k - 1 = i + k
        BY <1>13
      <3>2. B[k] = s[(i + 1) + k - 1]
        BY <2>2, <3>1
      <3>3. QED
        BY <3>1, <3>2
    <2>5. QED
      BY <2>2, <2>3, <2>4
  <1>12. n = A \o B
    BY <1>2
  <1> HIDE DEF n, A, B
  <1>4. n \in Seq(Nat) /\ Len(n) = m - 1 /\ DOMAIN n = 1 .. (m - 1)
    <2>1. n \in Seq(Nat) /\ Len(n) = Len(A) + Len(B)
      BY <1>10, <1>11, <1>12, ConcatProperties
    <2>2. Len(n) = m - 1
      BY <2>1, <1>2, <1>13, <1>10, <1>11
    <2>3. DOMAIN n = 1 .. Len(n)
      BY <2>1
    <2>4. QED
      BY <2>1, <2>2, <2>3
  <1>5. \A k \in DOMAIN n : n[k] = IF k < i THEN s[k] ELSE s[k + 1]
    <2> SUFFICES ASSUME NEW k \in DOMAIN n PROVE n[k] = IF k < i THEN s[k] ELSE s[k + 1]
      OBVIOUS
    <2>1. k \in 1 .. (Len(A) + Len(B)) /\ k \in Int
      BY <1>2, <1>13, <1>4, <1>10, <1>11
    <2>2. n[k] = IF k <= Len(A) THEN A[k] ELSE B[k - Len(A)]
      BY <2>1, <1>10, <1>11, <1>12, ConcatProperties
    <2>3. CASE k < i
      BY <2>1, <2>2, <2>3, <1>2, <1>13, <1>10
    <2>4. CASE ~(k < i)
      <3>1. Len(A) = i - 1 /\ k \in Int /\ k <= m - 1 /\ 1 <= k
        BY <2>1, <1>2, <1>13, <1>4, <1>10
      <3>3. k - Len(A) \in 1 .. (m - i) /\ i + (k - Len(A)) = k + 1 /\ ~(k <= Len(A))
        BY <3>1, <2>4, <1>2, <1>13
      <3>2. QED
        BY <2>2, <2>4, <3>3, <1>11
    <2>5. QED
      BY <2>3, <2>4
  <1>6. ToSet(n) = ToSet(s) \ {e}
    <2>1. ASSUME NEW k \in DOMAIN n PROVE n[k] \in ToSet(s) \ {e}
      <3>1. PICK j \in DOMAIN s : n[k] = s[j] /\ j # i
        <4>1. k \in Int /\ k \in DOMAIN s /\ k + 1 \in DOMAIN s /\ (k < i => k # i) /\ (~(k < i) => k + 1 # i)
          <5>1. k \in 1 .. (m - 1)
            BY <1>4
          <5>2. QED
            BY <5>1, <1>2, <1>13, Between
        <4>2. QED
          BY <1>5, <4>1
      <3>2. s[j] # e
        BY <1>1, <3>1 DEF Injective
      <3>3. QED
        BY <3>1, <3>2 DEF ToSet
    <2>2. ASSUME NEW j \in DOMAIN s, s[j] # e PROVE s[j] \in ToSet(n)
      <3>1. j # i /\ j \in Int
        BY <1>1, <1>2, <1>13, <2>2
      <3>2. PICK k \in DOMAIN n : n[k] = s[j]
        <4>1. j \in 1 .. m
          BY <1>2
        <4>2. \/ j < i /\ j \in 1 .. (m - 1)
              \/ ~(j < i) /\ j - 1 \in 1 .. (m - 1) /\ ~(j - 1 < i) /\ (j - 1) + 1 = j
          BY <1>13, <3>1, <4>1, Shifted
        <4>3. QED
          BY <1>4, <1>5, <4>2
      <3>3. QED
        BY <3>2 DEF ToSet
    <2>3. QED
      BY <2>1, <2>2 DEF ToSet
  <1>7. Injective(n)
    <2> SUFFICES ASSUME NEW k \in DOMAIN n, NEW l \in DOMAIN n, n[k] = n[l] PROVE k = l
      BY DEF Injective
    <2> DEFINE at(x) == IF x < i THEN x ELSE x + 1
    <2>1. /\ at(k) \in DOMAIN s /\ at(l) \in DOMAIN s
          /\ n[k] = s[at(k)] /\ n[l] = s[at(l)] /\ k \in Int /\ l \in Int /\ i \in Int
      <3>0. k \in 1 .. (m - 1) /\ l \in 1 .. (m - 1)
        BY <1>4
      <3>1. k \in Int /\ k \in DOMAIN s /\ k + 1 \in DOMAIN s
        BY <3>0, <1>2, <1>13, Between
      <3>2. l \in Int /\ l \in DOMAIN s /\ l + 1 \in DOMAIN s
        BY <3>0, <1>2, <1>13, Between
      <3>3. QED
        BY <1>2, <1>13, <1>5, <3>1, <3>2
    <2>2. at(k) = at(l)
      <3> HIDE DEF at
      <3>1. QED
        BY <2>1 DEF Injective
    <2>3. QED
      BY <2>1, <2>2
  <1>8. QED
    BY <1>3, <1>4, <1>6, <1>7

\* FreeBlocks, of given lists.
FreeOf(lists) == UNION {{Block(a, o) : a \in ToSet(lists[o])} : o \in Orders}

\* Every list holds an address once.
ListsOK(lists) == lists \in [Orders -> Seq(Nat)] /\ \A o \in Orders : Injective(lists[o])

\* A block is free when its address is on the list of its order.
LEMMA FreeMember ==
    ASSUME NEW lists, ListsOK(lists)
    PROVE  /\ FreeOf(lists) \subseteq BlockType
           /\ \A t \in BlockType : t \in FreeOf(lists) <=> t.address \in ToSet(lists[t.order])
  <1>1. \A o \in Orders : ToSet(lists[o]) \subseteq Nat
    <2> SUFFICES ASSUME NEW o \in Orders, NEW x \in ToSet(lists[o]) PROVE x \in Nat
      OBVIOUS
    <2>1. lists[o] \in Seq(Nat)
      BY DEF ListsOK
    <2>2. QED
      BY <2>1 DEF ToSet
  <1>2. ASSUME NEW t \in FreeOf(lists)
        PROVE  t \in BlockType /\ t.address \in ToSet(lists[t.order])
    <2>1. PICK o \in Orders : t \in {Block(a, o) : a \in ToSet(lists[o])}
      BY <1>2 DEF FreeOf
    <2>2. PICK a \in ToSet(lists[o]) : t = Block(a, o)
      BY <2>1
    <2>3. a \in Nat
      BY <1>1
    <2>4. t \in BlockType /\ t.address = a /\ t.order = o
      BY <2>2, <2>3, BlockFields
    <2>5. QED
      BY <2>4
  <1>3. ASSUME NEW t \in BlockType, t.address \in ToSet(lists[t.order]) PROVE t \in FreeOf(lists)
    <2>1. t.order \in Orders /\ t = Block(t.address, t.order)
      BY PagesOf
    <2>2. t \in {Block(a, t.order) : a \in ToSet(lists[t.order])}
      BY <1>3, <2>1
    <2>3. QED
      BY <2>1, <2>2 DEF FreeOf
  <1>4. QED
    BY <1>2, <1>3

\* A block that is aligned is aligned for every lower order, and so are its parts.
LEMMA Aligned ==
    ASSUME NEW a \in Nat, NEW p \in Nat, NEW o \in Nat, p <= o, a % Size(o) = 0
    PROVE  a % Size(p) = 0 /\ (a + Size(p)) % Size(p) = 0
  <1>1. Size(p) \in Nat \ {0} /\ Size(o) \in Nat \ {0}
    BY SizeFacts
  <1>2. PICK i \in Nat : a = i * Size(o)
    BY <1>1, Remainder
  <1>3. PICK k \in Nat \ {0} : Size(o) = k * Size(p)
    BY SizeMultiple
  <1>4. a = (i * k) * Size(p) /\ i * k \in Nat
    BY <1>1, <1>2, <1>3
  <1>5. a + Size(p) = (i * k + 1) * Size(p) /\ i * k + 1 \in Nat
    BY <1>1, <1>4
  <1>6. a + Size(p) \in Nat
    BY <1>1
  <1>7. QED
    BY <1>1, <1>4, <1>5, <1>6, Remainder

\* What buddy_alloc makes of the block at a of order o.
Split(a, order, o) == {Block(a, order)} \cup {Block(a + Size(p), p) : p \in order .. (o - 1)}

\* The order, the alignment and the pages of the parts.
LEMMA SplitMembers ==
    ASSUME NEW a \in Nat, NEW o \in Orders, NEW order \in Orders, order <= o, a % Size(o) = 0,
           NEW t \in Split(a, order, o)
    PROVE  /\ t \in BlockType /\ t.address % Size(t.order) = 0
           /\ \/ t = Block(a, order) /\ t.order = order /\ Pages(t) = a .. (a + Size(order) - 1)
              \/ /\ t.order \in order .. (o - 1) /\ t = Block(a + Size(t.order), t.order)
                 /\ Pages(t) = (a + Size(t.order)) .. (a + Size(t.order) + Size(t.order) - 1)
  <1>1. o \in Nat /\ order \in Nat /\ Orders = 0 .. (MaxBuddyOrder - 1) /\ MaxBuddyOrder \in Nat
    BY OrderAssumption DEF Orders
  <1>2. CASE t = Block(a, order)
    <2>1. t \in BlockType /\ t.address = a /\ t.order = order /\ Pages(t) = a .. (a + Size(order) - 1)
      BY <1>2, BlockFields
    <2>2. a % Size(order) = 0
      BY <1>1, Aligned
    <2>3. QED
      BY <1>2, <2>1, <2>2
  <1>3. CASE t # Block(a, order)
    <2>1. PICK p \in order .. (o - 1) : t = Block(a + Size(p), p)
      BY <1>3 DEF Split
    <2>2. p \in Orders /\ p \in Nat /\ p <= o
      BY <1>1
    <2>3. Size(p) \in Nat \ {0}
      BY <2>2, SizeFacts
    <2>4. a + Size(p) \in Nat
      BY <2>3
    <2>5. /\ t \in BlockType /\ t.address = a + Size(p) /\ t.order = p
          /\ Pages(t) = (a + Size(p)) .. (a + Size(p) + Size(p) - 1)
      BY <2>1, <2>2, <2>4, BlockFields
    <2>6. (a + Size(p)) % Size(p) = 0
      BY <1>1, <2>2, Aligned
    <2>7. QED
      BY <2>1, <2>5, <2>6
  <1>4. QED
    BY <1>2, <1>3

\* Blocks grow with their order.
LEMMA SizeOrder ==
    ASSUME NEW p \in Nat, NEW q \in Nat, p <= q
    PROVE  Size(p) <= Size(q)
  <1>1. Size(p) \in Nat /\ Size(q) \in Nat
    BY SizeFacts
  <1>2. CASE p = q
    BY <1>1, <1>2
  <1>3. CASE p # q
    BY <1>1, <1>3, SizeGrows
  <1>4. QED
    BY <1>2, <1>3

\* The parts tile the block that is split.
LEMMA SplitTiles ==
    ASSUME NEW a \in Nat, NEW o \in Orders, NEW order \in Orders, order <= o, a % Size(o) = 0
    PROVE  Tiles(Split(a, order, o)) /\ Cover(Split(a, order, o)) = Cover({Block(a, o)})
  <1>1. o \in Nat /\ order \in Nat /\ Orders = 0 .. (MaxBuddyOrder - 1) /\ MaxBuddyOrder \in Nat
    BY OrderAssumption DEF Orders
  <1> DEFINE T == Split(a, order, o)
  <1>2. T \subseteq BlockType /\ \A t \in T : t.address % 2^t.order = 0
    BY SplitMembers DEF Size
  <1> HIDE DEF T
  <1>3. ASSUME NEW t \in T, NEW u \in T, t.order < u.order
        PROVE  Pages(t) \cap Pages(u) = {}
    <2>0. t.order \in Nat /\ u.order \in Nat
      BY <1>2, PagesOf
    <2>1. \E p \in Nat : p < u.order /\ \A x \in Pages(t) : x < a + Size(p) + Size(p)
      <3>1. CASE t.order = order /\ Pages(t) = a .. (a + Size(order) - 1)
        <4>1. Size(order) \in Nat
          BY <1>1, SizeFacts
        <4>2. QED
          BY <3>1, <4>1, <1>1, <1>3
      <3>2. CASE Pages(t) = (a + Size(t.order)) .. (a + Size(t.order) + Size(t.order) - 1)
        <4>1. Size(t.order) \in Nat
          BY <2>0, SizeFacts
        <4>2. QED
          BY <3>2, <4>1, <2>0, <1>3
      <3>3. QED
        BY <3>1, <3>2, SplitMembers DEF T
    <2>2. PICK p \in Nat : p < u.order /\ \A x \in Pages(t) : x < a + Size(p) + Size(p)
      BY <2>1
    <2>3. Size(p) + Size(p) <= Size(u.order) /\ Size(p) \in Nat /\ Size(u.order) \in Nat
      BY <2>0, <2>2, SizeGrows, SizeFacts
    <2>4. u.order # order
      <3>1. t.order >= order
        BY <2>0, <1>1, SplitMembers DEF T
      <3>2. QED
        BY <2>0, <1>1, <1>3, <3>1
    <2>5. Pages(u) = (a + Size(u.order)) .. (a + Size(u.order) + Size(u.order) - 1)
      BY <2>4, SplitMembers DEF T
    <2>6. ASSUME NEW x \in Pages(u) PROVE x \in Int /\ x >= a + Size(u.order)
      BY <2>3, <2>5, <2>6
    <2>7. \A x \in Pages(t) : x \notin Pages(u)
      BY <2>2, <2>3, <2>6
    <2>8. QED
      BY <2>7
  <1>4. ASSUME NEW t \in T, NEW u \in T, t # u, t.order = u.order
        PROVE  Pages(t) \cap Pages(u) = {}
    <2>1. ASSUME NEW v \in T, v # Block(a, order)
          PROVE  /\ v.order \in order .. (o - 1) /\ v = Block(a + Size(v.order), v.order)
                 /\ Pages(v) = (a + Size(v.order)) .. (a + Size(v.order) + Size(v.order) - 1)
      BY <2>1, SplitMembers DEF T
    <2>5. ASSUME NEW v \in T, v = Block(a, order)
          PROVE  v.order = order /\ Pages(v) = a .. (a + Size(order) - 1)
      BY <1>1, <2>5, BlockFields
    <2>2. Size(order) \in Nat
      BY <1>1, SizeFacts
    <2>6. ~(t # Block(a, order) /\ u # Block(a, order))
      BY <1>4, <2>1
    <2>3. \/ /\ Pages(t) = a .. (a + Size(order) - 1)
             /\ Pages(u) = (a + Size(order)) .. (a + Size(order) + Size(order) - 1)
          \/ /\ Pages(u) = a .. (a + Size(order) - 1)
             /\ Pages(t) = (a + Size(order)) .. (a + Size(order) + Size(order) - 1)
      <3>1. CASE t = Block(a, order)
        <4>1. u # Block(a, order) /\ u.order = order
          BY <1>4, <2>5, <3>1
        <4>2. QED
          BY <2>1, <2>5, <3>1, <4>1
      <3>2. CASE u = Block(a, order)
        <4>1. t # Block(a, order) /\ t.order = order
          BY <1>4, <2>5, <3>2
        <4>2. QED
          BY <2>1, <2>5, <3>2, <4>1
      <3>3. QED
        BY <2>6, <3>1, <3>2
    <2>4. QED
      BY <2>2, <2>3
  <1>5. Tiles(T)
    <2>1. ASSUME NEW t \in T, NEW u \in T, t # u PROVE Pages(t) \cap Pages(u) = {}
      <3>1. t.order \in Nat /\ u.order \in Nat
        BY <1>2, PagesOf
      <3>2. CASE t.order < u.order
        BY <1>3, <3>2
      <3>3. CASE u.order < t.order
        BY <1>3, <3>3
      <3>4. CASE t.order = u.order
        BY <1>4, <2>1, <3>4
      <3>5. QED
        BY <3>1, <3>2, <3>3, <3>4
    <2>2. QED
      BY <1>2, <2>1 DEF Tiles
  <1>6. Pages(Block(a, o)) = a .. (a + Size(o) - 1) /\ Size(o) \in Nat
    BY <1>1, BlockFields, SizeFacts
  <1>7. ASSUME NEW x \in Cover(T) PROVE x \in Pages(Block(a, o))
    <2>1. PICK t \in T : x \in Pages(t)
      BY <1>7 DEF Cover
    <2>2. CASE Pages(t) = a .. (a + Size(order) - 1)
      <3>1. Size(order) <= Size(o) /\ Size(order) \in Nat
        BY <1>1, SizeOrder, SizeFacts
      <3>2. QED
        BY <1>6, <2>1, <2>2, <3>1
    <2>3. CASE /\ t.order \in order .. (o - 1)
               /\ Pages(t) = (a + Size(t.order)) .. (a + Size(t.order) + Size(t.order) - 1)
      <3>1. t.order \in Nat /\ t.order < o
        BY <1>1, <2>3
      <3>2. Size(t.order) + Size(t.order) <= Size(o) /\ Size(t.order) \in Nat
        BY <1>1, <3>1, SizeGrows, SizeFacts
      <3>3. QED
        BY <1>6, <2>1, <2>3, <3>2
    <2>4. QED
      BY <2>2, <2>3, SplitMembers DEF T
  <1>8. ASSUME NEW x \in Pages(Block(a, o)) PROVE x \in Cover(T)
    <2>1. x \in Nat /\ a <= x /\ x < a + Size(o)
      BY <1>6, <1>8
    <2> DEFINE Q == {q \in order .. o : x < a + Size(q)}
    <2>2. o \in Q /\ Q \subseteq Nat
      BY <1>1, <2>1
    <2>3. PICK q \in Q : \A r \in Q : q <= r
      BY <2>2, LeastNatural
    <2>4. q \in order .. o /\ x < a + Size(q)
      BY <2>3
    <2>5. CASE q = order
      <3>1. Block(a, order) \in T
        BY DEF T, Split
      <3>2. x \in Pages(Block(a, order))
        <4>1. Pages(Block(a, order)) = a .. (a + Size(order) - 1) /\ Size(order) \in Nat
          BY <1>1, BlockFields, SizeFacts
        <4>2. QED
          BY <2>1, <2>4, <2>5, <4>1
      <3>3. QED
        BY <3>1, <3>2 DEF Cover
    <2>6. CASE q # order
      <3> DEFINE p == q - 1
      <3>1. p \in order .. (o - 1) /\ p \in Nat /\ p + 1 = q /\ p \in order .. o /\ p < q /\ p \in Orders
        BY <1>1, <2>4, <2>6
      <3> HIDE DEF p
      <3>2. ~(x < a + Size(p))
        BY <2>3, <3>1
      <3>3. Size(p) \in Nat /\ Size(q) = Size(p) + Size(p)
        BY <3>1, SizeFacts
      <3>4. x \in Pages(Block(a + Size(p), p))
        <4>1. a + Size(p) \in Nat
          BY <3>3
        <4>2. Pages(Block(a + Size(p), p)) = (a + Size(p)) .. (a + Size(p) + Size(p) - 1)
          BY <3>1, <4>1, BlockFields
        <4>3. QED
          BY <2>1, <2>4, <3>2, <3>3, <4>2
      <3>5. Block(a + Size(p), p) \in T
        BY <3>1 DEF T, Split
      <3>6. QED
        BY <3>4, <3>5 DEF Cover
    <2>7. QED
      BY <2>5, <2>6
  <1>9. Cover(T) = Cover({Block(a, o)})
    <2>1. Cover({Block(a, o)}) = Pages(Block(a, o))
      BY DEF Cover
    <2>2. QED
      BY <1>7, <1>8, <2>1
  <1>10. QED
    BY <1>5, <1>9 DEF T

\* A page lies in the aligned block whose number is its quotient.
LEMMA Within ==
    ASSUME NEW a \in Nat, NEW d \in Nat \ {0}
    PROVE  /\ a \div d \in Nat /\ (a \div d) * d \in Nat
           /\ (a \div d) * d <= a /\ a < (a \div d) * d + d
  OBVIOUS

\* The numbers of the blocks twice as large.
LEMMA Halves ==
    ASSUME NEW a \in Nat, NEW d \in Nat \ {0}
    PROVE  a \div (d + d) = (a \div d) \div 2
  <1> DEFINE q == a \div d
  <1>1. q \in Nat /\ q * d <= a /\ a < q * d + d
    OBVIOUS
  <1> HIDE DEF q
  <1>2. PICK h \in Nat : h = q \div 2 /\ (q = h + h \/ q = h + h + 1)
    BY <1>1
  <1>3. h * (d + d) = (h + h) * d /\ (h + h + 1) * d = (h + h) * d + d
    BY <1>2
  <1>4. h * (d + d) <= a /\ a < h * (d + d) + (d + d)
    <2>0. q * d \in Nat /\ (h + h) * d \in Nat
      BY <1>1, <1>2
    <2>1. CASE q = h + h
      BY <1>1, <1>3, <2>0, <2>1
    <2>2. CASE q = h + h + 1
      BY <1>1, <1>3, <2>0, <2>2
    <2>3. QED
      BY <1>2, <2>1, <2>2
  <1>5. d + d \in Nat \ {0}
    OBVIOUS
  <1>6. a \div (d + d) = h
    BY <1>2, <1>4, <1>5, Quotient
  <1>7. QED
    BY <1>2, <1>6 DEF q

\* A block and its buddy are the two halves of the block of the next order.
LEMMA BuddyFacts ==
    ASSUME NEW a \in Nat, NEW p \in Nat
    PROVE  /\ AddressAt(a, p) \in Nat /\ BuddyOf(a, p) \in Nat
           /\ AddressAt(a, p) % Size(p) = 0 /\ AddressAt(a, p + 1) \in Nat
           /\ \/ /\ AddressAt(a, p) = AddressAt(a, p + 1)
                 /\ BuddyOf(a, p) = AddressAt(a, p + 1) + Size(p)
              \/ /\ AddressAt(a, p) = AddressAt(a, p + 1) + Size(p)
                 /\ BuddyOf(a, p) = AddressAt(a, p + 1)
  <1> DEFINE d == Size(p)
             q == a \div d
  <1>1. d \in Nat \ {0} /\ Size(p + 1) = d + d /\ p + 1 \in Nat
    BY SizeFacts
  <1>2. q \in Nat /\ q * d \in Nat
    BY <1>1, Within
  <1>3. AddressAt(a, p) = q * d
    BY DEF AddressAt, Size
  <1>4. BuddyOf(a, p) = IF q % 2 = 0 THEN q * d + d ELSE q * d - d
    BY DEF AddressAt, BuddyOf, Size
  <1>5. AddressAt(a, p + 1) = (a \div (d + d)) * (d + d)
    BY <1>1 DEF AddressAt, Size
  <1>6. a \div (d + d) = q \div 2
    <2> HIDE DEF d
    <2>1. QED
      BY <1>1, Halves
  <1> HIDE DEF d, q
  <1>7. PICK h \in Nat : h = q \div 2 /\ ((q % 2 = 0 /\ q = h + h) \/ (q % 2 # 0 /\ q = h + h + 1))
    BY <1>2
  <1>8. AddressAt(a, p + 1) = (h + h) * d /\ (h + h) * d \in Nat /\ (h + h + 1) * d = (h + h) * d + d
    <2>1. AddressAt(a, p + 1) = h * (d + d)
      BY <1>5, <1>6, <1>7
    <2>2. /\ h * (d + d) = (h + h) * d /\ (h + h) * d \in Nat
          /\ (h + h + 1) * d = (h + h) * d + d
      BY <1>1
    <2>3. QED
      BY <2>1, <2>2
  <1>9. (q * d) % d = 0
    BY <1>1, <1>2, Remainder
  <1>10. CASE q % 2 = 0
    BY <1>1, <1>2, <1>3, <1>4, <1>7, <1>8, <1>9, <1>10 DEF d
  <1>11. CASE q % 2 # 0
    BY <1>1, <1>2, <1>3, <1>4, <1>7, <1>8, <1>9, <1>11 DEF d
  <1>12. QED
    BY <1>10, <1>11

-----------------------------------------------------------------------------
(***************************************************************************)
(* The steps of the buddy allocator.                                       *)
(***************************************************************************)

\* What buddy_free takes from the lists on its way from order p to order o.
Climbed(a, p, o) == {Block(BuddyOf(a, q), q) : q \in p .. (o - 1)}

\* The block that buddy_free puts on the list has the pages of those it took, by
\* induction on the order it ends at.
LEMMA ClimbCover ==
    ASSUME NEW a \in Nat, NEW p \in Orders, NEW o \in Orders, p <= o, AddressAt(a, p) = a
    PROVE  Cover({Block(a, p)} \cup Climbed(a, p, o)) = Cover({Block(AddressAt(a, o), o)})
  <1> DEFINE At(n) == Cover({Block(AddressAt(a, n), n)})
             Holds(n) == Cover({Block(a, p)} \cup Climbed(a, p, n)) = At(n)
             S == {n \in p .. o : ~Holds(n)}
  <1>1. p \in Nat /\ o \in Nat /\ Orders = 0 .. (MaxBuddyOrder - 1) /\ MaxBuddyOrder \in Nat
    BY OrderAssumption DEF Orders
  <1>2. Holds(p)
    <2>1. p .. (p - 1) = {}
      BY <1>1
    <2>2. Climbed(a, p, p) = {}
      BY <2>1 DEF Climbed
    <2>3. QED
      BY <2>2
  <1>3. ASSUME NEW n \in p .. (o - 1), Holds(n) PROVE Holds(n + 1)
    <2>1. n \in Nat /\ n + 1 \in Nat /\ n \in Orders /\ n + 1 \in Orders
      BY <1>1
    <2>2. Size(n) \in Nat \ {0} /\ Size(n + 1) = Size(n) + Size(n)
      BY <2>1, SizeFacts
    <2>3. p .. ((n + 1) - 1) = (p .. (n - 1)) \cup {n}
      BY <1>1, <2>1
    <2>4. Climbed(a, p, n + 1) = Climbed(a, p, n) \cup {Block(BuddyOf(a, n), n)}
      BY <2>3 DEF Climbed
    <2>5. /\ Pages(Block(AddressAt(a, n), n)) = AddressAt(a, n) .. (AddressAt(a, n) + Size(n) - 1)
          /\ Pages(Block(BuddyOf(a, n), n)) = BuddyOf(a, n) .. (BuddyOf(a, n) + Size(n) - 1)
          /\ Pages(Block(AddressAt(a, n + 1), n + 1)) =
                AddressAt(a, n + 1) .. (AddressAt(a, n + 1) + Size(n) + Size(n) - 1)
      <3>1. /\ AddressAt(a, n) \in Nat /\ BuddyOf(a, n) \in Nat /\ AddressAt(a, n + 1) \in Nat
        BY <2>1, BuddyFacts
      <3>2. Pages(Block(AddressAt(a, n + 1), n + 1)) =
                AddressAt(a, n + 1) .. (AddressAt(a, n + 1) + Size(n + 1) - 1)
        BY <2>1, <3>1, BlockFields
      <3>3. AddressAt(a, n + 1) + Size(n + 1) - 1 = AddressAt(a, n + 1) + Size(n) + Size(n) - 1
        BY <2>2, <3>1
      <3>4. QED
        BY <2>1, <3>1, <3>2, <3>3, BlockFields
    <2>6. Pages(Block(AddressAt(a, n), n)) \cup Pages(Block(BuddyOf(a, n), n)) =
              Pages(Block(AddressAt(a, n + 1), n + 1))
      <3> DEFINE x == AddressAt(a, n)
                 y == BuddyOf(a, n)
                 z == AddressAt(a, n + 1)
                 d == Size(n)
      <3>1. /\ x \in Nat /\ y \in Nat /\ z \in Nat /\ d \in Nat \ {0}
            /\ (x = z /\ y = z + d) \/ (x = z + d /\ y = z)
        BY <2>1, <2>2, BuddyFacts
      <3> HIDE DEF x, y, z, d
      <3>2. (x .. (x + d - 1)) \cup (y .. (y + d - 1)) = z .. (z + d + d - 1)
        <4>1. CASE x = z /\ y = z + d
          BY <3>1, <4>1
        <4>2. CASE x = z + d /\ y = z
          BY <3>1, <4>2
        <4>3. QED
          BY <3>1, <4>1, <4>2
      <3>3. QED
        BY <2>5, <3>2 DEF x, y, z, d
    <2>7. \A U, V : Cover(U \cup V) = Cover(U) \cup Cover(V)
      BY DEF Cover
    <2>8. \A t : Cover({t}) = Pages(t)
      BY DEF Cover
    <2>9. Cover({Block(a, p)} \cup Climbed(a, p, n + 1)) =
              Cover({Block(a, p)} \cup Climbed(a, p, n)) \cup Cover({Block(BuddyOf(a, n), n)})
      <3>1. {Block(a, p)} \cup Climbed(a, p, n + 1) =
                ({Block(a, p)} \cup Climbed(a, p, n)) \cup {Block(BuddyOf(a, n), n)}
        BY <2>4
      <3>2. QED
        BY <2>7, <3>1
    <2>10. QED
      BY <1>3, <2>6, <2>8, <2>9
  <1> HIDE DEF Holds
  <1>4. S = {}
    <2> SUFFICES ASSUME S # {} PROVE FALSE
      OBVIOUS
    <2>1. S \subseteq Nat
      BY <1>1
    <2>2. PICK m \in S : \A n \in S : m <= n
      BY <2>1, LeastNatural
    <2>3. m \in p .. o /\ ~Holds(m) /\ m # p
      BY <1>2
    <2>4. m - 1 \in p .. (o - 1) /\ m - 1 \in p .. o /\ (m - 1) + 1 = m /\ ~(m <= m - 1)
      BY <1>1, <2>3
    <2>5. m - 1 \notin S
      BY <2>2, <2>4
    <2>6. Holds(m - 1)
      BY <2>4, <2>5
    <2>7. QED
      BY <1>3, <2>3, <2>4, <2>6
  <1>5. o \in p .. o
    BY <1>1
  <1>6. Holds(o)
    BY <1>4, <1>5
  <1>7. QED
    BY <1>6 DEF Holds

\* An aligned address is that of its own block.
LEMMA AlignedIsAt ==
    ASSUME NEW a \in Nat, NEW p \in Nat, a % Size(p) = 0
    PROVE  AddressAt(a, p) = a
  <1>1. Size(p) \in Nat \ {0}
    BY SizeFacts
  <1>2. PICK i \in Nat : a = i * Size(p)
    BY <1>1, Remainder
  <1>3. a \div Size(p) = i
    BY <1>1, <1>2, Quotient
  <1>4. QED
    BY <1>2, <1>3 DEF AddressAt, Size

\* A block, its buddy, and the block they make.
LEMMA BuddyPair ==
    ASSUME NEW a \in Nat, NEW p \in Nat, a % Size(p) = 0
    PROVE  /\ BuddyOf(a, p) \in Nat /\ AddressAt(a, p + 1) \in Nat /\ BuddyOf(a, p) # a
           /\ BuddyOf(a, p) % Size(p) = 0 /\ AddressAt(a, p + 1) % Size(p + 1) = 0
           /\ BuddyOf(BuddyOf(a, p), p) = a
           /\ \/ a = AddressAt(a, p + 1) /\ BuddyOf(a, p) = a + Size(p)
              \/ a = BuddyOf(a, p) + Size(p) /\ BuddyOf(a, p) = AddressAt(a, p + 1)
  <1> DEFINE d == Size(p)
  <1>1. d \in Nat \ {0} /\ p + 1 \in Nat
    BY SizeFacts
  <1>2. AddressAt(a, p) = a
    BY AlignedIsAt
  <1>3. /\ BuddyOf(a, p) \in Nat /\ AddressAt(a, p + 1) \in Nat
        /\ AddressAt(a, p + 1) % Size(p + 1) = 0
        /\ \/ a = AddressAt(a, p + 1) /\ BuddyOf(a, p) = AddressAt(a, p + 1) + d
           \/ a = AddressAt(a, p + 1) + d /\ BuddyOf(a, p) = AddressAt(a, p + 1)
    BY <1>1, <1>2, BuddyFacts
  <1>4. PICK q \in Nat : a = q * d
    BY <1>1, Remainder
  <1>5. a \div d = q
    BY <1>1, <1>4, Quotient
  <1>6. BuddyOf(a, p) = IF q % 2 = 0 THEN q * d + d ELSE q * d - d
    BY <1>4, <1>5 DEF BuddyOf, AddressAt, Size
  <1> DEFINE y == BuddyOf(a, p)
  <1>7. BuddyOf(y, p) = IF (y \div d) % 2 = 0 THEN (y \div d) * d + d ELSE (y \div d) * d - d
    BY DEF BuddyOf, AddressAt, Size
  <1> HIDE DEF d, y
  <1>8. CASE q % 2 = 0
    <2>1. y = (q + 1) * d /\ q + 1 \in Nat /\ (q + 1) % 2 # 0 /\ (q + 1) * d - d = q * d
      BY <1>1, <1>4, <1>6, <1>8 DEF y
    <2>2. y \div d = q + 1 /\ y % d = 0 /\ y \in Nat
      <3>1. y \in Nat
        BY <1>3 DEF y
      <3>2. (q + 1) * d <= y /\ y < (q + 1) * d + d
        BY <1>1, <2>1, <3>1
      <3>3. y \div d = q + 1
        BY <1>1, <2>1, <3>1, <3>2, Quotient
      <3>4. y % d = 0
        BY <1>1, <2>1, <3>1, Remainder
      <3>5. QED
        BY <3>1, <3>3, <3>4
    <2>3. BuddyOf(y, p) = a
      BY <1>4, <1>7, <2>1, <2>2
    <2>4. QED
      BY <1>1, <1>3, <2>2, <2>3 DEF d, y
  <1>9. CASE q % 2 # 0
    <2>1. q - 1 \in Nat /\ (q - 1) % 2 = 0
      BY <1>9
    <2>2. y = (q - 1) * d /\ (q - 1) * d + d = q * d
      BY <1>1, <1>4, <1>6, <1>9, <2>1 DEF y
    <2>3. y \div d = q - 1 /\ y % d = 0 /\ y \in Nat
      BY <1>1, <1>3, <2>1, <2>2, Quotient, Remainder DEF y
    <2>4. BuddyOf(y, p) = a
      BY <1>4, <1>7, <2>1, <2>2, <2>3
    <2>5. QED
      BY <1>1, <1>3, <2>3, <2>4 DEF d, y
  <1>10. QED
    BY <1>8, <1>9

\* No list below the highest holds a block and its buddy.
NoPair(lists) ==
    \A o \in Orders : o # MaxBuddyOrder - 1 =>
        \A a \in ToSet(lists[o]) : BuddyOf(a, o) \notin ToSet(lists[o])

\* A page has the buddy of the block it lies in.
LEMMA BuddyOfAt ==
    ASSUME NEW a \in Nat, NEW p \in Nat
    PROVE  BuddyOf(AddressAt(a, p), p) = BuddyOf(a, p)
  <1> DEFINE d == Size(p)
             q == a \div d
             y == q * d
  <1>1. d \in Nat \ {0}
    BY SizeFacts
  <1>2. q \in Nat /\ y \in Nat
    BY <1>1, Within
  <1>3. AddressAt(a, p) = y
    BY DEF AddressAt, Size
  <1>4. y \div d = q
    <2> HIDE DEF d, q
    <2>1. QED
      BY <1>1, <1>2, Quotient
  <1>5. BuddyOf(a, p) = IF q % 2 = 0 THEN q * d + d ELSE q * d - d
    BY DEF AddressAt, BuddyOf, Size
  <1>6. BuddyOf(y, p) = IF (y \div d) % 2 = 0 THEN (y \div d) * d + d ELSE (y \div d) * d - d
    BY DEF AddressAt, BuddyOf, Size
  <1> HIDE DEF d, q, y
  <1>7. QED
    BY <1>3, <1>4, <1>5, <1>6

\* What is on a list is aligned.
LEMMA Listed ==
    ASSUME NEW lists, ListsOK(lists), NEW S, Tiles(S), FreeOf(lists) \subseteq S,
           NEW p \in Orders, NEW x \in ToSet(lists[p])
    PROVE  x \in Nat /\ x % Size(p) = 0 /\ p \in Nat
  <1>1. x \in Nat
    <2>1. lists[p] \in Seq(Nat)
      BY DEF ListsOK
    <2>2. QED
      BY <2>1 DEF ToSet
  <1>2. Block(x, p) \in BlockType /\ Block(x, p).address = x /\ Block(x, p).order = p
    BY <1>1, BlockFields
  <1>3. Block(x, p) \in FreeOf(lists)
    BY <1>2, FreeMember
  <1>4. x % Size(p) = 0
    BY <1>2, <1>3 DEF Tiles, Size
  <1>5. QED
    BY <1>1, <1>4, OrderAssumption DEF Orders

\* The free and the granted blocks tile what init_buddy_allocator was given.
BuddyInv ==
    /\ ListsOK(buddyBlocks)
    /\ granted \subseteq BlockType
    /\ Tiles(FreeOf(buddyBlocks) \cup granted)
    /\ FreeOf(buddyBlocks) \cap granted = {}
    /\ Cover(FreeOf(buddyBlocks) \cup granted) = Cover(InitialBlocks(memoryMap))

\* Two lists hold the same blocks when every order's list holds the same addresses.
LEMMA SameFree ==
    ASSUME NEW lists, ListsOK(lists), NEW F \in SUBSET BlockType,
           \A t \in BlockType : t \in F <=> t.address \in ToSet(lists[t.order])
    PROVE  FreeOf(lists) = F
  BY FreeMember

\* buddy_alloc keeps the tiling, and makes no pair.
LEMMA AllocTiles ==
    ASSUME BuddyInv, NEW order \in Orders, BuddyAlloc(order), UNCHANGED memoryMap
    PROVE  BuddyInv' /\ (NoPair(buddyBlocks) => NoPair(buddyBlocks'))
  <1>1. Orders = 0 .. (MaxBuddyOrder - 1) /\ MaxBuddyOrder \in Nat /\ order \in Nat
    BY OrderAssumption DEF Orders
  <1>2. PICK o \in Orders :
          /\ o >= order /\ buddyBlocks[o] # <<>>
          /\ \A p \in order .. (o - 1) : buddyBlocks[p] = <<>>
          /\ buddyBlocks' = [p \in Orders |->
                 IF p = o THEN Tail(buddyBlocks[o])
                 ELSE IF p \in order .. (o - 1)
                 THEN <<Head(buddyBlocks[o]) + 2^p>> \o buddyBlocks[p]
                 ELSE buddyBlocks[p]]
          /\ granted' = granted \cup {Block(Head(buddyBlocks[o]), order)}
    BY DEF BuddyAlloc
  <1> DEFINE lists == buddyBlocks
             a == Head(lists[o])
             F == FreeOf(lists)
             S == F \cup granted
             R == {Block(a, o)}
             T == Split(a, order, o)
  <1>3. /\ ListsOK(lists) /\ granted \subseteq BlockType /\ Tiles(S) /\ F \cap granted = {}
        /\ Cover(S) = Cover(InitialBlocks(memoryMap))
    BY DEF BuddyInv
  <1>4. /\ a \in Nat /\ a \in ToSet(lists[o])
        /\ Tail(lists[o]) \in Seq(Nat) /\ Injective(Tail(lists[o]))
        /\ ToSet(Tail(lists[o])) = ToSet(lists[o]) \ {a}
    <2>1. lists[o] \in Seq(Nat) /\ Injective(lists[o]) /\ lists[o] # <<>>
      BY <1>2, <1>3 DEF ListsOK
    <2>2. QED
      BY <2>1, Popped
  <1> HIDE DEF a, lists
  <1>5. Block(a, o) \in F /\ Block(a, o) \in BlockType /\ a % Size(o) = 0
    <2>1. /\ Block(a, o) \in BlockType /\ Block(a, o).address = a /\ Block(a, o).order = o
      BY <1>4, BlockFields
    <2>2. Block(a, o) \in F
      BY <1>3, <1>4, <2>1, FreeMember
    <2>3. a % 2^o = 0
      BY <1>3, <2>1, <2>2 DEF Tiles
    <2>4. QED
      BY <2>1, <2>2, <2>3 DEF Size
  <1>6. Tiles(T) /\ Cover(T) = Cover(R)
    <2>1. order <= o
      BY <1>1, <1>2
    <2>2. QED
      BY <2>1, <1>4, <1>5, SplitTiles
  <1>7. Tiles((S \ R) \cup T) /\ Cover((S \ R) \cup T) = Cover(S) /\ T \cap (S \ R) = {}
    <2> HIDE DEF S, R, T
    <2>1. R \subseteq S
      BY <1>5 DEF R, S
    <2>2. QED
      BY <1>3, <1>6, <2>1, Replaced
  <1> DEFINE up == [p \in Orders |-> a + Size(p)]
  <1>8. \A p \in order .. (o - 1) : p \in Orders /\ lists[p] = <<>> /\ up[p] \in Nat /\ p # o
    <2> SUFFICES ASSUME NEW p \in order .. (o - 1)
                 PROVE  p \in Orders /\ lists[p] = <<>> /\ up[p] \in Nat /\ p # o
      OBVIOUS
    <2>1. p \in Orders /\ p \in Nat /\ p # o
      BY <1>1, <1>2
    <2>2. Size(p) \in Nat
      BY <2>1, SizeFacts
    <2>3. QED
      BY <1>2, <1>4, <2>1, <2>2 DEF lists
  <1>9. buddyBlocks' = [p \in Orders |->
                 IF p = o THEN Tail(lists[o])
                 ELSE IF p \in order .. (o - 1) THEN <<up[p]>> \o lists[p]
                 ELSE lists[p]]
    BY <1>2 DEF a, lists, Size
  <1>10. granted' = granted \cup {Block(a, order)}
    BY <1>2 DEF a, lists
  <1>11. ASSUME NEW p \in order .. (o - 1)
         PROVE  /\ buddyBlocks'[p] \in Seq(Nat) /\ Injective(buddyBlocks'[p])
                /\ ToSet(buddyBlocks'[p]) = {up[p]}
    <2>1. p \in Orders /\ lists[p] = <<>> /\ up[p] \in Nat /\ p # o
      BY <1>8
    <2>2. buddyBlocks'[p] = <<up[p]>> \o lists[p]
      BY <1>9, <2>1
    <2> HIDE DEF up
    <2>3. /\ lists[p] \in Seq(Nat) /\ Injective(lists[p]) /\ ToSet(lists[p]) = {}
      BY <2>1 DEF Injective, ToSet
    <2>4. QED
      BY <2>1, <2>2, <2>3, Pushed
  <1>12. ListsOK(buddyBlocks')
    <2>1. ASSUME NEW p \in Orders PROVE buddyBlocks'[p] \in Seq(Nat) /\ Injective(buddyBlocks'[p])
      <3>1. CASE p = o
        BY <1>4, <1>9, <3>1
      <3>2. CASE p \in order .. (o - 1)
        BY <1>11, <3>2
      <3>3. CASE p # o /\ p \notin order .. (o - 1)
        BY <1>3, <1>9, <3>3 DEF ListsOK
      <3>4. QED
        BY <3>1, <3>2, <3>3
    <2>2. buddyBlocks' = [p \in Orders |-> buddyBlocks'[p]]
      BY <1>9
    <2>3. QED
      BY <2>1, <2>2 DEF ListsOK
  <1> DEFINE H == {Block(up[p], p) : p \in order .. (o - 1)}
  <1>13. H \subseteq BlockType
    <2> SUFFICES ASSUME NEW p \in order .. (o - 1) PROVE Block(up[p], p) \in BlockType
      OBVIOUS
    <2>1. p \in Orders /\ up[p] \in Nat
      BY <1>8
    <2>2. QED
      BY <2>1, BlockFields
  <1>14. T = {Block(a, order)} \cup H
    <2>1. \A p \in order .. (o - 1) : up[p] = a + Size(p)
      BY <1>8
    <2>2. QED
      BY <2>1 DEF Split
  <1>15. \A t \in BlockType :
            t \in (F \ R) \cup H <=> t.address \in ToSet(buddyBlocks'[t.order])
    <2> SUFFICES ASSUME NEW t \in BlockType
                 PROVE  t \in (F \ R) \cup H <=> t.address \in ToSet(buddyBlocks'[t.order])
      OBVIOUS
    <2>1. t \in F <=> t.address \in ToSet(lists[t.order])
      BY <1>3, FreeMember
    <2>2. t = Block(t.address, t.order) /\ t.order \in Orders /\ t.address \in Nat
      BY PagesOf
    <2>3. t \in R <=> t.address = a /\ t.order = o
      BY <2>2, <1>4, BlockFields
    <2>4. t \in H <=> t.order \in order .. (o - 1) /\ t.address = up[t.order]
      <3>1. ASSUME NEW p \in order .. (o - 1) PROVE Block(up[p], p).address = up[p] /\ Block(up[p], p).order = p
        BY DEF Block
      <3> HIDE DEF up
      <3>2. QED
        BY <3>1, <2>2
    <2> HIDE DEF F, R, H, up
    <2>5. CASE t.order = o
      <3>1. ToSet(buddyBlocks'[t.order]) = ToSet(lists[o]) \ {a}
        BY <1>4, <1>9, <2>5
      <3>2. t.order \notin order .. (o - 1)
        BY <1>8, <2>5
      <3>3. QED
        BY <2>1, <2>3, <2>4, <2>5, <3>1, <3>2
    <2>6. CASE t.order \in order .. (o - 1)
      <3>1. ToSet(buddyBlocks'[t.order]) = {up[t.order]}
        BY <1>11, <2>6
      <3>2. ToSet(lists[t.order]) = {}
        BY <1>8, <2>6 DEF ToSet
      <3>3. QED
        BY <2>1, <2>4, <2>6, <3>1, <3>2
    <2>7. CASE t.order # o /\ t.order \notin order .. (o - 1)
      <3>1. buddyBlocks'[t.order] = lists[t.order]
        BY <1>9, <2>2, <2>7
      <3>2. QED
        BY <2>1, <2>3, <2>4, <2>7, <3>1
    <2>8. QED
      BY <2>5, <2>6, <2>7
  <1>16. FreeOf(buddyBlocks') = (F \ R) \cup H
    <2>1. (F \ R) \cup H \in SUBSET BlockType
      BY <1>3, <1>13, FreeMember
    <2> DEFINE G == (F \ R) \cup H
    <2>2. \A t \in BlockType : t \in G <=> t.address \in ToSet(buddyBlocks'[t.order])
      BY <1>15
    <2> HIDE DEF G
    <2>3. G \in SUBSET BlockType => FreeOf(buddyBlocks') = G
      BY <1>12, <2>2, SameFree
    <2>4. QED
      BY <2>1, <2>3 DEF G
  <1>17. FreeOf(buddyBlocks') \cup granted' = (S \ R) \cup T
    <2>1. R \cap granted = {}
      BY <1>3, <1>5
    <2> HIDE DEF F, R, H, T
    <2>2. QED
      BY <2>1, <1>10, <1>14, <1>16
  <1>18. FreeOf(buddyBlocks') \cap granted' = {}
    <2>1. Block(a, order) \notin H
      <3> SUFFICES ASSUME NEW p \in order .. (o - 1), Block(a, order) = Block(up[p], p) PROVE FALSE
        OBVIOUS
      <3>1. a = up[p]
        <4> HIDE DEF up
        <4>1. QED
          BY DEF Block
      <3>2. p \in Nat /\ Size(p) \in Nat \ {0} /\ up[p] = a + Size(p)
        BY <1>8, <1>1, SizeFacts DEF Orders
      <3>3. QED
        BY <1>4, <3>1, <3>2
    <2>2. Block(a, order) \notin F \ R
      BY <1>7, <1>14
    <2>3. H \cap granted = {}
      BY <1>3, <1>5, <1>7, <1>14
    <2> HIDE DEF F, R, H, T
    <2>4. QED
      BY <2>1, <2>2, <2>3, <1>3, <1>10, <1>16
  <1>19. granted' \subseteq BlockType
    <2>1. Block(a, order) \in BlockType
      BY <1>4, BlockFields
    <2>2. QED
      BY <2>1, <1>3, <1>10
  <1>20. memoryMap' = memoryMap
    OBVIOUS
  <1> DEFINE newS == FreeOf(buddyBlocks') \cup granted'
  <1>21. Tiles(newS) /\ Cover(newS) = Cover(InitialBlocks(memoryMap))
    <2> HIDE DEF S, R, T, newS
    <2>1. newS = (S \ R) \cup T
      BY <1>17 DEF S, newS
    <2>2. QED
      BY <2>1, <1>3, <1>7
  <1>22. ASSUME NoPair(lists), NEW p \in Orders, p # MaxBuddyOrder - 1, NEW x \in ToSet(buddyBlocks'[p])
         PROVE  BuddyOf(x, p) \notin ToSet(buddyBlocks'[p])
    <2>1. CASE p \in order .. (o - 1)
      <3>1. x \in Nat /\ x % Size(p) = 0 /\ p \in Nat
        <4> HIDE DEF newS
        <4>1. FreeOf(buddyBlocks') \subseteq newS
          BY DEF newS
        <4>2. QED
          BY <4>1, <1>12, <1>21, <1>22, Listed
      <3>2. BuddyOf(x, p) # x
        BY <3>1, BuddyPair
      <3>3. ToSet(buddyBlocks'[p]) = {up[p]}
        BY <1>11, <2>1
      <3> HIDE DEF up
      <3>4. x = up[p]
        BY <1>22, <3>3
      <3>5. QED
        BY <3>2, <3>3, <3>4
    <2>2. CASE p \notin order .. (o - 1)
      <3>1. ToSet(buddyBlocks'[p]) \subseteq ToSet(lists[p])
        BY <1>4, <1>9, <2>2
      <3>2. QED
        BY <1>22, <3>1 DEF NoPair
    <2>3. QED
      BY <2>1, <2>2
  <1>23. NoPair(lists) => NoPair(buddyBlocks')
    BY <1>22 DEF NoPair
  <1>24. BuddyInv'
    BY <1>12, <1>18, <1>19, <1>20, <1>21 DEF BuddyInv
  <1>25. QED
    BY <1>23, <1>24 DEF lists

\* buddy_free keeps the tiling, and makes no pair: it stops where the buddy is not free.
LEMMA FreeTiles ==
    ASSUME BuddyInv, NEW b \in granted, BuddyFree(b), UNCHANGED memoryMap
    PROVE  BuddyInv' /\ (NoPair(buddyBlocks) => NoPair(buddyBlocks'))
  <1>1. Orders = 0 .. (MaxBuddyOrder - 1) /\ MaxBuddyOrder \in Nat
    BY OrderAssumption DEF Orders
  <1>2. PICK o \in Orders :
          /\ CoalescesTo(b, o)
          /\ buddyBlocks' = AddBuddyBlock([p \in Orders |->
                             IF p \in b.order .. (o - 1)
                             THEN RemoveFirst(buddyBlocks[p], BuddyOf(b.address, p))
                             ELSE buddyBlocks[p]], AddressAt(b.address, o), o)
    BY DEF BuddyFree
  <1>3. granted' = granted \ {b}
    BY DEF BuddyFree
  <1> DEFINE lists == buddyBlocks
             a == b.address
             n == b.order
             F == FreeOf(lists)
             S == F \cup granted
             C == Climbed(a, n, o)
             R == {b} \cup C
             t == Block(AddressAt(a, o), o)
  <1>4. /\ ListsOK(lists) /\ granted \subseteq BlockType /\ Tiles(S) /\ F \cap granted = {}
        /\ Cover(S) = Cover(InitialBlocks(memoryMap))
    BY DEF BuddyInv
  <1>5. a \in Nat /\ n \in Orders /\ b = Block(a, n) /\ b \in BlockType /\ a % Size(n) = 0
    <2>1. b \in BlockType /\ b.address % 2^b.order = 0
      BY <1>4 DEF Tiles
    <2>2. QED
      BY <2>1, PagesOf DEF Size
  <1> DEFINE r == [p \in Orders |-> BuddyOf(a, p)]
  <1>6. \A p \in n .. (o - 1) :
           /\ p \in Orders /\ p # o /\ p \in Nat
           /\ r[p] = BuddyOf(a, p) /\ r[p] \in Nat /\ r[p] \in ToSet(lists[p])
    <2> SUFFICES ASSUME NEW p \in n .. (o - 1)
                 PROVE  /\ p \in Orders /\ p # o /\ p \in Nat
                        /\ r[p] = BuddyOf(a, p) /\ r[p] \in Nat /\ r[p] \in ToSet(lists[p])
      OBVIOUS
    <2>1. p \in Orders /\ p # o /\ p \in Nat
      BY <1>1, <1>5
    <2>2. OnList(BuddyOf(a, p), p)
      BY <1>2 DEF CoalescesTo
    <2>3. r[p] \in ToSet(lists[p])
      BY <2>1, <2>2 DEF OnList, ToSet
    <2>4. BuddyOf(a, p) \in Nat
      BY <1>5, <2>1, BuddyFacts
    <2>5. QED
      BY <2>1, <2>3, <2>4
  <1>7. n <= o /\ n \in Nat /\ o \in Nat
    BY <1>1, <1>2, <1>5 DEF CoalescesTo
  <1> DEFINE rest == [p \in Orders |->
                 IF p \in n .. (o - 1) THEN RemoveFirst(lists[p], r[p]) ELSE lists[p]]
  <1>8. buddyBlocks' = [rest EXCEPT ![o] = <<AddressAt(a, o)>> \o @]
    <2>1. [p \in Orders |->
                             IF p \in b.order .. (o - 1)
                             THEN RemoveFirst(buddyBlocks[p], BuddyOf(b.address, p))
                             ELSE buddyBlocks[p]] = rest
      OBVIOUS
    <2>2. QED
      BY <1>2, <2>1 DEF AddBuddyBlock
  <1> HIDE DEF lists, a, n
  <1>9. \A p \in n .. (o - 1) :
           /\ rest[p] \in Seq(Nat) /\ Injective(rest[p])
           /\ ToSet(rest[p]) = ToSet(lists[p]) \ {r[p]}
    <2> SUFFICES ASSUME NEW p \in n .. (o - 1)
                 PROVE  /\ rest[p] \in Seq(Nat) /\ Injective(rest[p])
                        /\ ToSet(rest[p]) = ToSet(lists[p]) \ {r[p]}
      OBVIOUS
    <2>1. p \in Orders /\ r[p] \in ToSet(lists[p])
      BY <1>6
    <2>2. lists[p] \in Seq(Nat) /\ Injective(lists[p])
      BY <1>4, <2>1 DEF ListsOK
    <2>3. rest[p] = RemoveFirst(lists[p], r[p])
      BY <2>1
    <2> HIDE DEF r, rest
    <2>4. QED
      BY <2>1, <2>2, <2>3, Removed
  <1>10. \A p \in Orders : p \notin n .. (o - 1) => rest[p] = lists[p]
    OBVIOUS
  <1>11. rest[o] = lists[o] /\ o \notin n .. (o - 1)
    BY <1>6, <1>10
  <1>12. DOMAIN rest = Orders
    OBVIOUS
  <1> HIDE DEF rest
  <1>13. ListsOK(rest)
    <2>1. ASSUME NEW p \in Orders PROVE rest[p] \in Seq(Nat) /\ Injective(rest[p])
      BY <1>4, <1>9, <1>10 DEF ListsOK
    <2>2. rest = [p \in Orders |-> rest[p]]
      BY DEF rest
    <2>3. QED
      BY <2>1, <2>2 DEF ListsOK
  <1>14. AddressAt(a, o) \in Nat /\ AddressAt(a, o) % Size(o) = 0
    BY <1>5, <1>7, BuddyFacts
  <1> DEFINE y == AddressAt(a, o)
  <1>15. t \in BlockType /\ t.address = y /\ t.order = o /\ Tiles({t})
    <2>1. t \in BlockType /\ t.address = y /\ t.order = o
      BY <1>14, BlockFields
    <2>2. t.address % 2^t.order = 0
      BY <1>14, <2>1 DEF Size
    <2> HIDE DEF t
    <2>3. QED
      BY <2>1, <2>2 DEF Tiles
  <1>16. Cover({t}) = Cover(R)
    <2>1. AddressAt(a, n) = a
      BY <1>5, <1>7, AlignedIsAt
    <2>2. QED
      BY <1>5, <1>7, <2>1, ClimbCover
  <1>17. C = {Block(r[p], p) : p \in n .. (o - 1)}
    BY <1>6 DEF Climbed
  <1>18. C \subseteq F
    <2> SUFFICES ASSUME NEW p \in n .. (o - 1) PROVE Block(r[p], p) \in F
      BY <1>17
    <2>1. p \in Orders /\ r[p] \in Nat /\ r[p] \in ToSet(lists[p])
      BY <1>6
    <2> HIDE DEF r
    <2>2. Block(r[p], p) \in BlockType /\ Block(r[p], p).address = r[p] /\ Block(r[p], p).order = p
      BY <2>1, BlockFields
    <2>3. QED
      BY <1>4, <2>1, <2>2, FreeMember
  <1>19. Tiles((S \ R) \cup {t}) /\ Cover((S \ R) \cup {t}) = Cover(S) /\ {t} \cap (S \ R) = {}
    <2>1. R \subseteq S
      BY <1>18
    <2> HIDE DEF S, R, t
    <2>2. QED
      BY <1>4, <1>15, <1>16, <2>1, Replaced
  <1>20. \A u \in BlockType : u \in C <=> u.order \in n .. (o - 1) /\ u.address = r[u.order]
    <2> SUFFICES ASSUME NEW u \in BlockType
                 PROVE  u \in C <=> u.order \in n .. (o - 1) /\ u.address = r[u.order]
      OBVIOUS
    <2>1. u = Block(u.address, u.order)
      BY PagesOf
    <2>2. ASSUME NEW p \in n .. (o - 1) PROVE Block(r[p], p).address = r[p] /\ Block(r[p], p).order = p
      BY DEF Block
    <2> HIDE DEF r, C
    <2>3. QED
      BY <1>17, <2>1, <2>2
  <1>21. t \notin F
    <2> SUFFICES ASSUME t \in F PROVE FALSE
      OBVIOUS
    <2>1. t \in R
      BY <1>19
    <2>2. t # b
      BY <1>4
    <2>3. t \in C
      BY <2>1, <2>2
    <2>4. t.order \in n .. (o - 1)
      BY <1>15, <1>20, <2>3
    <2>5. QED
      BY <1>11, <1>15, <2>4
  <1>22. y \notin ToSet(lists[o])
    <2> HIDE DEF t, y
    <2>1. QED
      BY <1>4, <1>15, <1>21, FreeMember
  <1> HIDE DEF y
  <1>23. /\ <<y>> \o rest[o] \in Seq(Nat) /\ Injective(<<y>> \o rest[o])
         /\ ToSet(<<y>> \o rest[o]) = ToSet(lists[o]) \cup {y}
    <2>1. rest[o] \in Seq(Nat) /\ Injective(rest[o]) /\ y \notin ToSet(rest[o]) /\ y \in Nat
      BY <1>11, <1>13, <1>14, <1>22 DEF ListsOK, y
    <2>2. QED
      BY <2>1, <1>11, Pushed
  <1>24. /\ buddyBlocks'[o] = <<y>> \o rest[o]
         /\ \A p \in Orders : p # o => buddyBlocks'[p] = rest[p]
         /\ buddyBlocks' = [p \in Orders |-> buddyBlocks'[p]]
    BY <1>8, <1>12 DEF y
  <1>25. ListsOK(buddyBlocks')
    <2>1. ASSUME NEW p \in Orders PROVE buddyBlocks'[p] \in Seq(Nat) /\ Injective(buddyBlocks'[p])
      BY <1>13, <1>23, <1>24 DEF ListsOK
    <2>2. QED
      BY <2>1, <1>24 DEF ListsOK
  <1> HIDE DEF r, C, F
  <1>26. \A u \in BlockType :
            u \in (F \ C) \cup {t} <=> u.address \in ToSet(buddyBlocks'[u.order])
    <2> SUFFICES ASSUME NEW u \in BlockType
                 PROVE  u \in (F \ C) \cup {t} <=> u.address \in ToSet(buddyBlocks'[u.order])
      OBVIOUS
    <2>1. u \in F <=> u.address \in ToSet(lists[u.order])
      BY <1>4, FreeMember DEF F
    <2>2. u = Block(u.address, u.order) /\ u.order \in Orders
      BY PagesOf
    <2>3. u = t <=> u.address = y /\ u.order = o
      BY <1>15, <2>2 DEF y
    <2>4. u \in C <=> u.order \in n .. (o - 1) /\ u.address = r[u.order]
      BY <1>20
    <2> HIDE DEF t
    <2>5. CASE u.order = o
      BY <1>11, <1>23, <1>24, <2>1, <2>3, <2>4, <2>5
    <2>6. CASE u.order # o /\ u.order \in n .. (o - 1)
      BY <1>9, <1>24, <2>1, <2>2, <2>3, <2>4, <2>6
    <2>7. CASE u.order # o /\ u.order \notin n .. (o - 1)
      BY <1>10, <1>24, <2>1, <2>2, <2>3, <2>4, <2>7
    <2>8. QED
      BY <2>5, <2>6, <2>7
  <1>27. FreeOf(buddyBlocks') = (F \ C) \cup {t}
    <2> DEFINE G == (F \ C) \cup {t}
    <2>1. G \in SUBSET BlockType
      BY <1>4, <1>15, FreeMember DEF F
    <2>2. \A u \in BlockType : u \in G <=> u.address \in ToSet(buddyBlocks'[u.order])
      BY <1>26
    <2> HIDE DEF G
    <2>3. FreeOf(buddyBlocks') = G
      BY <1>25, <2>1, <2>2, SameFree
    <2>4. QED
      BY <2>3 DEF G
  <1> HIDE DEF t
  <1>28. FreeOf(buddyBlocks') \cup granted' = (S \ R) \cup {t}
    <2>1. b \notin F /\ C \cap granted = {}
      BY <1>4, <1>18
    <2>2. QED
      BY <2>1, <1>3, <1>27
  <1>29. FreeOf(buddyBlocks') \cap granted' = {}
    <2>1. t \notin granted \ {b}
      <3>1. b \notin F /\ C \cap granted = {}
        BY <1>4, <1>18
      <3>2. QED
        BY <3>1, <1>19
    <2>2. QED
      BY <2>1, <1>3, <1>4, <1>27
  <1>30. granted' \subseteq BlockType
    BY <1>3, <1>4
  <1> DEFINE newS == FreeOf(buddyBlocks') \cup granted'
  <1>31. Tiles(newS) /\ Cover(newS) = Cover(InitialBlocks(memoryMap))
    <2> HIDE DEF S, R, newS
    <2>1. newS = (S \ R) \cup {t}
      BY <1>28 DEF S, R, newS
    <2>2. QED
      BY <2>1, <1>4, <1>19
  <1>32. memoryMap' = memoryMap
    OBVIOUS
  <1>33. ASSUME NoPair(lists), NEW p \in Orders, p # MaxBuddyOrder - 1, NEW x \in ToSet(buddyBlocks'[p]),
                BuddyOf(x, p) \in ToSet(buddyBlocks'[p])
         PROVE  FALSE
    <2>1. CASE p # o
      <3>1. ToSet(buddyBlocks'[p]) \subseteq ToSet(lists[p])
        BY <1>9, <1>10, <1>24, <2>1
      <3>2. QED
        BY <1>33, <3>1 DEF NoPair
    <2>2. CASE p = o
      <3>1. ToSet(buddyBlocks'[o]) = ToSet(lists[o]) \cup {y}
        BY <1>23, <1>24
      <3>2. BuddyOf(y, o) \notin ToSet(lists[o])
        <4>1. ~OnList(BuddyOf(a, o), o)
          BY <1>2, <1>33, <2>2 DEF CoalescesTo, a
        <4>2. BuddyOf(y, o) = BuddyOf(a, o)
          BY <1>5, <1>7, BuddyOfAt DEF y
        <4>3. QED
          BY <4>1, <4>2 DEF OnList, ToSet, lists
      <3>3. BuddyOf(y, o) # y
        BY <1>7, <1>14, BuddyPair DEF y
      <3>4. x # y
        BY <1>33, <2>2, <3>1, <3>2, <3>3
      <3>5. x \in ToSet(lists[o])
        BY <1>33, <2>2, <3>1, <3>4
      <3>6. x \in Nat /\ x % Size(o) = 0
        <4>1. F \subseteq S
          OBVIOUS
        <4> HIDE DEF S
        <4>2. QED
          BY <4>1, <1>4, <3>5, Listed DEF F
      <3>7. BuddyOf(BuddyOf(x, o), o) = x
        BY <1>7, <3>6, BuddyPair
      <3>8. BuddyOf(x, o) = y
        BY <1>33, <2>2, <3>1, <3>5 DEF NoPair
      <3>9. QED
        BY <3>2, <3>5, <3>7, <3>8
    <2>3. QED
      BY <2>1, <2>2
  <1>34. NoPair(lists) => NoPair(buddyBlocks')
    BY <1>33 DEF NoPair
  <1>35. BuddyInv'
    BY <1>25, <1>29, <1>30, <1>31, <1>32 DEF BuddyInv
  <1>36. QED
    BY <1>34, <1>35 DEF lists

-----------------------------------------------------------------------------
(***************************************************************************)
(* The start: the blocks of the memory map.                                *)
(***************************************************************************)

\* Aligned blocks that share a page are nested.
LEMMA Nested ==
    ASSUME NEW b \in BlockType, NEW c \in BlockType, b.order <= c.order,
           b.address % Size(b.order) = 0, c.address % Size(c.order) = 0,
           NEW x \in Pages(b), x \in Pages(c)
    PROVE  Pages(b) \subseteq Pages(c)
  <1> DEFINE s == Size(b.order)
             d == Size(c.order)
             i == b.address
             j == c.address
  <1>1. /\ i \in Nat /\ j \in Nat /\ s \in Nat \ {0} /\ d \in Nat \ {0}
        /\ Pages(b) = i .. (i + s - 1) /\ Pages(c) = j .. (j + d - 1)
        /\ b.order \in Nat /\ c.order \in Nat
    BY PagesOf
  <1>2. PICK k \in Nat \ {0} : d = k * s
    BY <1>1, SizeMultiple
  <1> HIDE DEF s, d, i, j
  <1>3. PICK u \in Nat : i = u * s
    BY <1>1, Remainder DEF i, s
  <1>4. PICK v \in Nat : j = v * d
    BY <1>1, Remainder DEF j, d
  <1>5. PICK w \in Nat : w = v * k /\ j = w * s
    BY <1>1, <1>2, <1>4
  <1>6. x \in Int /\ i <= x /\ x < i + s /\ j <= x /\ x < j + d
    BY <1>1
  <1>7. i + s = (u + 1) * s /\ j + d = (w + k) * s
    BY <1>1, <1>2, <1>3, <1>5
  <1>8. w <= u
    <2> SUFFICES ASSUME u + 1 <= w PROVE FALSE
      OBVIOUS
    <2>1. (u + 1) * s <= w * s
      BY <1>1
    <2>2. QED
      BY <1>1, <1>5, <1>6, <1>7, <2>1
  <1>9. u + 1 <= w + k
    <2> SUFFICES ASSUME w + k <= u PROVE FALSE
      OBVIOUS
    <2>1. (w + k) * s <= u * s
      BY <1>1
    <2>2. QED
      BY <1>1, <1>3, <1>6, <1>7, <2>1
  <1>10. w * s <= u * s /\ (u + 1) * s <= (w + k) * s
    BY <1>1, <1>8, <1>9
  <1>11. j <= i /\ i + s <= j + d
    BY <1>1, <1>3, <1>5, <1>7, <1>10
  <1>12. QED
    BY <1>1, <1>11

\* The largest aligned blocks of a region tile it.
LEMMA RegionTiles ==
    ASSUME NEW first \in Nat, NEW last \in Nat
    PROVE  /\ Tiles(RegionBlocks(first, last))
           /\ \A b \in RegionBlocks(first, last) : Pages(b) \subseteq first .. last
  <1> DEFINE B == RegionBlocks(first, last)
  <1>1. ASSUME NEW b \in B
        PROVE  /\ b \in BlockType /\ b.address % 2^b.order = 0 /\ Pages(b) \subseteq first .. last
               /\ b.address \in first .. last
               /\ \A c \in B : Pages(b) \subseteq Pages(c) => b = c
    <2>1. /\ b \in [address : first .. last, order : Orders]
          /\ b.address % 2^b.order = 0 /\ Pages(b) \subseteq first .. last
          /\ \A c \in B : Pages(b) \subseteq Pages(c) => b = c
      BY DEF RegionBlocks
    <2>2. first .. last \subseteq Nat
      OBVIOUS
    <2>3. b \in BlockType /\ b.address \in first .. last
      BY <2>1, <2>2 DEF BlockType
    <2>4. QED
      BY <2>1, <2>3
  <1> HIDE DEF B
  <1>2. ASSUME NEW b \in B, NEW c \in B, b # c, b.order <= c.order PROVE Pages(b) \cap Pages(c) = {}
    <2> SUFFICES ASSUME NEW x \in Pages(b), x \in Pages(c) PROVE FALSE
      OBVIOUS
    <2>1. Pages(b) \subseteq Pages(c)
      BY <1>1, <1>2, Nested DEF Size
    <2>2. QED
      BY <1>1, <1>2, <2>1
  <1>3. ASSUME NEW b \in B, NEW c \in B, b # c PROVE Pages(b) \cap Pages(c) = {}
    <2>1. b.order \in Nat /\ c.order \in Nat
      BY <1>1, PagesOf
    <2>2. CASE b.order <= c.order
      BY <1>2, <1>3, <2>2
    <2>3. CASE c.order <= b.order
      BY <1>2, <1>3, <2>3
    <2>4. QED
      BY <2>1, <2>2, <2>3
  <1>4. Tiles(B)
    BY <1>1, <1>3 DEF Tiles
  <1>5. QED
    BY <1>1, <1>4 DEF B

\* The blocks of one region of the memory map.
BlocksOf(r) == IF RegionFrames(r) = {} THEN {} ELSE RegionBlocks(Min(RegionFrames(r)), Max(RegionFrames(r)))

\* What the code takes from a region of the memory map.
LEMMA MapRegion ==
    ASSUME NEW map \in MemoryMaps, NEW i \in Available(map)
    PROVE  /\ map[i].base \in Nat /\ map[i].length \in Nat /\ i \in 1 .. Len(map) /\ Len(map) \in Nat
           /\ RegionFrames(map[i]) \subseteq Nat
           /\ IsFiniteSet(RegionFrames(map[i]))
           /\ \A f \in RegionFrames(map[i]) : map[i].base \div PageSize <= f
  <1>1. /\ map[i].base \in Nat /\ map[i].length \in Nat /\ i \in 1 .. Len(map) /\ Len(map) \in Nat
        /\ PageSize \in Nat \ {0}
    BY FramesAssumption DEF Available
  <1> DEFINE b == map[i].base
             e == map[i].base + map[i].length
             x == b \div PageSize
             y == (e \div PageSize) - 1
  <1>2. b \in Nat /\ e \in Nat
    BY <1>1
  <1>3. x \in Nat /\ y \in Int /\ RegionFrames(map[i]) = x .. y
    <2>1. RegionFrames(map[i]) = x .. y
      BY DEF RegionFrames
    <2> HIDE DEF b, e
    <2>2. x \in Nat /\ e \div PageSize \in Nat
      BY <1>1, <1>2
    <2>3. QED
      BY <2>1, <2>2
  <1> HIDE DEF x, y
  <1>4. IsFiniteSet(x .. y)
    BY <1>3, FS_Interval
  <1>5. QED
    BY <1>1, <1>3, <1>4 DEF x

\* The blocks of a region lie in it.
LEMMA BlocksOfRegion ==
    ASSUME NEW map \in MemoryMaps, NEW i \in Available(map)
    PROVE  Tiles(BlocksOf(map[i])) /\ \A b \in BlocksOf(map[i]) : Pages(b) \subseteq RegionFrames(map[i])
  <1> DEFINE f == RegionFrames(map[i])
  <1>1. CASE f = {}
    BY <1>1 DEF BlocksOf, Tiles
  <1>2. CASE f # {}
    <2>1. PICK x \in Nat, y \in Int : f = x .. y
      <3>1. PageSize \in Nat \ {0} /\ map[i].base \in Nat /\ map[i].length \in Nat
        BY MapRegion, FramesAssumption
      <3>2. map[i].base \div PageSize \in Nat /\ ((map[i].base + map[i].length) \div PageSize) - 1 \in Int
        BY <3>1
      <3>3. QED
        BY <3>2 DEF RegionFrames
    <2> HIDE DEF f
    <2>2. x <= y
      BY <1>2, <2>1
    <2>3. Min(f) \in f
      <3>1. x \in f /\ \A z \in f : x <= z
        BY <2>1, <2>2
      <3>2. QED
        BY <3>1 DEF Min
    <2>4. Max(f) \in f
      <3>1. y \in f /\ \A z \in f : y >= z
        BY <2>1, <2>2
      <3>2. QED
        BY <3>1 DEF Max
    <2> DEFINE g == Min(f)
               h == Max(f)
    <2>5. g \in Nat /\ h \in Nat /\ g .. h \subseteq f
      BY <2>1, <2>3, <2>4
    <2>6. BlocksOf(map[i]) = RegionBlocks(g, h)
      BY <1>2 DEF BlocksOf, f
    <2> HIDE DEF g, h
    <2>7. Tiles(RegionBlocks(g, h)) /\ \A b \in RegionBlocks(g, h) : Pages(b) \subseteq g .. h
      BY <2>5, RegionTiles
    <2>8. \A b \in RegionBlocks(g, h) : Pages(b) \subseteq f
      BY <2>5, <2>7
    <2>9. QED
      BY <2>6, <2>7, <2>8 DEF f
  <1>3. QED
    BY <1>1, <1>2

\* Every block of the start comes from a region.
LEMMA InitialMember ==
    ASSUME NEW map, NEW b
    PROVE  b \in InitialBlocks(map) <=> \E i \in BuddyRegions(map) : b \in BlocksOf(map[i])
  BY DEF InitialBlocks, BlocksOf

\* The blocks of the start tile, since regions share no page.
LEMMA InitialTiles ==
    ASSUME NEW map \in MemoryMaps, RegionsApart
    PROVE  Tiles(InitialBlocks(map))
  <1> DEFINE I == InitialBlocks(map)
  <1>1. ASSUME NEW b \in I
        PROVE  /\ b \in BlockType /\ b.address % 2^b.order = 0
               /\ \E i \in BuddyRegions(map) : b \in BlocksOf(map[i])
    <2>1. PICK i \in BuddyRegions(map) : b \in BlocksOf(map[i])
      BY InitialMember
    <2>2. Tiles(BlocksOf(map[i]))
      BY BlocksOfRegion DEF BuddyRegions
    <2>3. QED
      BY <2>1, <2>2 DEF Tiles
  <1> HIDE DEF I
  <1>2. ASSUME NEW b \in I, NEW c \in I, b # c PROVE Pages(b) \cap Pages(c) = {}
    <2>1. PICK i \in BuddyRegions(map), j \in BuddyRegions(map) :
                  b \in BlocksOf(map[i]) /\ c \in BlocksOf(map[j])
      BY <1>1
    <2>2. /\ Tiles(BlocksOf(map[i])) /\ Pages(b) \subseteq RegionFrames(map[i])
          /\ Pages(c) \subseteq RegionFrames(map[j])
      BY <2>1, BlocksOfRegion DEF BuddyRegions
    <2>3. CASE i = j
      BY <1>2, <2>1, <2>2, <2>3 DEF Tiles
    <2>4. CASE i # j
      BY <2>2, <2>4 DEF RegionsApart
    <2>5. QED
      BY <2>3, <2>4
  <1>3. QED
    BY <1>1, <1>2 DEF Tiles, I

\* There are finitely many pages to start with.
LEMMA BuddyPagesFinite ==
    ASSUME NEW map \in MemoryMaps
    PROVE  IsFiniteSet(UNION {RegionFrames(map[i]) : i \in BuddyRegions(map)})
  <1> DEFINE D == BuddyRegions(map)
             K == {RegionFrames(map[i]) : i \in D}
             g == [i \in D |-> RegionFrames(map[i])]
  <1>1. D \subseteq 1 .. Len(map)
    BY MapRegion DEF BuddyRegions
  <1>2. IsFiniteSet(D)
    <2>1. CASE D = {}
      BY <2>1, FS_EmptySet
    <2>2. CASE D # {}
      <3>1. Len(map) \in Nat
        BY <2>2, MapRegion DEF BuddyRegions
      <3>2. IsFiniteSet(1 .. Len(map))
        BY <3>1, FS_Interval
      <3>3. QED
        BY <3>2, <1>1, FS_Subset
    <2>3. QED
      BY <2>1, <2>2
  <1>3. \A k \in K : IsFiniteSet(k)
    <2> SUFFICES ASSUME NEW i \in D PROVE IsFiniteSet(RegionFrames(map[i]))
      OBVIOUS
    <2>1. i \in Available(map)
      BY DEF BuddyRegions
    <2>2. QED
      BY <2>1, MapRegion
  <1>4. g \in Surjection(D, K)
    BY DEF Surjection
  <1>5. IsFiniteSet(K)
    <2> HIDE DEF D, K, g
    <2>1. QED
      BY <1>2, <1>4, FS_Surjection
  <1>6. QED
    <2> HIDE DEF K
    <2>1. IsFiniteSet(UNION K)
      BY <1>3, <1>5, FS_UNION
    <2>2. QED
      BY <2>1 DEF K

\* A finite set of addresses can be put in a list.
LEMMA SequenceOfSet ==
    ASSUME NEW A \in SUBSET Nat, IsFiniteSet(A)
    PROVE  SetToSeq(A) \in Seq(Nat) /\ Injective(SetToSeq(A)) /\ ToSet(SetToSeq(A)) = A
  <1> DEFINE n == Cardinality(A)
             s == SetToSeq(A)
  <1>1. n \in Nat /\ ExistsBijection(1 .. n, A)
    BY FS_CardinalityType
  <1>2. PICK f \in Bijection(1 .. n, A) : TRUE
    BY <1>1 DEF ExistsBijection
  <1>3. f \in [1 .. n -> A] /\ IsInjective(f)
    BY <1>2 DEF Bijection, Injection
  <1>4. s \in [1 .. n -> A] /\ IsInjective(s)
    BY <1>3 DEF SetToSeq
  <1> HIDE DEF s
  <1>5. IsFiniteSet(1 .. n) /\ Cardinality(1 .. n) = n
    <2>1. n \in Int /\ 1 \in Int
      BY <1>1
    <2>2. IsFiniteSet(1 .. n) /\ Cardinality(1 .. n) = IF 1 > n THEN 0 ELSE n - 1 + 1
      BY <2>1, FS_Interval
    <2> HIDE DEF n
    <2>3. QED
      BY <1>1, <2>2
  <1>6. s \in Injection(1 .. n, A)
    BY <1>4 DEF Injection
  <1>7. s \in Surjection(1 .. n, A)
    <2>1. Cardinality(1 .. n) = Cardinality(A)
      BY <1>5
    <2> HIDE DEF n
    <2>2. QED
      BY <1>5, <1>6, <2>1, FS_Injection
  <1> HIDE DEF n
  <1>8. s \in Seq(Nat) /\ DOMAIN s = 1 .. n
    <2>1. s \in [1 .. n -> Nat]
      BY <1>4
    <2>2. QED
      BY <1>1, <2>1
  <1>9. Injective(s)
    BY <1>4, <1>8 DEF IsInjective, Injective
  <1>10. ToSet(s) = A
    BY <1>4, <1>7, <1>8 DEF ToSet, Surjection
  <1>11. QED
    BY <1>8, <1>9, <1>10 DEF s

\* The lists hold the blocks of the start.
LEMMA InitialLists ==
    ASSUME RegionsApart, Init
    PROVE  ListsOK(buddyBlocks) /\ FreeOf(buddyBlocks) = InitialBlocks(memoryMap)
  <1> DEFINE I == InitialBlocks(memoryMap)
             A(o) == {b.address : b \in {c \in I : c.order = o}}
  <1>1. memoryMap \in MemoryMaps /\ buddyBlocks = [o \in Orders |-> SetToSeq(A(o))]
    BY DEF Init, FramesInit, BuddyInit
  <1>2. Tiles(I)
    BY <1>1, InitialTiles
  <1> DEFINE P == UNION {RegionFrames(memoryMap[i]) : i \in BuddyRegions(memoryMap)}
  <1>3. \A b \in I : b.address \in P
    <2> SUFFICES ASSUME NEW b \in I PROVE b.address \in P
      OBVIOUS
    <2>1. PICK i \in BuddyRegions(memoryMap) : b \in BlocksOf(memoryMap[i])
      BY InitialMember
    <2>2. Pages(b) \subseteq RegionFrames(memoryMap[i])
      BY <1>1, <2>1, BlocksOfRegion DEF BuddyRegions
    <2>3. b.address \in Pages(b)
      BY <1>2, PagesOf DEF Tiles
    <2>4. QED
      BY <2>2, <2>3
  <1>4. IsFiniteSet(P)
    BY <1>1, BuddyPagesFinite
  <1> HIDE DEF I, P
  <1>5. \A b \in I : b \in BlockType
    BY <1>2 DEF Tiles
  <1>6. ASSUME NEW o \in Orders
        PROVE  A(o) \in SUBSET Nat /\ IsFiniteSet(A(o))
    <2>1. A(o) \subseteq P
      BY <1>3
    <2>2. A(o) \subseteq Nat
      BY <1>5, PagesOf
    <2> HIDE DEF A
    <2>3. QED
      BY <2>1, <2>2, <1>4, FS_Subset
  <1>7. ASSUME NEW o \in Orders
        PROVE  /\ buddyBlocks[o] \in Seq(Nat) /\ Injective(buddyBlocks[o])
               /\ ToSet(buddyBlocks[o]) = A(o)
    <2>1. buddyBlocks[o] = SetToSeq(A(o))
      BY <1>1
    <2> HIDE DEF A
    <2>2. QED
      BY <2>1, <1>6, SequenceOfSet
  <1>8. ListsOK(buddyBlocks)
    <2>1. buddyBlocks = [o \in Orders |-> buddyBlocks[o]]
      BY <1>1
    <2>2. QED
      BY <2>1, <1>7 DEF ListsOK
  <1>9. ASSUME NEW t \in BlockType
        PROVE  t \in I <=> t.address \in ToSet(buddyBlocks[t.order])
    <2>1. t.order \in Orders /\ t = Block(t.address, t.order)
      BY PagesOf
    <2>2. ToSet(buddyBlocks[t.order]) = A(t.order)
      BY <1>7, <2>1
    <2>3. t \in I => t.address \in A(t.order)
      OBVIOUS
    <2>4. ASSUME t.address \in A(t.order) PROVE t \in I
      <3>1. PICK b \in I : b.order = t.order /\ b.address = t.address
        BY <2>4
      <3>2. b = t
        BY <3>1, <1>5, <2>1, PagesOf
      <3>3. QED
        BY <3>2
    <2>5. QED
      BY <2>2, <2>3, <2>4
  <1>10. I \in SUBSET BlockType
    BY <1>5
  <1>11. FreeOf(buddyBlocks) = I
    BY <1>8, <1>9, <1>10, SameFree
  <1>12. QED
    BY <1>8, <1>11 DEF I

\* The invariant holds at the start.
LEMMA BuddyInitHolds ==
    ASSUME RegionsApart, Init
    PROVE  BuddyInv
  <1>1. memoryMap \in MemoryMaps /\ granted = {}
    BY DEF Init, FramesInit, BuddyInit
  <1>2. ListsOK(buddyBlocks) /\ FreeOf(buddyBlocks) = InitialBlocks(memoryMap)
    BY InitialLists
  <1>3. Tiles(InitialBlocks(memoryMap))
    BY <1>1, InitialTiles
  <1>4. FreeOf(buddyBlocks) \cup granted = InitialBlocks(memoryMap) /\ FreeOf(buddyBlocks) \cap granted = {}
    BY <1>1, <1>2
  <1>5. QED
    BY <1>1, <1>2, <1>3, <1>4 DEF BuddyInv

\* Every step keeps the invariant.
LEMMA BuddyStep ==
    ASSUME BuddyInv, [Next]_vars
    PROVE  BuddyInv'
  <1>1. CASE FramesNext /\ UNCHANGED buddyVars
    <2>1. memoryMap' = memoryMap
      BY <1>1 DEF FramesNext, AllocPhysicalPage, FreePhysicalPage
    <2>2. QED
      BY <1>1, <2>1 DEF BuddyInv, buddyVars
  <1>2. CASE BuddyNext /\ UNCHANGED frameVars
    <2>1. UNCHANGED memoryMap
      BY <1>2 DEF frameVars
    <2>2. QED
      BY <1>2, <2>1, AllocTiles, FreeTiles DEF BuddyNext
  <1>3. CASE UNCHANGED vars
    BY <1>3 DEF BuddyInv, vars
  <1>4. QED
    BY <1>1, <1>2, <1>3 DEF Next

\* The invariant holds always.
LEMMA BuddyInvariant ==
    ASSUME RegionsApart
    PROVE  Spec => []BuddyInv
  <1>1. Init => BuddyInv
    BY BuddyInitHolds
  <1>2. BuddyInv /\ [Next]_vars => BuddyInv'
    BY BuddyStep
  <1>3. QED
    BY <1>1, <1>2, PTL DEF Spec

\* Whatever sequence of splits and merges runs, buddy_alloc and buddy_free neither lose
\* nor duplicate a page of regions that share none.
THEOREM BlocksAlwaysTile ==
    ASSUME RegionsApart
    PROVE  Spec => []BlocksTile
  <1>1. BuddyInv => BlocksTile
    BY DEF BuddyInv, BlocksTile, Tiles, Cover, FreeBlocks, FreeOf
  <1>2. QED
    BY <1>1, BuddyInvariant, PTL

-----------------------------------------------------------------------------
(***************************************************************************)
(* Buddies are merged.                                                     *)
(***************************************************************************)

\* The pages of the block that a pair makes are the pages of both.
LEMMA PairPages ==
    ASSUME NEW a \in Nat, NEW p \in Orders, p # MaxBuddyOrder - 1, a % Size(p) = 0
    PROVE  LET w == Block(AddressAt(a, p + 1), p + 1) IN
           /\ w \in BlockType /\ w.address % Size(w.order) = 0 /\ w.order = p + 1 /\ p + 1 \in Orders
           /\ w.address = AddressAt(a, p + 1)
           /\ Pages(w) = Pages(Block(a, p)) \cup Pages(Block(BuddyOf(a, p), p))
  <1> DEFINE z == AddressAt(a, p + 1)
             y == BuddyOf(a, p)
             d == Size(p)
             w == Block(z, p + 1)
  <1>1. p \in Nat /\ p + 1 \in Orders /\ p + 1 \in Nat
    BY OrderAssumption DEF Orders
  <1>2. d \in Nat \ {0} /\ Size(p + 1) = d + d
    BY <1>1, SizeFacts
  <1>3. /\ y \in Nat /\ z \in Nat /\ z % Size(p + 1) = 0
        /\ (a = z /\ y = a + d) \/ (a = y + d /\ y = z)
    BY <1>1, BuddyPair
  <1> HIDE DEF z, y, d
  <1>4. /\ w \in BlockType /\ w.address = z /\ w.order = p + 1
        /\ Pages(w) = z .. (z + (d + d) - 1)
    BY <1>1, <1>2, <1>3, BlockFields
  <1>5. Pages(Block(a, p)) = a .. (a + d - 1) /\ Pages(Block(y, p)) = y .. (y + d - 1)
    BY <1>3, BlockFields DEF d
  <1>6. z .. (z + (d + d) - 1) = (a .. (a + d - 1)) \cup (y .. (y + d - 1))
    BY <1>2, <1>3
  <1>7. QED
    BY <1>1, <1>3, <1>4, <1>5, <1>6 DEF z, y

\* A block of a region is one of its largest.
LEMMA LargestOfRegion ==
    ASSUME NEW map \in MemoryMaps, NEW i \in Available(map), NEW b \in BlocksOf(map[i]),
           NEW w \in BlockType, w.address % Size(w.order) = 0,
           Pages(w) \subseteq RegionFrames(map[i]), Pages(b) \subseteq Pages(w)
    PROVE  b = w
  <1> DEFINE f == RegionFrames(map[i])
             g == Min(f)
             h == Max(f)
  <1>1. PICK x \in Nat, y \in Int : f = x .. y
    <2>1. PageSize \in Nat \ {0} /\ map[i].base \in Nat /\ map[i].length \in Nat
      BY MapRegion, FramesAssumption
    <2>2. map[i].base \div PageSize \in Nat /\ ((map[i].base + map[i].length) \div PageSize) - 1 \in Int
      BY <2>1
    <2>3. QED
      BY <2>2 DEF RegionFrames
  <1>2. f # {} /\ b \in RegionBlocks(g, h)
    BY DEF BlocksOf
  <1> HIDE DEF f
  <1>3. x <= y
    BY <1>1, <1>2
  <1>4. \A z \in f : g <= z /\ z <= h
    <2>1. x \in f /\ \A z \in f : x <= z
      BY <1>1, <1>3
    <2>2. y \in f /\ \A z \in f : y >= z
      BY <1>1, <1>3
    <2>3. g \in f /\ \A z \in f : g <= z
      BY <2>1 DEF Min
    <2>4. h \in f /\ \A z \in f : h >= z
      BY <2>2 DEF Max
    <2> HIDE DEF g, h
    <2>5. QED
      BY <2>3, <2>4, <1>1
  <1>5. g \in Int /\ h \in Int /\ f \subseteq g .. h
    <2>1. x \in f /\ \A z \in f : x <= z
      BY <1>1, <1>3
    <2>2. y \in f /\ \A z \in f : y >= z
      BY <1>1, <1>3
    <2>3. g \in f
      BY <2>1 DEF Min
    <2>4. h \in f
      BY <2>2 DEF Max
    <2> HIDE DEF g, h
    <2>5. QED
      BY <2>3, <2>4, <1>1, <1>4
  <1> HIDE DEF g, h
  <1>6. w.address \in g .. h /\ Pages(w) \subseteq g .. h
    <2>1. w.address \in Pages(w)
      BY PagesOf
    <2>2. QED
      BY <2>1, <1>5 DEF f
  <1>7. w.address % 2^w.order = 0
    BY DEF Size
  <1>8. w \in {c \in [address : g .. h, order : Orders] :
                   c.address % 2^c.order = 0 /\ Pages(c) \subseteq g .. h}
    <2>1. w \in [address : g .. h, order : Orders]
      BY <1>6 DEF BlockType
    <2>2. QED
      BY <2>1, <1>6, <1>7
  <1>9. QED
    BY <1>2, <1>8 DEF RegionBlocks

\* No pair at the start: within a region the two would be one block, and regions do
\* not touch.
LEMMA InitialNoPair ==
    ASSUME RegionsApart, RegionsDoNotTouch, Init
    PROVE  NoPair(buddyBlocks)
  <1> DEFINE map == memoryMap
             I == InitialBlocks(map)
  <1>1. map \in MemoryMaps
    BY DEF Init, FramesInit
  <1>2. ListsOK(buddyBlocks) /\ FreeOf(buddyBlocks) = I
    BY InitialLists
  <1>3. Tiles(I)
    BY <1>1, InitialTiles
  <1> HIDE DEF map
  <1>4. SUFFICES ASSUME NEW o \in Orders, o # MaxBuddyOrder - 1, NEW a \in ToSet(buddyBlocks[o]),
                        BuddyOf(a, o) \in ToSet(buddyBlocks[o])
                 PROVE  FALSE
    BY DEF NoPair
  <1> DEFINE y == BuddyOf(a, o)
             b == Block(a, o)
             c == Block(y, o)
  <1>5. a \in Nat /\ y \in Nat
    <2>1. buddyBlocks[o] \in Seq(Nat)
      BY <1>2 DEF ListsOK
    <2> HIDE DEF y
    <2>2. \A z \in ToSet(buddyBlocks[o]) : z \in Nat
      BY <2>1 DEF ToSet
    <2>3. QED
      BY <2>2, <1>4 DEF y
  <1>6. /\ b \in I /\ c \in I /\ b \in BlockType /\ c \in BlockType
        /\ b.address = a /\ b.order = o /\ c.address = y /\ c.order = o
    <2>1. /\ b \in BlockType /\ b.address = a /\ b.order = o
      BY <1>5, BlockFields
    <2>2. /\ c \in BlockType /\ c.address = y /\ c.order = o
      BY <1>5, BlockFields
    <2> HIDE DEF b, c, I
    <2>3. b \in I
      BY <2>1, <1>2, FreeMember
    <2>4. c \in I
      BY <2>2, <1>2, <1>4, FreeMember DEF y
    <2>5. QED
      BY <2>1, <2>2, <2>3, <2>4
  <1>7. a % Size(o) = 0
    BY <1>3, <1>6 DEF Tiles, Size
  <1>8. o \in Nat /\ Size(o) \in Nat \ {0}
    BY SizeFacts, OrderAssumption DEF Orders
  <1> DEFINE d == Size(o)
             w == Block(AddressAt(a, o + 1), o + 1)
  <1>9. /\ w \in BlockType /\ w.address % Size(w.order) = 0 /\ w.order = o + 1
        /\ Pages(w) = Pages(b) \cup Pages(c)
    BY <1>4, <1>5, <1>7, PairPages
  <1>10. y = a + d \/ a = y + d
    BY <1>5, <1>7, <1>8, BuddyPair
  <1>11. Pages(b) = a .. (a + d - 1) /\ Pages(c) = y .. (y + d - 1)
    BY <1>5, BlockFields
  <1>12. PICK i \in BuddyRegions(map), j \in BuddyRegions(map) :
                  b \in BlocksOf(map[i]) /\ c \in BlocksOf(map[j])
    <2> HIDE DEF b, c
    <2>1. QED
      BY <1>6, InitialMember
  <1> HIDE DEF y, b, c, I, d, w
  <1>13. i \in Available(map) /\ j \in Available(map)
    BY DEF BuddyRegions
  <1>14. Pages(b) \subseteq RegionFrames(map[i]) /\ Pages(c) \subseteq RegionFrames(map[j])
    BY <1>1, <1>12, <1>13, BlocksOfRegion
  <1>15. CASE i = j
    <2>1. Pages(w) \subseteq RegionFrames(map[i])
      BY <1>9, <1>14, <1>15
    <2>2. Pages(b) \subseteq Pages(w)
      BY <1>9
    <2>3. b = w
      BY <1>1, <1>9, <1>12, <1>13, <2>1, <2>2, LargestOfRegion
    <2>4. QED
      BY <2>3, <1>6, <1>8, <1>9
  <1>16. CASE i # j
    <2>1. CASE y = a + d
      <3>1. a + d - 1 \in Pages(b) /\ y \in Pages(c) /\ y = (a + d - 1) + 1
        BY <1>5, <1>8, <1>11, <2>1 DEF d
      <3>2. QED
        BY <3>1, <1>1, <1>14, <1>16 DEF RegionsDoNotTouch
    <2>2. CASE a = y + d
      <3>1. y + d - 1 \in Pages(c) /\ a \in Pages(b) /\ a = (y + d - 1) + 1
        BY <1>5, <1>8, <1>11, <2>2 DEF d
      <3>2. QED
        BY <3>1, <1>1, <1>14, <1>16 DEF RegionsDoNotTouch
    <2>3. QED
      BY <1>10, <2>1, <2>2
  <1>17. QED
    BY <1>15, <1>16

\* The tiling together with the absence of pairs.
MergedInv == BuddyInv /\ NoPair(buddyBlocks)

\* Every step keeps both.
LEMMA MergedStep ==
    ASSUME MergedInv, [Next]_vars
    PROVE  MergedInv'
  <1>1. CASE FramesNext /\ UNCHANGED buddyVars
    <2>1. BuddyInv'
      BY BuddyStep DEF MergedInv
    <2>2. QED
      BY <1>1, <2>1 DEF MergedInv, NoPair, buddyVars
  <1>2. CASE BuddyNext /\ UNCHANGED frameVars
    <2>1. UNCHANGED memoryMap
      BY <1>2 DEF frameVars
    <2>2. QED
      BY <1>2, <2>1, AllocTiles, FreeTiles DEF MergedInv, BuddyNext
  <1>3. CASE UNCHANGED vars
    BY <1>3 DEF MergedInv, BuddyInv, NoPair, vars
  <1>4. QED
    BY <1>1, <1>2, <1>3 DEF Next

\* When all lists from order on are empty, no aligned block of that order is free page
\* by page: of the free blocks in it, the smallest would have its buddy free.
LEMMA RoomInTiles ==
    ASSUME MergedInv, NEW order \in Orders, NEW a \in Nat, a % Size(order) = 0,
           Pages(Block(a, order)) \subseteq Cover(FreeOf(buddyBlocks)),
           \A o \in Orders : o >= order => buddyBlocks[o] = <<>>
    PROVE  FALSE
  <1> DEFINE F == FreeOf(buddyBlocks)
             A == Block(a, order)
  <1>1. Orders = 0 .. (MaxBuddyOrder - 1) /\ MaxBuddyOrder \in Nat /\ order \in Nat
    BY OrderAssumption DEF Orders
  <1>2. ListsOK(buddyBlocks) /\ NoPair(buddyBlocks)
    BY DEF MergedInv, BuddyInv
  <1>3. /\ F \subseteq BlockType /\ \A t \in F : t.address % Size(t.order) = 0
        /\ \A t, u \in F : t # u => Pages(t) \cap Pages(u) = {}
    BY DEF MergedInv, BuddyInv, Tiles, Size
  <1>4. A \in BlockType /\ A.address = a /\ A.order = order /\ A.address % Size(A.order) = 0
    BY BlockFields
  <1>5. \A t \in F : t.order \in Nat /\ t.order < order /\ t.order # MaxBuddyOrder - 1
    <2> SUFFICES ASSUME NEW t \in F, t.order >= order PROVE FALSE
      BY <1>1, <1>3, PagesOf
    <2>1. t.order \in Orders /\ t.address \in ToSet(buddyBlocks[t.order])
      BY <1>2, <1>3, PagesOf, FreeMember
    <2>2. buddyBlocks[t.order] = <<>>
      BY <2>1
    <2>3. QED
      BY <2>1, <2>2 DEF ToSet
  <1>6. Pages(A) \subseteq Cover(F)
    OBVIOUS
  <1> HIDE DEF F, A
  <1> DEFINE Q == {t \in F : Pages(t) \cap Pages(A) # {}}
             N == {t.order : t \in Q}
  <1>7. PICK t \in Q : \A u \in Q : t.order <= u.order
    <2>1. a \in Pages(A)
      BY <1>4, PagesOf
    <2>2. PICK u \in F : a \in Pages(u)
      BY <1>6, <2>1 DEF Cover
    <2>3. u \in Q
      BY <2>1, <2>2
    <2>4. N # {} /\ N \subseteq Nat
      BY <2>3, <1>5
    <2>5. PICK m \in N : \A k \in N : m <= k
      BY <2>4, LeastNatural
    <2>6. PICK v \in Q : m = v.order
      BY <2>5
    <2>7. \A w \in Q : v.order <= w.order
      BY <2>5, <2>6
    <2>8. QED
      BY <2>7
  <1> DEFINE p == t.order
             x == t.address
             y == BuddyOf(x, p)
             u == Block(y, p)
             w == Block(AddressAt(x, p + 1), p + 1)
  <1>8. /\ t \in F /\ t \in BlockType /\ x \in Nat /\ p \in Orders /\ p \in Nat /\ p < order
        /\ p # MaxBuddyOrder - 1 /\ x % Size(p) = 0 /\ t = Block(x, p) /\ t.order = p /\ t.address = x
    BY <1>3, <1>5, PagesOf
  <1>9. PICK z \in Pages(t) : z \in Pages(A)
    BY <1>7
  <1> HIDE DEF p, x
  <1>10. /\ y \in Nat /\ y # x /\ y % Size(p) = 0
    BY <1>8, BuddyPair
  <1>11. u \in BlockType /\ u.address = y /\ u.order = p
    BY <1>8, <1>10, BlockFields
  <1>12. /\ w \in BlockType /\ w.address % Size(w.order) = 0 /\ w.order = p + 1
         /\ Pages(w) = Pages(t) \cup Pages(u)
    BY <1>8, PairPages
  <1> HIDE DEF u, w, y
  <1>13. Pages(w) \subseteq Pages(A)
    <2>1. w.order <= A.order
      BY <1>1, <1>4, <1>8, <1>12
    <2>2. z \in Pages(w)
      BY <1>12
    <2>3. QED
      BY <2>1, <2>2, <1>4, <1>9, <1>12, Nested
  <1>14. y \in Pages(u) /\ y \in Pages(A)
    BY <1>11, <1>12, <1>13, PagesOf
  <1>15. PICK v \in F : y \in Pages(v)
    BY <1>6, <1>14 DEF Cover
  <1>16. v \in BlockType /\ v.order \in Nat /\ v.address % Size(v.order) = 0 /\ p <= v.order
    <2>1. v \in Q
      BY <1>14, <1>15
    <2>2. t.order <= v.order
      BY <1>7, <2>1
    <2>3. QED
      BY <2>2, <1>3, <1>5, <1>8
  <1>17. CASE v.order = p
    <2>1. Pages(u) \subseteq Pages(v)
      BY <1>8, <1>10, <1>11, <1>14, <1>15, <1>16, <1>17, Nested
    <2>2. Pages(v) \subseteq Pages(u)
      BY <1>8, <1>10, <1>11, <1>14, <1>15, <1>16, <1>17, Nested
    <2>3. v.address = y
      <3>1. v.address \in Pages(u) /\ y \in Pages(v)
        BY <1>15, <1>16, <2>2, PagesOf
      <3>2. /\ v.address \in Nat /\ Size(p) \in Nat /\ Pages(u) = y .. (y + Size(p) - 1)
            /\ Pages(v) = v.address .. (v.address + Size(p) - 1)
        BY <1>11, <1>16, <1>17, PagesOf
      <3>3. QED
        BY <3>1, <3>2, <1>10
    <2>4. y \in ToSet(buddyBlocks[p])
      BY <1>2, <1>16, <1>17, <2>3, FreeMember DEF F
    <2>5. x \in ToSet(buddyBlocks[p])
      BY <1>2, <1>8, FreeMember DEF F
    <2>6. QED
      BY <1>2, <1>8, <2>4, <2>5 DEF NoPair, y
  <1>18. CASE v.order # p
    <2>1. w.order <= v.order
      BY <1>8, <1>12, <1>16, <1>18
    <2>2. y \in Pages(w)
      BY <1>12, <1>14
    <2>3. Pages(w) \subseteq Pages(v)
      BY <1>12, <1>15, <1>16, <2>1, <2>2, Nested
    <2>4. z \in Pages(t) /\ z \in Pages(v)
      BY <1>12, <2>3
    <2>5. t = v
      BY <1>3, <1>8, <2>4
    <2>6. QED
      BY <1>8, <1>18, <2>5
  <1>19. QED
    BY <1>17, <1>18

\* buddy_alloc never fails while an aligned block of the order is free page by page, when
\* the regions do not touch: buddy_free leaves no two halves apart.
THEOREM RoomAlwaysFound ==
    ASSUME RegionsApart, RegionsDoNotTouch
    PROVE  Spec => []RoomIsFound
  <1>1. Init => MergedInv
    BY BuddyInitHolds, InitialNoPair DEF MergedInv
  <1>2. MergedInv /\ [Next]_vars => MergedInv'
    BY MergedStep
  <1>3. MergedInv => RoomIsFound
    <2> SUFFICES ASSUME MergedInv, NEW order \in Orders,
                        NEW a \in Cover(FreeOf(buddyBlocks)), a % 2^order = 0,
                        Pages(Block(a, order)) \subseteq Cover(FreeOf(buddyBlocks)),
                        \A o \in Orders : o >= order => buddyBlocks[o] = <<>>
                 PROVE  FALSE
      BY DEF RoomIsFound, Cover, FreeBlocks, FreeOf
    <2>1. a \in Nat
      <3>1. PICK t \in FreeOf(buddyBlocks) : a \in Pages(t)
        BY DEF Cover
      <3>2. t \in BlockType
        BY FreeMember DEF MergedInv, BuddyInv
      <3>3. QED
        BY <3>1, <3>2, PagesOf
    <2>2. a % Size(order) = 0
      BY DEF Size
    <2>3. QED
      BY <2>1, <2>2, RoomInTiles
  <1>4. QED
    BY <1>1, <1>2, <1>3, PTL DEF Spec

-----------------------------------------------------------------------------
(***************************************************************************)
(* Page frames: where they are, and which are given last.                  *)
(***************************************************************************)

\* What frames in use are, whatever their number.
FramesClean ==
    /\ memoryMap \in MemoryMaps
    /\ bitmap = InitialBitmap(memoryMap) \cup frames
    /\ frames \subseteq 0 .. (BitmapBits(memoryMap) - 1)
    /\ frames \cap InitialBitmap(memoryMap) = {}

\* A frame of a region lies in it to the last byte.
LEMMA WholeFrames ==
    ASSUME PagesAligned, NEW map \in MemoryMaps, NEW i \in Available(map), NEW f \in RegionFrames(map[i])
    PROVE  f * PageSize >= map[i].base /\ (f + 1) * PageSize <= map[i].base + map[i].length
  <1> DEFINE b == map[i].base
             e == map[i].base + map[i].length
  <1>1. b \in Nat /\ e \in Nat /\ PageSize \in Nat \ {0} /\ b % PageSize = 0
    BY FramesAssumption DEF Available, PagesAligned
  <1>2. f \in (b \div PageSize) .. ((e \div PageSize) - 1)
    BY DEF RegionFrames
  <1> HIDE DEF b, e
  <1>3. b = (b \div PageSize) * PageSize /\ b \div PageSize \in Nat
    BY <1>1
  <1>4. (e \div PageSize) * PageSize <= e /\ e \div PageSize \in Nat
    BY <1>1
  <1>5. /\ f \in Nat /\ f >= b \div PageSize /\ f + 1 <= e \div PageSize
    BY <1>2, <1>3, <1>4
  <1>6. f * PageSize >= (b \div PageSize) * PageSize
    BY <1>1, <1>3, <1>5
  <1>7. (f + 1) * PageSize <= (e \div PageSize) * PageSize
    BY <1>1, <1>4, <1>5
  <1>8. f * PageSize >= b
    BY <1>3, <1>6
  <1>9. (f + 1) * PageSize <= e
    <2>1. /\ (f + 1) * PageSize \in Int /\ (e \div PageSize) * PageSize \in Int /\ e \in Int
      BY <1>1, <1>4, <1>5
    <2>2. QED
      BY <1>4, <1>7, <2>1
  <1>10. QED
    BY <1>8, <1>9 DEF b, e

\* alloc_physical_page takes a clear bit.
LEMMA AllocPageClean == ASSUME FramesClean, AllocPhysicalPage PROVE FramesClean'
  BY DEF FramesClean, AllocPhysicalPage, ClearBits, FirstClear

\* free_physical_page clears the bit of a frame in use.
LEMMA FreePageClean == ASSUME FramesClean, NEW f \in frames, FreePhysicalPage(f) PROVE FramesClean'
  BY DEF FramesClean, FreePhysicalPage

\* That holds always.
LEMMA AlwaysClean == Spec => []FramesClean
  <1>1. Init => FramesClean
    BY DEF Init, FramesInit, FramesClean
  <1>2. FramesClean /\ [Next]_vars => FramesClean'
    <2>1. ASSUME FramesClean, FramesNext PROVE FramesClean'
      BY <2>1, AllocPageClean, FreePageClean DEF FramesNext
    <2>2. ASSUME FramesClean, UNCHANGED <<memoryMap, bitmap, frames>> PROVE FramesClean'
      BY <2>2 DEF FramesClean
    <2>3. QED
      BY <2>1, <2>2 DEF Next, vars, frameVars
  <1>3. QED
    BY <1>1, <1>2, PTL DEF Spec

\* alloc_physical_page returns only whole frames of available regions outside the kernel,
\* when these regions start on a page.
THEOREM FramesInMemory ==
    ASSUME PagesAligned
    PROVE  Spec => []FramesAreMemory
  <1>1. FramesClean => FramesAreMemory
    <2> SUFFICES ASSUME FramesClean, NEW f \in frames
                 PROVE  /\ f >= KernelFrames
                        /\ \E i \in Available(memoryMap) :
                              /\ f * PageSize >= memoryMap[i].base
                              /\ (f + 1) * PageSize <= memoryMap[i].base + memoryMap[i].length
      BY DEF FramesAreMemory
    <2>1. f \in 0 .. (BitmapBits(memoryMap) - 1) /\ f \notin InitialBitmap(memoryMap)
      BY DEF FramesClean
    <2>2. ~(f < KernelFrames) /\ f \in Int /\ KernelFrames \in Int
      BY <2>1, FramesAssumption DEF InitialBitmap
    <2>3. PICK i \in Available(memoryMap) : f \in RegionFrames(memoryMap[i])
      BY <2>1 DEF InitialBitmap
    <2>4. QED
      BY <2>2, <2>3, WholeFrames DEF FramesClean
  <1>2. QED
    BY <1>1, AlwaysClean, PTL

\* The bitmap, the frames in use, the lists and the blocks handed out have their types.
THEOREM FramesTyped ==
    ASSUME RegionsApart
    PROVE  Spec => []TypeOK
  <1>1. FramesClean => /\ memoryMap \in MemoryMaps
                       /\ bitmap \subseteq 0 .. (BitmapBits(memoryMap) - 1)
                       /\ frames \subseteq bitmap
    BY DEF FramesClean, InitialBitmap
  <1>2. BuddyInv => /\ buddyBlocks \in [Orders -> Seq(Nat)]
                    /\ \A b \in granted : b.address \in Nat /\ b.order \in Orders
    BY DEF BuddyInv, ListsOK, BlockType
  <1>3. FramesClean /\ BuddyInv => TypeOK
    BY <1>1, <1>2 DEF TypeOK
  <1>4. QED
    BY <1>3, AlwaysClean, BuddyInvariant, PTL

\* alloc_physical_page gives a frame at or above 16 MB, where the buddy allocator's memory
\* is, only when its callers hold every frame below that the memory map offers.
THEOREM LowMemoryGoesFirst == Spec => LowMemoryFirst
  <1> DEFINE Ordered == \A f \in frames' \ frames :
                 f \notin LowFrames(memoryMap) => LowFrames(memoryMap) \subseteq frames
  <1>1. FramesClean /\ [Next]_vars => [Ordered]_vars
    <2> SUFFICES ASSUME FramesClean, Next, NEW f \in frames', f \notin frames,
                        f \notin LowFrames(memoryMap),
                        NEW g \in LowFrames(memoryMap), g \notin frames
                 PROVE  FALSE
      BY DEF vars
    <2>1. FramesNext
      BY DEF Next, frameVars
    <2>2. AllocPhysicalPage
      BY <2>1 DEF FramesNext, FreePhysicalPage
    <2>3. f \in ClearBits /\ FirstClear(f)
      BY <2>2 DEF AllocPhysicalPage
    <2>4. /\ g \in 0 .. (BitmapBits(memoryMap) - 1) /\ g \notin InitialBitmap(memoryMap)
          /\ g < BuddyFloor \div PageSize
      BY DEF LowFrames
    <2>5. g \in ClearBits
      BY <2>4 DEF ClearBits, FramesClean
    <2>6. f <= g
      BY <2>3, <2>5 DEF FirstClear
    <2>7. f \in 0 .. (BitmapBits(memoryMap) - 1) /\ f \notin InitialBitmap(memoryMap)
      BY <2>3 DEF ClearBits, FramesClean
    <2>8. f < BuddyFloor \div PageSize
      <3>1. BuddyFloor \div PageSize \in Int
        BY FloorAssumption, FramesAssumption
      <3>2. QED
        BY <2>4, <2>6, <2>7, <3>1
    <2>9. QED
      BY <2>7, <2>8 DEF LowFrames
  <1>2. QED
    BY <1>1, AlwaysClean, PTL DEF Spec, LowMemoryFirst
=============================================================================
