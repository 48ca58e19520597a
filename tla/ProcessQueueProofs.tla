------------------------- MODULE ProcessQueueProofs -------------------------
(***************************************************************************)
(* What the list operations of process.c do to well linked lists, for any  *)
(* number of processes and levels: who is on the lists, and in which       *)
(* order.  Everything follows from Reach being the least closed set; a     *)
(* member's place is the number of nodes a walk from it still meets.       *)
(***************************************************************************)
EXTENDS ProcessQueue, Sequences, FiniteSetTheorems, WellFoundedInduction, TLAPS

Pointers == [Slots -> Slots \cup {NULL}]

\* A walk visits its first node and everything its nodes point to.
LEMMA ReachClosed ==
    ASSUME NEW nx \in Pointers, NEW h \in Slots
    PROVE  h \in Reach(nx, h) /\ Closed(nx, Reach(nx, h)) /\ Reach(nx, h) \in SUBSET Slots
  <1>1. h \in Reach(nx, h) /\ Reach(nx, h) \in SUBSET Slots
    BY NullAssumption DEF Reach
  <1>2. ASSUME NEW s \in Reach(nx, h), nx[s] # NULL
        PROVE  nx[s] \in Reach(nx, h)
    <2>1. nx[s] \in Slots
      BY <1>2, <1>1 DEF Pointers
    <2>2. ASSUME NEW S \in SUBSET Slots, h \in S, Closed(nx, S)
          PROVE  nx[s] \in S
      BY <1>2, <2>2 DEF Reach, Closed
    <2>3. QED
      BY <2>1, <2>2, NullAssumption DEF Reach
  <1>3. QED
    BY <1>1, <1>2 DEF Closed

\* ... and nothing outside a closed set that holds its first node.
LEMMA ReachLeast ==
    ASSUME NEW nx, NEW h, NEW S \in SUBSET Slots, h \in S, Closed(nx, S)
    PROVE  Reach(nx, h) \subseteq S
  BY DEF Reach

\* Nothing is reached from the null pointer.
LEMMA ReachNull ==
    ASSUME NEW nx
    PROVE  Reach(nx, NULL) = {}
  BY DEF Reach

\* A walk does not notice a change of pointers outside the nodes it visits.
LEMMA ReachSame ==
    ASSUME NEW nx \in Pointers, NEW ny \in Pointers, NEW h \in Slots \cup {NULL},
           \A s \in Reach(nx, h) : ny[s] = nx[s]
    PROVE  Reach(ny, h) = Reach(nx, h)
  <1>1. CASE h = NULL
    BY <1>1, ReachNull
  <1>2. CASE h \in Slots
    <2>1. Reach(ny, h) \subseteq Reach(nx, h)
      <3>1. Closed(ny, Reach(nx, h))
        BY <1>2, ReachClosed DEF Closed
      <3>2. QED
        BY <1>2, <3>1, ReachClosed, ReachLeast
    <2>2. Reach(nx, h) \subseteq Reach(ny, h)
      <3>1. Closed(nx, Reach(ny, h))
        BY <1>2, <2>1, ReachClosed DEF Closed
      <3>2. QED
        BY <1>2, <3>1, ReachClosed, ReachLeast
    <2>3. QED
      BY <2>1, <2>2
  <1>3. QED
    BY <1>1, <1>2

\* A node put behind the last one is reached too, and nothing else is.
LEMMA ReachAppend ==
    ASSUME NEW nx \in Pointers, NEW h \in Slots, NEW t \in Reach(nx, h), nx[t] = NULL,
           NEW p \in Slots, p \notin Reach(nx, h), nx[p] = NULL,
           NEW ny \in Pointers, ny = [nx EXCEPT ![t] = p]
    PROVE  Reach(ny, h) = Reach(nx, h) \cup {p}
  <1> DEFINE R == Reach(nx, h)
  <1>1. h \in R /\ Closed(nx, R) /\ R \in SUBSET Slots
    BY ReachClosed
  <1>2. t \in Slots /\ t # p
    BY <1>1
  <1>3. Reach(ny, h) \subseteq R \cup {p}
    <2>1. Closed(ny, R \cup {p})
      BY <1>1, <1>2 DEF Closed, Pointers
    <2>2. R \cup {p} \in SUBSET Slots /\ h \in R \cup {p}
      BY <1>1
    <2>3. QED
      BY <2>1, <2>2, ReachLeast
  <1>4. R \cup {p} \subseteq Reach(ny, h)
    <2>1. h \in Reach(ny, h) /\ Closed(ny, Reach(ny, h)) /\ Reach(ny, h) \in SUBSET Slots
      BY ReachClosed
    <2>2. Closed(nx, Reach(ny, h))
      BY <2>1, <1>2 DEF Closed, Pointers
    <2>3. R \subseteq Reach(ny, h)
      BY <2>1, <2>2, ReachLeast
    <2>4. ny[t] = p /\ p # NULL
      BY <1>2, NullAssumption DEF Pointers
    <2>5. QED
      BY <2>1, <2>3, <2>4 DEF Closed
  <1>5. QED
    BY <1>3, <1>4

\* Taking the head off leaves the rest, when nothing points to the head.
LEMMA ReachTail ==
    ASSUME NEW nx \in Pointers, NEW h \in Slots, \A s \in Slots : nx[s] # h,
           NEW ny \in Pointers, ny = [nx EXCEPT ![h] = NULL]
    PROVE  Reach(ny, nx[h]) = Reach(nx, h) \ {h}
  <1> DEFINE R == Reach(nx, h)
  <1>1. h \in R /\ Closed(nx, R) /\ R \in SUBSET Slots
    BY ReachClosed
  <1>2. CASE nx[h] = NULL
    <2>1. Closed(nx, {h})
      BY <1>2 DEF Closed
    <2>2. R \subseteq {h}
      BY <2>1, ReachLeast
    <2>3. QED
      BY <2>2, <1>1, <1>2, ReachNull
  <1>3. CASE nx[h] # NULL
    <2>1. nx[h] \in Slots /\ nx[h] \in R \ {h}
      BY <1>3, <1>1 DEF Pointers, Closed
    <2>2. Closed(ny, R \ {h})
      BY <1>1 DEF Closed, Pointers
    <2>3. Reach(ny, nx[h]) \subseteq R \ {h}
      BY <1>1, <2>1, <2>2, ReachLeast
    <2> DEFINE T == Reach(ny, nx[h])
    <2>4. nx[h] \in T /\ Closed(ny, T) /\ T \in SUBSET Slots
      BY <2>1, ReachClosed
    <2>5. Closed(nx, T \cup {h})
      BY <2>4 DEF Closed, Pointers
    <2>6. R \subseteq T \cup {h}
      <3>1. T \cup {h} \in SUBSET Slots /\ h \in T \cup {h}
        BY <2>4
      <3> HIDE DEF T
      <3>2. QED
        BY <3>1, <2>5, ReachLeast
    <2>7. QED
      BY <2>3, <2>6
  <1>4. QED
    BY <1>2, <1>3

\* Unlinking p behind its only predecessor leaves everything but p.
LEMMA ReachUnlink ==
    ASSUME NEW nx \in Pointers, NEW h \in Slots, NEW p \in Slots, p # h,
           NEW c \in Reach(nx, h), c # p, nx[c] = p,
           \A s, r \in Slots : nx[s] = nx[r] /\ nx[s] # NULL => s = r,
           NEW ny \in Pointers, ny = [nx EXCEPT ![c] = nx[p], ![p] = NULL]
    PROVE  Reach(ny, h) = Reach(nx, h) \ {p}
  <1> DEFINE R == Reach(nx, h)
  <1>1. h \in R /\ Closed(nx, R) /\ R \in SUBSET Slots
    BY ReachClosed
  <1>2. c \in Slots /\ p # NULL
    BY <1>1, NullAssumption
  <1>3. \A s \in Slots : s # c => nx[s] # p
    BY <1>2
  <1>4. /\ ny[c] = nx[p] /\ ny[p] = NULL
        /\ \A s \in Slots : s # c /\ s # p => ny[s] = nx[s]
    BY <1>2 DEF Pointers
  <1>5. p \in R
    BY <1>1, <1>2 DEF Closed
  <1>6. Reach(ny, h) \subseteq R \ {p}
    <2>1. Closed(ny, R \ {p})
      BY <1>1, <1>2, <1>3, <1>4, <1>5 DEF Closed
    <2>2. R \ {p} \in SUBSET Slots /\ h \in R \ {p}
      BY <1>1
    <2>3. QED
      BY <2>1, <2>2, ReachLeast
  <1>7. R \ {p} \subseteq Reach(ny, h)
    <2> DEFINE T == Reach(ny, h)
    <2>1. h \in T /\ Closed(ny, T) /\ T \in SUBSET Slots
      BY ReachClosed
    <2>2. CASE c \in T
      <3>1. Closed(nx, T \cup {p})
        BY <2>1, <2>2, <1>2, <1>4 DEF Closed
      <3>2. T \cup {p} \in SUBSET Slots /\ h \in T \cup {p}
        BY <2>1
      <3> HIDE DEF T
      <3>3. R \subseteq T \cup {p}
        BY <3>1, <3>2, ReachLeast
      <3>4. QED
        BY <3>3 DEF T
    <2>3. CASE c \notin T
      <3>1. Closed(nx, T \ {p})
        BY <2>1, <2>3, <1>3, <1>4 DEF Closed
      <3>2. T \ {p} \in SUBSET Slots /\ h \in T \ {p}
        BY <2>1
      <3>3. R \subseteq T \ {p}
        BY <3>1, <3>2, ReachLeast
      <3>4. QED
        BY <3>3
    <2>4. QED
      BY <2>2, <2>3
  <1>8. QED
    BY <1>6, <1>7

-----------------------------------------------------------------------------
(* The three operations on well linked lists.                              *)

\* The lists of memory m are well linked and typed and queue k holds H[k].
Holds(m, H) ==
    /\ m \in Lists
    /\ WellLinked(m)
    /\ Counted(m)
    /\ \A k \in Queues : Members(m, k) = H[k]

\* The same sets with p put on queue k, and with p taken off it.
Added(H, k, p) == [j \in Queues |-> IF j = k THEN H[j] \cup {p} ELSE H[j]]
Taken(H, k, p) == [j \in Queues |-> IF j = k THEN H[j] \ {p} ELSE H[j]]

\* Holds only looks at the contents, not at how they are written.
LEMMA HoldsSame ==
    ASSUME NEW m, NEW H, Holds(m, H), NEW G, \A j \in Queues : G[j] = H[j]
    PROVE  Holds(m, G)
  BY DEF Holds

\* A walk meets slots of the process table only.
LEMMA MembersAreSlots ==
    ASSUME NEW m, NEW k
    PROVE  Members(m, k) \in SUBSET Slots /\ IsFiniteSet(Members(m, k))
  <1>1. Members(m, k) \in SUBSET Slots
    BY DEF Members, Reach
  <1>2. IsFiniteSet(Slots)
    BY SizesAssumption, FS_Interval DEF Slots
  <1>3. QED
    BY <1>1, <1>2, FS_Subset

\* The fields of well-typed lists.
LEMMA ListsAccess ==
    ASSUME NEW m \in Lists, NEW k \in Queues
    PROVE  /\ m.next \in Pointers
           /\ m.queue[k].head \in Slots \cup {NULL}
           /\ m.queue[k].tail \in Slots \cup {NULL}
           /\ m.queue[k].count \in Nat
           /\ m.queue[k] = [head  |-> m.queue[k].head, tail |-> m.queue[k].tail,
                            count |-> m.queue[k].count]
  BY DEF Lists, QueueRecord, Pointers

\* A queue is empty exactly when it has no head; its head and tail are members.
LEMMA HeadIsMember ==
    ASSUME NEW m \in Lists, WellLinked(m), NEW k \in Queues
    PROVE  /\ (m.queue[k].head = NULL) <=> (Members(m, k) = {})
           /\ m.queue[k].head # NULL => m.queue[k].head \in Members(m, k)
  BY ListsAccess, ReachNull, ReachClosed, NullAssumption DEF Members

\* Members of a queue point to members of the same queue.
LEMMA MembersClosed ==
    ASSUME NEW m \in Lists, NEW k \in Queues
    PROVE  Closed(m.next, Members(m, k))
  BY ListsAccess, ReachNull, ReachClosed DEF Members, Closed

\* enqueue_process adds a process that was on no queue to the queue it is given.
LEMMA EnqueueAdds ==
    ASSUME NEW m \in Lists, WellLinked(m), NEW k \in Queues, NEW p \in Slots,
           \A j \in Queues : p \notin Members(m, j),
           NEW n, n = EnqueueProcess(m, k, p)
    PROVE  /\ n \in Lists
           /\ \A j \in Queues : Members(n, j) = IF j = k THEN Members(m, j) \cup {p}
                                                ELSE Members(m, j)
  <1> DEFINE h == m.queue[k].head
             t == m.queue[k].tail
  <1>1. m.next \in Pointers /\ h \in Slots \cup {NULL} /\ t \in Slots \cup {NULL}
    BY ListsAccess
  <1>2. m.next[p] = NULL /\ (h = NULL <=> t = NULL)
    BY DEF WellLinked
  <1>3. [m.next EXCEPT ![p] = NULL] = m.next
    BY <1>1, <1>2 DEF Pointers
  <1>4. /\ n.next = IF t = NULL THEN m.next ELSE [m.next EXCEPT ![t] = p]
        /\ n.queue = [m.queue EXCEPT ![k] = [head  |-> IF t = NULL THEN p ELSE h,
                                             tail  |-> p,
                                             count |-> m.queue[k].count + 1]]
    BY <1>3 DEF EnqueueProcess
  <1>5. n \in Lists
    <2>1. n = [next |-> n.next, queue |-> n.queue]
      BY DEF EnqueueProcess
    <2>2. n.next \in [Slots -> Slots \cup {NULL}]
      BY <1>1, <1>4 DEF Pointers
    <2>3. [head |-> IF t = NULL THEN p ELSE h, tail |-> p,
           count |-> m.queue[k].count + 1] \in QueueRecord
      <3>1. m.queue[k].count \in Nat
        BY ListsAccess
      <3>2. (IF t = NULL THEN p ELSE h) \in Slots \cup {NULL}
        BY <1>1
      <3> HIDE DEF t, h
      <3>3. QED
        BY <3>1, <3>2 DEF QueueRecord
    <2>4. n.queue \in [Queues -> QueueRecord]
      BY <1>4, <2>3 DEF Lists
    <2>5. QED
      BY <2>1, <2>2, <2>4 DEF Lists
  <1>6. \A j \in Queues : j # k => n.queue[j] = m.queue[j]
    BY <1>4 DEF Lists
  <1>7. /\ n.queue[k].head = IF t = NULL THEN p ELSE h
        /\ n.next \in Pointers
    <2>1. n.queue[k] = [head  |-> IF t = NULL THEN p ELSE h, tail |-> p,
                        count |-> m.queue[k].count + 1]
      BY <1>4 DEF Lists
    <2>2. n.next \in Pointers
      BY <1>5, ListsAccess
    <2>3. QED
      BY <2>1, <2>2
  <1>8. ASSUME NEW j \in Queues, j # k
        PROVE  Members(n, j) = Members(m, j)
    <2>1. t # NULL => t \notin Members(m, j)
      BY <1>8 DEF WellLinked
    <2>2. \A s \in Members(m, j) : n.next[s] = m.next[s]
      BY <2>1, <1>1, <1>4, MembersAreSlots DEF Pointers
    <2>3. /\ n.queue[j].head = m.queue[j].head
          /\ m.queue[j].head \in Slots \cup {NULL}
      BY <1>6, <1>8, ListsAccess
    <2>4. \A s \in Reach(m.next, m.queue[j].head) : n.next[s] = m.next[s]
      BY <2>2 DEF Members
    <2>5. Reach(n.next, m.queue[j].head) = Reach(m.next, m.queue[j].head)
      BY <2>3, <2>4, <1>1, <1>7, ReachSame
    <2>6. QED
      BY <2>3, <2>5 DEF Members
  <1>9. Members(n, k) = Members(m, k) \cup {p}
    <2>1. CASE t = NULL
      <3>1. Members(m, k) = {} /\ n.next = m.next /\ n.queue[k].head = p
        BY <2>1, <1>2, <1>4, <1>7, ReachNull DEF Members
      <3>2. Closed(n.next, {p})
        BY <3>1, <1>2 DEF Closed
      <3>3. Reach(n.next, p) \subseteq {p}
        BY <3>2, ReachLeast
      <3>4. QED
        BY <3>1, <3>3, <1>7, ReachClosed DEF Members
    <2>2. CASE t # NULL
      <3>1. t \in Reach(m.next, h) /\ m.next[t] = NULL
        BY <2>2 DEF WellLinked, Members
      <3>2. h \in Slots /\ n.queue[k].head = h /\ n.next = [m.next EXCEPT ![t] = p]
        BY <2>2, <1>1, <1>2, <1>4, <1>7
      <3>3. p \notin Reach(m.next, h)
        BY DEF Members
      <3>4. Reach(n.next, h) = Reach(m.next, h) \cup {p}
        BY <3>1, <3>2, <3>3, <1>1, <1>2, <1>7, ReachAppend
      <3>5. QED
        BY <3>2, <3>4 DEF Members
    <2>3. QED
      BY <2>1, <2>2
  <1>10. QED
    BY <1>5, <1>8, <1>9

\* ... and leaves the lists well linked.
LEMMA EnqueueLinks ==
    ASSUME NEW m \in Lists, WellLinked(m), NEW k \in Queues, NEW p \in Slots,
           \A j \in Queues : p \notin Members(m, j),
           NEW n, n = EnqueueProcess(m, k, p)
    PROVE  WellLinked(n)
  <1> DEFINE h == m.queue[k].head
             t == m.queue[k].tail
  <1>1. m.next \in Pointers /\ h \in Slots \cup {NULL} /\ t \in Slots \cup {NULL}
    BY ListsAccess
  <1>2. m.next[p] = NULL /\ (h = NULL <=> t = NULL)
    BY DEF WellLinked
  <1>3. [m.next EXCEPT ![p] = NULL] = m.next
    BY <1>1, <1>2 DEF Pointers
  <1>4. /\ n.next = IF t = NULL THEN m.next ELSE [m.next EXCEPT ![t] = p]
        /\ n.queue = [m.queue EXCEPT ![k] = [head  |-> IF t = NULL THEN p ELSE h,
                                             tail  |-> p,
                                             count |-> m.queue[k].count + 1]]
    BY <1>3 DEF EnqueueProcess
  <1>5. n \in Lists /\ \A j \in Queues : Members(n, j) = IF j = k THEN Members(m, j) \cup {p}
                                                          ELSE Members(m, j)
    BY EnqueueAdds
  <1>6. /\ \A j \in Queues : j # k => n.queue[j] = m.queue[j]
        /\ n.queue[k] = [head  |-> IF t = NULL THEN p ELSE h, tail |-> p,
                         count |-> m.queue[k].count + 1]
    BY <1>4 DEF Lists
  <1>7. t # NULL => t \in Members(m, k) /\ m.next[t] = NULL
    BY DEF WellLinked
  <1>8. \A s \in Slots : m.next[s] # p
    <2>1. ASSUME NEW s \in Slots, m.next[s] = p
          PROVE  FALSE
      <3>1. m.next[s] # NULL
        BY <2>1, NullAssumption
      <3>2. PICK j \in Queues : s \in Members(m, j)
        BY <3>1 DEF WellLinked
      <3>3. QED
        BY <2>1, <3>1, <3>2, MembersClosed DEF Closed
    <2>2. QED
      BY <2>1
  <1>9. /\ \A s \in Slots : s # t => n.next[s] = m.next[s]
        /\ t # NULL => n.next[t] = p /\ t # p
        /\ n.next[p] = NULL
    BY <1>1, <1>2, <1>4, <1>7 DEF Pointers
  <1>10. ASSUME NEW j \in Queues
         PROVE  /\ (n.queue[j].head = NULL) <=> (n.queue[j].tail = NULL)
                /\ n.queue[j].tail # NULL =>
                       n.queue[j].tail \in Members(n, j) /\ n.next[n.queue[j].tail] = NULL
    <2>1. CASE j = k
      BY <2>1, <1>1, <1>2, <1>5, <1>6, <1>9, NullAssumption
    <2>2. CASE j # k
      <3>1. t # NULL => t \notin Members(m, j)
        BY <2>2, <1>7 DEF WellLinked
      <3>2. QED
        BY <2>2, <3>1, <1>5, <1>6, <1>9, MembersAreSlots DEF WellLinked
    <2>3. QED
      BY <2>1, <2>2
  <1>11. ASSUME NEW j \in Queues, n.queue[j].head # NULL, NEW s \in Slots
         PROVE  n.next[s] # n.queue[j].head
    <2>1. CASE n.queue[j].head = m.queue[j].head
      <3>1. m.queue[j].head \in Members(m, j) /\ m.queue[j].head # p
        BY <2>1, <1>11, HeadIsMember
      <3>2. m.next[s] # m.queue[j].head
        BY <2>1, <1>11 DEF WellLinked
      <3>3. n.next[s] = m.next[s] \/ n.next[s] = p
        BY <1>9, <1>11, NullAssumption
      <3>4. QED
        BY <2>1, <3>1, <3>2, <3>3
    <2>2. CASE n.queue[j].head # m.queue[j].head
      <3>1. n.queue[j].head = p /\ t = NULL
        BY <2>2, <1>6
      <3>2. n.next = m.next
        BY <3>1, <1>4
      <3>3. m.next[s] # p
        BY <1>8, <1>11
      <3>4. QED
        BY <3>1, <3>2, <3>3
    <2>3. QED
      BY <2>1, <2>2
  <1>12. \A i, j \in Queues : i # j => Members(n, i) \cap Members(n, j) = {}
    BY <1>5 DEF WellLinked
  <1>13. \A s, r \in Slots : n.next[s] = n.next[r] /\ n.next[s] # NULL => s = r
    <2>1. ASSUME NEW s \in Slots, NEW r \in Slots,
                 n.next[s] = n.next[r], n.next[s] # NULL, s # r
          PROVE  FALSE
      <3>1. CASE s = t
        BY <3>1, <2>1, <1>8, <1>9, NullAssumption
      <3>2. CASE r = t
        BY <3>2, <2>1, <1>8, <1>9, NullAssumption
      <3>3. CASE s # t /\ r # t
        BY <3>3, <2>1, <1>9 DEF WellLinked
      <3>4. QED
        BY <3>1, <3>2, <3>3
    <2>2. QED
      BY <2>1
  <1>14. ASSUME NEW s \in Slots, \A j \in Queues : s \notin Members(n, j)
         PROVE  n.next[s] = NULL
    <2>1. \A j \in Queues : s \notin Members(m, j)
      BY <1>5, <1>14
    <2>2. s # t
      BY <2>1, <1>7, NullAssumption
    <2>3. QED
      BY <2>1, <2>2, <1>9 DEF WellLinked
  <1>15. QED
    BY <1>10, <1>11, <1>12, <1>13, <1>14 DEF WellLinked

\* The count of a queue with a member is positive.
LEMMA CountPositive ==
    ASSUME NEW m \in Lists, Counted(m), NEW k \in Queues, NEW p \in Members(m, k)
    PROVE  /\ m.queue[k].count - 1 \in Nat
           /\ Cardinality(Members(m, k) \ {p}) = m.queue[k].count - 1
  <1>1. IsFiniteSet(Members(m, k)) /\ m.queue[k].count = Cardinality(Members(m, k))
    BY MembersAreSlots DEF Counted
  <1>2. IsFiniteSet(Members(m, k) \ {p})
        /\ Cardinality(Members(m, k) \ {p}) = Cardinality(Members(m, k)) - 1
    BY <1>1, FS_RemoveElement
  <1>3. Cardinality(Members(m, k) \ {p}) \in Nat
    BY <1>2, FS_CardinalityType
  <1>4. QED
    BY <1>1, <1>2, <1>3

\* dequeue_process takes the head off its queue.
LEMMA DequeueTakes ==
    ASSUME NEW m \in Lists, WellLinked(m), Counted(m), NEW k \in Queues,
           NEW h, h = m.queue[k].head, h # NULL,
           NEW n, n = DequeueProcess(m, k)
    PROVE  /\ n \in Lists
           /\ \A j \in Queues : Members(n, j) = IF j = k THEN Members(m, j) \ {h}
                                                ELSE Members(m, j)
  <1>1. h \in Slots /\ h \in Members(m, k) /\ m.next \in Pointers
        /\ m.queue[k].tail \in Slots \cup {NULL}
    BY ListsAccess, HeadIsMember
  <1>2. m.next[h] \in Slots \cup {NULL}
    BY <1>1 DEF Pointers
  <1>3. /\ n.next = [m.next EXCEPT ![h] = NULL]
        /\ n.queue = [m.queue EXCEPT ![k] =
                         [head  |-> m.next[h],
                          tail  |-> IF m.next[h] = NULL THEN NULL ELSE m.queue[k].tail,
                          count |-> m.queue[k].count - 1]]
    BY DEF DequeueProcess
  <1>4. n \in Lists
    <2>1. n = [next |-> n.next, queue |-> n.queue]
      BY DEF DequeueProcess
    <2>2. n.next \in [Slots -> Slots \cup {NULL}]
      BY <1>1, <1>3 DEF Pointers
    <2>3. [head  |-> m.next[h],
           tail  |-> IF m.next[h] = NULL THEN NULL ELSE m.queue[k].tail,
           count |-> m.queue[k].count - 1] \in QueueRecord
      BY <1>1, <1>2, CountPositive DEF QueueRecord
    <2>4. n.queue \in [Queues -> QueueRecord]
      BY <1>3, <2>3 DEF Lists
    <2>5. QED
      BY <2>1, <2>2, <2>4 DEF Lists
  <1>5. n.next \in Pointers
    BY <1>4, ListsAccess
  <1>6. n.queue[k].head = m.next[h] /\ \A j \in Queues : j # k => n.queue[j] = m.queue[j]
    BY <1>3 DEF Lists
  <1>7. ASSUME NEW j \in Queues, j # k
        PROVE  Members(n, j) = Members(m, j)
    <2>1. \A s \in Members(m, j) : n.next[s] = m.next[s]
      BY <1>1, <1>3, <1>7, MembersAreSlots DEF WellLinked, Pointers
    <2>2. /\ n.queue[j].head = m.queue[j].head
          /\ m.queue[j].head \in Slots \cup {NULL}
      BY <1>6, <1>7, ListsAccess
    <2>3. \A s \in Reach(m.next, m.queue[j].head) : n.next[s] = m.next[s]
      BY <2>1 DEF Members
    <2>4. Reach(n.next, m.queue[j].head) = Reach(m.next, m.queue[j].head)
      BY <2>2, <2>3, <1>1, <1>5, ReachSame
    <2>5. QED
      BY <2>2, <2>4 DEF Members
  <1>8. Members(n, k) = Members(m, k) \ {h}
    <2>1. \A s \in Slots : m.next[s] # h
      BY DEF WellLinked
    <2>2. Reach(n.next, m.next[h]) = Reach(m.next, h) \ {h}
      BY <2>1, <1>1, <1>3, <1>5, ReachTail
    <2>3. QED
      BY <2>2, <1>6 DEF Members
  <1>9. QED
    BY <1>4, <1>7, <1>8

\* ... and leaves the lists well linked.
LEMMA DequeueLinks ==
    ASSUME NEW m \in Lists, WellLinked(m), Counted(m), NEW k \in Queues,
           NEW h, h = m.queue[k].head, h # NULL,
           NEW n, n = DequeueProcess(m, k)
    PROVE  WellLinked(n)
  <1> DEFINE t == m.queue[k].tail
  <1>1. h \in Slots /\ h \in Members(m, k) /\ m.next \in Pointers
        /\ t \in Slots /\ t \in Members(m, k) /\ m.next[t] = NULL
    BY ListsAccess, HeadIsMember DEF WellLinked
  <1>2. /\ n.next = [m.next EXCEPT ![h] = NULL]
        /\ n.queue = [m.queue EXCEPT ![k] =
                         [head  |-> m.next[h],
                          tail  |-> IF m.next[h] = NULL THEN NULL ELSE m.queue[k].tail,
                          count |-> m.queue[k].count - 1]]
    BY DEF DequeueProcess
  <1>3. n \in Lists /\ \A j \in Queues : Members(n, j) = IF j = k THEN Members(m, j) \ {h}
                                                          ELSE Members(m, j)
    BY DequeueTakes
  <1>4. /\ n.queue[k].head = m.next[h]
        /\ n.queue[k].tail = IF m.next[h] = NULL THEN NULL ELSE t
        /\ \A j \in Queues : j # k => n.queue[j] = m.queue[j]
    BY <1>2 DEF Lists
  <1>5. n.next[h] = NULL /\ \A s \in Slots : s # h => n.next[s] = m.next[s]
    BY <1>1, <1>2 DEF Pointers
  <1>6. ASSUME NEW j \in Queues
         PROVE  /\ (n.queue[j].head = NULL) <=> (n.queue[j].tail = NULL)
                /\ n.queue[j].tail # NULL =>
                       n.queue[j].tail \in Members(n, j) /\ n.next[n.queue[j].tail] = NULL
    <2>1. CASE j = k
      <3>1. m.next[h] # NULL => t # h
        BY <1>1
      <3>2. QED
        BY <2>1, <3>1, <1>1, <1>3, <1>4, <1>5, NullAssumption
    <2>2. CASE j # k
      <3>1. h \notin Members(m, j)
        BY <2>2, <1>1 DEF WellLinked
      <3>2. QED
        BY <2>2, <3>1, <1>3, <1>4, <1>5, MembersAreSlots DEF WellLinked
    <2>3. QED
      BY <2>1, <2>2
  <1>7. ASSUME NEW j \in Queues, n.queue[j].head # NULL, NEW s \in Slots
         PROVE  n.next[s] # n.queue[j].head
    <2>1. CASE s = h
      BY <2>1, <1>5, <1>7
    <2>2. CASE s # h /\ j = k
      BY <2>2, <1>1, <1>4, <1>5, <1>7 DEF WellLinked
    <2>3. CASE s # h /\ j # k
      BY <2>3, <1>4, <1>5, <1>7 DEF WellLinked
    <2>4. QED
      BY <2>1, <2>2, <2>3
  <1>8. \A i, j \in Queues : i # j => Members(n, i) \cap Members(n, j) = {}
    BY <1>3 DEF WellLinked
  <1>9. \A s, r \in Slots : n.next[s] = n.next[r] /\ n.next[s] # NULL => s = r
    BY <1>5 DEF WellLinked
  <1>10. ASSUME NEW s \in Slots, \A j \in Queues : s \notin Members(n, j)
         PROVE  n.next[s] = NULL
    <2>1. CASE s = h
      BY <2>1, <1>5
    <2>2. CASE s # h
      <3>1. \A j \in Queues : s \notin Members(m, j)
        BY <2>2, <1>3, <1>10
      <3>2. QED
        BY <3>1, <2>2, <1>5 DEF WellLinked
    <2>3. QED
      BY <2>1, <2>2
  <1>11. QED
    BY <1>6, <1>7, <1>8, <1>9, <1>10 DEF WellLinked

\* remove_from_ready_queue's walk stops behind a member of the queue exactly when
\* it is looking for one that is not the head, and the node it stops at is its
\* predecessor.
LEMMA PredecessorFound ==
    ASSUME NEW m \in Lists, WellLinked(m), NEW k \in Queues,
           NEW p \in Members(m, k), p # m.queue[k].head
    PROVE  /\ Predecessors(m, k, p) # {}
           /\ \A c \in Predecessors(m, k, p) :
                 c \in Members(m, k) /\ c # p /\ m.next[c] = p
  <1> DEFINE h   == m.queue[k].head
             cut == [m.next EXCEPT ![p] = NULL]
             T   == Reach(cut, h)
             R   == Members(m, k)
  <1>1. p \in Slots /\ p # NULL /\ m.next \in Pointers /\ R \in SUBSET Slots
    BY ListsAccess, MembersAreSlots, NullAssumption
  <1>2. h \in Slots /\ h \in R
    BY HeadIsMember, ListsAccess, NullAssumption
  <1>3. cut \in Pointers /\ cut[p] = NULL /\ \A s \in Slots : s # p => cut[s] = m.next[s]
    BY <1>1 DEF Pointers
  <1>4. h \in T /\ Closed(cut, T) /\ T \in SUBSET Slots
    BY <1>2, <1>3, ReachClosed
  <1>5. \A c \in Predecessors(m, k, p) : c \in T /\ c # p /\ m.next[c] = p
    BY DEF Predecessors
  <1>6. T \subseteq R
    <2>1. Closed(cut, R)
      BY <1>1, <1>3, MembersClosed DEF Closed
    <2> HIDE DEF cut, R
    <2>2. QED
      BY <2>1, <1>1, <1>2, ReachLeast
  <1>7. ASSUME \A c \in T \ {p} : m.next[c] # p
        PROVE  FALSE
    <2>1. Closed(m.next, T \ {p})
      BY <1>3, <1>4, <1>7 DEF Closed
    <2>2. T \ {p} \in SUBSET Slots /\ h \in T \ {p}
      BY <1>4
    <2> HIDE DEF T
    <2>3. Reach(m.next, h) \subseteq T \ {p}
      BY <2>1, <2>2, ReachLeast
    <2>4. QED
      BY <2>3 DEF Members
  <1>8. Predecessors(m, k, p) # {}
    BY <1>7 DEF Predecessors
  <1>9. QED
    BY <1>5, <1>6, <1>8

\* Unlinking behind the predecessor takes p, and nothing else, off the queue.
LEMMA UnlinkTakes ==
    ASSUME NEW m \in Lists, WellLinked(m), Counted(m), NEW k \in Queues,
           NEW p \in Members(m, k), p # m.queue[k].head,
           NEW c \in Members(m, k), c # p, m.next[c] = p,
           NEW n, n = UnlinkAfter(m, k, p, c)
    PROVE  /\ n \in Lists
           /\ \A j \in Queues : Members(n, j) = IF j = k THEN Members(m, j) \ {p}
                                                ELSE Members(m, j)
  <1>1. p \in Slots /\ c \in Slots /\ m.next \in Pointers /\ m.next[p] \in Slots \cup {NULL}
    BY ListsAccess, MembersAreSlots DEF Pointers
  <1>2. /\ m.queue[k].head \in Slots \cup {NULL} /\ m.queue[k].head # NULL
        /\ m.queue[k].tail \in Slots \cup {NULL}
    BY ListsAccess, HeadIsMember
  <1>3. /\ n.next = [m.next EXCEPT ![c] = m.next[p], ![p] = NULL]
        /\ n.queue = [m.queue EXCEPT ![k] =
                         [head  |-> m.queue[k].head,
                          tail  |-> IF m.queue[k].tail = p THEN c ELSE m.queue[k].tail,
                          count |-> m.queue[k].count - 1]]
    <2>1. m.queue[k] = [head |-> m.queue[k].head, tail |-> m.queue[k].tail,
                        count |-> m.queue[k].count]
      BY ListsAccess
    <2>2. m.queue \in [Queues -> QueueRecord]
      BY DEF Lists
    <2>3. QED
      BY <2>1, <2>2 DEF UnlinkAfter, QueueRecord
  <1>4. n \in Lists
    <2>1. n = [next |-> n.next, queue |-> n.queue]
      BY DEF UnlinkAfter
    <2>2. n.next \in [Slots -> Slots \cup {NULL}]
      BY <1>1, <1>3 DEF Pointers
    <2>3. [head  |-> m.queue[k].head,
           tail  |-> IF m.queue[k].tail = p THEN c ELSE m.queue[k].tail,
           count |-> m.queue[k].count - 1] \in QueueRecord
      BY <1>1, <1>2, CountPositive DEF QueueRecord
    <2>4. n.queue \in [Queues -> QueueRecord]
      BY <1>3, <2>3 DEF Lists
    <2>5. QED
      BY <2>1, <2>2, <2>4 DEF Lists
  <1>5. n.next \in Pointers
    BY <1>4, ListsAccess
  <1>6. /\ n.queue[k].head = m.queue[k].head
        /\ \A j \in Queues : j # k => n.queue[j] = m.queue[j]
    BY <1>3 DEF Lists
  <1>7. ASSUME NEW j \in Queues, j # k
        PROVE  Members(n, j) = Members(m, j)
    <2>1. \A s \in Members(m, j) : s # c /\ s # p
      BY <1>7 DEF WellLinked
    <2>2. \A s \in Members(m, j) : n.next[s] = m.next[s]
      BY <2>1, <1>1, <1>3, MembersAreSlots DEF Pointers
    <2>3. /\ n.queue[j].head = m.queue[j].head
          /\ m.queue[j].head \in Slots \cup {NULL}
      BY <1>6, <1>7, ListsAccess
    <2>4. \A s \in Reach(m.next, m.queue[j].head) : n.next[s] = m.next[s]
      BY <2>2 DEF Members
    <2>5. Reach(n.next, m.queue[j].head) = Reach(m.next, m.queue[j].head)
      BY <2>3, <2>4, <1>1, <1>5, ReachSame
    <2>6. QED
      BY <2>3, <2>5 DEF Members
  <1>8. Members(n, k) = Members(m, k) \ {p}
    <2>1. \A s, r \in Slots : m.next[s] = m.next[r] /\ m.next[s] # NULL => s = r
      BY DEF WellLinked
    <2>2. c \in Reach(m.next, m.queue[k].head) /\ m.queue[k].head \in Slots
      BY <1>2 DEF Members
    <2>3. Reach(n.next, m.queue[k].head) = Reach(m.next, m.queue[k].head) \ {p}
      BY <2>1, <2>2, <1>1, <1>3, <1>5, ReachUnlink
    <2>4. QED
      BY <2>3, <1>6 DEF Members
  <1>9. QED
    BY <1>4, <1>7, <1>8

\* ... and leaves the lists well linked.
LEMMA UnlinkLinks ==
    ASSUME NEW m \in Lists, WellLinked(m), Counted(m), NEW k \in Queues,
           NEW p \in Members(m, k), p # m.queue[k].head,
           NEW c \in Members(m, k), c # p, m.next[c] = p,
           NEW n, n = UnlinkAfter(m, k, p, c)
    PROVE  WellLinked(n)
  <1> DEFINE h == m.queue[k].head
             t == m.queue[k].tail
  <1>1. p \in Slots /\ c \in Slots /\ m.next \in Pointers /\ p # NULL /\ c # NULL
    BY ListsAccess, MembersAreSlots, NullAssumption
  <1>2. /\ h \in Slots /\ h \in Members(m, k) /\ h # NULL
        /\ t \in Slots /\ t \in Members(m, k) /\ m.next[t] = NULL /\ t # NULL
    <2>1. m.queue[k].head \in Slots \cup {NULL} /\ m.queue[k].tail \in Slots \cup {NULL}
      BY ListsAccess
    <2>2. m.queue[k].head # NULL /\ m.queue[k].head \in Members(m, k)
      BY HeadIsMember
    <2>3. /\ m.queue[k].tail # NULL
          /\ m.queue[k].tail \in Members(m, k) /\ m.next[m.queue[k].tail] = NULL
      BY <2>2 DEF WellLinked
    <2>4. QED
      BY <2>1, <2>2, <2>3
  <1>3. n \in Lists /\ \A j \in Queues : Members(n, j) = IF j = k THEN Members(m, j) \ {p}
                                                          ELSE Members(m, j)
    BY UnlinkTakes
  <1>4. /\ n.queue[k].head = h
        /\ n.queue[k].tail = IF t = p THEN c ELSE t
        /\ \A j \in Queues : j # k => n.queue[j] = m.queue[j]
    <2>1. m.queue \in [Queues -> QueueRecord]
      BY DEF Lists
    <2>2. QED
      BY <2>1 DEF UnlinkAfter, QueueRecord
  <1>5. /\ n.next[p] = NULL /\ n.next[c] = m.next[p]
        /\ \A s \in Slots : s # c /\ s # p => n.next[s] = m.next[s]
    BY <1>1 DEF UnlinkAfter, Pointers
  <1>6. ASSUME NEW j \in Queues
         PROVE  /\ (n.queue[j].head = NULL) <=> (n.queue[j].tail = NULL)
                /\ n.queue[j].tail # NULL =>
                       n.queue[j].tail \in Members(n, j) /\ n.next[n.queue[j].tail] = NULL
    <2>1. CASE j = k
      <3>1. CASE t = p
        BY <2>1, <3>1, <1>1, <1>2, <1>3, <1>4, <1>5
      <3>2. CASE t # p
        <4>1. t # c
          BY <1>1, <1>2
        <4>2. QED
          BY <2>1, <3>2, <4>1, <1>2, <1>3, <1>4, <1>5
      <3>3. QED
        BY <3>1, <3>2
    <2>2. CASE j # k
      <3>1. c \notin Members(m, j) /\ p \notin Members(m, j)
        BY <2>2 DEF WellLinked
      <3>2. QED
        BY <2>2, <3>1, <1>3, <1>4, <1>5, MembersAreSlots DEF WellLinked
    <2>3. QED
      BY <2>1, <2>2
  <1>7. ASSUME NEW j \in Queues, n.queue[j].head # NULL, NEW s \in Slots
         PROVE  n.next[s] # n.queue[j].head
    <2>1. n.queue[j].head = m.queue[j].head
      BY <1>4
    <2>2. \A r \in Slots : m.next[r] # m.queue[j].head
      BY <2>1, <1>7 DEF WellLinked
    <2>3. n.next[s] = NULL \/ n.next[s] = m.next[p] \/ n.next[s] = m.next[s]
      BY <1>5
    <2>4. QED
      BY <2>1, <2>2, <2>3, <1>1, <1>7
  <1>8. \A i, j \in Queues : i # j => Members(n, i) \cap Members(n, j) = {}
    BY <1>3 DEF WellLinked
  <1>9. \A s, r \in Slots : n.next[s] = n.next[r] /\ n.next[s] # NULL => s = r
    <2>1. \A s, r \in Slots : m.next[s] = m.next[r] /\ m.next[s] # NULL => s = r
      BY DEF WellLinked
    <2>2. QED
      BY <2>1, <1>1, <1>5
  <1>10. ASSUME NEW s \in Slots, \A j \in Queues : s \notin Members(n, j)
         PROVE  n.next[s] = NULL
    <2>1. CASE s = p
      BY <2>1, <1>5
    <2>2. CASE s # p
      <3>1. \A j \in Queues : s \notin Members(m, j)
        BY <2>2, <1>3, <1>10
      <3>2. s # c
        BY <3>1
      <3>3. QED
        BY <3>1, <3>2, <2>2, <1>5 DEF WellLinked
    <2>3. QED
      BY <2>1, <2>2
  <1>11. QED
    BY <1>6, <1>7, <1>8, <1>9, <1>10 DEF WellLinked

-----------------------------------------------------------------------------
(* The operations seen from the handlers: which sets the queues hold.      *)

\* Adding to one queue, or taking from one, keeps every count exact.
LEMMA CountsFollow ==
    ASSUME NEW m \in Lists, Counted(m), NEW k \in Queues, NEW n,
           NEW p \in Slots,
           \A j \in Queues : j # k => /\ Members(n, j) = Members(m, j)
                                      /\ n.queue[j].count = m.queue[j].count,
           \/ /\ p \notin Members(m, k)
              /\ Members(n, k) = Members(m, k) \cup {p}
              /\ n.queue[k].count = m.queue[k].count + 1
           \/ /\ p \in Members(m, k)
              /\ Members(n, k) = Members(m, k) \ {p}
              /\ n.queue[k].count = m.queue[k].count - 1
    PROVE  Counted(n)
  <1>1. ASSUME NEW j \in Queues, j # k
        PROVE  n.queue[j].count = Cardinality(Members(n, j))
    BY <1>1 DEF Counted
  <1>2. IsFiniteSet(Members(m, k)) /\ m.queue[k].count = Cardinality(Members(m, k))
    BY MembersAreSlots DEF Counted
  <1>3. n.queue[k].count = Cardinality(Members(n, k))
    <2>1. CASE p \notin Members(m, k)
      BY <2>1, <1>2, FS_AddElement
    <2>2. CASE p \in Members(m, k)
      BY <2>2, <1>2, CountPositive
    <2>3. QED
      BY <2>1, <2>2
  <1>4. QED
    BY <1>1, <1>3 DEF Counted

\* enqueue_process puts a process that is on no queue on queue k.
LEMMA EnqueueHolds ==
    ASSUME NEW m, NEW H, Holds(m, H), NEW k \in Queues, NEW p \in Slots,
           \A j \in Queues : p \notin H[j]
    PROVE  Holds(EnqueueProcess(m, k, p), Added(H, k, p))
  <1> DEFINE n == EnqueueProcess(m, k, p)
  <1>1. m \in Lists /\ WellLinked(m) /\ Counted(m) /\ \A j \in Queues : Members(m, j) = H[j]
    BY DEF Holds
  <1>2. /\ n \in Lists
        /\ \A j \in Queues : Members(n, j) = IF j = k THEN Members(m, j) \cup {p}
                                             ELSE Members(m, j)
    BY <1>1, EnqueueAdds
  <1>3. WellLinked(n)
    BY <1>1, EnqueueLinks
  <1>4. /\ n.queue[k].count = m.queue[k].count + 1
        /\ \A j \in Queues : j # k => n.queue[j] = m.queue[j]
    BY <1>1 DEF EnqueueProcess, Lists
  <1>5. Counted(n)
    <2> HIDE DEF n
    <2>1. QED
      BY <1>1, <1>2, <1>4, CountsFollow
  <1>6. QED
    BY <1>1, <1>2, <1>3, <1>5 DEF Holds, Added

\* dequeue_process takes the head, and only the head, off queue k.
LEMMA DequeueHolds ==
    ASSUME NEW m, NEW H, Holds(m, H), NEW k \in Queues,
           m.queue[k].head # NULL
    PROVE  Holds(DequeueProcess(m, k), Taken(H, k, m.queue[k].head))
  <1> DEFINE n == DequeueProcess(m, k)
             h == m.queue[k].head
  <1>1. m \in Lists /\ WellLinked(m) /\ Counted(m) /\ \A j \in Queues : Members(m, j) = H[j]
    BY DEF Holds
  <1>2. /\ n \in Lists
        /\ \A j \in Queues : Members(n, j) = IF j = k THEN Members(m, j) \ {h}
                                             ELSE Members(m, j)
    BY <1>1, DequeueTakes
  <1>3. WellLinked(n)
    BY <1>1, DequeueLinks
  <1>4. /\ n.queue[k].count = m.queue[k].count - 1
        /\ \A j \in Queues : j # k => n.queue[j] = m.queue[j]
    BY <1>1 DEF DequeueProcess, Lists
  <1>5. Counted(n)
    <2>1. h \in Members(m, k) /\ h \in Slots
      BY <1>1, HeadIsMember, MembersAreSlots
    <2> HIDE DEF n
    <2>2. QED
      BY <1>1, <1>2, <1>4, <2>1, CountsFollow
  <1>6. QED
    BY <1>1, <1>2, <1>3, <1>5 DEF Holds, Taken

\* remove_from_ready_queue takes p, wherever it stands, off the queue it is on.
LEMMA RemoveHolds ==
    ASSUME NEW m, NEW H, Holds(m, H), NEW k \in Queues, NEW p \in H[k]
    PROVE  Holds(RemoveProcess(m, k, p), Taken(H, k, p))
  <1>1. m \in Lists /\ WellLinked(m) /\ Counted(m) /\ \A j \in Queues : Members(m, j) = H[j]
    BY DEF Holds
  <1>2. p \in Members(m, k) /\ p \in Slots /\ p # NULL
    BY <1>1, MembersAreSlots, NullAssumption
  <1>3. CASE m.queue[k].head = p
    <2>1. Holds(DequeueProcess(m, k), Taken(H, k, m.queue[k].head))
      BY <1>2, <1>3, DequeueHolds
    <2>2. RemoveProcess(m, k, p) = DequeueProcess(m, k)
      BY <1>3 DEF RemoveProcess
    <2>3. QED
      BY <1>3, <2>1, <2>2
  <1>4. CASE m.queue[k].head # p
    <2> DEFINE c == CHOOSE c \in Predecessors(m, k, p) : TRUE
               n == UnlinkAfter(m, k, p, c)
    <2>1. Predecessors(m, k, p) # {} /\ c \in Members(m, k) /\ c # p /\ m.next[c] = p
      BY <1>1, <1>2, <1>4, PredecessorFound
    <2>2. RemoveProcess(m, k, p) = n
      BY <1>4, <2>1 DEF RemoveProcess
    <2> HIDE DEF c
    <2>3. /\ n \in Lists
          /\ \A j \in Queues : Members(n, j) = IF j = k THEN Members(m, j) \ {p}
                                               ELSE Members(m, j)
      BY <1>1, <1>2, <1>4, <2>1, UnlinkTakes
    <2>4. WellLinked(n)
      BY <1>1, <1>2, <1>4, <2>1, UnlinkLinks
    <2>5. /\ n.queue[k].count = m.queue[k].count - 1
          /\ \A j \in Queues : j # k => n.queue[j] = m.queue[j]
      <3>1. m.queue \in [Queues -> QueueRecord]
        BY <1>1 DEF Lists
      <3>2. QED
        BY <3>1 DEF UnlinkAfter, QueueRecord
    <2>6. Counted(n)
      <3> HIDE DEF n
      <3>1. QED
        BY <1>1, <1>2, <2>3, <2>5, CountsFollow
    <2>7. QED
      BY <1>1, <2>2, <2>3, <2>4, <2>6 DEF Holds, Taken
  <1>5. QED
    BY <1>3, <1>4

-----------------------------------------------------------------------------
(* The order of a walk.                                                    *)

\* Every non-empty set of natural numbers has a least element.
LEMMA LeastNumber ==
    ASSUME NEW S, S \subseteq Nat, S # {}
    PROVE  \E m \in S : \A k \in S : m <= k
  <1> DEFINE T == {U \in SUBSET Nat : \E t \in S : U = 0 .. t}
             R == StrictSubsetOrdering(Nat)
  <1>1. IsWellFoundedOn(R, FiniteSubsetsOf(Nat))
    BY FS_StrictSubsetOrderingWellFounded
  <1>2. T \subseteq FiniteSubsetsOf(Nat)
    BY FS_Interval DEF FiniteSubsetsOf
  <1>3. T # {}
    <2>1. PICK t \in S : TRUE
      OBVIOUS
    <2>2. (0 .. t) \in T
      BY <2>1
    <2>3. QED
      BY <2>2
  <1> HIDE DEF T
  <1>4. PICK U \in T : \A V \in T : ~ (<<V, U>> \in R)
    <2> HIDE DEF R
    <2>1. QED
      BY <1>1, <1>2, <1>3, WFMin
  <1>5. PICK m \in S : U = 0 .. m
    BY <1>4 DEF T
  <1>6. ASSUME NEW k \in S, k < m PROVE FALSE
    <2>1. (0 .. k) \in T
      BY DEF T
    <2>2. (0 .. k) \subseteq U /\ (0 .. k) # U
      BY <1>5, <1>6
    <2>3. <<0 .. k, U>> \in R
      BY <2>1, <2>2, <1>5 DEF StrictSubsetOrdering
    <2>4. QED
      BY <2>1, <2>3, <1>4
  <1>7. QED
    BY <1>6

\* A walk is its first node and the walk from the next one.
LEMMA ReachStep ==
    ASSUME NEW nx \in Pointers, NEW h \in Slots
    PROVE  /\ Reach(nx, h) = {h} \cup Reach(nx, nx[h])
           /\ \A s \in Reach(nx, h) : Reach(nx, s) \subseteq Reach(nx, h)
  <1>1. h \in Reach(nx, h) /\ Closed(nx, Reach(nx, h)) /\ Reach(nx, h) \in SUBSET Slots
    BY ReachClosed
  <1>2. ASSUME NEW s \in Reach(nx, h) PROVE Reach(nx, s) \subseteq Reach(nx, h)
    BY <1>1, ReachLeast
  <1>3. CASE nx[h] = NULL
    <2>1. Closed(nx, {h})
      BY <1>3 DEF Closed
    <2>2. Reach(nx, h) \subseteq {h}
      BY <2>1, ReachLeast
    <2>3. QED
      BY <1>1, <1>2, <1>3, <2>2, ReachNull
  <1>4. CASE nx[h] # NULL
    <2> DEFINE T == Reach(nx, nx[h])
    <2>1. nx[h] \in Slots /\ nx[h] \in Reach(nx, h)
      BY <1>1, <1>4 DEF Pointers, Closed
    <2>2. nx[h] \in T /\ Closed(nx, T) /\ T \in SUBSET Slots
      BY <2>1, ReachClosed
    <2>3. T \subseteq Reach(nx, h)
      BY <1>2, <2>1
    <2> HIDE DEF T
    <2>4. Closed(nx, {h} \cup T)
      BY <2>2 DEF Closed
    <2>5. Reach(nx, h) \subseteq {h} \cup T
      <3>1. {h} \cup T \in SUBSET Slots /\ h \in {h} \cup T
        BY <2>2
      <3>2. QED
        BY <2>4, <3>1, ReachLeast
    <2>6. QED
      BY <1>1, <1>2, <2>3, <2>5 DEF T
  <1>5. QED
    BY <1>3, <1>4

\* The number of nodes a walk from x meets.
Rank(nx, x) == Cardinality(Reach(nx, x))

\* Two members of a queue: one is met on the walk from the other.
LEMMA OneMeetsOther ==
    ASSUME NEW m \in Lists, NEW k \in Queues, NEW x \in Members(m, k), NEW y \in Members(m, k)
    PROVE  y \in Reach(m.next, x) \/ x \in Reach(m.next, y)
  <1> DEFINE nx == m.next
             h  == m.queue[k].head
             T  == {z \in Members(m, k) : z \in Reach(nx, x) \/ x \in Reach(nx, z)}
  <1>1. nx \in Pointers /\ Members(m, k) \in SUBSET Slots
    BY ListsAccess, MembersAreSlots
  <1>2. h \in Slots /\ h \in Members(m, k) /\ x \in Reach(nx, h)
    BY <1>1, ListsAccess, ReachNull, ReachClosed DEF Members
  <1>3. h \in T /\ T \in SUBSET Slots
    BY <1>1, <1>2
  <1>4. ASSUME NEW z \in T, nx[z] # NULL PROVE nx[z] \in T
    <2>1. z \in Slots /\ nx[z] \in Slots /\ nx[z] \in Members(m, k)
      BY <1>1, <1>4, MembersClosed DEF Closed, Pointers
    <2>2. CASE z \in Reach(nx, x)
      <3>1. Closed(nx, Reach(nx, x))
        BY <1>1, ReachClosed
      <3>2. QED
        BY <1>4, <2>1, <2>2, <3>1 DEF Closed
    <2>3. CASE x \in Reach(nx, z)
      <3>1. Reach(nx, z) = {z} \cup Reach(nx, nx[z]) /\ Closed(nx, Reach(nx, x)) /\ x \in Reach(nx, x)
        BY <1>1, <2>1, ReachStep, ReachClosed
      <3>2. x = z \/ x \in Reach(nx, nx[z])
        BY <2>3, <3>1
      <3>3. x = z => nx[z] \in Reach(nx, x)
        BY <1>4, <3>1 DEF Closed
      <3>4. QED
        BY <2>1, <3>2, <3>3
    <2>4. QED
      BY <2>2, <2>3
  <1> HIDE DEF T
  <1>5. Closed(nx, T)
    BY <1>4 DEF Closed
  <1>6. Reach(nx, h) \subseteq T
    BY <1>3, <1>5, ReachLeast
  <1>7. y \in T
    BY <1>6 DEF Members
  <1>8. QED
    BY <1>7 DEF T

\* No walk of a queue comes back to a node.
LEMMA NoWayBack ==
    ASSUME NEW m \in Lists, WellLinked(m), NEW k \in Queues, NEW x \in Members(m, k)
    PROVE  x \notin Reach(m.next, m.next[x])
  <1> DEFINE nx == m.next
             h  == m.queue[k].head
             C  == Reach(nx, x)
  <1>1. nx \in Pointers /\ x \in Slots /\ Members(m, k) \in SUBSET Slots
    BY ListsAccess, MembersAreSlots
  <1>2. h \in Slots /\ h \in Members(m, k) /\ \A s \in Slots : nx[s] # h
    BY ListsAccess, HeadIsMember DEF WellLinked
  <1>3. \A s, r \in Slots : nx[s] = nx[r] /\ nx[s] # NULL => s = r
    BY DEF WellLinked
  <1> SUFFICES ASSUME x \in Reach(nx, nx[x]) PROVE FALSE
    OBVIOUS
  <1>4. nx[x] # NULL /\ nx[x] \in Slots
    BY <1>1, ReachNull DEF Pointers
  <1>5. C \in SUBSET Slots /\ x \in C /\ Closed(nx, C) /\ C = Reach(nx, nx[x])
    <2>1. C \in SUBSET Slots /\ x \in C /\ Closed(nx, C)
      BY <1>1, ReachClosed
    <2>2. C = {x} \cup Reach(nx, nx[x])
      BY <1>1, ReachStep
    <2> HIDE DEF C
    <2>3. QED
      BY <2>1, <2>2
  <1>6. ASSUME NEW y \in C PROVE \E z \in C : nx[z] = y
    <2> DEFINE D == {z \in Slots : \E w \in C : nx[w] = z}
    <2>1. ASSUME NEW z \in D, nx[z] # NULL PROVE nx[z] \in D
      <3>1. nx[z] \in Slots /\ z \in Slots /\ z # NULL
        BY <1>1, <2>1, NullAssumption DEF Pointers
      <3>2. z \in C
        <4>1. PICK w \in C : nx[w] = z
          BY <2>1
        <4> HIDE DEF C
        <4>2. QED
          BY <1>5, <3>1, <4>1 DEF Closed
      <3>3. QED
        BY <3>1, <3>2
    <2>2. nx[x] \in D /\ D \in SUBSET Slots
      BY <1>4, <1>5
    <2> HIDE DEF D, C
    <2>3. Reach(nx, nx[x]) \subseteq D
      BY <2>1, <2>2, ReachLeast DEF Closed
    <2>4. QED
      BY <1>5, <2>3 DEF D
  <1> HIDE DEF C
  <1>7. h \notin C
    BY <1>2, <1>5, <1>6
  <1>8. Closed(nx, Slots \ C)
    <2>1. ASSUME NEW s \in Slots \ C, nx[s] # NULL, nx[s] \in C PROVE FALSE
      BY <1>3, <1>5, <1>6, <2>1
    <2>2. QED
      BY <1>1, <2>1 DEF Closed, Pointers
  <1>9. Reach(nx, h) \subseteq Slots \ C
    <2>1. Slots \ C \in SUBSET Slots /\ h \in Slots \ C
      BY <1>2, <1>7
    <2>2. QED
      BY <1>8, <2>1, ReachLeast
  <1>10. QED
    BY <1>5, <1>9 DEF Members

\* The last member of a queue is met on the walk from each of them.
LEMMA TailIsMet ==
    ASSUME NEW m \in Lists, WellLinked(m), NEW k \in Queues, NEW x \in Members(m, k)
    PROVE  m.queue[k].tail \in Reach(m.next, x)
  <1>1. m.next \in Pointers /\ x \in Slots
    BY ListsAccess, MembersAreSlots
  <1>2. PICK t : t = m.queue[k].tail
    OBVIOUS
  <1>3. t \in Members(m, k) /\ m.next[t] = NULL
    BY <1>2, HeadIsMember DEF WellLinked
  <1>4. t \in Reach(m.next, x) \/ x \in Reach(m.next, t)
    BY <1>3, OneMeetsOther
  <1>5. Reach(m.next, t) = {t} \cup Reach(m.next, m.next[t]) /\ x \in Reach(m.next, x)
    BY <1>1, <1>3, MembersAreSlots, ReachStep, ReachClosed
  <1>6. Reach(m.next, t) = {t}
    BY <1>3, <1>5, ReachNull
  <1>7. QED
    BY <1>2, <1>4, <1>5, <1>6

\* The rank of a member drops by one at every step of the walk, down to one.
LEMMA RankDrops ==
    ASSUME NEW m \in Lists, WellLinked(m), Counted(m), NEW k \in Queues, NEW x \in Members(m, k)
    PROVE  /\ Rank(m.next, x) \in 1 .. m.queue[k].count
           /\ m.next[x] = NULL => Rank(m.next, x) = 1
           /\ m.next[x] # NULL => /\ m.next[x] \in Members(m, k)
                                  /\ Rank(m.next, m.next[x]) = Rank(m.next, x) - 1
  <1>1. m.next \in Pointers /\ x \in Slots /\ m.queue[k].count \in Nat
    BY ListsAccess, MembersAreSlots
  <1>2. /\ IsFiniteSet(Members(m, k)) /\ m.queue[k].count = Cardinality(Members(m, k))
        /\ Reach(m.next, x) \subseteq Members(m, k) /\ x \in Reach(m.next, x)
    <2>1. m.queue[k].head \in Slots
      BY ListsAccess, HeadIsMember
    <2>2. QED
      BY <1>1, <2>1, MembersAreSlots, ReachStep, ReachClosed DEF Members, Counted
  <1>3. PICK R : R = Reach(m.next, x)
    OBVIOUS
  <1>4. IsFiniteSet(R) /\ Cardinality(R) \in Nat /\ Cardinality(R) <= m.queue[k].count
    BY <1>2, <1>3, FS_Subset, FS_CardinalityType
  <1>5. /\ IsFiniteSet(R \ {x}) /\ Cardinality(R \ {x}) \in Nat
        /\ Cardinality(R \ {x}) = Cardinality(R) - 1
    BY <1>2, <1>3, <1>4, FS_RemoveElement, FS_CardinalityType
  <1>6. R \ {x} = Reach(m.next, m.next[x])
    BY <1>1, <1>3, ReachStep, NoWayBack
  <1>7. Cardinality(R) \in 1 .. m.queue[k].count
    BY <1>4, <1>5
  <1>8. ASSUME m.next[x] = NULL PROVE Cardinality(R) = 1
    BY <1>4, <1>5, <1>6, <1>8, ReachNull, FS_EmptySet
  <1>9. ASSUME m.next[x] # NULL PROVE m.next[x] \in Members(m, k)
    BY <1>9, MembersClosed DEF Closed
  <1>10. QED
    BY <1>3, <1>5, <1>6, <1>7, <1>8, <1>9 DEF Rank

\* Ranks tell the members apart and give their order.
LEMMA RankOrders ==
    ASSUME NEW m \in Lists, WellLinked(m), Counted(m), NEW k \in Queues,
           NEW x \in Members(m, k), NEW y \in Members(m, k)
    PROVE  /\ y \in Reach(m.next, x) <=> Rank(m.next, y) <= Rank(m.next, x)
           /\ Rank(m.next, x) = Rank(m.next, y) => x = y
  <1>1. /\ m.next \in Pointers /\ x \in Slots /\ y \in Slots
        /\ Rank(m.next, x) \in Nat /\ Rank(m.next, y) \in Nat
    <2>1. PICK c \in Nat : c = m.queue[k].count
      BY ListsAccess
    <2>2. Rank(m.next, x) \in 1 .. c /\ Rank(m.next, y) \in 1 .. c
      BY <2>1, RankDrops
    <2>3. x \in Slots /\ y \in Slots
      BY MembersAreSlots
    <2>4. m.next \in Pointers
      BY ListsAccess
    <2>5. QED
      BY <2>2, <2>3, <2>4
  <1>2. ASSUME NEW v \in Members(m, k), NEW w \in Members(m, k), w \in Reach(m.next, v)
        PROVE  Rank(m.next, w) <= Rank(m.next, v)
    <2>1. v \in Slots /\ Reach(m.next, w) \subseteq Reach(m.next, v)
      BY <1>1, <1>2, MembersAreSlots, ReachStep
    <2>2. IsFiniteSet(Reach(m.next, v))
      <3>1. IsFiniteSet(Slots) /\ Reach(m.next, v) \subseteq Slots
        BY SizesAssumption, FS_Interval DEF Slots, Reach
      <3>2. QED
        BY <3>1, FS_Subset
    <2>3. QED
      BY <2>1, <2>2, FS_Subset DEF Rank
  <1>3. ASSUME NEW v \in Members(m, k), NEW w \in Members(m, k),
               v # w, w \in Reach(m.next, v)
        PROVE  Rank(m.next, w) < Rank(m.next, v)
    <2>1. PICK z : z = m.next[v]
      OBVIOUS
    <2>2. v \in Slots /\ w \in Reach(m.next, z)
      BY <1>1, <1>3, <2>1, MembersAreSlots, ReachStep
    <2>3. z # NULL
      BY <2>2, ReachNull
    <2>4. z \in Members(m, k) /\ Rank(m.next, z) = Rank(m.next, v) - 1
      BY <2>1, <2>3, RankDrops
    <2>5. Rank(m.next, w) <= Rank(m.next, z)
      BY <1>2, <2>2, <2>4
    <2>6. Rank(m.next, w) \in Nat /\ Rank(m.next, v) \in Nat
      BY RankDrops
    <2>7. QED
      BY <2>4, <2>5, <2>6
  <1>4. y \in Reach(m.next, x) \/ x \in Reach(m.next, y)
    BY OneMeetsOther
  <1>5. x \in Reach(m.next, x)
    BY <1>1, ReachClosed
  <1>6. QED
    BY <1>1, <1>2, <1>3, <1>4, <1>5

\* Every rank up to the count is taken, the highest by the head.
LEMMA RanksTaken ==
    ASSUME NEW m \in Lists, WellLinked(m), Counted(m), NEW k \in Queues,
           NEW i \in 1 .. m.queue[k].count
    PROVE  \E x \in Members(m, k) : Rank(m.next, x) = m.queue[k].count + 1 - i
  <1> DEFINE n == m.queue[k].count
             Has(j) == \E x \in Members(m, k) : Rank(m.next, x) = n + 1 - j
             S == {j \in 1 .. n : ~Has(j)}
  <1>1. n \in Nat /\ n = Cardinality(Members(m, k))
    BY ListsAccess DEF Counted
  <1>2. Has(1)
    <2>1. Members(m, k) # {}
      BY <1>1, FS_EmptySet
    <2>2. m.queue[k].head \in Members(m, k)
      BY <2>1, HeadIsMember
    <2>3. Rank(m.next, m.queue[k].head) = n
      BY <1>1 DEF Rank, Members
    <2>4. QED
      BY <1>1, <2>2, <2>3
  <1> HIDE DEF n
  <1>3. CASE S = {}
    BY <1>3 DEF n
  <1>4. CASE S # {}
    <2>1. S \subseteq Nat
      BY <1>1
    <2>2. PICK j \in S : \A l \in S : j <= l
      <3> HIDE DEF S
      <3>1. QED
        BY <1>4, <2>1, LeastNumber
    <2>3. j \in 1 .. n /\ ~Has(j) /\ j # 1
      BY <1>2, <2>2
    <2>4. j - 1 \in 1 .. n /\ j - 1 \notin S
      <3>1. j - 1 \in 1 .. n /\ ~(j <= j - 1)
        BY <1>1, <2>3
      <3> HIDE DEF S
      <3>2. QED
        BY <2>2, <3>1
    <2>5. PICK x \in Members(m, k) : Rank(m.next, x) = n + 1 - (j - 1)
      BY <2>4
    <2>6. m.next[x] # NULL
      BY <1>1, <2>3, <2>5, RankDrops
    <2>7. m.next[x] \in Members(m, k) /\ Rank(m.next, m.next[x]) = n + 1 - j
      BY <1>1, <2>3, <2>5, <2>6, RankDrops
    <2>8. QED
      BY <2>3, <2>7
  <1>5. QED
    BY <1>3, <1>4

\* Queue k as a sequence: its members by falling rank.
LEMMA QueueOrderRanks ==
    ASSUME NEW m \in Lists, WellLinked(m), Counted(m), NEW k \in Queues
    PROVE  /\ QueueOrder(m, k) \in [1 .. m.queue[k].count -> Slots]
           /\ \A i \in 1 .. m.queue[k].count :
                 /\ QueueOrder(m, k)[i] \in Members(m, k)
                 /\ Rank(m.next, QueueOrder(m, k)[i]) = m.queue[k].count + 1 - i
  <1> DEFINE n == m.queue[k].count
             Walk(f) == [i \in 1 .. n |-> IF i = 1 THEN m.queue[k].head
                                          ELSE IF f[i - 1] = NULL THEN NULL
                                          ELSE m.next[f[i - 1]]]
             W == [i \in 1 .. n |-> CHOOSE x \in Members(m, k) : Rank(m.next, x) = n + 1 - i]
  <1>1. n \in Nat /\ n = Cardinality(Members(m, k)) /\ Members(m, k) \in SUBSET Slots
    BY ListsAccess, MembersAreSlots DEF Counted
  <1>2. \A i \in 1 .. n : W[i] \in Members(m, k) /\ Rank(m.next, W[i]) = n + 1 - i
    BY RanksTaken
  <1>3. n # 0 => /\ m.queue[k].head \in Members(m, k)
                 /\ Rank(m.next, m.queue[k].head) = n
    <2>1. ASSUME n # 0 PROVE m.queue[k].head \in Members(m, k)
      <3>1. Members(m, k) # {}
        BY <1>1, <2>1, FS_EmptySet
      <3>2. QED
        BY <3>1, HeadIsMember
    <2>2. QED
      BY <1>1, <2>1 DEF Rank, Members
  <1>4. DOMAIN W = 1 .. n
    OBVIOUS
  <1> HIDE DEF n, W
  <1>5. ASSUME NEW i \in 1 .. n, i # 1
        PROVE  /\ i - 1 \in 1 .. n /\ W[i - 1] # NULL
               /\ m.next[W[i - 1]] = W[i]
    <2>1. i - 1 \in 1 .. n
      BY <1>1, <1>5
    <2>2. W[i - 1] \in Members(m, k) /\ Rank(m.next, W[i - 1]) = n + 1 - (i - 1)
      BY <1>2, <2>1
    <2>3. W[i - 1] # NULL /\ m.next[W[i - 1]] # NULL
      BY <1>1, <1>5, <2>2, RankDrops, NullAssumption
    <2>4. /\ m.next[W[i - 1]] \in Members(m, k)
          /\ Rank(m.next, m.next[W[i - 1]]) = n + 1 - i
      BY <1>1, <1>5, <2>2, <2>3, RankDrops
    <2>5. QED
      BY <1>2, <1>5, <2>1, <2>3, <2>4, RankOrders
  <1>6. ASSUME n # 0 PROVE W[1] = m.queue[k].head
    <2>1. 1 \in 1 .. n /\ n + 1 - 1 = n
      BY <1>1, <1>6
    <2>2. W[1] \in Members(m, k) /\ Rank(m.next, W[1]) = n
      BY <1>2, <2>1
    <2>3. QED
      BY <1>3, <1>6, <2>2, RankOrders
  <1>7. W = Walk(W)
    <2>1. \A i \in 1 .. n : W[i] = Walk(W)[i]
      BY <1>1, <1>5, <1>6
    <2>2. W = [i \in 1 .. n |-> W[i]]
      BY <1>4 DEF W
    <2>3. QED
      BY <2>1, <2>2
  <1> DEFINE s == QueueOrder(m, k)
  <1>8. s = CHOOSE f : f = Walk(f)
    BY DEF QueueOrder, n
  <1> HIDE DEF s
  <1>9. s = Walk(s)
    <2> HIDE DEF Walk
    <2>1. QED
      BY <1>7, <1>8, Zenon
  <1>10. \A i \in 1 .. n : s[i] = W[i]
    <2> DEFINE S == {i \in 1 .. n : s[i] # W[i]}
    <2> SUFFICES ASSUME S # {} PROVE FALSE
      OBVIOUS
    <2>1. S \subseteq Nat
      BY <1>1
    <2>2. PICK j \in S : \A l \in S : j <= l
      <3> HIDE DEF S
      <3>1. QED
        BY <2>1, LeastNumber
    <2>3. j \in 1 .. n /\ s[j] # W[j] /\ n # 0
      BY <1>1, <2>2
    <2>4. j # 1
      <3>1. ASSUME j = 1 PROVE s[j] = m.queue[k].head
        BY <1>9, <2>3, <3>1
      <3>2. QED
        BY <1>6, <2>3, <3>1
    <2>5. j - 1 \in 1 .. n /\ ~(j <= j - 1)
      BY <1>1, <2>3, <2>4
    <2>6. s[j - 1] = W[j - 1]
      <3>1. j - 1 \notin S
        <4> HIDE DEF S
        <4>1. QED
          BY <2>2, <2>5
      <3>2. QED
        BY <2>5, <3>1
    <2>7. s[j] = IF s[j - 1] = NULL THEN NULL ELSE m.next[s[j - 1]]
      BY <1>9, <2>3, <2>4
    <2>8. QED
      BY <1>5, <2>3, <2>4, <2>6, <2>7
  <1>11. s \in [1 .. n -> Slots]
    <2>1. DOMAIN s = 1 .. n /\ s = [i \in 1 .. n |-> s[i]]
      BY <1>9
    <2>2. \A i \in 1 .. n : s[i] \in Slots
      BY <1>1, <1>2, <1>10
    <2>3. QED
      BY <2>1, <2>2
  <1>12. QED
    BY <1>2, <1>10, <1>11 DEF n, s

\* ... which is every member once, in the order of the walk.
LEMMA QueueOrderIs ==
    ASSUME NEW m \in Lists, WellLinked(m), Counted(m), NEW k \in Queues,
           NEW s, s = QueueOrder(m, k)
    PROVE  /\ s \in Seq(Slots) /\ Len(s) = m.queue[k].count /\ m.queue[k].count \in Nat
           /\ \A i \in 1 .. Len(s) : s[i] \in Members(m, k)
           /\ \A x \in Members(m, k) : \E i \in 1 .. Len(s) : s[i] = x
           /\ \A i, j \in 1 .. Len(s) : s[j] \in Reach(m.next, s[i]) <=> i <= j
           /\ \A i, j \in 1 .. Len(s) : s[i] = s[j] => i = j
  <1>1. PICK n \in Nat : n = m.queue[k].count
    BY ListsAccess
  <1>2. s \in [1 .. n -> Slots]
        /\ \A i \in 1 .. n : s[i] \in Members(m, k) /\ Rank(m.next, s[i]) = n + 1 - i
    BY <1>1, QueueOrderRanks
  <1>3. s \in Seq(Slots) /\ Len(s) = n
    BY <1>1, <1>2
  <1>4. ASSUME NEW x \in Members(m, k) PROVE \E i \in 1 .. n : s[i] = x
    <2>1. Rank(m.next, x) \in 1 .. n
      BY <1>1, RankDrops
    <2>2. PICK i \in 1 .. n : i = n + 1 - Rank(m.next, x)
      BY <1>1, <2>1
    <2>3. s[i] \in Members(m, k) /\ Rank(m.next, s[i]) = Rank(m.next, x)
      BY <1>1, <1>2, <2>1, <2>2
    <2>4. QED
      BY <2>3, RankOrders
  <1>5. ASSUME NEW i \in 1 .. n, NEW j \in 1 .. n
        PROVE  (s[j] \in Reach(m.next, s[i]) <=> i <= j) /\ (s[i] = s[j] => i = j)
    <2>1. /\ s[i] \in Members(m, k) /\ Rank(m.next, s[i]) = n + 1 - i
          /\ s[j] \in Members(m, k) /\ Rank(m.next, s[j]) = n + 1 - j
      BY <1>2
    <2>2. s[j] \in Reach(m.next, s[i]) <=> n + 1 - j <= n + 1 - i
      BY <2>1, RankOrders
    <2>3. QED
      BY <1>1, <2>1, <2>2
  <1>6. QED
    BY <1>1, <1>2, <1>3, <1>4, <1>5

-----------------------------------------------------------------------------
(* How the order of a queue changes.                                       *)

\* From m to n, whoever joins queue k goes behind its members, and those that
\* stay keep their order.
Follows(m, n, k) ==
    /\ \A x \in Members(n, k) \ Members(m, k), y \in Members(n, k) : x \in Reach(n.next, y)
    /\ \A x, y \in Members(m, k) \cap Members(n, k) :
          y \in Reach(m.next, x) => y \in Reach(n.next, x)

\* Nothing follows nothing.
LEMMA FollowsItself == ASSUME NEW m, NEW k PROVE Follows(m, m, k)
  BY DEF Follows

\* Two changes in a row, of which only one lets a process join queue k.
LEMMA FollowsTwice ==
    ASSUME NEW m, NEW n, NEW o, NEW k, Follows(m, n, k), Follows(n, o, k),
           \/ Members(o, k) \subseteq Members(n, k)
           \/ /\ Members(n, k) \subseteq Members(m, k)
              /\ Members(m, k) \cap Members(o, k) \subseteq Members(n, k)
    PROVE  Follows(m, o, k)
  <1>1. Members(m, k) \cap Members(o, k) \subseteq Members(n, k)
    OBVIOUS
  <1>2. ASSUME NEW x \in Members(m, k) \cap Members(o, k),
               NEW y \in Members(m, k) \cap Members(o, k), y \in Reach(m.next, x)
        PROVE  y \in Reach(o.next, x)
    BY <1>1, <1>2 DEF Follows
  <1>3. ASSUME NEW x \in Members(o, k) \ Members(m, k), NEW y \in Members(o, k)
        PROVE  x \in Reach(o.next, y)
    <2>1. CASE x \notin Members(n, k)
      BY <2>1 DEF Follows
    <2>2. CASE x \in Members(n, k)
      BY <2>2 DEF Follows
    <2>3. QED
      BY <2>1, <2>2
  <1>4. QED
    BY <1>2, <1>3 DEF Follows

\* enqueue_process puts the newcomer behind everybody.
LEMMA EnqueueFollows ==
    ASSUME NEW m, NEW H, Holds(m, H), NEW k \in Queues, NEW p \in Slots,
           \A j \in Queues : p \notin H[j], NEW j \in Queues
    PROVE  Follows(m, EnqueueProcess(m, k, p), j)
  <1> DEFINE n == EnqueueProcess(m, k, p)
             t == m.queue[k].tail
  <1>1. m \in Lists /\ WellLinked(m) /\ Counted(m) /\ \A i \in Queues : Members(m, i) = H[i]
    BY DEF Holds
  <1>2. /\ n \in Lists
        /\ \A i \in Queues : Members(n, i) = IF i = k THEN Members(m, i) \cup {p}
                                             ELSE Members(m, i)
    BY <1>1, EnqueueAdds
  <1>3. m.next \in Pointers /\ n.next \in Pointers /\ m.next[p] = NULL
    <2>1. m.next[p] = NULL
      BY <1>1 DEF WellLinked
    <2> HIDE DEF n
    <2>2. QED
      BY <1>1, <1>2, <2>1, ListsAccess
  <1>4. /\ t # NULL => t \in Slots /\ t # p /\ m.next[t] = NULL /\ n.next[t] = p
        /\ \A s \in Slots : m.next[s] # NULL => n.next[s] = m.next[s]
    <2>1. t # NULL => t \in Slots /\ t \in Members(m, k) /\ m.next[t] = NULL
      BY <1>1, ListsAccess DEF WellLinked
    <2>2. t # NULL => t # p
      BY <1>1, <2>1
    <2>3. n.next = IF t = NULL THEN [m.next EXCEPT ![p] = NULL]
                   ELSE [[m.next EXCEPT ![p] = NULL] EXCEPT ![t] = p]
      BY DEF EnqueueProcess
    <2> HIDE DEF n, t
    <2>4. QED
      BY <1>3, <2>1, <2>2, <2>3 DEF Pointers
  <1> HIDE DEF n, t
  <1>5. ASSUME NEW x \in Slots PROVE Reach(m.next, x) \subseteq Reach(n.next, x)
    <2>1. /\ x \in Reach(n.next, x) /\ Closed(n.next, Reach(n.next, x))
          /\ Reach(n.next, x) \in SUBSET Slots
      BY <1>3, ReachClosed
    <2>2. Closed(m.next, Reach(n.next, x))
      BY <1>4, <2>1 DEF Closed
    <2>3. QED
      BY <2>1, <2>2, ReachLeast
  <1>6. ASSUME NEW x \in Members(n, j) \ Members(m, j), NEW y \in Members(n, j)
        PROVE  x \in Reach(n.next, y)
    <2>1. j = k /\ x = p /\ (y = p \/ y \in Members(m, k))
      BY <1>2, <1>6
    <2>2. CASE y = p
      BY <1>3, <2>1, <2>2, ReachClosed
    <2>3. CASE y \in Members(m, k)
      <3>1. y \in Slots /\ t \in Reach(m.next, y)
        BY <1>1, <2>3, MembersAreSlots, TailIsMet DEF t
      <3>2. t # NULL
        BY <3>1, NullAssumption DEF Reach
      <3>3. t \in Reach(n.next, y) /\ Closed(n.next, Reach(n.next, y))
        BY <1>3, <1>5, <3>1, ReachClosed
      <3>4. n.next[t] = p /\ p # NULL
        BY <1>4, <3>2, NullAssumption
      <3>5. QED
        BY <2>1, <3>3, <3>4 DEF Closed
    <2>4. QED
      BY <2>1, <2>2, <2>3
  <1>7. \A x \in Members(m, j) : x \in Slots
    BY MembersAreSlots
  <1>8. Follows(m, n, j)
    BY <1>5, <1>6, <1>7 DEF Follows
  <1>9. QED
    BY <1>8 DEF n

\* dequeue_process disturbs nobody else.
LEMMA DequeueFollows ==
    ASSUME NEW m, NEW H, Holds(m, H), NEW k \in Queues, m.queue[k].head # NULL,
           NEW j \in Queues
    PROVE  /\ Follows(m, DequeueProcess(m, k), j)
           /\ \A x \in Members(DequeueProcess(m, k), j) :
                 Reach(DequeueProcess(m, k).next, x) = Reach(m.next, x)
  <1> DEFINE n == DequeueProcess(m, k)
             h == m.queue[k].head
  <1>1. m \in Lists /\ WellLinked(m) /\ Counted(m)
    BY DEF Holds
  <1>2. /\ n \in Lists
        /\ \A i \in Queues : Members(n, i) = IF i = k THEN Members(m, i) \ {h}
                                             ELSE Members(m, i)
    BY <1>1, DequeueTakes
  <1>3. /\ m.next \in Pointers /\ n.next \in Pointers /\ h \in Slots /\ h \in Members(m, k)
        /\ n.next = [m.next EXCEPT ![h] = NULL]
        /\ \A s \in Slots : m.next[s] # h
    <2>1. n.next = [m.next EXCEPT ![h] = NULL]
      BY DEF DequeueProcess
    <2>2. \A s \in Slots : m.next[s] # h
      BY <1>1 DEF WellLinked
    <2> HIDE DEF n
    <2>3. QED
      BY <1>1, <1>2, <2>1, <2>2, ListsAccess, HeadIsMember
  <1>4. \A x \in Members(n, j) : x \in Slots /\ x # h
    BY <1>1, <1>2, <1>3, MembersAreSlots DEF WellLinked
  <1> HIDE DEF n, h
  <1>5. ASSUME NEW x \in Members(n, j) PROVE Reach(n.next, x) = Reach(m.next, x)
    <2>1. x \in Slots /\ x # h
      BY <1>4
    <2>2. Closed(m.next, Slots \ {h})
      BY <1>3 DEF Closed, Pointers
    <2>3. Reach(m.next, x) \subseteq Slots \ {h}
      <3>1. Slots \ {h} \in SUBSET Slots /\ x \in Slots \ {h}
        BY <2>1
      <3>2. QED
        BY <2>2, <3>1, ReachLeast
    <2>4. \A s \in Reach(m.next, x) : n.next[s] = m.next[s]
      BY <1>3, <2>3 DEF Pointers
    <2>5. QED
      BY <1>3, <2>1, <2>4, ReachSame
  <1>6. Members(n, j) \subseteq Members(m, j)
    BY <1>2
  <1>7. Follows(m, n, j)
    BY <1>5, <1>6 DEF Follows
  <1>8. QED
    BY <1>5, <1>7 DEF n

\* The queue was the process taken off, followed by what is left.
LEMMA DequeueOrder ==
    ASSUME NEW m, NEW H, Holds(m, H), NEW k \in Queues, m.queue[k].head # NULL,
           NEW s, s = QueueOrder(m, k),
           NEW t, t = QueueOrder(DequeueProcess(m, k), k)
    PROVE  s = <<m.queue[k].head>> \o t
  <1> DEFINE n == DequeueProcess(m, k)
             h == m.queue[k].head
  <1>1. m \in Lists /\ WellLinked(m) /\ Counted(m)
    BY DEF Holds
  <1>2. n \in Lists /\ WellLinked(n) /\ Counted(n)
    BY DequeueHolds DEF Holds
  <1>3. /\ h \in Members(m, k) /\ h \in Slots
        /\ Members(n, k) = Members(m, k) \ {h}
    <2>1. Members(n, k) = Members(m, k) \ {h}
      BY <1>1, DequeueTakes
    <2>2. QED
      BY <1>1, <2>1, HeadIsMember, ListsAccess
  <1>4. PICK c \in Nat : c = m.queue[k].count
    BY <1>1, ListsAccess
  <1>5. n.queue[k].count = c - 1 /\ c - 1 \in Nat
    BY <1>1, <1>3, <1>4, CountPositive DEF DequeueProcess, Lists
  <1>6. \A x \in Members(n, k) : Rank(n.next, x) = Rank(m.next, x)
    BY DequeueFollows DEF Rank
  <1> HIDE DEF n
  <1>7. /\ s \in Seq(Slots) /\ Len(s) = c
        /\ \A i \in 1 .. c : s[i] \in Members(m, k) /\ Rank(m.next, s[i]) = c + 1 - i
    BY <1>1, <1>4, QueueOrderRanks, QueueOrderIs
  <1>8. /\ t \in Seq(Slots) /\ Len(t) = c - 1
        /\ \A i \in 1 .. (c - 1) : t[i] \in Members(n, k) /\ Rank(n.next, t[i]) = (c - 1) + 1 - i
    <2>1. t = QueueOrder(n, k)
      BY DEF n
    <2>2. t \in Seq(Slots) /\ Len(t) = c - 1
      BY <1>2, <1>5, <2>1, QueueOrderIs
    <2>3. \A i \in 1 .. (c - 1) : t[i] \in Members(n, k) /\ Rank(n.next, t[i]) = (c - 1) + 1 - i
      BY <1>2, <1>5, <2>1, QueueOrderRanks
    <2>4. QED
      BY <2>2, <2>3
  <1>9. Rank(m.next, h) = c
    BY <1>1, <1>4 DEF Rank, Members, Counted
  <1>10. s[1] = h
    <2>1. 1 \in 1 .. c /\ c + 1 - 1 = c
      BY <1>5
    <2>2. s[1] \in Members(m, k) /\ Rank(m.next, s[1]) = c
      BY <1>7, <2>1
    <2>3. QED
      BY <1>1, <1>3, <1>9, <2>2, RankOrders
  <1>11. ASSUME NEW i \in 1 .. (c - 1) PROVE s[i + 1] = t[i]
    <2>1. i + 1 \in 1 .. c
      BY <1>5
    <2>2. s[i + 1] \in Members(m, k) /\ Rank(m.next, s[i + 1]) = c - i
      BY <1>5, <1>7, <2>1
    <2>3. t[i] \in Members(m, k) /\ Rank(m.next, t[i]) = c - i
      BY <1>3, <1>5, <1>6, <1>8
    <2>4. QED
      BY <1>1, <2>2, <2>3, RankOrders
  <1> HIDE DEF h
  <1>12. s = <<h>> \o t
    <2>1. <<h>> \in Seq(Slots) /\ Len(<<h>>) = 1 /\ <<h>>[1] = h
      BY <1>3
    <2>2. PICK u : u = <<h>> \o t
      OBVIOUS
    <2>3. u \in Seq(Slots) /\ Len(u) = c
      BY <1>5, <1>8, <2>1, <2>2
    <2>4. ASSUME NEW i \in 1 .. c PROVE u[i] = s[i]
      <3>1. CASE i = 1
        BY <1>5, <1>8, <1>10, <2>1, <2>2, <3>1
      <3>2. CASE i # 1
        <4>1. i - 1 \in 1 .. (c - 1) /\ (i - 1) + 1 = i
          BY <1>5, <3>2
        <4>2. u[i] = t[i - 1]
          BY <1>5, <1>8, <2>1, <2>2, <3>2
        <4>3. QED
          BY <1>11, <4>1, <4>2
      <3>3. QED
        BY <3>1, <3>2
    <2>5. QED
      BY <1>7, <2>2, <2>3, <2>4
  <1>13. QED
    BY <1>12 DEF h

\* Unlinking p behind its predecessor takes nobody but p off any walk.
LEMMA ReachUnlinked ==
    ASSUME NEW nx \in Pointers, NEW x \in Slots, NEW p \in Slots, p # x,
           NEW c \in Slots, c # p, nx[c] = p,
           \A s, r \in Slots : nx[s] = nx[r] /\ nx[s] # NULL => s = r,
           NEW ny \in Pointers, ny = [nx EXCEPT ![c] = nx[p], ![p] = NULL]
    PROVE  Reach(nx, x) \subseteq Reach(ny, x) \cup {p}
  <1> DEFINE T == Reach(ny, x)
  <1>1. x \in T /\ Closed(ny, T) /\ T \in SUBSET Slots
    BY ReachClosed
  <1>2. /\ ny[c] = nx[p] /\ ny[p] = NULL
        /\ \A s \in Slots : s # c /\ s # p => ny[s] = nx[s]
        /\ \A s \in Slots : s # c => nx[s] # p
    BY NullAssumption DEF Pointers
  <1> HIDE DEF T
  <1>3. CASE c \in T
    <2>1. Closed(nx, T \cup {p})
      BY <1>1, <1>2, <1>3 DEF Closed
    <2>2. T \cup {p} \in SUBSET Slots /\ x \in T \cup {p}
      BY <1>1
    <2>3. Reach(nx, x) \subseteq T \cup {p}
      BY <2>1, <2>2, ReachLeast
    <2>4. QED
      BY <2>3 DEF T
  <1>4. CASE c \notin T
    <2>1. Closed(nx, T \ {p})
      BY <1>1, <1>2, <1>4 DEF Closed
    <2>2. T \ {p} \in SUBSET Slots /\ x \in T \ {p}
      BY <1>1
    <2>3. Reach(nx, x) \subseteq T \ {p}
      BY <2>1, <2>2, ReachLeast
    <2>4. QED
      BY <2>3 DEF T
  <1>5. QED
    BY <1>3, <1>4

\* remove_from_ready_queue disturbs nobody else.
LEMMA RemoveFollows ==
    ASSUME NEW m, NEW H, Holds(m, H), NEW k \in Queues, NEW p \in H[k], NEW j \in Queues
    PROVE  Follows(m, RemoveProcess(m, k, p), j)
  <1>1. m \in Lists /\ WellLinked(m) /\ Counted(m) /\ \A i \in Queues : Members(m, i) = H[i]
    BY DEF Holds
  <1>2. p \in Members(m, k) /\ p \in Slots /\ p # NULL
    BY <1>1, MembersAreSlots, NullAssumption
  <1>3. CASE m.queue[k].head = p
    <2>1. RemoveProcess(m, k, p) = DequeueProcess(m, k)
      BY <1>3 DEF RemoveProcess
    <2>2. QED
      BY <1>2, <1>3, <2>1, DequeueFollows
  <1>4. CASE m.queue[k].head # p
    <2> DEFINE c == CHOOSE c \in Predecessors(m, k, p) : TRUE
               n == UnlinkAfter(m, k, p, c)
    <2>1. Predecessors(m, k, p) # {} /\ c \in Members(m, k) /\ c # p /\ m.next[c] = p
      BY <1>1, <1>2, <1>4, PredecessorFound
    <2>2. RemoveProcess(m, k, p) = n
      BY <1>4, <2>1 DEF RemoveProcess
    <2> HIDE DEF c
    <2>3. /\ n \in Lists
          /\ \A i \in Queues : Members(n, i) = IF i = k THEN Members(m, i) \ {p}
                                               ELSE Members(m, i)
      BY <1>1, <1>2, <1>4, <2>1, UnlinkTakes
    <2>4. /\ m.next \in Pointers /\ n.next \in Pointers /\ c \in Slots
          /\ n.next = [m.next EXCEPT ![c] = m.next[p], ![p] = NULL]
          /\ \A s, r \in Slots : m.next[s] = m.next[r] /\ m.next[s] # NULL => s = r
      BY <1>1, <2>1, <2>3, ListsAccess, MembersAreSlots DEF WellLinked, UnlinkAfter
    <2>5. \A x \in Members(n, j) : x \in Slots /\ x # p
      BY <1>1, <1>2, <2>3, MembersAreSlots DEF WellLinked
    <2>6. Members(n, j) \subseteq Members(m, j)
      BY <2>3
    <2> HIDE DEF n
    <2>7. ASSUME NEW x \in Members(n, j)
          PROVE  Reach(m.next, x) \subseteq Reach(n.next, x) \cup {p}
      BY <1>2, <2>1, <2>4, <2>5, ReachUnlinked
    <2>8. Follows(m, n, j)
      BY <2>5, <2>6, <2>7 DEF Follows
    <2>9. QED
      BY <2>2, <2>8
  <1>5. QED
    BY <1>3, <1>4
=============================================================================
