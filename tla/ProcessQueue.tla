---------------------------- MODULE ProcessQueue ----------------------------
(***************************************************************************)
(* The scheduler's intrusive queues (src/kernel/process.c, queue           *)
(* management functions).  A process_t carries ONE `next` pointer, so a    *)
(* process can be linked on at most one of the ready queues, the blocked   *)
(* queue and the zombie queue; nothing in the code enforces that.  Every   *)
(* operator takes and returns the memory the queues live in: the `next`    *)
(* field of every slot and the head/tail/count record of every queue.      *)
(***************************************************************************)
EXTENDS Naturals, FiniteSets

CONSTANTS
    MaxProcesses,   \* MAX_PROCESSES, the size of process_table
    NumLevels,      \* MAX_PRIORITY_LEVELS
    NULL            \* the null process pointer

ASSUME SizesAssumption == MaxProcesses \in Nat \ {0} /\ NumLevels \in Nat \ {0}

Slots  == 0 .. (MaxProcesses - 1)
Levels == 0 .. (NumLevels - 1)

ASSUME NullAssumption == NULL \notin Slots

\* ready_queues[l] is queue l; the other two static queues follow.
BlockedQ == NumLevels
ZombieQ  == NumLevels + 1
Queues   == 0 .. (NumLevels + 1)

QueueRecord == [head : Slots \cup {NULL}, tail : Slots \cup {NULL}, count : Nat]
Lists == [next : [Slots -> Slots \cup {NULL}], queue : [Queues -> QueueRecord]]

EmptyQueue == [head |-> NULL, tail |-> NULL, count |-> 0]
EmptyLists == [next  |-> [s \in Slots |-> NULL],
               queue |-> [k \in Queues |-> EmptyQueue]]

-----------------------------------------------------------------------------
(* What a walk along `next` from a node reaches: the least set that holds  *)
(* the node and is closed under `next`.                                    *)
Closed(nx, S) == \A s \in S : nx[s] # NULL => nx[s] \in S

Reach(nx, h) == {s \in Slots : /\ h # NULL
                               /\ \A S \in SUBSET Slots :
                                    h \in S /\ Closed(nx, S) => s \in S}

\* The processes a walk of queue k visits.
Members(m, k) == Reach(m.next, m.queue[k].head)

\* Queue k as a sequence: as many steps along `next` as its count says.
QueueOrder(m, k) ==
    LET at[i \in 1 .. m.queue[k].count] ==
            IF i = 1 THEN m.queue[k].head
            ELSE IF at[i - 1] = NULL THEN NULL
            ELSE m.next[at[i - 1]]
    IN  at

\* What the operations below need from the lists they are given: the tail is
\* the last node, nothing points to a head, no two nodes share a successor, no
\* process is on two queues, and one that is on no queue points nowhere.
WellLinked(m) ==
    /\ \A k \in Queues :
          LET q == m.queue[k] IN
          /\ (q.head = NULL) <=> (q.tail = NULL)
          /\ q.tail # NULL => q.tail \in Members(m, k) /\ m.next[q.tail] = NULL
          /\ q.head # NULL => \A s \in Slots : m.next[s] # q.head
    /\ \A k, j \in Queues : k # j => Members(m, k) \cap Members(m, j) = {}
    /\ \A s, r \in Slots : m.next[s] = m.next[r] /\ m.next[s] # NULL => s = r
    /\ \A s \in Slots : (\A k \in Queues : s \notin Members(m, k)) => m.next[s] = NULL

\* Every count is the number of nodes of its queue.
Counted(m) == \A k \in Queues : m.queue[k].count = Cardinality(Members(m, k))

-----------------------------------------------------------------------------
\* (Mutant of EnqueueProcess: push instead of append.)
EnqueueAtHead(m, k, p) ==
    LET q == m.queue[k] IN
    [next  |-> [m.next EXCEPT ![p] = q.head],
     queue |-> [m.queue EXCEPT ![k] = [head  |-> p,
                                       tail  |-> IF q.tail = NULL THEN p ELSE q.tail,
                                       count |-> q.count + 1]]]

\* enqueue_process: append p behind the tail.
EnqueueProcess(m, k, p) ==
    LET q    == m.queue[k]
        cut  == [m.next EXCEPT ![p] = NULL]
    IN  [next  |-> IF q.tail = NULL THEN cut ELSE [cut EXCEPT ![q.tail] = p],
         queue |-> [m.queue EXCEPT ![k] =
                       [head  |-> IF q.tail = NULL THEN p ELSE q.head,
                        tail  |-> p,
                        count |-> q.count + 1]]]

\* dequeue_process on a queue that has a head: unlink the head.
DequeueProcess(m, k) ==
    LET q    == m.queue[k]
        rest == m.next[q.head]
    IN  [next  |-> [m.next EXCEPT ![q.head] = NULL],
         queue |-> [m.queue EXCEPT ![k] =
                       [head  |-> rest,
                        tail  |-> IF rest = NULL THEN NULL ELSE q.tail,
                        count |-> q.count - 1]]]

\* The node the walk of remove_from_ready_queue stops at: the first one, from
\* the head, whose `next` is p.  The set is empty when the walk falls off the
\* end of the queue.
Predecessors(m, k, p) ==
    {c \in Reach([m.next EXCEPT ![p] = NULL], m.queue[k].head) \ {p} : m.next[c] = p}

\* (Mutants of UnlinkAfter: the tail, or the count, is not maintained.)
UnlinkKeepingTail(m, k, p, c) ==
    [next  |-> [m.next EXCEPT ![c] = m.next[p], ![p] = NULL],
     queue |-> [m.queue EXCEPT ![k].count = @ - 1]]

UnlinkKeepingCount(m, k, p, c) ==
    [next  |-> [m.next EXCEPT ![c] = m.next[p], ![p] = NULL],
     queue |-> [m.queue EXCEPT ![k].tail = IF @ = p THEN c ELSE @]]

\* The unlinking at the end of that walk.
UnlinkAfter(m, k, p, c) ==
    [next  |-> [m.next EXCEPT ![c] = m.next[p], ![p] = NULL],
     queue |-> [m.queue EXCEPT ![k].tail  = IF @ = p THEN c ELSE @,
                               ![k].count = @ - 1]]

\* remove_from_ready_queue for queue k; remove_from_blocked_queue and the
\* unlinking of a collected zombie are taken to do the same on their queue.
RemoveProcess(m, k, p) ==
    IF m.queue[k].head = p THEN DequeueProcess(m, k)
    ELSE IF Predecessors(m, k, p) = {} THEN m
    ELSE UnlinkAfter(m, k, p, CHOOSE c \in Predecessors(m, k, p) : TRUE)

=============================================================================
