--------------------------- MODULE ProcessProofs ---------------------------
(***************************************************************************)
(* The queues of the process table stay sound, for any number of slots,    *)
(* priority levels and pids, as long as signals are only delivered as      *)
(* SafeDelivery says; and, read as sequences, they are the first-come      *)
(* first-served queues of RunQueues.  Then what processes may rely on when *)
(* they wait for their children.                                           *)
(***************************************************************************)
EXTENDS ProcessProperties, ProcessQueueProofs

\* The queue a process in state v, of priority level l, belongs on.
Homes(u, st, pr) ==
    [k \in Queues |->
        {s \in Slots : /\ u[s]
                       /\ \/ k = BlockedQ /\ st[s] = "BLOCKED"
                          \/ k = ZombieQ /\ st[s] = "ZOMBIE"
                          \/ k \in Levels /\ st[s] = "READY" /\ pr[s] = k}]

Place(v, l) == CASE v = "BLOCKED" -> BlockedQ [] v = "ZOMBIE" -> ZombieQ [] OTHER -> l

IInv == TypeOK /\ SchedulerInv

\* The queue numbers are distinct, and every process has a queue to be on.
LEMMA QueueNumbers ==
    /\ BlockedQ \in Queues /\ ZombieQ \in Queues /\ Levels \subseteq Queues
    /\ BlockedQ # ZombieQ /\ BlockedQ \notin Levels /\ ZombieQ \notin Levels
    /\ \A v, l : l \in Levels => Place(v, l) \in Queues
  BY SizesAssumption DEF BlockedQ, ZombieQ, Queues, Levels, Place

\* Clamping a priority gives a level, and leaves a level alone.
LEMMA ClampLevels ==
    ASSUME NEW pr \in Nat
    PROVE  ClampPriority(pr) \in Levels /\ (pr \in Levels => ClampPriority(pr) = pr)
  BY SizesAssumption DEF ClampPriority, Levels

\* The invariant, read as a statement about what the lists hold.
LEMMA InvariantHolds ==
    ASSUME IInv
    PROVE  Holds(lists, Homes(used, state, priority))
  BY DEF IInv, TypeOK, SchedulerInv, CountsAreExact, QueuesHoldTheirProcesses,
         Residents, Holds, Homes

\* And back: lists that hold the homes of the processes satisfy the invariant.
LEMMA HoldsInvariant ==
    ASSUME TypeOK, Holds(lists, Homes(used, state, priority)), CurrentRuns, PidsUnique
    PROVE  IInv
  BY DEF IInv, TypeOK, SchedulerInv, CountsAreExact, QueuesHoldTheirProcesses,
         Residents, Holds, Homes

\* A process has at most one home, and none while it runs.
LEMMA OneHome ==
    ASSUME NEW pr \in [Slots -> Levels], NEW u,
           NEW st \in [Slots -> States], NEW s \in Slots, NEW k \in Queues
    PROVE  s \in Homes(u, st, pr)[k] <=>
               u[s] /\ st[s] # "RUNNING" /\ k = Place(st[s], pr[s])
  BY QueueNumbers DEF Homes, Place, States

\* Taking a process from the home of its old state and adding it to the home of
\* its new one gives the homes of the new states.
LEMMA Moved ==
    ASSUME NEW pr \in [Slots -> Levels], NEW u \in [Slots -> BOOLEAN], NEW st \in [Slots -> States],
           NEW s \in Slots, u[s], st[s] # "RUNNING",
           NEW v \in States, v # "RUNNING",
           NEW j \in Queues
    PROVE  Homes(u, [st EXCEPT ![s] = v], pr)[j] =
           Added(Taken(Homes(u, st, pr), Place(st[s], pr[s]), s),
                 Place(v, pr[s]), s)[j]
  <1> DEFINE nst == [st EXCEPT ![s] = v]
             A == Homes(u, nst, pr)[j]
             H == Homes(u, st, pr)
             B == Added(Taken(H, Place(st[s], pr[s]), s), Place(v, pr[s]), s)[j]
  <1>1. nst \in [Slots -> States] /\ nst[s] = v /\ \A r \in Slots : r # s => nst[r] = st[r]
    OBVIOUS
  <1>2. A \subseteq Slots /\ H[j] \subseteq Slots
    BY DEF Homes
  <1>3. B = (IF j = Place(v, pr[s])
             THEN (IF j = Place(st[s], pr[s]) THEN H[j] \ {s} ELSE H[j]) \cup {s}
             ELSE (IF j = Place(st[s], pr[s]) THEN H[j] \ {s} ELSE H[j]))
    BY DEF Added, Taken
  <1>4. \A r \in Slots : r # s => (r \in A <=> r \in H[j])
    BY <1>1 DEF Homes
  <1>5. (s \in A <=> j = Place(v, pr[s]))
        /\ (s \in H[j] <=> j = Place(st[s], pr[s]))
    <2>1. s \in H[j] <=> j = Place(st[s], pr[s])
      BY OneHome
    <2> HIDE DEF nst
    <2>2. s \in Homes(u, nst, pr)[j] <=> j = Place(v, pr[s])
      BY <1>1, OneHome
    <2>3. QED
      BY <2>1, <2>2
  <1> HIDE DEF A, H, B
  <1>6. A = B
    BY <1>2, <1>3, <1>4, <1>5
  <1>7. QED
    BY <1>6 DEF A, B, H, nst

\* A process that had no home (it ran, or its slot was free) settles.
LEMMA Settled ==
    ASSUME NEW pr \in [Slots -> Levels], NEW u \in [Slots -> BOOLEAN], NEW st \in [Slots -> States],
           NEW s \in Slots, ~u[s] \/ st[s] = "RUNNING",
           NEW v \in States, v # "RUNNING",
           NEW j \in Queues
    PROVE  Homes([u EXCEPT ![s] = TRUE], [st EXCEPT ![s] = v], pr)[j] =
           Added(Homes(u, st, pr), Place(v, pr[s]), s)[j]
  <1> DEFINE nu == [u EXCEPT ![s] = TRUE]
             nst == [st EXCEPT ![s] = v]
             A == Homes(nu, nst, pr)[j]
             H == Homes(u, st, pr)
             B == Added(H, Place(v, pr[s]), s)[j]
  <1>1. /\ nst \in [Slots -> States] /\ nst[s] = v /\ \A r \in Slots : r # s => nst[r] = st[r]
        /\ nu[s] /\ \A r \in Slots : r # s => nu[r] = u[r]
    OBVIOUS
  <1>2. A \subseteq Slots /\ H[j] \subseteq Slots
    BY DEF Homes
  <1>3. B = IF j = Place(v, pr[s]) THEN H[j] \cup {s} ELSE H[j]
    BY DEF Added
  <1>4. \A r \in Slots : r # s => (r \in A <=> r \in H[j])
    BY <1>1 DEF Homes
  <1>5. (s \in A <=> j = Place(v, pr[s])) /\ s \notin H[j]
    <2>1. s \notin H[j]
      BY OneHome
    <2> HIDE DEF nst, nu
    <2>2. s \in Homes(nu, nst, pr)[j] <=> j = Place(v, pr[s])
      BY <1>1, OneHome
    <2>3. QED
      BY <2>1, <2>2
  <1> HIDE DEF A, H, B
  <1>6. A = B
    BY <1>2, <1>3, <1>4, <1>5
  <1>7. QED
    BY <1>6 DEF A, B, H, nst, nu

\* A process that starts to run, or whose slot is freed, leaves its home.
LEMMA Vacated ==
    ASSUME NEW pr \in [Slots -> Levels], NEW u \in [Slots -> BOOLEAN], NEW st \in [Slots -> States],
           NEW s \in Slots, u[s], st[s] # "RUNNING",
           NEW nu \in [Slots -> BOOLEAN], NEW nst \in [Slots -> States],
           ~nu[s] \/ nst[s] = "RUNNING",
           \A r \in Slots : r # s => nu[r] = u[r] /\ nst[r] = st[r],
           NEW j \in Queues
    PROVE  Homes(nu, nst, pr)[j] = Taken(Homes(u, st, pr), Place(st[s], pr[s]), s)[j]
  <1> DEFINE A == Homes(nu, nst, pr)[j]
             H == Homes(u, st, pr)
             B == Taken(H, Place(st[s], pr[s]), s)[j]
  <1>2. A \subseteq Slots /\ H[j] \subseteq Slots
    BY DEF Homes
  <1>3. B = IF j = Place(st[s], pr[s]) THEN H[j] \ {s} ELSE H[j]
    BY DEF Taken
  <1>4. \A r \in Slots : r # s => (r \in A <=> r \in H[j])
    BY DEF Homes
  <1>5. s \notin A /\ (s \in H[j] <=> j = Place(st[s], pr[s]))
    BY OneHome
  <1> HIDE DEF A, H, B
  <1>6. A = B
    BY <1>2, <1>3, <1>4, <1>5
  <1>7. QED
    BY <1>6 DEF A, B, H

-----------------------------------------------------------------------------
(* The parts of the handlers.                                              *)

\* add_to_ready_queue, enqueue_process on the blocked queue and on the zombie
\* queue: a process without a home settles at the home of its new state.
LEMMA SettleHolds ==
    ASSUME NEW pr \in [Slots -> Levels], NEW u \in [Slots -> BOOLEAN],
           NEW st \in [Slots -> States], NEW m, Holds(m, Homes(u, st, pr)),
           NEW s \in Slots, ~u[s] \/ st[s] = "RUNNING",
           NEW v \in States, v # "RUNNING"
    PROVE  Holds(EnqueueProcess(m, Place(v, pr[s]), s),
                 Homes([u EXCEPT ![s] = TRUE], [st EXCEPT ![s] = v], pr))
  <1> DEFINE H == Homes(u, st, pr)
             k == Place(v, pr[s])
             G == Homes([u EXCEPT ![s] = TRUE], [st EXCEPT ![s] = v], pr)
  <1>1. k \in Queues
    BY QueueNumbers
  <1>2. \A j \in Queues : s \notin H[j]
    BY OneHome
  <1>3. \A j \in Queues : G[j] = Added(H, k, s)[j]
    BY Settled
  <1> HIDE DEF H, k, G
  <1>4. Holds(EnqueueProcess(m, k, s), Added(H, k, s))
    BY <1>1, <1>2, EnqueueHolds DEF H
  <1>5. Holds(EnqueueProcess(m, k, s), G)
    BY <1>3, <1>4, HoldsSame
  <1>6. QED
    BY <1>5 DEF G, k

\* Unlinking a process from its home and queueing it at another one.
LEMMA MoveHolds ==
    ASSUME NEW pr \in [Slots -> Levels], NEW u \in [Slots -> BOOLEAN],
           NEW st \in [Slots -> States], NEW m, Holds(m, Homes(u, st, pr)),
           NEW s \in Slots, u[s], st[s] # "RUNNING",
           NEW v \in States, v # "RUNNING"
    PROVE  Holds(EnqueueProcess(RemoveProcess(m, Place(st[s], pr[s]), s), Place(v, pr[s]), s),
                 Homes(u, [st EXCEPT ![s] = v], pr))
  <1> DEFINE H == Homes(u, st, pr)
             k == Place(st[s], pr[s])
             i == Place(v, pr[s])
             n == RemoveProcess(m, k, s)
             G == Homes(u, [st EXCEPT ![s] = v], pr)
  <1>1. k \in Queues /\ i \in Queues
    BY QueueNumbers
  <1>2. \A j \in Queues : s \in H[j] <=> j = k
    BY OneHome
  <1>3. \A j \in Queues : G[j] = Added(Taken(H, k, s), i, s)[j]
    BY Moved
  <1> HIDE DEF H, k, G, i
  <1>4. Holds(n, Taken(H, k, s))
    BY <1>1, <1>2, RemoveHolds DEF H
  <1>5. \A j \in Queues : s \notin Taken(H, k, s)[j]
    BY <1>2 DEF Taken
  <1> HIDE DEF n
  <1>6. Holds(EnqueueProcess(n, i, s), Added(Taken(H, k, s), i, s))
    BY <1>1, <1>4, <1>5, EnqueueHolds
  <1>7. Holds(EnqueueProcess(n, i, s), G)
    BY <1>3, <1>6, HoldsSame
  <1>8. QED
    BY <1>7 DEF G, k, i, n

\* schedule() puts a process that is still RUNNING back on its ready queue.
LEMMA PreemptionHolds ==
    ASSUME TypeOK, NEW m, NEW st \in [Slots -> States],
           Holds(m, Homes(used, st, priority)),
           current # NULL, used[current], st[current] = "RUNNING"
    PROVE  Holds(AddToReadyQueue(m, priority[current], current),
                 Homes(used, [st EXCEPT ![current] = "READY"], priority))
  <1>1. /\ priority \in [Slots -> Levels] /\ used \in [Slots -> BOOLEAN]
        /\ current \in Slots /\ priority[current] \in Levels
    BY DEF TypeOK
  <1>2. AddToReadyQueue(m, priority[current], current)
        = EnqueueProcess(m, Place("READY", priority[current]), current)
    BY <1>1, ClampLevels DEF AddToReadyQueue, Place, Levels
  <1>3. [used EXCEPT ![current] = TRUE] = used
    BY <1>1
  <1>4. Holds(EnqueueProcess(m, Place("READY", priority[current]), current),
              Homes([used EXCEPT ![current] = TRUE], [st EXCEPT ![current] = "READY"],
                    priority))
    BY <1>1, SettleHolds DEF States
  <1>5. QED
    BY <1>2, <1>3, <1>4

\* schedule, called with lists that hold everybody who is not RUNNING, leaves
\* lists that do, with current_process the one RUNNING process.
LEMMA ScheduleHolds ==
    ASSUME TypeOK, NEW m, NEW st \in [Slots -> States],
           Holds(m, Homes(used, st, priority)),
           \A s \in Slots : used[s] /\ st[s] = "RUNNING" => s = current,
           current # NULL => used[current],
           Schedule(m, st)
    PROVE  /\ state' \in [Slots -> States]
           /\ current' \in Slots \cup {NULL}
           /\ slice' \in 0 .. DefaultSlice
           /\ Holds(lists', Homes(used, state', priority))
           /\ \A s \in Slots : (used[s] /\ state'[s] = "RUNNING") <=> s = current'
  <1> DEFINE preempted == current # NULL /\ st[current] = "RUNNING"
             m1  == IF preempted THEN AddToReadyQueue(m, priority[current], current) ELSE m
             st1 == IF preempted THEN [st EXCEPT ![current] = "READY"] ELSE st
  <1>1. Dispatch(m1, st1)
    BY DEF Schedule
  <1>2. /\ priority \in [Slots -> Levels] /\ used \in [Slots -> BOOLEAN]
        /\ current \in Slots \cup {NULL}
    BY DEF TypeOK
  <1>3. /\ st1 \in [Slots -> States]
        /\ \A s \in Slots : used[s] => st1[s] # "RUNNING"
    <2>1. CASE preempted
      <3>1. current \in Slots
        BY <2>1, <1>2
      <3>2. st1 = [st EXCEPT ![current] = "READY"]
        BY <2>1
      <3> HIDE DEF st1
      <3>3. QED
        BY <3>1, <3>2 DEF States
    <2>2. CASE ~preempted
      BY <2>2, NullAssumption
    <2>3. QED
      BY <2>1, <2>2
  <1>4. Holds(m1, Homes(used, st1, priority))
    BY <1>2, PreemptionHolds
  <1> HIDE DEF m1, st1
  <1>5. CASE \E l \in Levels :
                /\ m1.queue[l].head # NULL
                /\ lists' = DequeueProcess(m1, l)
                /\ current' = m1.queue[l].head
                /\ state' = [st1 EXCEPT ![m1.queue[l].head] = "RUNNING"]
                /\ slice' = DefaultSlice
    <2>1. PICK l \in Levels :
                /\ m1.queue[l].head # NULL
                /\ lists' = DequeueProcess(m1, l)
                /\ current' = m1.queue[l].head
                /\ state' = [st1 EXCEPT ![m1.queue[l].head] = "RUNNING"]
                /\ slice' = DefaultSlice
      BY <1>5
    <2> DEFINE h == m1.queue[l].head
               H == Homes(used, st1, priority)
    <2>2. l \in Queues
      BY QueueNumbers
    <2>3. h \in H[l]
      <3>1. m1 \in Lists /\ WellLinked(m1) /\ Members(m1, l) = H[l]
        BY <1>4, <2>2 DEF Holds
      <3>2. QED
        BY <2>1, <2>2, <3>1, HeadIsMember
    <2>4. h \in Slots /\ used[h] /\ st1[h] # "RUNNING" /\ l = Place(st1[h], priority[h])
      <3>1. h \in Slots
        BY <2>2, <2>3 DEF Homes
      <3>2. QED
        BY <3>1, <2>2, <2>3, <1>2, <1>3, OneHome
    <2>5. Holds(DequeueProcess(m1, l), Taken(H, l, h))
      BY <1>4, <2>1, <2>2, DequeueHolds
    <2>6. state' \in [Slots -> States] /\ state'[h] = "RUNNING"
          /\ \A r \in Slots : r # h => state'[r] = st1[r]
      BY <2>1, <2>4, <1>3 DEF States
    <2>7. \A j \in Queues : Homes(used, state', priority)[j] = Taken(H, l, h)[j]
      <3> HIDE DEF h
      <3>1. QED
        BY <2>4, <2>6, <1>2, <1>3, Vacated
    <2>8. Holds(lists', Homes(used, state', priority))
      BY <2>1, <2>5, <2>7, HoldsSame
    <2>9. slice' \in 0 .. DefaultSlice
      BY <2>1, ParametersAssumption
    <2>10. \A s \in Slots : (used[s] /\ state'[s] = "RUNNING") <=> s = current'
      BY <2>1, <2>4, <2>6, <1>3
    <2>11. QED
      BY <2>1, <2>4, <2>6, <2>8, <2>9, <2>10
  <1>6. CASE lists' = m1 /\ current' = NULL /\ state' = st1 /\ slice' = 0
    BY <1>3, <1>4, <1>6, NullAssumption, ParametersAssumption
  <1>7. QED
    BY <1>1, <1>5, <1>6 DEF Dispatch

\* wake_waiting_parent takes the woken parent, if there is one, from the blocked
\* queue to its ready queue and makes it READY.
LEMMA WakeHolds ==
    ASSUME TypeOK, PidsUnique, NEW m, NEW st \in [Slots -> States],
           Holds(m, Homes(used, st, priority)),
           NEW c \in Slots, NEW W, W = WaitersFor(c, st)
    PROVE  /\ Holds(WakeLists(m, W), Homes(used, WakeState(st, W), priority))
           /\ WakeState(st, W) \in [Slots -> States]
           /\ WakeResult(c, W) \in [Slots -> Nat]
           /\ W \subseteq Slots
           /\ \A s \in W : used[s] /\ st[s] = "BLOCKED"
  <1>1. /\ W \subseteq Slots
        /\ \A s \in W : used[s] /\ st[s] = "BLOCKED" /\ pid[s] = ppid[c]
    BY DEF WaitersFor, Live
  <1>2. \A s, r \in W : s = r
    BY <1>1 DEF PidsUnique
  <1>3. WakeState(st, W) \in [Slots -> States] /\ WakeResult(c, W) \in [Slots -> Nat]
    BY DEF WakeState, WakeResult, TypeOK, States
  <1>4. Holds(WakeLists(m, W), Homes(used, WakeState(st, W), priority))
    <2>1. CASE W = {}
      <3>1. WakeState(st, W) = st /\ WakeLists(m, W) = m
        BY <2>1 DEF WakeState, WakeLists
      <3>2. QED
        BY <3>1
    <2>2. CASE W # {}
      <3> DEFINE p == CHOOSE p \in W : TRUE
      <3>1. p \in W /\ p \in Slots /\ used[p] /\ st[p] = "BLOCKED" /\ W = {p}
        BY <2>2, <1>1, <1>2
      <3>2. priority \in [Slots -> Levels] /\ used \in [Slots -> BOOLEAN]
        BY DEF TypeOK
      <3>3. WakeLists(m, W) = AddToReadyQueue(RemoveProcess(m, BlockedQ, p), priority[p], p)
        BY <2>2 DEF WakeLists
      <3> HIDE DEF p
      <3>4. priority[p] \in Levels /\ priority[p] \in Nat
        BY <3>1, <3>2 DEF Levels
      <3>5. WakeLists(m, W) =
            EnqueueProcess(RemoveProcess(m, Place(st[p], priority[p]), p),
                           Place("READY", priority[p]), p)
        BY <3>1, <3>3, <3>4, ClampLevels DEF AddToReadyQueue, Place
      <3>6. WakeState(st, W) = [st EXCEPT ![p] = "READY"]
        BY <3>1 DEF WakeState
      <3>7. "READY" \in States /\ "READY" # "RUNNING" /\ st[p] # "RUNNING"
        BY <3>1 DEF States
      <3>8. Holds(EnqueueProcess(RemoveProcess(m, Place(st[p], priority[p]), p),
                                 Place("READY", priority[p]), p),
                  Homes(used, [st EXCEPT ![p] = "READY"], priority))
        BY <3>1, <3>2, <3>7, MoveHolds
      <3>9. QED
        BY <3>5, <3>6, <3>8
    <2>3. QED
      BY <2>1, <2>2
  <1>5. QED
    BY <1>1, <1>3, <1>4

-----------------------------------------------------------------------------
(* Every step keeps the invariant: one lemma per handler.                  *)

\* process_init leaves every queue empty and every slot free.
LEMMA InitInvariant == Init => IInv
  <1> SUFFICES ASSUME Init PROVE IInv
    OBVIOUS
  <1>1. TypeOK
    <2>1. 0 \in Levels /\ 0 \in 0 .. DefaultSlice
      BY SizesAssumption, ParametersAssumption DEF Levels
    <2>2. EmptyQueue \in QueueRecord
      BY DEF EmptyQueue, QueueRecord
    <2>3. lists \in Lists
      BY <2>2 DEF Init, EmptyLists, Lists
    <2>4. nextPid \in Nat \ {0} /\ 0 \in Nat
      BY DEF Init
    <2>5. /\ used \in [Slots -> BOOLEAN] /\ inWait \in [Slots -> BOOLEAN]
          /\ state \in [Slots -> States] /\ priority \in [Slots -> Levels]
      BY <2>1 DEF Init, States
    <2>6. /\ pid \in [Slots -> Nat] /\ ppid \in [Slots -> Nat]
          /\ waitPid \in [Slots -> Nat] /\ waitResult \in [Slots -> Nat]
      BY <2>4 DEF Init
    <2>7. current \in Slots \cup {NULL} /\ slice \in 0 .. DefaultSlice /\ started \in BOOLEAN
      BY <2>1 DEF Init
    <2>8. QED
      BY <2>3, <2>4, <2>5, <2>6, <2>7 DEF TypeOK
  <1>2. \A k \in Queues : lists.queue[k] = EmptyQueue
    BY DEF Init, EmptyLists
  <1>3. \A k \in Queues : Members(lists, k) = {}
    BY <1>2, ReachNull DEF Members, EmptyQueue
  <1>4. \A s \in Slots : lists.next[s] = NULL
    BY DEF Init, EmptyLists
  <1>5. WellLinked(lists)
    BY <1>2, <1>3, <1>4 DEF WellLinked, EmptyQueue
  <1>6. Counted(lists)
    BY <1>2, <1>3, FS_EmptySet DEF Counted, EmptyQueue
  <1>7. \A k \in Queues : Residents(k) = {}
    BY DEF Residents, Init
  <1>8. CurrentRuns /\ PidsUnique
    BY NullAssumption DEF Init, CurrentRuns, PidsUnique
  <1>9. QED
    BY <1>1, <1>3, <1>5, <1>6, <1>7, <1>8
    DEF IInv, SchedulerInv, CountsAreExact, QueuesHoldTheirProcesses

\* process_create and process_fork, when they succeed.
LEMMA CreateKeeps ==
    ASSUME IInv, NEW s \in Slots, FirstFree(s), NEW pr \in Nat, CreateInSlot(s, pr)
    PROVE  IInv'
  <1> USE DEF CreateInSlot
  <1>1. TypeOK /\ Holds(lists, Homes(used, state, priority)) /\ CurrentRuns /\ PidsUnique
    BY InvariantHolds DEF IInv, SchedulerInv
  <1>2. ~used[s]
    BY DEF FirstFree
  <1>3. ClampPriority(pr) \in Levels
    BY ClampLevels
  <1>4. /\ priority' \in [Slots -> Levels] /\ priority'[s] = ClampPriority(pr)
        /\ \A r \in Slots : r # s => priority'[r] = priority[r]
        /\ used \in [Slots -> BOOLEAN] /\ state \in [Slots -> States]
    BY <1>1, <1>3 DEF TypeOK
  <1>5. \A j \in Queues : Homes(used, state, priority')[j] = Homes(used, state, priority)[j]
    BY <1>2, <1>4 DEF Homes
  <1>6. Holds(lists, Homes(used, state, priority'))
    BY <1>1, <1>5, HoldsSame
  <1>7. lists' = EnqueueProcess(lists, Place("READY", priority'[s]), s)
    BY <1>4 DEF AddToReadyQueue, Place
  <1>8. Holds(lists', Homes(used', state', priority'))
    <2>1. "READY" \in States /\ "READY" # "RUNNING"
      BY DEF States
    <2>2. Holds(EnqueueProcess(lists, Place("READY", priority'[s]), s),
                Homes([used EXCEPT ![s] = TRUE], [state EXCEPT ![s] = "READY"], priority'))
      BY <2>1, <1>2, <1>4, <1>6, SettleHolds
    <2>3. used' = [used EXCEPT ![s] = TRUE] /\ state' = [state EXCEPT ![s] = "READY"]
      OBVIOUS
    <2>4. QED
      BY <2>2, <2>3, <1>7
  <1>9. TypeOK'
    <2>1. lists' \in Lists
      BY <1>8 DEF Holds
    <2>2. CallerPid \in Nat
      BY <1>1 DEF CallerPid, TypeOK
    <2>3. QED
      BY <2>1, <2>2, <1>1, <1>4 DEF TypeOK, States
  <1>10. CurrentRuns'
    BY <1>1, <1>2, <1>4 DEF CurrentRuns, TypeOK
  <1>11. PidsUnique'
    BY <1>1, <1>2 DEF PidsUnique, TypeOK
  <1>12. QED
    BY <1>8, <1>9, <1>10, <1>11
    DEF IInv, TypeOK, SchedulerInv, CountsAreExact, QueuesHoldTheirProcesses,
        Residents, Holds, Homes

\* A creation that fails only consumes a pid.
LEMMA CreateFailsKeeps ==
    ASSUME IInv, CreateFails
    PROVE  IInv'
  BY DEF IInv, CreateFails, identity, TypeOK, SchedulerInv, WellLinked, CountsAreExact,
         Counted, Members, QueuesHoldTheirProcesses, Residents, CurrentRuns, PidsUnique

\* What the invariant says, in the form the handlers' lemmas use it.
LEMMA InvariantUse ==
    ASSUME IInv
    PROVE  /\ TypeOK /\ CurrentRuns /\ PidsUnique
           /\ Holds(lists, Homes(used, state, priority))
           /\ used \in [Slots -> BOOLEAN]
           /\ state \in [Slots -> States]
           /\ priority \in [Slots -> Levels]
           /\ current \in Slots \cup {NULL}
           /\ current # NULL => used[current] /\ state[current] = "RUNNING"
  BY InvariantHolds DEF IInv, SchedulerInv, TypeOK, CurrentRuns

\* A handler that ends in schedule keeps the invariant when it calls it with lists
\* that hold everybody who is not RUNNING.
LEMMA SchedulingKeeps ==
    ASSUME IInv, NEW m, NEW st \in [Slots -> States],
           Holds(m, Homes(used, st, priority)),
           \A s \in Slots : used[s] /\ st[s] = "RUNNING" => s = current,
           Schedule(m, st),
           UNCHANGED <<used, pid, ppid, priority, nextPid>>,
           waitPid' \in [Slots -> Nat], waitResult' \in [Slots -> Nat],
           inWait' \in [Slots -> BOOLEAN], started' \in BOOLEAN
    PROVE  IInv'
  <1>1. TypeOK /\ PidsUnique /\ (current # NULL => used[current])
    BY InvariantUse
  <1>2. /\ state' \in [Slots -> States]
        /\ current' \in Slots \cup {NULL}
        /\ slice' \in 0 .. DefaultSlice
        /\ Holds(lists', Homes(used, state', priority))
        /\ \A s \in Slots : (used[s] /\ state'[s] = "RUNNING") <=> s = current'
    BY <1>1, ScheduleHolds
  <1>3. TypeOK'
    BY <1>1, <1>2 DEF TypeOK, Holds
  <1>4. CurrentRuns' /\ PidsUnique'
    BY <1>1, <1>2 DEF CurrentRuns, PidsUnique
  <1>5. QED
    BY <1>2, <1>3, <1>4
    DEF IInv, TypeOK, SchedulerInv, CountsAreExact, QueuesHoldTheirProcesses,
        Residents, Holds, Homes

\* scheduler_start dispatches the first process.
LEMMA SchedulerStartKeeps == ASSUME IInv, SchedulerStart PROVE IInv'
  <1>1. \A s \in Slots : used[s] /\ state[s] = "RUNNING" => s = current
    BY InvariantUse DEF CurrentRuns
  <1>2. /\ waitPid' \in [Slots -> Nat] /\ waitResult' \in [Slots -> Nat]
        /\ inWait' \in [Slots -> BOOLEAN] /\ started' \in BOOLEAN
        /\ Schedule(lists, state) /\ UNCHANGED <<used, pid, ppid, priority, nextPid>>
    BY InvariantUse DEF SchedulerStart, identity, TypeOK
  <1>3. QED
    BY <1>1, <1>2, InvariantUse, SchedulingKeeps

\* timer_handler counts a tick or preempts the running process.
LEMMA TimerHandlerKeeps == ASSUME IInv, TimerHandler PROVE IInv'
  <1>1. CASE slice > 1
    <2>1. /\ slice' = slice - 1
          /\ UNCHANGED <<used, pid, ppid, priority, state, waitPid, waitResult, inWait,
                         lists, current, nextPid, started>>
      BY <1>1 DEF TimerHandler, identity
    <2>2. slice' \in 0 .. DefaultSlice
      BY <2>1, <1>1, InvariantUse, ParametersAssumption DEF TypeOK
    <2>3. TypeOK'
      BY <2>1, <2>2, InvariantUse DEF TypeOK
    <2>4. SchedulerInv'
      BY <2>1 DEF IInv, SchedulerInv, WellLinked, CountsAreExact, Counted, Members,
                  QueuesHoldTheirProcesses, Residents, CurrentRuns, PidsUnique
    <2>5. QED
      BY <2>3, <2>4 DEF IInv
  <1>2. CASE ~(slice > 1)
    <2>1. \A s \in Slots : used[s] /\ state[s] = "RUNNING" => s = current
      BY InvariantUse DEF CurrentRuns
    <2>2. /\ waitPid' \in [Slots -> Nat] /\ waitResult' \in [Slots -> Nat]
          /\ inWait' \in [Slots -> BOOLEAN] /\ started' \in BOOLEAN
          /\ Schedule(lists, state) /\ UNCHANGED <<used, pid, ppid, priority, nextPid>>
      BY <1>2, InvariantUse DEF TimerHandler, identity, TypeOK
    <2>3. QED
      BY <2>1, <2>2, InvariantUse, SchedulingKeeps
  <1>3. QED
    BY <1>1, <1>2

\* process_exit calls schedule with lists that hold everybody who does not run: the
\* parent has moved to a ready queue, the caller to the zombie queue.
LEMMA ExitHolds ==
    ASSUME IInv, current # NULL,
           NEW W, W = WaitersFor(current, [state EXCEPT ![current] = "ZOMBIE"]),
           NEW st, st = WakeState([state EXCEPT ![current] = "ZOMBIE"], W)
    PROVE  /\ st \in [Slots -> States]
           /\ Holds(EnqueueProcess(WakeLists(lists, W), ZombieQ, current),
                    Homes(used, st, priority))
           /\ \A s \in Slots : used[s] /\ st[s] = "RUNNING" => s = current
           /\ WakeResult(current, W) \in [Slots -> Nat]
  <1> DEFINE st0 == WakeState(state, W)
             m0  == WakeLists(lists, W)
             m1  == EnqueueProcess(m0, ZombieQ, current)
  <1>1. current \in Slots /\ used[current] /\ state[current] = "RUNNING"
    BY InvariantUse
  <1>2. /\ TypeOK /\ PidsUnique /\ CurrentRuns /\ Holds(lists, Homes(used, state, priority))
        /\ used \in [Slots -> BOOLEAN] /\ state \in [Slots -> States]
        /\ priority \in [Slots -> Levels]
    BY InvariantUse
  <1>3. WaitersFor(current, state) = W
    BY <1>1, <1>2 DEF WaitersFor, Live
  <1>4. /\ Holds(m0, Homes(used, st0, priority)) /\ st0 \in [Slots -> States]
        /\ WakeResult(current, W) \in [Slots -> Nat]
        /\ W \subseteq Slots /\ \A s \in W : used[s] /\ state[s] = "BLOCKED"
    <2>1. W = WaitersFor(current, state)
      BY <1>3
    <2> HIDE DEF st0, m0
    <2>2. QED
      BY <1>1, <1>2, <2>1, WakeHolds DEF st0, m0
  <1>5. st = [st0 EXCEPT ![current] = "ZOMBIE"]
    BY <1>1, <1>2, <1>4 DEF WakeState
  <1>6. st0[current] = "RUNNING" /\ \A s \in Slots : st0[s] = "RUNNING" => state[s] = "RUNNING"
    BY <1>1, <1>2, <1>4 DEF WakeState
  <1> HIDE DEF st0, m0
  <1>7. Holds(m1, Homes(used, st, priority))
    <2>1. "ZOMBIE" \in States /\ "ZOMBIE" # "RUNNING" /\ Place("ZOMBIE", priority[current]) = ZombieQ
      BY DEF States, Place
    <2>2. [used EXCEPT ![current] = TRUE] = used
      BY <1>1, <1>2
    <2>3. Holds(EnqueueProcess(m0, Place("ZOMBIE", priority[current]), current),
                Homes([used EXCEPT ![current] = TRUE], [st0 EXCEPT ![current] = "ZOMBIE"],
                      priority))
      BY <1>1, <1>2, <1>4, <1>6, <2>1, SettleHolds
    <2>4. QED
      BY <2>1, <2>2, <2>3, <1>5
  <1>8. st \in [Slots -> States] /\ \A s \in Slots : used[s] /\ st[s] = "RUNNING" => s = current
    BY <1>1, <1>2, <1>4, <1>5, <1>6 DEF CurrentRuns, States
  <1>9. QED
    BY <1>4, <1>7, <1>8 DEF m0

\* process_exit: the parent moves to a ready queue, the caller to the zombie queue.
LEMMA ProcessExitKeeps == ASSUME IInv, ProcessExit PROVE IInv'
  <1> DEFINE W  == WaitersFor(current, [state EXCEPT ![current] = "ZOMBIE"])
             st == WakeState([state EXCEPT ![current] = "ZOMBIE"], W)
             m  == EnqueueProcess(WakeLists(lists, W), ZombieQ, current)
  <1>1. /\ current # NULL /\ Schedule(m, st) /\ waitResult' = WakeResult(current, W)
        /\ UNCHANGED <<used, pid, ppid, priority, waitPid, inWait, nextPid, started>>
    BY DEF ProcessExit, Calling, identity
  <1>2. /\ st \in [Slots -> States]
        /\ Holds(m, Homes(used, st, priority))
        /\ \A s \in Slots : used[s] /\ st[s] = "RUNNING" => s = current
        /\ WakeResult(current, W) \in [Slots -> Nat]
    BY <1>1, ExitHolds
  <1>3. /\ waitPid' \in [Slots -> Nat] /\ waitResult' \in [Slots -> Nat]
        /\ inWait' \in [Slots -> BOOLEAN] /\ started' \in BOOLEAN
    BY <1>1, <1>2, InvariantUse DEF TypeOK
  <1> HIDE DEF m, st, W
  <1>4. QED
    BY <1>1, <1>2, <1>3, SchedulingKeeps

\* process_wait collecting a zombie: the freed slot leaves the zombie queue.
LEMMA WaitCollectsKeeps == ASSUME IInv, NEW c \in Slots, WaitCollects(c) PROVE IInv'
  <1>1. /\ TypeOK /\ PidsUnique /\ CurrentRuns /\ Holds(lists, Homes(used, state, priority))
        /\ used \in [Slots -> BOOLEAN] /\ state \in [Slots -> States]
        /\ priority \in [Slots -> Levels]
    BY InvariantUse
  <1>2. /\ used[c] /\ state[c] = "ZOMBIE"
        /\ used' = [used EXCEPT ![c] = FALSE] /\ lists' = RemoveProcess(lists, ZombieQ, c)
        /\ UNCHANGED <<pid, ppid, priority, state, waitPid, waitResult, inWait, current,
                       nextPid, slice, started>>
    BY DEF WaitCollects, IsChild, Live, CollectZombie, identity
  <1>3. /\ used' \in [Slots -> BOOLEAN] /\ ~used'[c]
        /\ \A s \in Slots : s # c => used'[s] = used[s]
    BY <1>1, <1>2
  <1> DEFINE H == Homes(used, state, priority)
  <1>4. ZombieQ \in Queues /\ c \in H[ZombieQ] /\ Place(state[c], priority[c]) = ZombieQ
    BY <1>1, <1>2, QueueNumbers, OneHome DEF Place
  <1>5. Holds(lists', Taken(H, ZombieQ, c))
    BY <1>1, <1>2, <1>4, RemoveHolds
  <1>6. \A j \in Queues : Homes(used', state, priority)[j] = Taken(H, ZombieQ, c)[j]
    <2>1. state[c] # "RUNNING" /\ \A r \in Slots : r # c => used'[r] = used[r] /\ state[r] = state[r]
      BY <1>2, <1>3
    <2>2. ASSUME NEW j \in Queues
          PROVE  Homes(used', state, priority)[j] = Taken(H, Place(state[c], priority[c]), c)[j]
      <3> DEFINE nu == used'
      <3>1. /\ nu \in [Slots -> BOOLEAN] /\ ~nu[c]
            /\ \A r \in Slots : r # c => nu[r] = used[r] /\ state[r] = state[r]
        BY <1>3, <2>1
      <3>2. used[c]
        BY <1>2
      <3>3. used \in [Slots -> BOOLEAN] /\ state \in [Slots -> States]
            /\ priority \in [Slots -> Levels]
        BY <1>1
      <3> HIDE DEF nu
      <3>4. Homes(nu, state, priority)[j] = Taken(Homes(used, state, priority), Place(state[c], priority[c]), c)[j]
        BY <3>1, <3>2, <3>3, <2>1, Vacated
      <3>5. QED
        BY <3>4 DEF nu
    <2>3. QED
      BY <2>2, <1>4
  <1> HIDE DEF H
  <1>7. Holds(lists', Homes(used', state, priority))
    BY <1>5, <1>6, HoldsSame
  <1>8. TypeOK'
    <2>1. lists' \in Lists
      BY <1>7 DEF Holds
    <2>2. QED
      BY <2>1, <1>1, <1>2, <1>3 DEF TypeOK
  <1>9. CurrentRuns' /\ PidsUnique'
    BY <1>1, <1>2, <1>3 DEF CurrentRuns, PidsUnique
  <1>10. QED
    BY <1>2, <1>7, <1>8, <1>9
    DEF IInv, TypeOK, SchedulerInv, CountsAreExact, QueuesHoldTheirProcesses,
        Residents, Holds, Homes

\* process_wait calls schedule with the caller on the blocked queue.
LEMMA BlockHolds ==
    ASSUME IInv, current # NULL
    PROVE  /\ [state EXCEPT ![current] = "BLOCKED"] \in [Slots -> States]
           /\ Holds(EnqueueProcess(lists, BlockedQ, current),
                    Homes(used, [state EXCEPT ![current] = "BLOCKED"], priority))
  <1>1. /\ current \in Slots /\ used[current] /\ state[current] = "RUNNING"
        /\ Holds(lists, Homes(used, state, priority))
        /\ used \in [Slots -> BOOLEAN] /\ state \in [Slots -> States]
        /\ priority \in [Slots -> Levels]
    BY InvariantUse
  <1>2. "BLOCKED" \in States /\ "BLOCKED" # "RUNNING"
        /\ Place("BLOCKED", priority[current]) = BlockedQ
    BY DEF States, Place
  <1>3. [used EXCEPT ![current] = TRUE] = used
    BY <1>1
  <1>4. Holds(EnqueueProcess(lists, Place("BLOCKED", priority[current]), current),
              Homes([used EXCEPT ![current] = TRUE], [state EXCEPT ![current] = "BLOCKED"],
                    priority))
    BY <1>1, <1>2, SettleHolds
  <1>5. QED
    BY <1>1, <1>2, <1>3, <1>4

\* process_wait blocking the caller.
LEMMA WaitBlocksKeeps ==
    ASSUME IInv, NEW c \in Slots, NEW w \in Nat, WaitBlocks(c, w)
    PROVE  IInv'
  <1> DEFINE m  == EnqueueProcess(lists, BlockedQ, current)
             st == [state EXCEPT ![current] = "BLOCKED"]
  <1>1. Schedule(m, st) /\ current # NULL
    BY DEF WaitBlocks, BlockCaller, Calling
  <1>2. Holds(m, Homes(used, st, priority)) /\ st \in [Slots -> States]
    BY <1>1, BlockHolds
  <1>3. \A s \in Slots : used[s] /\ st[s] = "RUNNING" => s = current
    BY InvariantUse DEF CurrentRuns
  <1>4. /\ waitPid' \in [Slots -> Nat] /\ waitResult' \in [Slots -> Nat]
        /\ inWait' \in [Slots -> BOOLEAN] /\ started' \in BOOLEAN
        /\ UNCHANGED <<used, pid, ppid, priority, nextPid>>
    BY InvariantUse DEF WaitBlocks, BlockCaller, identity, TypeOK
  <1> HIDE DEF m, st
  <1>5. QED
    BY <1>1, <1>2, <1>3, <1>4, SchedulingKeeps

\* A blocked process_wait that returns touches no queue.
LEMMA WaitReturnsKeeps == ASSUME IInv, WaitReturns PROVE IInv'
  <1>1. /\ inWait' \in [Slots -> BOOLEAN]
        /\ UNCHANGED <<used, pid, ppid, priority, state, waitPid, waitResult,
                       lists, current, nextPid, slice, started>>
    BY InvariantUse DEF WaitReturns, identity, TypeOK
  <1>2. TypeOK'
    BY <1>1, InvariantUse DEF TypeOK
  <1>3. SchedulerInv'
    BY <1>1 DEF IInv, SchedulerInv, WellLinked, CountsAreExact, Counted, Members,
                QueuesHoldTheirProcesses, Residents, CurrentRuns, PidsUnique
  <1>4. QED
    BY <1>2, <1>3 DEF IInv

\* A handler that changes only states, lists and wait results, and neither makes
\* a process RUNNING nor stops the one that is.
LEMMA RequeueingKeeps ==
    ASSUME IInv, Holds(lists', Homes(used, state', priority)),
           state' \in [Slots -> States], waitResult' \in [Slots -> Nat],
           \A s \in Slots : state'[s] = "RUNNING" <=> state[s] = "RUNNING",
           UNCHANGED <<used, pid, ppid, priority, waitPid, inWait, current, nextPid,
                       slice, started>>
    PROVE  IInv'
  <1>1. TypeOK'
    BY InvariantUse DEF TypeOK, Holds
  <1>2. CurrentRuns' /\ PidsUnique'
    BY InvariantUse DEF CurrentRuns, PidsUnique
  <1>3. QED
    BY <1>1, <1>2
    DEF IInv, TypeOK, SchedulerInv, CountsAreExact, QueuesHoldTheirProcesses,
        Residents, Holds, Homes

\* SIGTERM and SIGKILL to a READY process.
LEMMA TerminateKeeps ==
    ASSUME IInv, NEW p \in Slots, used[p], state[p] = "READY", Terminate(p),
           UNCHANGED <<used, pid, ppid, priority, waitPid, inWait, current, nextPid,
                       slice, started>>
    PROVE  IInv'
  <1> DEFINE st == [state EXCEPT ![p] = "ZOMBIE"]
             W  == WaitersFor(p, st)
             m  == EnqueueProcess(RemoveProcess(lists, priority[p], p), ZombieQ, p)
  <1>1. /\ TypeOK /\ PidsUnique /\ Holds(lists, Homes(used, state, priority))
        /\ used \in [Slots -> BOOLEAN] /\ state \in [Slots -> States]
        /\ priority \in [Slots -> Levels]
    BY InvariantUse
  <1>2. st \in [Slots -> States]
        /\ \A s \in Slots : st[s] = "RUNNING" <=> state[s] = "RUNNING"
    BY <1>1 DEF States
  <1>3. Holds(m, Homes(used, st, priority))
    <2>1. /\ Place(state[p], priority[p]) = priority[p]
          /\ Place("ZOMBIE", priority[p]) = ZombieQ
          /\ "ZOMBIE" \in States /\ "ZOMBIE" # "RUNNING" /\ state[p] # "RUNNING"
      BY DEF Place, States
    <2>2. Holds(EnqueueProcess(RemoveProcess(lists, Place(state[p], priority[p]), p),
                               Place("ZOMBIE", priority[p]), p),
                Homes(used, [state EXCEPT ![p] = "ZOMBIE"], priority))
      BY <1>1, <2>1, MoveHolds
    <2>3. QED
      BY <2>1, <2>2
  <1>4. /\ state' = WakeState(st, W) /\ waitResult' = WakeResult(p, W)
        /\ lists' = WakeLists(m, W)
    BY DEF Terminate
  <1> HIDE DEF st, m
  <1>5. /\ Holds(WakeLists(m, W), Homes(used, WakeState(st, W), priority))
        /\ WakeState(st, W) \in [Slots -> States]
        /\ WakeResult(p, W) \in [Slots -> Nat]
        /\ \A s \in W : used[s] /\ st[s] = "BLOCKED"
    BY <1>1, <1>2, <1>3, WakeHolds
  <1>6. \A s \in Slots : state'[s] = "RUNNING" <=> state[s] = "RUNNING"
    BY <1>2, <1>4, <1>5 DEF WakeState
  <1>7. QED
    BY <1>4, <1>5, <1>6, RequeueingKeeps

\* SIGSTOP to a READY process.
LEMMA StopKeeps ==
    ASSUME IInv, NEW p \in Slots, used[p], state[p] = "READY", Stop(p),
           UNCHANGED <<used, pid, ppid, priority, waitPid, inWait, current, nextPid,
                       slice, started>>
    PROVE  IInv'
  <1>1. /\ TypeOK /\ Holds(lists, Homes(used, state, priority))
        /\ used \in [Slots -> BOOLEAN] /\ state \in [Slots -> States]
        /\ priority \in [Slots -> Levels]
    BY InvariantUse
  <1>2. /\ Place(state[p], priority[p]) = priority[p]
        /\ Place("BLOCKED", priority[p]) = BlockedQ
        /\ "BLOCKED" \in States /\ "BLOCKED" # "RUNNING" /\ state[p] # "RUNNING"
    BY DEF Place, States
  <1>3. Holds(EnqueueProcess(RemoveProcess(lists, Place(state[p], priority[p]), p),
                             Place("BLOCKED", priority[p]), p),
              Homes(used, [state EXCEPT ![p] = "BLOCKED"], priority))
    BY <1>1, <1>2, MoveHolds
  <1>4. Holds(lists', Homes(used, state', priority))
    BY <1>2, <1>3 DEF Stop
  <1>5. /\ state' \in [Slots -> States] /\ waitResult' \in [Slots -> Nat]
        /\ \A s \in Slots : state'[s] = "RUNNING" <=> state[s] = "RUNNING"
    BY <1>1 DEF Stop, TypeOK, States
  <1>6. QED
    BY <1>4, <1>5, RequeueingKeeps

\* SIGCONT to a BLOCKED process.
LEMMA ContinueKeeps ==
    ASSUME IInv, NEW p \in Slots, used[p], Continue(p),
           UNCHANGED <<used, pid, ppid, priority, waitPid, inWait, current, nextPid,
                       slice, started>>
    PROVE  IInv'
  <1>1. /\ TypeOK /\ Holds(lists, Homes(used, state, priority))
        /\ used \in [Slots -> BOOLEAN] /\ state \in [Slots -> States]
        /\ priority \in [Slots -> Levels] /\ state[p] = "BLOCKED"
    BY InvariantUse DEF Continue
  <1>2. /\ Place(state[p], priority[p]) = BlockedQ
        /\ Place("READY", priority[p]) = priority[p]
        /\ "READY" \in States /\ "READY" # "RUNNING" /\ state[p] # "RUNNING"
    BY <1>1 DEF Place, States
  <1>3. Holds(EnqueueProcess(RemoveProcess(lists, Place(state[p], priority[p]), p),
                             Place("READY", priority[p]), p),
              Homes(used, [state EXCEPT ![p] = "READY"], priority))
    BY <1>1, <1>2, MoveHolds
  <1>4. Holds(lists', Homes(used, state', priority))
    <2>1. priority[p] \in Levels /\ priority[p] \in Nat
      BY <1>1 DEF Levels
    <2>2. QED
      BY <2>1, <1>2, <1>3, ClampLevels DEF Continue, AddToReadyQueue
  <1>5. /\ state' \in [Slots -> States] /\ waitResult' \in [Slots -> Nat]
        /\ \A s \in Slots : state'[s] = "RUNNING" <=> state[s] = "RUNNING"
    BY <1>1 DEF Continue, TypeOK, States
  <1>6. QED
    BY <1>4, <1>5, RequeueingKeeps

\* process_kill, for the deliveries that SafeDelivery allows.
LEMMA ProcessKillKeeps ==
    ASSUME SafeDelivery, IInv, NEW p \in Slots, NEW signal \in Signals,
           ProcessKill(p, signal)
    PROVE  IInv'
  <1>1. /\ used[p] /\ <<signal, state[p]>> \in Deliverable
        /\ UNCHANGED <<used, pid, ppid, priority, waitPid, inWait, current, nextPid,
                       slice, started>>
    BY DEF ProcessKill, Live, identity
  <1>2. /\ signal = "KILL" => state[p] = "READY"
        /\ signal = "STOP" => state[p] # "RUNNING"
    BY <1>1 DEF SafeDelivery
  <1>3. CASE signal = "KILL" /\ Terminate(p)
    BY <1>1, <1>2, <1>3, TerminateKeeps
  <1>4. CASE signal = "STOP" /\ Stop(p)
    BY <1>1, <1>2, <1>4, StopKeeps DEF Stop
  <1>5. CASE signal = "CONT" /\ Continue(p)
    BY <1>1, <1>5, ContinueKeeps
  <1>6. QED
    BY <1>3, <1>4, <1>5 DEF ProcessKill

-----------------------------------------------------------------------------
\* Every handler preserves the invariant.
LEMMA NextKeeps == ASSUME SafeDelivery, IInv, [Next]_vars PROVE IInv'
  <1>1. ASSUME NEW pr \in Priorities, ProcessCreate(pr) PROVE IInv'
    <2>1. pr \in Nat
      BY ParametersAssumption
    <2>2. QED
      BY <1>1, <2>1, CreateKeeps, CreateFailsKeeps DEF ProcessCreate
  <1>2. ASSUME ProcessFork PROVE IInv'
    <2>1. current \in Slots /\ priority[current] \in Nat
      BY <1>2, InvariantUse DEF ProcessFork, Calling, Levels
    <2>2. QED
      BY <1>2, <2>1, CreateKeeps, CreateFailsKeeps DEF ProcessFork
  <1>3. ASSUME NEW c \in Slots, ProcessWait(c) PROVE IInv'
    <2>1. 0 \in Nat /\ pid[c] \in Nat
      BY InvariantUse DEF TypeOK
    <2>2. QED
      BY <1>3, <2>1, WaitCollectsKeeps, WaitBlocksKeeps DEF ProcessWait
  <1>4. ASSUME UNCHANGED vars PROVE IInv'
    BY <1>4 DEF vars, IInv, TypeOK, SchedulerInv, WellLinked, CountsAreExact, Counted,
                Members, QueuesHoldTheirProcesses, Residents, CurrentRuns, PidsUnique
  <1>5. QED
    BY <1>1, <1>2, <1>3, <1>4, SchedulerStartKeeps, TimerHandlerKeeps, ProcessExitKeeps,
       WaitReturnsKeeps, ProcessKillKeeps DEF Next

\* Whatever the number of slots, levels and pids: the handlers of process.c keep
\* the process table and the three kinds of queue consistent.
THEOREM SchedulerSafe ==
    ASSUME SafeDelivery
    PROVE  Spec => []IInv
  <1>1. Init => IInv
    BY InitInvariant
  <1>2. IInv /\ [Next]_vars => IInv'
    BY NextKeeps
  <1>3. QED
    BY <1>1, <1>2, PTL DEF Spec

\* Every variable of the process table keeps its type: no handler indexes a ready
\* queue past MAX_PRIORITY_LEVELS or leaves a dangling pointer behind.
THEOREM TypeCorrect ==
    ASSUME SafeDelivery
    PROVE  Spec => []TypeOK
  <1>1. IInv => TypeOK
    BY DEF IInv
  <1>2. QED
    BY <1>1, SchedulerSafe, PTL

\* The queues are well linked and counted, hold the right processes, and the
\* pids and current_process identify slots.
THEOREM QueuesConsistent ==
    ASSUME SafeDelivery
    PROVE  Spec => []SchedulerInv
  <1>1. IInv => SchedulerInv
    BY DEF IInv
  <1>2. QED
    BY <1>1, SchedulerSafe, PTL

\* A walk of a queue meets exactly the processes that belong on it.
THEOREM QueuesSound ==
    ASSUME SafeDelivery
    PROVE  Spec => []QueuesHoldTheirProcesses
  <1>1. IInv => QueuesHoldTheirProcesses
    BY DEF IInv, SchedulerInv
  <1>2. QED
    BY <1>1, SchedulerSafe, PTL

\* The stored count of a queue is its number of nodes.
THEOREM CountsSound ==
    ASSUME SafeDelivery
    PROVE  Spec => []CountsAreExact
  <1>1. IInv => CountsAreExact
    BY DEF IInv, SchedulerInv
  <1>2. QED
    BY <1>1, SchedulerSafe, PTL

-----------------------------------------------------------------------------
(* The queues implement first-come first-served queues.                    *)

Order == [k \in Queues |-> QueueOrder(lists, k)]

\* The queue names of the abstract queues are the queues.
LEMMA QueueNames == Fifo!Names = Queues
  BY SizesAssumption DEF Fifo!Names, Queues, Levels, BlockedQ, ZombieQ

\* Queues that follow one another evolve, read as sequences.
LEMMA FollowingEvolves ==
    ASSUME NEW m, NEW H, Holds(m, H), NEW n, NEW G, Holds(n, G), NEW k \in Queues,
           Follows(m, n, k),
           NEW old, old = QueueOrder(m, k), NEW new, new = QueueOrder(n, k)
    PROVE  Fifo!Evolves(old, new)
  <1>1. /\ m \in Lists /\ WellLinked(m) /\ Counted(m)
        /\ n \in Lists /\ WellLinked(n) /\ Counted(n)
    BY DEF Holds
  <1>2. /\ old \in Seq(Slots)
        /\ \A i \in 1 .. Len(old) : old[i] \in Members(m, k)
        /\ \A x \in Members(m, k) : \E i \in 1 .. Len(old) : old[i] = x
        /\ \A i, j \in 1 .. Len(old) : old[j] \in Reach(m.next, old[i]) <=> i <= j
    BY <1>1, QueueOrderIs
  <1>3. /\ new \in Seq(Slots)
        /\ \A i \in 1 .. Len(new) : new[i] \in Members(n, k)
        /\ \A i, j \in 1 .. Len(new) : new[j] \in Reach(n.next, new[i]) <=> i <= j
    BY <1>1, QueueOrderIs
  <1>4. DOMAIN old = 1 .. Len(old) /\ DOMAIN new = 1 .. Len(new)
        /\ Len(old) \in Nat /\ Len(new) \in Nat
    BY <1>2, <1>3
  <1>5. \A i, j \in 1 .. Len(old) : old[i] = old[j] => i = j
    BY <1>1, QueueOrderIs
  <1>6. ASSUME NEW i \in 1 .. Len(new), i < Len(new)
        PROVE  \E a \in 1 .. Len(old) : old[a] = new[i]
    <2>1. PICK z : z = Len(new) /\ z \in 1 .. Len(new)
      BY <1>4, <1>6
    <2>2. new[i] \notin Reach(n.next, new[z])
      BY <1>3, <1>4, <1>6, <2>1
    <2>3. new[i] \in Members(m, k)
      BY <1>3, <2>1, <2>2 DEF Follows
    <2>4. QED
      BY <1>2, <2>3
  <1>7. ASSUME NEW a \in 1 .. Len(old), NEW b \in 1 .. Len(old),
               NEW i \in 1 .. Len(new), NEW j \in 1 .. Len(new),
               a < b, old[a] = new[i], old[b] = new[j]
        PROVE  i < j
    <2>1. new[j] \in Reach(m.next, new[i]) /\ new[i] # new[j]
      BY <1>2, <1>4, <1>5, <1>7
    <2>2. new[j] \in Reach(n.next, new[i])
      BY <1>2, <1>3, <1>7, <2>1 DEF Follows
    <2>3. i <= j /\ i # j
      BY <1>3, <2>1, <2>2
    <2>4. QED
      BY <1>4, <2>3
  <1>8. \A i \in DOMAIN new : i < Len(new) => \E a \in DOMAIN old : old[a] = new[i]
    BY <1>4, <1>6
  <1>9. \A a, b \in DOMAIN old, i, j \in DOMAIN new :
           a < b /\ old[a] = new[i] /\ old[b] = new[j] => i < j
    BY <1>4, <1>7
  <1>10. QED
    BY <1>8, <1>9 DEF Fifo!Evolves

\* Queues without a head are empty sequences.
LEMMA HeadlessEmpty ==
    ASSUME NEW m, NEW H, Holds(m, H), NEW k \in Queues, m.queue[k].head = NULL
    PROVE  QueueOrder(m, k) = <<>>
  <1>1. PICK s : s = QueueOrder(m, k)
    OBVIOUS
  <1>2. Members(m, k) = {}
    BY HeadIsMember DEF Holds
  <1>3. /\ s \in Seq(Slots) /\ Len(s) \in Nat
        /\ \A i \in 1 .. Len(s) : s[i] \in Members(m, k)
    BY <1>1, QueueOrderIs DEF Holds
  <1>4. Len(s) = 0
    BY <1>2, <1>3
  <1>5. QED
    BY <1>1, <1>3, <1>4

\* In a consistent process table nobody is queued twice, or queued and running.
LEMMA QueuesExclude == IInv => Fifo!Exclusive
  <1> SUFFICES ASSUME IInv PROVE Fifo!Exclusive
    OBVIOUS
  <1>1. /\ lists \in Lists /\ WellLinked(lists) /\ Counted(lists)
        /\ \A k \in Queues : Members(lists, k) = Homes(used, state, priority)[k]
    BY InvariantUse DEF Holds
  <1>2. /\ used \in [Slots -> BOOLEAN] /\ state \in [Slots -> States]
        /\ priority \in [Slots -> Levels]
        /\ current \in Slots \cup {NULL}
        /\ current # NULL => state[current] = "RUNNING"
    BY InvariantUse
  <1>3. ASSUME NEW k \in Queues, NEW s, s = QueueOrder(lists, k)
        PROVE  /\ DOMAIN s = 1 .. Len(s)
               /\ \A i \in 1 .. Len(s) : s[i] \in Members(lists, k)
               /\ \A i, j \in 1 .. Len(s) : s[i] = s[j] => i = j
               /\ \A i \in 1 .. Len(s) : s[i] # current
    <2>1. /\ s \in Seq(Slots)
          /\ \A i \in 1 .. Len(s) : s[i] \in Members(lists, k)
          /\ \A i, j \in 1 .. Len(s) : s[i] = s[j] => i = j
      BY <1>1, <1>3, QueueOrderIs
    <2>2. current \notin Members(lists, k)
      <3>1. CASE current = NULL
        BY <3>1, MembersAreSlots, NullAssumption
      <3>2. CASE current # NULL
        <4>1. current \in Slots /\ state[current] = "RUNNING"
          BY <1>2, <3>2
        <4>2. current \notin Homes(used, state, priority)[k]
          BY <1>2, <4>1, OneHome
        <4>3. QED
          BY <1>1, <4>2
      <3>3. QED
        BY <3>1, <3>2
    <2>3. QED
      BY <2>1, <2>2
  <1>4. \A k, j \in Queues : k # j => Members(lists, k) \cap Members(lists, j) = {}
    BY <1>1 DEF WellLinked
  <1>5. ASSUME NEW k \in Queues
        PROVE  /\ Fifo!IsInjective(Order[k])
               /\ current \notin Fifo!Queued(k)
               /\ Fifo!Queued(k) \subseteq Members(lists, k)
    <2>1. Order[k] = QueueOrder(lists, k)
      BY DEF Order
    <2>2. QED
      BY <1>3, <2>1 DEF Fifo!IsInjective, Fifo!Queued, Order
  <1>6. QED
    BY <1>4, <1>5, QueueNames DEF Fifo!Exclusive, Order

\* One step of the abstract queues, whoever is queued where after it.
FifoStep == Fifo!Move \/ Fifo!Idle \/ \E l \in Levels : Fifo!Dispatch(l)

\* Lists that follow the old ones, with the same process running: a move.
LEMMA FollowingMoves ==
    ASSUME IInv, NEW G, Holds(lists', G), \A k \in Queues : Follows(lists, lists', k),
           current' = current
    PROVE  FifoStep
  <1>1. Holds(lists, Homes(used, state, priority))
    BY InvariantUse
  <1>2. ASSUME NEW k \in Queues
        PROVE  Fifo!Evolves(QueueOrder(lists, k), QueueOrder(lists', k))
    BY <1>1, FollowingEvolves
  <1>3. Fifo!Move
    BY <1>2, QueueNames DEF Fifo!Move
  <1>4. QED
    BY <1>3 DEF FifoStep

\* schedule takes the first of a queue, or finds all of them empty, on lists that
\* follow the old ones.
LEMMA DispatchFollows ==
    ASSUME IInv, NEW m, NEW H, Holds(m, H), \A k \in Queues : Follows(lists, m, k),
           NEW st, Dispatch(m, st)
    PROVE  FifoStep
  <1>1. Holds(lists, Homes(used, state, priority))
    BY InvariantUse
  <1>2. \A k \in Levels : k \in Queues
    BY QueueNumbers
  <1>3. ASSUME NEW l \in Levels, m.queue[l].head # NULL,
               lists' = DequeueProcess(m, l), current' = m.queue[l].head
        PROVE  FifoStep
    <2>1. Holds(lists', Taken(H, l, current'))
      BY <1>2, <1>3, DequeueHolds
    <2>2. QueueOrder(m, l) = <<current'>> \o QueueOrder(lists', l)
      BY <1>2, <1>3, DequeueOrder
    <2>3. Fifo!Evolves(QueueOrder(lists, l), <<current'>> \o QueueOrder(lists', l))
      BY <1>1, <1>2, <2>2, FollowingEvolves
    <2>4. ASSUME NEW k \in Queues
          PROVE  Fifo!Evolves(QueueOrder(lists, k), QueueOrder(lists', k))
      <3>1. Follows(m, lists', k) /\ Members(lists', k) \subseteq Members(m, k)
        <4>1. Follows(m, lists', k)
          BY <1>2, <1>3, DequeueFollows
        <4>2. Members(lists', k) = Taken(H, l, current')[k] /\ Members(m, k) = H[k]
          BY <2>1 DEF Holds
        <4>3. QED
          BY <4>1, <4>2 DEF Taken
      <3>2. Follows(lists, lists', k)
        BY <3>1, FollowsTwice
      <3>3. QED
        BY <1>1, <2>1, <3>2, FollowingEvolves
    <2>5. current' # NULL
      BY <1>3
    <2>6. Fifo!Dispatch(l)
      BY <1>2, <2>3, <2>4, <2>5, QueueNames DEF Fifo!Dispatch
    <2>7. QED
      BY <2>6 DEF FifoStep
  <1>4. ASSUME \A l \in Levels : m.queue[l].head = NULL, lists' = m, current' = NULL
        PROVE  FifoStep
    <2>1. \A k \in Levels : QueueOrder(lists', k) = <<>>
      BY <1>2, <1>4, HeadlessEmpty
    <2>2. ASSUME NEW k \in Queues
          PROVE  Fifo!Evolves(QueueOrder(lists, k), QueueOrder(lists', k))
      BY <1>1, <1>4, FollowingEvolves
    <2>3. {BlockedQ, ZombieQ} \subseteq Queues
      BY QueueNumbers
    <2>4. Fifo!Idle
      BY <1>2, <1>4, <2>1, <2>2, <2>3 DEF Fifo!Idle
    <2>5. QED
      BY <2>4 DEF FifoStep
  <1>5. QED
    BY <1>3, <1>4 DEF Dispatch

-----------------------------------------------------------------------------
(* What the handlers do to the queues before they call schedule.           *)

\* A process without a home settles behind everybody.
LEMMA SettleFollows ==
    ASSUME NEW pr \in [Slots -> Levels], NEW u \in [Slots -> BOOLEAN],
           NEW st \in [Slots -> States], NEW m, Holds(m, Homes(u, st, pr)),
           NEW s \in Slots, ~u[s] \/ st[s] = "RUNNING",
           NEW k \in Queues, NEW j \in Queues
    PROVE  Follows(m, EnqueueProcess(m, k, s), j)
  <1>1. PICK H : H = Homes(u, st, pr)
    OBVIOUS
  <1>2. \A i \in Queues : s \notin H[i]
    BY <1>1, OneHome
  <1>3. QED
    BY <1>1, <1>2, EnqueueFollows

\* A process that moves to another queue goes behind everybody there.
LEMMA MoveFollows ==
    ASSUME NEW pr \in [Slots -> Levels], NEW u \in [Slots -> BOOLEAN],
           NEW st \in [Slots -> States], NEW m, Holds(m, Homes(u, st, pr)),
           NEW s \in Slots, u[s], st[s] # "RUNNING",
           NEW k \in Queues, k # Place(st[s], pr[s]), NEW j \in Queues
    PROVE  Follows(m, EnqueueProcess(RemoveProcess(m, Place(st[s], pr[s]), s), k, s), j)
  <1>1. PICK H : H = Homes(u, st, pr)
    OBVIOUS
  <1>2. PICK i \in Queues : i = Place(st[s], pr[s])
    BY QueueNumbers
  <1>3. s \in H[i] /\ \A q \in Queues : s \in H[q] => q = i
    BY <1>1, <1>2, OneHome
  <1>4. PICK n : n = RemoveProcess(m, i, s)
    OBVIOUS
  <1>5. Holds(n, Taken(H, i, s)) /\ Follows(m, n, j)
    BY <1>1, <1>3, <1>4, RemoveHolds, RemoveFollows
  <1>6. \A q \in Queues : s \notin Taken(H, i, s)[q]
    BY <1>3 DEF Taken
  <1>7. PICK o : o = EnqueueProcess(n, k, s)
    OBVIOUS
  <1>8. Holds(o, Added(Taken(H, i, s), k, s)) /\ Follows(n, o, j)
    BY <1>5, <1>6, <1>7, EnqueueHolds, EnqueueFollows
  <1>9. /\ Members(m, j) = H[j] /\ Members(n, j) = Taken(H, i, s)[j]
        /\ Members(o, j) = Added(Taken(H, i, s), k, s)[j]
    BY <1>1, <1>5, <1>8 DEF Holds
  <1>10. \/ Members(o, j) \subseteq Members(n, j)
         \/ Members(n, j) = Members(m, j)
    <2>1. CASE j = k
      BY <1>2, <1>9, <2>1 DEF Taken
    <2>2. CASE j # k
      BY <1>9, <2>2 DEF Added
    <2>3. QED
      BY <2>1, <2>2
  <1>11. Follows(m, o, j)
    BY <1>5, <1>8, <1>10, FollowsTwice
  <1>12. QED
    BY <1>2, <1>4, <1>7, <1>11

\* wake_waiting_parent puts the woken parent behind everybody on its ready queue.
LEMMA WakeFollows ==
    ASSUME TypeOK, PidsUnique, NEW m, NEW st \in [Slots -> States],
           Holds(m, Homes(used, st, priority)),
           NEW c \in Slots, NEW W, W = WaitersFor(c, st), NEW j \in Queues
    PROVE  Follows(m, WakeLists(m, W), j)
  <1>1. /\ W \subseteq Slots
        /\ \A s \in W : used[s] /\ st[s] = "BLOCKED" /\ pid[s] = ppid[c]
    BY DEF WaitersFor, Live
  <1>2. CASE W = {}
    BY <1>2, FollowsItself DEF WakeLists
  <1>3. CASE W # {}
    <2> DEFINE p == CHOOSE p \in W : TRUE
    <2>1. p \in W /\ p \in Slots /\ used[p] /\ st[p] = "BLOCKED"
      BY <1>1, <1>3
    <2>2. priority \in [Slots -> Levels] /\ used \in [Slots -> BOOLEAN]
      BY DEF TypeOK
    <2>3. WakeLists(m, W) = AddToReadyQueue(RemoveProcess(m, BlockedQ, p), priority[p], p)
      BY <1>3 DEF WakeLists
    <2> HIDE DEF p
    <2>4. priority[p] \in Levels /\ priority[p] \in Nat
      BY <2>1, <2>2 DEF Levels
    <2>5. WakeLists(m, W) =
          EnqueueProcess(RemoveProcess(m, Place(st[p], priority[p]), p), priority[p], p)
      BY <2>1, <2>3, <2>4, ClampLevels DEF AddToReadyQueue, Place
    <2>6. priority[p] \in Queues /\ priority[p] # Place(st[p], priority[p])
      BY <2>1, <2>4, QueueNumbers DEF Place
    <2>7. QED
      BY <2>1, <2>2, <2>5, <2>6, MoveFollows
  <1>4. QED
    BY <1>2, <1>3

-----------------------------------------------------------------------------
(* Every handler is a step of the abstract queues: one lemma per handler.  *)

\* process_create and process_fork queue the new process.
LEMMA CreateQueues ==
    ASSUME IInv, NEW s \in Slots, FirstFree(s), NEW pr \in Nat, CreateInSlot(s, pr)
    PROVE  FifoStep
  <1>1. PICK H : H = Homes(used, state, priority)
    OBVIOUS
  <1>2. /\ Holds(lists, H) /\ used \in [Slots -> BOOLEAN] /\ state \in [Slots -> States]
        /\ priority \in [Slots -> Levels] /\ ~used[s]
    BY <1>1, InvariantUse DEF FirstFree
  <1>3. PICK k \in Queues : k = ClampPriority(pr)
    BY ClampLevels, QueueNumbers
  <1>4. lists' = EnqueueProcess(lists, k, s) /\ current' = current
    BY <1>3 DEF CreateInSlot, AddToReadyQueue
  <1>5. \A j \in Queues : s \notin H[j]
    BY <1>1, <1>2, OneHome
  <1>6. Holds(lists', Added(H, k, s)) /\ \A j \in Queues : Follows(lists, lists', j)
    BY <1>2, <1>4, <1>5, EnqueueHolds, EnqueueFollows
  <1>7. QED
    BY <1>4, <1>6, FollowingMoves

\* process_wait takes the collected child off the zombie queue.
LEMMA CollectQueues ==
    ASSUME IInv, NEW c \in Slots, WaitCollects(c)
    PROVE  FifoStep
  <1>1. PICK H : H = Homes(used, state, priority)
    OBVIOUS
  <1>2. /\ Holds(lists, H) /\ used \in [Slots -> BOOLEAN] /\ state \in [Slots -> States]
        /\ priority \in [Slots -> Levels]
    BY <1>1, InvariantUse
  <1>3. /\ used[c] /\ state[c] = "ZOMBIE" /\ current' = current
        /\ lists' = RemoveProcess(lists, ZombieQ, c)
    BY DEF WaitCollects, IsChild, Live, CollectZombie
  <1>4. ZombieQ \in Queues /\ c \in H[ZombieQ]
    BY <1>1, <1>2, <1>3, QueueNumbers, OneHome DEF Place
  <1>5. Holds(lists', Taken(H, ZombieQ, c)) /\ \A j \in Queues : Follows(lists, lists', j)
    BY <1>2, <1>3, <1>4, RemoveHolds, RemoveFollows
  <1>6. QED
    BY <1>3, <1>5, FollowingMoves

\* schedule called from scheduler_start and from timer_handler: the process that
\* ran goes behind everybody of its level.
LEMMA PreemptionQueues ==
    ASSUME IInv, Schedule(lists, state)
    PROVE  FifoStep
  <1>1. /\ TypeOK /\ Holds(lists, Homes(used, state, priority))
        /\ used \in [Slots -> BOOLEAN] /\ state \in [Slots -> States]
        /\ priority \in [Slots -> Levels] /\ current \in Slots \cup {NULL}
        /\ current # NULL => used[current] /\ state[current] = "RUNNING"
    BY InvariantUse
  <1>2. CASE current = NULL
    <2>1. Dispatch(lists, state)
      BY <1>2 DEF Schedule
    <2>2. \A j \in Queues : Follows(lists, lists, j)
      BY FollowsItself
    <2>3. QED
      BY <1>1, <2>1, <2>2, DispatchFollows
  <1>3. CASE current # NULL
    <2>1. PICK m : m = AddToReadyQueue(lists, priority[current], current)
      OBVIOUS
    <2>2. Dispatch(m, [state EXCEPT ![current] = "READY"])
      BY <1>1, <1>3, <2>1 DEF Schedule
    <2>3. Holds(m, Homes(used, [state EXCEPT ![current] = "READY"], priority))
      BY <1>1, <1>3, <2>1, PreemptionHolds
    <2>4. PICK k \in Queues : k = ClampPriority(priority[current])
      <3>1. priority[current] \in Nat
        BY <1>1, <1>3 DEF Levels
      <3>2. QED
        BY <3>1, ClampLevels, QueueNumbers
    <2>5. m = EnqueueProcess(lists, k, current)
      BY <2>1, <2>4 DEF AddToReadyQueue
    <2>6. \A j \in Queues : Follows(lists, m, j)
      BY <1>1, <1>3, <2>5, SettleFollows
    <2>7. QED
      BY <2>2, <2>3, <2>6, DispatchFollows
  <1>4. QED
    BY <1>2, <1>3

\* process_exit: the woken parent and the caller go to different queues.
LEMMA ExitQueues == ASSUME IInv, ProcessExit PROVE FifoStep
  <1> DEFINE W  == WaitersFor(current, [state EXCEPT ![current] = "ZOMBIE"])
             st == WakeState([state EXCEPT ![current] = "ZOMBIE"], W)
             m0 == WakeLists(lists, W)
             m  == EnqueueProcess(m0, ZombieQ, current)
  <1>1. /\ current \in Slots /\ used[current] /\ state[current] = "RUNNING"
        /\ Schedule(m, st)
    BY InvariantUse DEF ProcessExit, Calling
  <1>2. /\ TypeOK /\ PidsUnique /\ Holds(lists, Homes(used, state, priority))
        /\ used \in [Slots -> BOOLEAN] /\ state \in [Slots -> States]
        /\ priority \in [Slots -> Levels]
    BY InvariantUse
  <1>3. /\ W = WaitersFor(current, state)
        /\ \A s \in W : used[s] /\ state[s] = "BLOCKED"
    BY <1>1, <1>2 DEF WaitersFor, Live
  <1>4. Holds(m, Homes(used, st, priority))
    BY <1>1, NullAssumption, ExitHolds
  <1>5. Dispatch(m, st)
    <2>1. st[current] # "RUNNING"
      BY <1>1, <1>2, <1>3 DEF WakeState
    <2> HIDE DEF m, st
    <2>2. QED
      BY <1>1, <2>1 DEF Schedule
  <1> HIDE DEF W, st
  <1>6. /\ Holds(m0, Homes(used, WakeState(state, W), priority))
        /\ WakeState(state, W) \in [Slots -> States]
        /\ \A j \in Queues : Follows(lists, m0, j)
    BY <1>1, <1>2, <1>3, WakeHolds, WakeFollows
  <1>7. WakeState(state, W)[current] = "RUNNING"
    BY <1>1, <1>2, <1>3 DEF WakeState
  <1> HIDE DEF m0
  <1>8. ASSUME NEW j \in Queues PROVE Follows(lists, m, j)
    <2>1. PICK H : H = Homes(used, WakeState(state, W), priority)
      OBVIOUS
    <2>2. Follows(m0, m, j)
      BY <1>1, <1>2, <1>6, <1>7, QueueNumbers, SettleFollows
    <2>3. Members(m, j) = Added(H, ZombieQ, current)[j] /\ Members(m0, j) = H[j]
      <3>1. \A i \in Queues : current \notin H[i]
        BY <1>1, <1>2, <1>6, <1>7, <2>1, OneHome
      <3>2. Holds(m, Added(H, ZombieQ, current))
        BY <1>1, <1>6, <2>1, <3>1, QueueNumbers, EnqueueHolds
      <3>3. QED
        BY <1>6, <2>1, <3>2 DEF Holds
    <2>4. CASE j # ZombieQ
      <3>1. Members(m, j) \subseteq Members(m0, j)
        BY <2>3, <2>4 DEF Added
      <3>2. QED
        BY <1>6, <2>2, <3>1, FollowsTwice
    <2>5. CASE j = ZombieQ
      <3>1. Members(m0, j) = Members(lists, j)
        <4>1. Members(lists, j) = Homes(used, state, priority)[j]
          BY <1>2 DEF Holds
        <4>2. \A s \in Slots : WakeState(state, W)[s] = "ZOMBIE" <=> state[s] = "ZOMBIE"
          BY <1>3 DEF WakeState
        <4>3. QED
          BY <2>1, <2>3, <2>5, <4>1, <4>2, QueueNumbers DEF Homes
      <3>2. QED
        BY <1>6, <2>2, <3>1, FollowsTwice
    <2>6. QED
      BY <2>4, <2>5
  <1> HIDE DEF m
  <1>9. QED
    BY <1>4, <1>5, <1>8, DispatchFollows

\* process_wait queues the caller on the blocked queue.
LEMMA BlockQueues ==
    ASSUME IInv, NEW c \in Slots, NEW w \in Nat, WaitBlocks(c, w)
    PROVE  FifoStep
  <1> DEFINE m  == EnqueueProcess(lists, BlockedQ, current)
             st == [state EXCEPT ![current] = "BLOCKED"]
  <1>1. /\ current \in Slots /\ used[current] /\ state[current] = "RUNNING"
        /\ Holds(lists, Homes(used, state, priority))
        /\ used \in [Slots -> BOOLEAN] /\ state \in [Slots -> States]
        /\ priority \in [Slots -> Levels] /\ Schedule(m, st)
    BY InvariantUse DEF WaitBlocks, BlockCaller, Calling
  <1>2. Holds(m, Homes(used, st, priority)) /\ st[current] # "RUNNING"
    BY <1>1, NullAssumption, BlockHolds
  <1>3. \A j \in Queues : Follows(lists, m, j)
    BY <1>1, QueueNumbers, SettleFollows
  <1> HIDE DEF m, st
  <1>4. Dispatch(m, st)
    BY <1>1, <1>2 DEF Schedule
  <1>5. QED
    BY <1>2, <1>3, <1>4, DispatchFollows

\* SIGTERM and SIGKILL to a READY process: it goes to the zombie queue, its parent,
\* if it waits, to a ready queue.
LEMMA TerminateQueues ==
    ASSUME IInv, NEW p \in Slots, used[p], state[p] = "READY", Terminate(p),
           current' = current
    PROVE  FifoStep
  <1> DEFINE st == [state EXCEPT ![p] = "ZOMBIE"]
             W  == WaitersFor(p, st)
             m  == EnqueueProcess(RemoveProcess(lists, priority[p], p), ZombieQ, p)
  <1>1. /\ TypeOK /\ PidsUnique /\ Holds(lists, Homes(used, state, priority))
        /\ used \in [Slots -> BOOLEAN] /\ state \in [Slots -> States]
        /\ priority \in [Slots -> Levels]
    BY InvariantUse
  <1>2. /\ Place(state[p], priority[p]) = priority[p] /\ Place("ZOMBIE", priority[p]) = ZombieQ
        /\ "ZOMBIE" \in States /\ "ZOMBIE" # "RUNNING" /\ state[p] # "RUNNING"
        /\ ZombieQ # priority[p] /\ ZombieQ \in Queues /\ priority[p] \in Levels
    BY <1>1, QueueNumbers DEF Place, States
  <1>3. Holds(m, Homes(used, st, priority)) /\ \A j \in Queues : Follows(lists, m, j)
    <2>1. Holds(EnqueueProcess(RemoveProcess(lists, Place(state[p], priority[p]), p),
                               Place("ZOMBIE", priority[p]), p),
                Homes(used, [state EXCEPT ![p] = "ZOMBIE"], priority))
      BY <1>1, <1>2, MoveHolds
    <2>2. \A j \in Queues :
             Follows(lists, EnqueueProcess(RemoveProcess(lists, Place(state[p], priority[p]), p),
                                           ZombieQ, p), j)
      BY <1>1, <1>2, MoveFollows
    <2>3. QED
      BY <1>2, <2>1, <2>2
  <1>4. st \in [Slots -> States] /\ lists' = WakeLists(m, W)
    BY <1>1 DEF Terminate, States
  <1>5. \A s \in W : used[s] /\ st[s] = "BLOCKED"
    BY DEF WaitersFor, Live
  <1>6. st[p] = "ZOMBIE" /\ \A s \in Slots : s # p => st[s] = state[s]
    BY <1>1
  <1> HIDE DEF st, m
  <1>7. /\ Holds(lists', Homes(used, WakeState(st, W), priority))
        /\ \A j \in Queues : Follows(m, lists', j)
    BY <1>1, <1>3, <1>4, WakeHolds, WakeFollows
  <1> HIDE DEF W
  <1>8. ASSUME NEW j \in Queues PROVE Follows(lists, lists', j)
    <2>1. /\ Members(lists, j) = Homes(used, state, priority)[j]
          /\ Members(m, j) = Homes(used, st, priority)[j]
          /\ Members(lists', j) = Homes(used, WakeState(st, W), priority)[j]
      BY <1>1, <1>3, <1>7 DEF Holds
    <2>2. \A s \in Slots : WakeState(st, W)[s] = IF s \in W THEN "READY" ELSE st[s]
      BY DEF WakeState
    <2>3. CASE j \in Levels
      <3>1. Members(m, j) \subseteq Members(lists, j)
        BY <1>6, <2>1, <2>3, QueueNumbers DEF Homes
      <3>2. ASSUME NEW s \in Members(lists, j), s \in Members(lists', j)
            PROVE  s \in Members(m, j)
        <4>1. /\ s \in Slots /\ used[s] /\ state[s] = "READY" /\ priority[s] = j
              /\ WakeState(st, W)[s] = "READY"
          BY <2>1, <2>3, <3>2, QueueNumbers DEF Homes
        <4>2. s # p
          BY <1>5, <1>6, <2>2, <4>1
        <4>3. st[s] = "READY"
          BY <1>6, <4>1, <4>2
        <4>4. QED
          BY <2>1, <2>3, <4>1, <4>3 DEF Homes
      <3>3. QED
        BY <1>3, <1>7, <3>1, <3>2, FollowsTwice
    <2>4. CASE j \notin Levels
      <3>1. Members(lists', j) \subseteq Members(m, j)
        BY <2>1, <2>2, <2>4 DEF Homes
      <3>2. QED
        BY <1>3, <1>7, <3>1, FollowsTwice
    <2>5. QED
      BY <2>3, <2>4
  <1>9. QED
    BY <1>7, <1>8, FollowingMoves

\* SIGSTOP to a READY process.
LEMMA StopQueues ==
    ASSUME IInv, NEW p \in Slots, used[p], state[p] = "READY", Stop(p), current' = current
    PROVE  FifoStep
  <1>1. /\ Holds(lists, Homes(used, state, priority))
        /\ used \in [Slots -> BOOLEAN] /\ state \in [Slots -> States]
        /\ priority \in [Slots -> Levels]
    BY InvariantUse
  <1>2. /\ Place(state[p], priority[p]) = priority[p]
        /\ Place("BLOCKED", priority[p]) = BlockedQ
        /\ "BLOCKED" \in States /\ "BLOCKED" # "RUNNING" /\ state[p] # "RUNNING"
        /\ BlockedQ # priority[p] /\ BlockedQ \in Queues
    BY <1>1, QueueNumbers DEF Place, States
  <1>3. lists' = EnqueueProcess(RemoveProcess(lists, Place(state[p], priority[p]), p), BlockedQ, p)
    BY <1>2 DEF Stop
  <1>4. Holds(lists', Homes(used, [state EXCEPT ![p] = "BLOCKED"], priority))
    BY <1>1, <1>2, <1>3, MoveHolds
  <1>5. \A j \in Queues : Follows(lists, lists', j)
    BY <1>1, <1>2, <1>3, MoveFollows
  <1>6. QED
    BY <1>4, <1>5, FollowingMoves

\* SIGCONT to a BLOCKED process.
LEMMA ContinueQueues ==
    ASSUME IInv, NEW p \in Slots, used[p], Continue(p), current' = current
    PROVE  FifoStep
  <1>1. /\ Holds(lists, Homes(used, state, priority))
        /\ used \in [Slots -> BOOLEAN] /\ state \in [Slots -> States]
        /\ priority \in [Slots -> Levels] /\ state[p] = "BLOCKED"
    BY InvariantUse DEF Continue
  <1>2. priority[p] \in Levels /\ priority[p] \in Nat
    BY <1>1 DEF Levels
  <1>3. /\ Place(state[p], priority[p]) = BlockedQ
        /\ Place("READY", priority[p]) = priority[p]
        /\ "READY" \in States /\ "READY" # "RUNNING" /\ state[p] # "RUNNING"
        /\ BlockedQ # priority[p] /\ priority[p] \in Queues
    BY <1>1, <1>2, QueueNumbers DEF Place, States
  <1>4. lists' = EnqueueProcess(RemoveProcess(lists, Place(state[p], priority[p]), p),
                                priority[p], p)
    BY <1>2, <1>3, ClampLevels DEF Continue, AddToReadyQueue
  <1>5. Holds(lists', Homes(used, [state EXCEPT ![p] = "READY"], priority))
    BY <1>1, <1>3, <1>4, MoveHolds
  <1>6. \A j \in Queues : Follows(lists, lists', j)
    BY <1>1, <1>3, <1>4, MoveFollows
  <1>7. QED
    BY <1>5, <1>6, FollowingMoves

\* process_kill, for the deliveries that SafeDelivery allows.
LEMMA KillQueues ==
    ASSUME SafeDelivery, IInv, NEW p \in Slots, NEW signal \in Signals,
           ProcessKill(p, signal)
    PROVE  FifoStep
  <1>1. used[p] /\ <<signal, state[p]>> \in Deliverable /\ current' = current
    BY DEF ProcessKill, Live
  <1>2. /\ signal = "KILL" => state[p] = "READY"
        /\ signal = "STOP" => state[p] # "RUNNING"
    BY <1>1 DEF SafeDelivery
  <1>3. CASE signal = "KILL" /\ Terminate(p)
    BY <1>1, <1>2, <1>3, TerminateQueues
  <1>4. CASE signal = "STOP" /\ Stop(p)
    BY <1>1, <1>2, <1>4, StopQueues DEF Stop
  <1>5. CASE signal = "CONT" /\ Continue(p)
    BY <1>1, <1>5, ContinueQueues
  <1>6. QED
    BY <1>3, <1>4, <1>5 DEF ProcessKill

\* Every handler is a step of the abstract queues, or leaves them alone.
LEMMA NextQueues ==
    ASSUME SafeDelivery, IInv, [Next]_vars
    PROVE  FifoStep \/ UNCHANGED <<lists, current>>
  <1>1. ASSUME NEW pr \in Nat, NEW s \in Slots, FirstFree(s),
               CreateInSlot(s, pr) \/ CreateFails
        PROVE  FifoStep \/ UNCHANGED <<lists, current>>
    BY <1>1, CreateQueues DEF CreateFails
  <1>2. ASSUME NEW pr \in Priorities, ProcessCreate(pr)
        PROVE  FifoStep \/ UNCHANGED <<lists, current>>
    BY <1>1, <1>2, ParametersAssumption DEF ProcessCreate
  <1>3. ASSUME ProcessFork PROVE FifoStep \/ UNCHANGED <<lists, current>>
    <2>1. current \in Slots /\ priority[current] \in Nat
      BY <1>3, InvariantUse DEF ProcessFork, Calling, Levels
    <2>2. QED
      BY <1>1, <1>3, <2>1 DEF ProcessFork
  <1>4. ASSUME NEW c \in Slots, ProcessWait(c) PROVE FifoStep
    <2>1. 0 \in Nat /\ pid[c] \in Nat
      BY InvariantUse DEF TypeOK
    <2>2. QED
      BY <1>4, <2>1, CollectQueues, BlockQueues DEF ProcessWait
  <1>5. ASSUME SchedulerStart \/ TimerHandler PROVE FifoStep \/ UNCHANGED <<lists, current>>
    BY <1>5, PreemptionQueues DEF SchedulerStart, TimerHandler
  <1>6. ASSUME WaitReturns \/ UNCHANGED vars PROVE UNCHANGED <<lists, current>>
    BY <1>6 DEF WaitReturns, vars
  <1>7. QED
    BY <1>2, <1>3, <1>4, <1>5, <1>6, ExitQueues, KillQueues DEF Next

\* The empty lists of process_init are empty queues.
LEMMA QueuesStart == Init => Fifo!Init
  <1> SUFFICES ASSUME Init PROVE Fifo!Init
    OBVIOUS
  <1>1. Holds(lists, Homes(used, state, priority))
    BY InitInvariant, InvariantHolds
  <1>2. \A k \in Queues : lists.queue[k].head = NULL
    BY DEF Init, EmptyLists, EmptyQueue
  <1>3. \A k \in Queues : QueueOrder(lists, k) = <<>>
    BY <1>1, <1>2, HeadlessEmpty
  <1>4. current = NULL
    BY DEF Init
  <1>5. QED
    BY <1>3, <1>4, QueueNames DEF Fifo!Init

\* The intrusive lists of process.c implement queues that serve first come first:
\* nobody is overtaken or queued twice, and who gets the processor was the
\* first of its level.
THEOREM FifoImplemented ==
    ASSUME SafeDelivery
    PROVE  Spec => ImplementsFifo
  <1>1. Init => Fifo!Init
    BY QueuesStart
  <1>2. IInv => Fifo!Exclusive
    BY QueuesExclude
  <1>3. IInv /\ [Next]_vars /\ Fifo!Exclusive' => [Fifo!Next]_(Fifo!vars)
    <2> SUFFICES ASSUME IInv, [Next]_vars, Fifo!Exclusive'
                 PROVE  [Fifo!Next]_(Fifo!vars)
      OBVIOUS
    <2>1. CASE FifoStep
      BY <2>1 DEF FifoStep, Fifo!Next
    <2>2. CASE UNCHANGED <<lists, current>>
      BY <2>2 DEF Fifo!vars
    <2>3. QED
      BY <2>1, <2>2, NextQueues
  <1>4. QED
    BY <1>1, <1>2, <1>3, SchedulerSafe, PTL DEF Spec, ImplementsFifo, Fifo!Spec

-----------------------------------------------------------------------------
(***************************************************************************)
(* What processes may rely on when they wait for their children, for any   *)
(* number of slots, levels and pids: zombies stay until their parent       *)
(* collects them and, when signals only terminate READY processes, a       *)
(* blocked process_wait has a child to wait for and returns one that has   *)
(* exited.  The queues matter only in that schedule() dispatches a READY   *)
(* process, so the handlers are first reduced to what they do to the       *)
(* states of the processes.                                                *)
(***************************************************************************)

\* A step that moves processes between READY and RUNNING at most.
OnlySchedules(st) ==
    \A s \in Slots : used[s] =>
        /\ st[s] = "BLOCKED" <=> state'[s] = "BLOCKED"
        /\ st[s] = "ZOMBIE" <=> state'[s] = "ZOMBIE"

\* Everything process_wait reads, except the states.
waiting == <<used, pid, ppid, waitPid, waitResult, inWait>>

\* The head of a ready queue is a READY process.
LEMMA HeadIsReady ==
    ASSUME TypeOK, NEW m, NEW st \in [Slots -> States],
           Holds(m, Homes(used, st, priority)),
           NEW l \in Levels, m.queue[l].head # NULL
    PROVE  /\ m.queue[l].head \in Slots
           /\ used[m.queue[l].head]
           /\ st[m.queue[l].head] = "READY"
  <1>1. l \in Queues /\ l # BlockedQ /\ l # ZombieQ
    BY QueueNumbers
  <1>2. m.queue[l].head \in Homes(used, st, priority)[l]
    BY <1>1, HeadIsMember DEF Holds
  <1>3. QED
    BY <1>1, <1>2 DEF Homes

\* schedule() leaves BLOCKED and ZOMBIE processes as they are.
LEMMA SchedulingStates ==
    ASSUME IInv, NEW m, NEW st \in [Slots -> States],
           Holds(m, Homes(used, st, priority)),
           Schedule(m, st)
    PROVE  OnlySchedules(st)
  <1> DEFINE preempted == current # NULL /\ st[current] = "RUNNING"
             m1  == IF preempted THEN AddToReadyQueue(m, priority[current], current) ELSE m
             st1 == IF preempted THEN [st EXCEPT ![current] = "READY"] ELSE st
  <1>1. Dispatch(m1, st1)
    BY DEF Schedule
  <1>2. /\ TypeOK /\ used \in [Slots -> BOOLEAN] /\ priority \in [Slots -> Levels]
        /\ current \in Slots \cup {NULL}
        /\ current # NULL => used[current]
    BY InvariantUse
  <1>3. st1 \in [Slots -> States]
        /\ \A s \in Slots : /\ st[s] = "BLOCKED" <=> st1[s] = "BLOCKED"
                            /\ st[s] = "ZOMBIE" <=> st1[s] = "ZOMBIE"
    BY <1>2 DEF States
  <1>4. Holds(m1, Homes(used, st1, priority))
    BY <1>2, PreemptionHolds
  <1> HIDE DEF m1, st1
  <1>5. ASSUME NEW l \in Levels, m1.queue[l].head # NULL,
               state' = [st1 EXCEPT ![m1.queue[l].head] = "RUNNING"]
        PROVE  OnlySchedules(st)
    <2>1. m1.queue[l].head \in Slots /\ st1[m1.queue[l].head] = "READY"
      BY <1>2, <1>3, <1>4, <1>5, HeadIsReady
    <2>2. QED
      BY <2>1, <1>3, <1>5 DEF OnlySchedules
  <1>6. CASE state' = st1
    BY <1>3, <1>6 DEF OnlySchedules
  <1>7. QED
    BY <1>1, <1>5, <1>6 DEF Dispatch

-----------------------------------------------------------------------------
(* What each handler does to the states and to the waiters.                *)

\* p becomes a zombie and the parent that waits for it is woken with its pid.
ExitsAndWakes(p) ==
    LET st == [state EXCEPT ![p] = "ZOMBIE"]
        W  == WaitersFor(p, st)
    IN  /\ used[p] /\ state[p] \in {"READY", "RUNNING"}
        /\ waitResult' = WakeResult(p, W)
        /\ OnlySchedules(WakeState(st, W))
        /\ UNCHANGED <<used, pid, ppid, waitPid, inWait>>

\* What it means for the states: p is the only new zombie, and exactly the
\* processes that waited for it have left the blocked queue.
LEMMA ExitEffect ==
    ASSUME IInv, NEW p \in Slots, ExitsAndWakes(p),
           NEW s \in Slots, used[s]
    PROVE  LET waits == /\ state[s] = "BLOCKED" /\ pid[s] = ppid[p]
                        /\ waitPid[s] \in {0, pid[p]}
           IN  /\ state'[s] = "ZOMBIE" <=> s = p \/ state[s] = "ZOMBIE"
               /\ state'[s] = "BLOCKED" <=> state[s] = "BLOCKED" /\ ~waits
               /\ waitResult'[s] = IF waits THEN pid[p] ELSE waitResult[s]
  <1> DEFINE st == [state EXCEPT ![p] = "ZOMBIE"]
             W  == WaitersFor(p, st)
             waits == /\ state[s] = "BLOCKED" /\ pid[s] = ppid[p]
                      /\ waitPid[s] \in {0, pid[p]}
  <1>1. /\ state[p] \in {"READY", "RUNNING"}
        /\ waitResult' = WakeResult(p, W)
        /\ OnlySchedules(WakeState(st, W))
    BY DEF ExitsAndWakes
  <1>2. state \in [Slots -> States]
    BY InvariantUse
  <1>3. s \in W <=> waits
    BY <1>1, <1>2 DEF WaitersFor, Live
  <1>4. WakeState(st, W)[s] = IF s \in W THEN "READY" ELSE IF s = p THEN "ZOMBIE" ELSE state[s]
    BY <1>2 DEF WakeState
  <1>5. /\ WakeState(st, W)[s] = "BLOCKED" <=> state'[s] = "BLOCKED"
        /\ WakeState(st, W)[s] = "ZOMBIE" <=> state'[s] = "ZOMBIE"
    BY <1>1 DEF OnlySchedules
  <1>6. waitResult'[s] = IF s \in W THEN pid[p] ELSE waitResult[s]
    BY <1>1 DEF WakeResult
  <1> HIDE DEF W, st
  <1>7. QED
    BY <1>1, <1>3, <1>4, <1>5, <1>6

\* process_exit ends current and wakes its parent.
LEMMA ExitStates == ASSUME IInv, ProcessExit PROVE current \in Slots /\ ExitsAndWakes(current)
  <1> DEFINE W  == WaitersFor(current, [state EXCEPT ![current] = "ZOMBIE"])
             st == WakeState([state EXCEPT ![current] = "ZOMBIE"], W)
             m  == EnqueueProcess(WakeLists(lists, W), ZombieQ, current)
  <1>1. /\ current \in Slots /\ current # NULL /\ used[current] /\ state[current] = "RUNNING"
    BY InvariantUse DEF ProcessExit, Calling
  <1>2. /\ Schedule(m, st) /\ waitResult' = WakeResult(current, W)
        /\ UNCHANGED <<used, pid, ppid, waitPid, inWait>>
    BY DEF ProcessExit, identity
  <1>3. st \in [Slots -> States] /\ Holds(m, Homes(used, st, priority))
    BY <1>1, ExitHolds
  <1> HIDE DEF m, st
  <1>4. OnlySchedules(st)
    BY <1>2, <1>3, SchedulingStates
  <1>5. QED
    BY <1>1, <1>2, <1>4 DEF ExitsAndWakes, st

\* A termination from outside ends its process the same way.
LEMMA TerminateStates ==
    ASSUME NEW p \in Slots, used[p], state[p] = "READY", Terminate(p),
           UNCHANGED <<used, pid, ppid, waitPid, inWait>>
    PROVE  ExitsAndWakes(p)
  BY DEF Terminate, ExitsAndWakes, OnlySchedules

\* The caller of process_wait blocks, for a child that has not exited.
Blocks(c, wanted) ==
    /\ current \in Slots /\ used[current] /\ ~inWait[current]
    /\ used[c] /\ ppid[c] = pid[current] /\ state[c] # "ZOMBIE"
    /\ OnlySchedules([state EXCEPT ![current] = "BLOCKED"])
    /\ waitPid' = [waitPid EXCEPT ![current] = wanted]
    /\ inWait' = [inWait EXCEPT ![current] = TRUE]
    /\ UNCHANGED <<used, pid, ppid, waitResult>>

\* process_wait that finds no zombie makes the running process a waiting one.
LEMMA BlockStates ==
    ASSUME IInv, NEW c \in Slots, NEW wanted \in Nat, WaitBlocks(c, wanted)
    PROVE  Blocks(c, wanted) /\ state[current] = "RUNNING"
  <1> DEFINE m  == EnqueueProcess(lists, BlockedQ, current)
             st == [state EXCEPT ![current] = "BLOCKED"]
  <1>1. /\ current \in Slots /\ current # NULL /\ used[current] /\ state[current] = "RUNNING"
    BY InvariantUse DEF WaitBlocks, Calling
  <1>2. Schedule(m, st)
    BY DEF WaitBlocks, BlockCaller
  <1>3. Holds(m, Homes(used, st, priority)) /\ st \in [Slots -> States]
    BY <1>1, BlockHolds
  <1> HIDE DEF m, st
  <1>4. OnlySchedules(st)
    BY <1>2, <1>3, SchedulingStates
  <1>5. QED
    BY <1>1, <1>4 DEF Blocks, WaitBlocks, BlockCaller, Calling, IsChild, Live, identity, st

\* scheduler_start and timer_handler.
LEMMA TickStates ==
    ASSUME IInv, SchedulerStart \/ TimerHandler
    PROVE  OnlySchedules(state) /\ UNCHANGED waiting
  <1>1. Holds(lists, Homes(used, state, priority)) /\ state \in [Slots -> States]
    BY InvariantUse
  <1>2. Schedule(lists, state) \/ UNCHANGED state
    BY DEF SchedulerStart, TimerHandler
  <1>3. OnlySchedules(state)
    BY <1>1, <1>2, SchedulingStates DEF OnlySchedules
  <1>4. QED
    BY <1>3 DEF SchedulerStart, TimerHandler, identity, waiting

\* process_create and process_fork: a free slot gets a process that does not wait.
Creates(s) ==
    /\ ~used[s]
    /\ used' = [used EXCEPT ![s] = TRUE]
    /\ pid' = [pid EXCEPT ![s] = nextPid]
    /\ state' = [state EXCEPT ![s] = "READY"]
    /\ inWait' = [inWait EXCEPT ![s] = FALSE]
    /\ \A r \in Slots : r # s => ppid'[r] = ppid[r]
    /\ UNCHANGED <<waitPid, waitResult>>

\* process_create makes a child of current, or changes nothing that waits.
LEMMA CreateStates ==
    ASSUME IInv, NEW s \in Slots, FirstFree(s), NEW pr, CreateInSlot(s, pr) \/ CreateFails
    PROVE  Creates(s) \/ UNCHANGED <<waiting, state>>
  <1>1. ppid \in [Slots -> Nat]
    BY InvariantUse DEF TypeOK
  <1>2. ASSUME CreateInSlot(s, pr) PROVE Creates(s)
    BY <1>1, <1>2 DEF CreateInSlot, Creates, FirstFree
  <1>3. ASSUME CreateFails PROVE UNCHANGED <<waiting, state>>
    BY <1>3 DEF CreateFails, waiting, identity
  <1>4. QED
    BY <1>2, <1>3

\* process_kill under SafeDelivery: a READY process exits, or a process that is not
\* a zombie moves between the ready queues and the blocked queue.
LEMMA KillStates ==
    ASSUME SafeDelivery, IInv, NEW p \in Slots, NEW signal \in Signals, ProcessKill(p, signal)
    PROVE  \/ signal = "KILL" /\ ExitsAndWakes(p)
           \/ /\ signal # "KILL" /\ state[p] # "ZOMBIE"
              /\ \/ state' = [state EXCEPT ![p] = "BLOCKED"]
                 \/ state' = [state EXCEPT ![p] = "READY"]
              /\ UNCHANGED waiting
  <1>1. /\ used[p]
        /\ signal = "KILL" => state[p] = "READY"
        /\ UNCHANGED <<used, pid, ppid, waitPid, inWait>>
    BY DEF ProcessKill, Live, SafeDelivery, identity
  <1>2. CASE signal = "KILL" /\ Terminate(p)
    BY <1>1, <1>2, TerminateStates
  <1>3. CASE signal = "STOP" /\ Stop(p)
    BY <1>1, <1>3 DEF Stop, waiting
  <1>4. CASE signal = "CONT" /\ Continue(p)
    BY <1>1, <1>4 DEF Continue, waiting
  <1>5. QED
    BY <1>2, <1>3, <1>4 DEF ProcessKill

-----------------------------------------------------------------------------
(* Zombies.                                                                *)

\* No handler revives a zombie or frees its slot, except for its parent.
LEMMA ZombiesKept == ASSUME SafeDelivery, IInv, Next PROVE ZombieStep
  <1>1. /\ used \in [Slots -> BOOLEAN] /\ state \in [Slots -> States]
        /\ pid \in [Slots -> Nat] /\ current \in Slots \cup {NULL}
        /\ current # NULL => state[current] = "RUNNING"
    BY InvariantUse DEF TypeOK
  <1>2. ASSUME NEW s \in Slots, Creates(s) \/ UNCHANGED <<waiting, state>> PROVE ZombieStep
    BY <1>1, <1>2 DEF Creates, ZombieStep, waiting
  <1>3. ASSUME NEW pr \in Priorities, ProcessCreate(pr) PROVE ZombieStep
    BY <1>2, <1>3, CreateStates DEF ProcessCreate
  <1>4. CASE ProcessFork
    BY <1>2, <1>4, CreateStates DEF ProcessFork
  <1>5. CASE SchedulerStart \/ TimerHandler
    BY <1>5, TickStates DEF ZombieStep, OnlySchedules, waiting
  <1>6. ASSUME NEW p \in Slots, ExitsAndWakes(p) PROVE ZombieStep
    BY <1>6, ExitEffect DEF ZombieStep, ExitsAndWakes
  <1>7. CASE ProcessExit
    BY <1>6, <1>7, ExitStates
  <1>8. ASSUME NEW c \in Slots, WaitCollects(c) PROVE ZombieStep
    BY <1>1, <1>8 DEF WaitCollects, CollectZombie, IsChild, Calling, identity, ZombieStep
  <1>9. ASSUME NEW c \in Slots, NEW wanted, Blocks(c, wanted), state[current] = "RUNNING"
        PROVE  ZombieStep
    BY <1>1, <1>9 DEF Blocks, OnlySchedules, ZombieStep
  <1>10. ASSUME NEW c \in Slots, ProcessWait(c) PROVE ZombieStep
    <2>1. pid[c] \in Nat /\ 0 \in Nat
      BY <1>1
    <2>2. QED
      BY <1>8, <1>9, <1>10, <2>1, BlockStates DEF ProcessWait
  <1>11. CASE WaitReturns
    BY <1>11 DEF WaitReturns, identity, ZombieStep
  <1>12. ASSUME NEW p \in Slots, NEW signal \in Signals, ProcessKill(p, signal) PROVE ZombieStep
    <2>1. CASE ExitsAndWakes(p)
      BY <2>1, <1>6
    <2>2. CASE state[p] # "ZOMBIE" /\ UNCHANGED waiting
               /\ \E v \in States : state' = [state EXCEPT ![p] = v]
      BY <1>1, <2>2 DEF ZombieStep, waiting
    <2>3. QED
      BY <1>12, <2>1, <2>2, KillStates DEF States
  <1>13. QED
    BY <1>3, <1>4, <1>5, <1>7, <1>10, <1>11, <1>12 DEF Next

\* A zombie is never brought back to life, and its slot is freed only for its own
\* parent, while signals are delivered as SafeDelivery says.
THEOREM ZombiesCollectedByParent ==
    ASSUME SafeDelivery
    PROVE  Spec => ZombiesOnlyCollected
  <1>1. IInv /\ [Next]_vars => [ZombieStep]_vars
    BY ZombiesKept
  <1>2. QED
    BY <1>1, SchedulerSafe, PTL DEF Spec, ZombiesOnlyCollected

-----------------------------------------------------------------------------
(* Waiting, when signals only terminate.                                   *)

\* Whoever waits has a child to wait for, and whoever was woken has one that exited:
\* the first keeps the second when the child exits, and the second stays because only
\* the parent, which is still inside process_wait, could collect the child.
WaitInv == IInv /\ WaiterHasLiveChild /\ WaitReturnsExitedChild

\* The two properties of one process.
HasLiveChild(w) == \E c \in Slots : LiveChild(c, pid[w]) /\ waitPid[w] \in {0, pid[c]}

HasExitedChild(w) ==
    \E c \in Slots : /\ Exited(c, pid[w])
                     /\ waitPid[w] \in {0, pid[c]}
                     /\ waitResult[w] = pid[c]

Waits(w) ==
    used[w] /\ inWait[w] =>
        /\ state[w] = "BLOCKED" => HasLiveChild(w)
        /\ state[w] \in {"READY", "RUNNING"} => HasExitedChild(w)

\* The invariant, one waiter at a time.
LEMMA WaitInvUse == WaitInv <=> IInv /\ \A w \in Slots : Waits(w)
  BY DEF WaitInv, WaiterHasLiveChild, WaitReturnsExitedChild, Waits, HasLiveChild, HasExitedChild

\* Steps that only schedule change nothing for the waiters.
LEMMA SchedulingWaits ==
    ASSUME WaitInv, OnlySchedules(state), UNCHANGED waiting,
           NEW w \in Slots, state'[w] \in States
    PROVE  Waits(w)'
  BY WaitInvUse, InvariantUse
  DEF Waits, HasLiveChild, HasExitedChild, LiveChild, Exited, OnlySchedules, waiting, States

\* A new process is nobody's old child and does not wait.
LEMMA CreateWaits ==
    ASSUME WaitInv, NEW s \in Slots, Creates(s), NEW w \in Slots
    PROVE  Waits(w)'
  <1>1. /\ used \in [Slots -> BOOLEAN] /\ state \in [Slots -> States]
        /\ pid \in [Slots -> Nat] /\ inWait \in [Slots -> BOOLEAN]
    BY WaitInvUse, InvariantUse DEF TypeOK
  <1>2. CASE w = s
    BY <1>1, <1>2 DEF Creates, Waits
  <1>3. CASE w # s
    <2>1. \A r \in Slots : r # s => /\ used'[r] = used[r] /\ state'[r] = state[r]
                                    /\ pid'[r] = pid[r] /\ ppid'[r] = ppid[r]
                                    /\ inWait'[r] = inWait[r]
      BY <1>1 DEF Creates
    <2>2. waitPid' = waitPid /\ waitResult' = waitResult /\ ~used[s]
      BY DEF Creates
    <2>3. HasLiveChild(w) => HasLiveChild(w)'
      BY <1>3, <2>1, <2>2 DEF HasLiveChild, LiveChild
    <2>4. HasExitedChild(w) => HasExitedChild(w)'
      BY <1>3, <2>1, <2>2 DEF HasExitedChild, Exited
    <2>5. QED
      BY <1>3, <2>1, <2>3, <2>4, WaitInvUse DEF Waits
  <1>4. QED
    BY <1>2, <1>3

\* An exit leaves the waiters that wait for somebody else alone, and gives the one that
\* waits for this child its result.
LEMMA ExitWaits ==
    ASSUME WaitInv, NEW p \in Slots, ExitsAndWakes(p), NEW w \in Slots
    PROVE  Waits(w)'
  <1> SUFFICES ASSUME used[w], inWait[w]
               PROVE  /\ state'[w] = "BLOCKED" => HasLiveChild(w)'
                      /\ state'[w] \in {"READY", "RUNNING"} => HasExitedChild(w)'
    BY DEF Waits, ExitsAndWakes
  <1>1. IInv /\ Waits(w) /\ used[p] /\ state[p] \in {"READY", "RUNNING"}
        /\ UNCHANGED <<used, pid, ppid, waitPid, inWait>>
    BY WaitInvUse DEF ExitsAndWakes
  <1> DEFINE waits(s) == /\ state[s] = "BLOCKED" /\ pid[s] = ppid[p]
                         /\ waitPid[s] \in {0, pid[p]}
  <1>2. \A s \in Slots : used[s] =>
            /\ state'[s] = "ZOMBIE" <=> s = p \/ state[s] = "ZOMBIE"
            /\ state'[s] = "BLOCKED" <=> state[s] = "BLOCKED" /\ ~waits(s)
            /\ waitResult'[s] = IF waits(s) THEN pid[p] ELSE waitResult[s]
    BY <1>1, ExitEffect
  <1>3. CASE state'[w] = "BLOCKED"
    <2>1. state[w] = "BLOCKED" /\ ~waits(w)
      BY <1>2, <1>3
    <2>2. PICK c \in Slots : LiveChild(c, pid[w]) /\ waitPid[w] \in {0, pid[c]}
      BY <1>1, <2>1 DEF Waits, HasLiveChild
    <2>3. c # p
      BY <2>1, <2>2 DEF LiveChild
    <2>4. LiveChild(c, pid[w])'
      BY <1>1, <1>2, <2>2, <2>3 DEF LiveChild
    <2>5. QED
      BY <1>1, <1>3, <2>2, <2>4 DEF HasLiveChild
  <1>4. CASE state'[w] \in {"READY", "RUNNING"} /\ waits(w)
    <2>1. Exited(p, pid[w])' /\ waitResult'[w] = pid'[p] /\ waitPid'[w] \in {0, pid'[p]}
      BY <1>1, <1>2, <1>4 DEF Exited
    <2>2. QED
      BY <1>4, <2>1 DEF HasExitedChild
  <1>5. CASE state'[w] \in {"READY", "RUNNING"} /\ ~waits(w)
    <2>1. state[w] \in {"READY", "RUNNING"}
      BY <1>1, <1>2, <1>5, InvariantUse DEF States
    <2>2. PICK c \in Slots : /\ Exited(c, pid[w]) /\ waitPid[w] \in {0, pid[c]}
                             /\ waitResult[w] = pid[c]
      BY <1>1, <2>1 DEF Waits, HasExitedChild
    <2>3. Exited(c, pid[w])' /\ waitResult'[w] = pid'[c] /\ waitPid'[w] \in {0, pid'[c]}
      BY <1>1, <1>2, <1>5, <2>2 DEF Exited
    <2>4. QED
      BY <1>5, <2>3 DEF HasExitedChild
  <1>6. QED
    BY <1>3, <1>4, <1>5

\* The process that blocks has the child it asked for.
LEMMA BlockWaits ==
    ASSUME WaitInv, NEW c \in Slots, NEW wanted \in {0, pid[c]}, Blocks(c, wanted),
           NEW w \in Slots, state'[w] \in States
    PROVE  Waits(w)'
  <1>1. /\ IInv /\ Waits(w) /\ state \in [Slots -> States] /\ waitPid \in [Slots -> Nat]
        /\ inWait \in [Slots -> BOOLEAN]
    BY WaitInvUse, InvariantUse DEF TypeOK
  <1> DEFINE st == [state EXCEPT ![current] = "BLOCKED"]
  <1>2. \A s \in Slots : used[s] =>
            /\ state'[s] = "BLOCKED" <=> s = current \/ state[s] = "BLOCKED"
            /\ state'[s] = "ZOMBIE" <=> s # current /\ state[s] = "ZOMBIE"
    BY <1>1 DEF Blocks, OnlySchedules
  <1>3. /\ UNCHANGED <<used, pid, ppid, waitResult>>
        /\ waitPid'[current] = wanted /\ current \in Slots
        /\ \A s \in Slots : s # current => waitPid'[s] = waitPid[s] /\ inWait'[s] = inWait[s]
        /\ used[c] /\ ppid[c] = pid[current] /\ state[c] # "ZOMBIE"
    BY <1>1 DEF Blocks
  <1>4. CASE w = current
    <2>1. LiveChild(c, pid[w])' /\ waitPid'[w] \in {0, pid'[c]}
      BY <1>2, <1>3, <1>4 DEF LiveChild
    <2>2. HasLiveChild(w)'
      BY <2>1 DEF HasLiveChild
    <2>3. used[w] => state'[w] = "BLOCKED"
      BY <1>2, <1>4
    <2>4. QED
      BY <2>2, <2>3, <1>3 DEF Waits
  <1>5. CASE w # current /\ used[w] /\ inWait[w]
    <2>1. CASE state[w] = "BLOCKED"
      <3>1. PICK d \in Slots : LiveChild(d, pid[w]) /\ waitPid[w] \in {0, pid[d]}
        BY <1>1, <1>5, <2>1 DEF Waits, HasLiveChild
      <3>2. LiveChild(d, pid[w])' /\ waitPid'[w] \in {0, pid'[d]}
        BY <3>1, <1>2, <1>3, <1>5 DEF LiveChild
      <3>3. HasLiveChild(w)' /\ state'[w] = "BLOCKED"
        BY <3>2, <2>1, <1>2, <1>5 DEF HasLiveChild
      <3>4. QED
        BY <3>3 DEF Waits
    <2>2. CASE state[w] \in {"READY", "RUNNING"}
      <3>1. PICK d \in Slots : /\ Exited(d, pid[w]) /\ waitPid[w] \in {0, pid[d]}
                               /\ waitResult[w] = pid[d]
        BY <1>1, <1>5, <2>2 DEF Waits, HasExitedChild
      <3>2. d # current
        BY <3>1, <1>3, <1>1, InvariantUse, NullAssumption DEF Exited
      <3>3. Exited(d, pid[w])' /\ waitResult'[w] = pid'[d] /\ waitPid'[w] \in {0, pid'[d]}
        BY <3>1, <3>2, <1>2, <1>3, <1>5 DEF Exited
      <3>4. HasExitedChild(w)' /\ state'[w] # "BLOCKED"
        BY <3>3, <2>2, <1>2, <1>5 DEF HasExitedChild
      <3>5. QED
        BY <3>4 DEF Waits
    <2>3. CASE state[w] = "ZOMBIE"
      BY <2>3, <1>2, <1>5 DEF Waits
    <2>4. QED
      BY <2>1, <2>2, <2>3, <1>1 DEF States
  <1>6. QED
    BY <1>3, <1>4, <1>5 DEF Waits

\* The child that is collected is waited for by nobody: its only parent is calling.
LEMMA CollectWaits ==
    ASSUME WaitInv, NEW c \in Slots, WaitCollects(c), NEW w \in Slots
    PROVE  Waits(w)'
  <1>1. /\ IInv /\ Waits(w) /\ PidsUnique /\ used \in [Slots -> BOOLEAN]
        /\ current \in Slots /\ used[current] /\ ~inWait[current]
    BY WaitInvUse, InvariantUse DEF WaitCollects, Calling
  <1>2. /\ UNCHANGED <<pid, ppid, state, waitPid, waitResult, inWait>>
        /\ \A s \in Slots : s # c => used'[s] = used[s]
        /\ ~used'[c] /\ used[c] /\ state[c] = "ZOMBIE" /\ ppid[c] = pid[current]
    BY <1>1 DEF WaitCollects, CollectZombie, IsChild, Live, identity
  <1>3. CASE used'[w] /\ inWait[w]
    <2>1. used[w] /\ w # current /\ pid[w] # pid[current]
      BY <1>1, <1>2, <1>3 DEF PidsUnique
    <2>2. HasLiveChild(w) => HasLiveChild(w)'
      BY <1>2 DEF HasLiveChild, LiveChild
    <2>3. HasExitedChild(w) => HasExitedChild(w)'
      BY <1>2, <2>1 DEF HasExitedChild, Exited
    <2>4. QED
      BY <1>1, <1>2, <1>3, <2>1, <2>2, <2>3 DEF Waits
  <1>4. QED
    BY <1>2, <1>3 DEF Waits

\* A return from process_wait leaves the other waiters alone.
LEMMA ReturnWaits ==
    ASSUME WaitInv, WaitReturns, NEW w \in Slots
    PROVE  Waits(w)'
  <1>1. Waits(w) /\ inWait \in [Slots -> BOOLEAN]
    BY WaitInvUse, InvariantUse DEF TypeOK
  <1>2. /\ inWait'[w] => inWait[w]
        /\ UNCHANGED <<used, pid, ppid, state, waitPid, waitResult>>
    BY <1>1 DEF WaitReturns, identity
  <1>3. QED
    BY <1>1, <1>2 DEF Waits, HasLiveChild, HasExitedChild, LiveChild, Exited

\* Deliveries that only terminate READY processes are safe for the queues.
LEMMA DeliveryIsSafe == TerminationOnly => SafeDelivery
  BY DEF TerminationOnly, SafeDelivery

\* Every handler preserves the waiters' invariant.
LEMMA WaitNextKeeps == ASSUME TerminationOnly, WaitInv, [Next]_vars PROVE WaitInv'
  <1>1. IInv /\ IInv'
    BY DeliveryIsSafe, NextKeeps DEF WaitInv
  <1>2. state' \in [Slots -> States]
    BY <1>1 DEF IInv, TypeOK
  <1> SUFFICES ASSUME NEW w \in Slots PROVE Waits(w)'
    BY <1>1 DEF WaitInv, WaiterHasLiveChild, WaitReturnsExitedChild, Waits,
                HasLiveChild, HasExitedChild
  <1>3. Waits(w) /\ state'[w] \in States
    BY <1>2, WaitInvUse
  <1>4. CASE UNCHANGED <<waiting, state>>
    BY <1>3, <1>4 DEF waiting, Waits, HasLiveChild, HasExitedChild, LiveChild, Exited
  <1>5. ASSUME NEW pr \in Priorities, ProcessCreate(pr) PROVE Waits(w)'
    BY <1>1, <1>4, <1>5, CreateStates, CreateWaits DEF ProcessCreate
  <1>6. CASE ProcessFork
    BY <1>1, <1>4, <1>6, CreateStates, CreateWaits DEF ProcessFork
  <1>7. CASE SchedulerStart \/ TimerHandler
    BY <1>1, <1>3, <1>7, TickStates, SchedulingWaits
  <1>8. CASE ProcessExit
    BY <1>1, <1>8, ExitStates, ExitWaits
  <1>9. ASSUME NEW c \in Slots, ProcessWait(c) PROVE Waits(w)'
    <2>1. pid[c] \in Nat /\ 0 \in Nat
      BY <1>1, InvariantUse DEF TypeOK
    <2>2. ASSUME NEW wanted \in {0, pid[c]}, WaitBlocks(c, wanted) PROVE Waits(w)'
      <3>1. Blocks(c, wanted)
        BY <1>1, <2>1, <2>2, BlockStates
      <3>2. QED
        BY <1>3, <3>1, BlockWaits
    <2>3. QED
      BY <1>9, <2>2, CollectWaits DEF ProcessWait
  <1>10. CASE WaitReturns
    BY <1>10, ReturnWaits
  <1>11. ASSUME NEW p \in Slots, NEW signal \in Signals, ProcessKill(p, signal) PROVE Waits(w)'
    <2>1. signal = "KILL"
      BY <1>11 DEF ProcessKill, TerminationOnly
    <2>2. ExitsAndWakes(p)
      BY <1>1, <1>11, <2>1, KillStates, DeliveryIsSafe
    <2>3. QED
      BY <2>2, ExitWaits
  <1>12. CASE UNCHANGED vars
    BY <1>4, <1>12 DEF vars, waiting
  <1>13. QED
    BY <1>5, <1>6, <1>7, <1>8, <1>9, <1>10, <1>11, <1>12 DEF Next

\* The waiters' invariant holds in every reachable state.
LEMMA WaitInvariant == ASSUME TerminationOnly PROVE Spec => []WaitInv
  <1>1. Init => WaitInv
    <2>1. Init => \A w \in Slots : Waits(w)
      BY DEF Init, Waits
    <2>2. QED
      BY <2>1, InitInvariant, WaitInvUse
  <1>2. WaitInv /\ [Next]_vars => WaitInv'
    BY WaitNextKeeps
  <1>3. QED
    BY <1>1, <1>2, PTL DEF Spec

\* Nobody sleeps in process_wait without a child that can still wake it.
THEOREM NobodyWaitsInVain ==
    ASSUME TerminationOnly
    PROVE  Spec => []WaiterHasLiveChild
  <1>1. WaitInv => WaiterHasLiveChild
    BY DEF WaitInv
  <1>2. QED
    BY <1>1, WaitInvariant, PTL

\* What process_wait returns after it blocked is a child of the caller that has exited
\* and is still in the table.
THEOREM WaitIsAnswered ==
    ASSUME TerminationOnly
    PROVE  Spec => []WaitReturnsExitedChild
  <1>1. WaitInv => WaitReturnsExitedChild
    BY DEF WaitInv
  <1>2. QED
    BY <1>1, WaitInvariant, PTL
=============================================================================
