------------------------- MODULE ProcessProperties -------------------------
(***************************************************************************)
(* What the process table and its queues owe their users: the properties   *)
(* checked about module Processes, and the queues seen as sequences.       *)
(***************************************************************************)
EXTENDS Processes, Sequences

-----------------------------------------------------------------------------
(* The deliveries under which the queues stay sound: SIGKILL only to a     *)
(* READY process and SIGSTOP never to the running one.  process_kill       *)
(* (process.c:310-348) checks neither.                                     *)
SafeDelivery ==
    \A d \in Deliverable :
        /\ d[1] = "KILL" => d[2] = "READY"
        /\ d[1] = "STOP" => d[2] # "RUNNING"

\* The deliveries under which a blocked process_wait returns for an exited child
\* only: SIGCONT wakes any BLOCKED process, SIGSTOP blocks one that was woken.
TerminationOnly == \A d \in Deliverable : d[1] = "KILL" /\ d[2] = "READY"

-----------------------------------------------------------------------------
(* Queue soundness.                                                        *)

\* The processes that belong on queue k, judged by slot, state and priority.
Residents(k) ==
    {s \in Slots : /\ used[s]
                   /\ \/ k = BlockedQ /\ state[s] = "BLOCKED"
                      \/ k = ZombieQ /\ state[s] = "ZOMBIE"
                      \/ k \in Levels /\ state[s] = "READY" /\ priority[s] = k}

\* A walk of a queue meets exactly the processes whose state and priority put
\* them there: no handler of process.c loses a process, links it twice, leaves
\* it on two queues or keeps the slot of a collected process linked.
QueuesHoldTheirProcesses == \A k \in Queues : Members(lists, k) = Residents(k)

\* Every queue's stored count is its number of nodes, whatever mix of ends and
\* middles enqueue_process, dequeue_process and remove_from_ready_queue worked on.
CountsAreExact == Counted(lists)

\* Exactly the process current_process points to is RUNNING.
CurrentRuns ==
    \A s \in Slots : (used[s] /\ state[s] = "RUNNING") <=> s = current

\* No two live processes share a pid, and no live pid is still to be given out:
\* get_process_by_pid and the parent test of process_wait depend on it.
PidsUnique ==
    \A s, r \in Slots :
        used[s] /\ used[r] =>
            pid[s] \in 1 .. (nextPid - 1) /\ (pid[s] = pid[r] => s = r)

\* Why the queues stay sound: the lists are well linked through every composition
\* of queue operations a handler makes (process_exit alone can make four), they
\* hold the right processes, and pids and current_process identify slots.
SchedulerInv ==
    /\ WellLinked(lists)
    /\ CountsAreExact
    /\ QueuesHoldTheirProcesses
    /\ CurrentRuns
    /\ PidsUnique

-----------------------------------------------------------------------------
(* Waiting for children.                                                   *)

LiveChild(s, p) == used[s] /\ ppid[s] = p /\ state[s] # "ZOMBIE"
Exited(s, p)    == used[s] /\ ppid[s] = p /\ state[s] = "ZOMBIE"

\* A process blocked inside process_wait always still has a child whose exit
\* will wake it, the one it named or, for pid 0, some child (process.c:298).
WaiterHasLiveChild ==
    \A w \in Slots :
        used[w] /\ inWait[w] /\ state[w] = "BLOCKED" =>
            \E c \in Slots : LiveChild(c, pid[w]) /\ waitPid[w] \in {0, pid[c]}

\* A process that has left the blocked queue and is about to return from
\* process_wait will return a child of its own that has exited and that is still
\* in the table (process.c:305: "When we return here, child has exited").
WaitReturnsExitedChild ==
    \A w \in Slots :
        used[w] /\ inWait[w] /\ state[w] \in {"READY", "RUNNING"} =>
            \E c \in Slots : /\ Exited(c, pid[w])
                             /\ waitPid[w] \in {0, pid[c]}
                             /\ waitResult[w] = pid[c]

\* What a step may do to a zombie: nothing, or free its slot for its parent, which runs.
ZombieStep ==
    \A z \in Slots :
        used[z] /\ state[z] = "ZOMBIE" =>
            \/ used'[z] /\ state'[z] = "ZOMBIE" /\ pid'[z] = pid[z]
            \/ /\ ~used'[z]
               /\ current # NULL /\ state[current] = "RUNNING"
               /\ ppid[z] = pid[current]

\* A zombie is never brought back to life, and its slot is freed only for its
\* own parent, in process_wait (process.c:290-296).
ZombiesOnlyCollected == [][ZombieStep]_vars

\* Every process on the table marked ZOMBIE can be found on the zombie queue, as
\* process_kill's "Add to zombie queue" (process.c:325) means it to be.
ZombiesQueued ==
    \A s \in Slots :
        used[s] /\ state[s] = "ZOMBIE" => s \in Members(lists, ZombieQ)

-----------------------------------------------------------------------------
(* Scheduling.                                                             *)

Fifo == INSTANCE RunQueues
            WITH Ready <- Levels, Others <- {BlockedQ, ZombieQ}, NoProc <- NULL,
                 order <- [k \in Queues |-> QueueOrder(lists, k)], running <- current

\* The intrusive lists implement first-come first-served queues: nobody
\* overtakes, nobody is lost, the dispatched process was the first of its level.
ImplementsFifo == Fifo!Spec

\* Round robin: under the timer alone, a READY process does not stay READY
\* forever.  (Only with one level: the choice among levels is not in the code.)
ReadyProcessesRun ==
    \A s \in Slots : (used[s] /\ state[s] = "READY") ~> (state[s] # "READY")
=============================================================================
