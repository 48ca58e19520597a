----------------------------- MODULE Processes -----------------------------
(***************************************************************************)
(* Process management of the kernel: src/kernel/process.c driven by the    *)
(* timer interrupt of src/kernel/timer.c.  Each action is one whole        *)
(* handler, with the calls it makes to the queue functions, to             *)
(* wake_waiting_parent and to schedule.  Those last two, and               *)
(* cleanup_zombie_process, find_any_child and remove_from_blocked_queue,   *)
(* are declared in process.h and used by process.c but have no body in the *)
(* repository: they are modelled from their uses.  Handlers are atomic     *)
(* here; PreemptedWait lets a timer tick fall into process_wait.            *)
(***************************************************************************)
EXTENDS ProcessQueue

CONSTANTS
    Priorities,     \* values callers pass as the priority of a new process
    DefaultSlice,   \* DEFAULT_TIME_SLICE, in timer ticks
    MaxPid,         \* bound on next_pid, to keep the model finite
    Deliverable     \* the (signal, state of the target) pairs callers produce

States  == {"READY", "RUNNING", "BLOCKED", "ZOMBIE"}
Signals == {"KILL", "STOP", "CONT"}      \* SIGTERM is handled as SIGKILL

ASSUME ParametersAssumption ==
    /\ Priorities \subseteq Nat
    /\ DefaultSlice \in Nat \ {0}
    /\ MaxPid \in Nat
    /\ Deliverable \subseteq Signals \X States

VARIABLES
    used,        \* process_slots
    pid, ppid, state, priority,     \* fields of process_table[s]
    waitPid,     \* wait_pid: 0 is any child
    waitResult,  \* wait_result
    inWait,      \* the process is suspended inside process_wait, line 303
    lists,       \* the `next` fields and the queues
    current,     \* current_process; NULL while the idle process runs
    nextPid,     \* next_pid
    slice,       \* time_slice of the current process
    started      \* scheduler_start has run

vars == <<used, pid, ppid, state, priority, waitPid, waitResult, inWait,
          lists, current, nextPid, slice, started>>
identity == <<pid, ppid, priority>>

TypeOK ==
    /\ used \in [Slots -> BOOLEAN]
    /\ pid \in [Slots -> Nat]
    /\ ppid \in [Slots -> Nat]
    /\ state \in [Slots -> States]
    /\ priority \in [Slots -> Levels]
    /\ waitPid \in [Slots -> Nat]
    /\ waitResult \in [Slots -> Nat]
    /\ inWait \in [Slots -> BOOLEAN]
    /\ lists \in Lists
    /\ current \in Slots \cup {NULL}
    /\ nextPid \in Nat \ {0}
    /\ slice \in 0 .. DefaultSlice
    /\ started \in BOOLEAN

\* process_init; a static process_table is zeroed.
Init ==
    /\ used = [s \in Slots |-> FALSE]
    /\ pid = [s \in Slots |-> 0]
    /\ ppid = [s \in Slots |-> 0]
    /\ state = [s \in Slots |-> "READY"]
    /\ priority = [s \in Slots |-> 0]
    /\ waitPid = [s \in Slots |-> 0]
    /\ waitResult = [s \in Slots |-> 0]
    /\ inWait = [s \in Slots |-> FALSE]
    /\ lists = EmptyLists
    /\ current = NULL
    /\ nextPid = 1
    /\ slice = 0
    /\ started = FALSE

-----------------------------------------------------------------------------
(* Helpers of the handlers.                                                *)

\* (Mutant of ClampPriority: `>` for `>=`.)
ClampOffByOne(pr) == IF pr > NumLevels THEN NumLevels - 1 ELSE pr

ClampPriority(pr) == IF pr >= NumLevels THEN NumLevels - 1 ELSE pr

\* add_to_ready_queue, for a process whose priority field is pr.
AddToReadyQueue(m, pr, p) == EnqueueProcess(m, ClampPriority(pr), p)

\* get_process_by_pid succeeds on exactly these slots.
Live(p) == used[p]

CallerPid == IF current = NULL THEN 0 ELSE pid[current]

\* The current process is executing its own code and may call the kernel.
Calling == current # NULL /\ ~inWait[current]

\* The head of some non-empty ready queue gets the processor and a fresh slice.
Dispatch(m, st) ==
    LET ready == {l \in Levels : m.queue[l].head # NULL}
    IN  \/ \E l \in ready :
              LET p == m.queue[l].head IN
              /\ lists' = DequeueProcess(m, l)
              /\ current' = p
              /\ state' = [st EXCEPT ![p] = "RUNNING"]
              /\ slice' = DefaultSlice
        \/ /\ ready = {}
           /\ lists' = m
           /\ current' = NULL
           /\ state' = st
           /\ slice' = 0

\* schedule (external).  A process that is still RUNNING is put back on its
\* ready queue; then the head of some non-empty ready queue is dispatched
\* with a fresh time slice, the idle process when there is none.  Which level
\* select_next_process prefers is not in the repository.
Schedule(m, st) ==
    LET preempted == current # NULL /\ st[current] = "RUNNING"
        m1  == IF preempted THEN AddToReadyQueue(m, priority[current], current) ELSE m
        st1 == IF preempted THEN [st EXCEPT ![current] = "READY"] ELSE st
    IN  Dispatch(m1, st1)

\* (Mutants of WaitersFor: the wait_pid, or the state, of the parent is ignored.)
WaitersIgnoringPid(child, st) ==
    {p \in Slots : Live(p) /\ st[p] = "BLOCKED" /\ pid[p] = ppid[child]}

WaitersIgnoringState(child, st) ==
    {p \in Slots : /\ Live(p) /\ pid[p] = ppid[child]
                   /\ waitPid[p] \in {0, pid[child]}}

\* wake_waiting_parent (external): the parent is woken when it is BLOCKED
\* with a wait_pid that asks for this child or for any child.
WaitersFor(child, st) ==
    {p \in Slots : /\ Live(p) /\ st[p] = "BLOCKED"
                   /\ pid[p] = ppid[child]
                   /\ waitPid[p] \in {0, pid[child]}}

WakeLists(m, W) ==
    IF W = {} THEN m
    ELSE LET p == CHOOSE p \in W : TRUE
         IN  AddToReadyQueue(RemoveProcess(m, BlockedQ, p), priority[p], p)

WakeState(st, W) == [s \in Slots |-> IF s \in W THEN "READY" ELSE st[s]]

WakeResult(child, W) == [s \in Slots |-> IF s \in W THEN pid[child] ELSE waitResult[s]]

-----------------------------------------------------------------------------
(* process_create, and the part of it process_fork shares.  The first free *)
(* slot is taken; the pid is consumed even when the page table or the      *)
(* executable cannot be had and the slot is given back (the other fields   *)
(* of an unused slot are dead, they are left alone here).                  *)

FirstFree(s) == ~used[s] /\ \A r \in Slots : r < s => used[r]

CreateInSlot(s, pr) ==
    /\ nextPid <= MaxPid
    /\ used' = [used EXCEPT ![s] = TRUE]
    /\ pid' = [pid EXCEPT ![s] = nextPid]
    /\ ppid' = [ppid EXCEPT ![s] = CallerPid]
    /\ state' = [state EXCEPT ![s] = "READY"]
    /\ priority' = [priority EXCEPT ![s] = ClampPriority(pr)]
    /\ inWait' = [inWait EXCEPT ![s] = FALSE]
    /\ lists' = AddToReadyQueue(lists, pr, s)
    /\ nextPid' = nextPid + 1
    /\ UNCHANGED <<waitPid, waitResult, current, slice, started>>

CreateFails ==
    /\ nextPid <= MaxPid
    /\ nextPid' = nextPid + 1
    /\ UNCHANGED <<used, identity, state, waitPid, waitResult, inWait, lists,
                   current, slice, started>>

\* process_create, called from kernel_main before the scheduler starts and by
\* a running process afterwards.
ProcessCreate(pr) ==
    /\ ~started \/ Calling
    /\ \E s \in Slots :
          /\ FirstFree(s)
          /\ CreateInSlot(s, pr) \/ CreateFails

\* process_fork: process_create with the caller's priority.  (Copying the
\* address space and the descriptors changes no state of this model.)
ProcessFork ==
    /\ started /\ Calling
    /\ \E s \in Slots :
          /\ FirstFree(s)
          /\ CreateInSlot(s, priority[current]) \/ CreateFails

\* scheduler_start
SchedulerStart ==
    /\ ~started
    /\ started' = TRUE
    /\ Schedule(lists, state)
    /\ UNCHANGED <<used, identity, waitPid, waitResult, inWait, nextPid>>

\* timer_handler: the current process loses one tick; at zero the scheduler runs.
TimerHandler ==
    /\ started /\ current # NULL
    /\ IF slice > 1
       THEN /\ slice' = slice - 1
            /\ UNCHANGED <<lists, current, state>>
       ELSE Schedule(lists, state)
    /\ UNCHANGED <<used, identity, waitPid, waitResult, inWait, nextPid, started>>

\* (Mutant of ProcessExit: the parent is not woken.)
ExitWithoutWake ==
    /\ Calling
    /\ LET st == [state EXCEPT ![current] = "ZOMBIE"] IN
       /\ waitResult' = waitResult
       /\ Schedule(EnqueueProcess(lists, ZombieQ, current), st)
    /\ UNCHANGED <<used, identity, waitPid, inWait, nextPid, started>>

\* process_exit, called by the process itself and by process_exec when the new
\* executable cannot be loaded: wake the parent, join the zombie queue, schedule.
ProcessExit ==
    /\ Calling
    /\ LET st == [state EXCEPT ![current] = "ZOMBIE"]
           W  == WaitersFor(current, st)
       IN  /\ waitResult' = WakeResult(current, W)
           /\ Schedule(EnqueueProcess(WakeLists(lists, W), ZombieQ, current),
                       WakeState(st, W))
    /\ UNCHANGED <<used, identity, waitPid, inWait, nextPid, started>>

-----------------------------------------------------------------------------
(* process_wait.  A zombie child is collected at once: its slot is freed   *)
(* and it leaves the zombie queue (cleanup_zombie_process, external).      *)

IsChild(c) == Live(c) /\ ppid[c] = pid[current]

CollectZombie(c) ==
    /\ used' = [used EXCEPT ![c] = FALSE]
    /\ lists' = RemoveProcess(lists, ZombieQ, c)

WaitCollects(c) ==
    /\ Calling /\ IsChild(c)
    /\ state[c] = "ZOMBIE"
    /\ CollectZombie(c)
    /\ UNCHANGED <<identity, state, waitPid, waitResult, inWait, current,
                   nextPid, slice, started>>

\* The caller joins the blocked queue and gives the processor up.
BlockCaller(wantedPid) ==
    /\ waitPid' = [waitPid EXCEPT ![current] = wantedPid]
    /\ inWait' = [inWait EXCEPT ![current] = TRUE]
    /\ Schedule(EnqueueProcess(lists, BlockedQ, current),
                [state EXCEPT ![current] = "BLOCKED"])
    /\ UNCHANGED <<used, identity, waitResult, nextPid, started>>

\* wantedPid is the caller's argument: the child's pid, or 0 when
\* find_any_child returned this child.
WaitBlocks(c, wantedPid) ==
    /\ Calling /\ IsChild(c)
    /\ state[c] # "ZOMBIE"
    /\ BlockCaller(wantedPid)

\* The blocked call resumes behind schedule() and returns wait_result.
WaitReturns ==
    /\ current # NULL /\ inWait[current]
    /\ inWait' = [inWait EXCEPT ![current] = FALSE]
    /\ UNCHANGED <<used, identity, state, waitPid, waitResult, lists, current,
                   nextPid, slice, started>>

ProcessWait(c) ==
    \/ WaitCollects(c)
    \/ \E wantedPid \in {0, pid[c]} : WaitBlocks(c, wantedPid)

-----------------------------------------------------------------------------
(* process_kill, called by the current process on a live pid.              *)

\* (Mutant of Terminate: the target is not taken off the ready queue.)
KillLeavingReady(p) ==
    LET st == [state EXCEPT ![p] = "ZOMBIE"]
        W  == WaitersFor(p, st)
    IN  /\ state' = WakeState(st, W)
        /\ waitResult' = WakeResult(p, W)
        /\ lists' = WakeLists(EnqueueProcess(lists, ZombieQ, p), W)

\* SIGTERM and SIGKILL: unlink from the ready queue if it is there, join the
\* zombie queue, wake the parent.
Terminate(p) ==
    LET st == [state EXCEPT ![p] = "ZOMBIE"]
        W  == WaitersFor(p, st)
        m  == RemoveProcess(lists, priority[p], p)
    IN  /\ state' = WakeState(st, W)
        /\ waitResult' = WakeResult(p, W)
        /\ lists' = WakeLists(EnqueueProcess(m, ZombieQ, p), W)

\* SIGSTOP; a process in another state ignores it.
Stop(p) ==
    /\ state[p] \in {"RUNNING", "READY"}
    /\ state' = [state EXCEPT ![p] = "BLOCKED"]
    /\ lists' = EnqueueProcess(RemoveProcess(lists, priority[p], p), BlockedQ, p)
    /\ UNCHANGED waitResult

\* SIGCONT; a process that is not BLOCKED ignores it.
Continue(p) ==
    /\ state[p] = "BLOCKED"
    /\ state' = [state EXCEPT ![p] = "READY"]
    /\ lists' = AddToReadyQueue(RemoveProcess(lists, BlockedQ, p), priority[p], p)
    /\ UNCHANGED waitResult

ProcessKill(p, signal) ==
    /\ Calling /\ Live(p)
    /\ <<signal, state[p]>> \in Deliverable
    /\ \/ signal = "KILL" /\ Terminate(p)
       \/ signal = "STOP" /\ Stop(p)
       \/ signal = "CONT" /\ Continue(p)
    /\ UNCHANGED <<used, identity, waitPid, inWait, current, nextPid, slice, started>>

-----------------------------------------------------------------------------
Next ==
    \/ \E pr \in Priorities : ProcessCreate(pr)
    \/ ProcessFork
    \/ SchedulerStart
    \/ TimerHandler
    \/ ProcessExit
    \/ \E c \in Slots : ProcessWait(c)
    \/ WaitReturns
    \/ \E p \in Slots, signal \in Signals : ProcessKill(p, signal)

Spec == Init /\ [][Next]_vars

\* The timer interrupt keeps arriving (PIT at 100 Hz) once the scheduler runs.
FairSpec == Spec /\ WF_vars(TimerHandler) /\ WF_vars(SchedulerStart)
=============================================================================
