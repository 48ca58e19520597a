--------------------------- MODULE PreemptedWait ---------------------------
(***************************************************************************)
(* process_wait with a timer tick inside.  Processes run with interrupts   *)
(* enabled (process.c:96), call the kernel's functions directly, and       *)
(* nothing in src/ masks the timer around them: between the test of the    *)
(* child's state (line 291) and the caller's own change of state (299) the *)
(* caller can be preempted.  The other handlers stay atomic.               *)
(***************************************************************************)
EXTENDS ProcessProperties

VARIABLE decided    \* decided[s]: the wait_pid s is about to block with, or NULL

preemptedVars == <<vars, decided>>

\* The current process is not between the two halves of process_wait.
Between == current # NULL /\ decided[current] # NULL

PreemptedInit == Init /\ decided = [s \in Slots |-> NULL]

\* Lines 276-291: a child is found and is not a zombie.
WaitDecides(c, wantedPid) ==
    /\ Calling /\ IsChild(c)
    /\ state[c] # "ZOMBIE"
    /\ decided' = [decided EXCEPT ![current] = wantedPid]
    /\ UNCHANGED vars

\* Lines 298-303, whatever has happened to the child since.
WaitSuspends ==
    /\ Between
    /\ BlockCaller(decided[current])
    /\ decided' = [decided EXCEPT ![current] = NULL]

PreemptedNext ==
    \/ /\ ~Between
       /\ \E c \in Slots, any \in BOOLEAN : WaitDecides(c, IF any THEN 0 ELSE pid[c])
    \/ WaitSuspends
    \/ TimerHandler /\ UNCHANGED decided
    \/ /\ ~Between
       /\ \/ \E pr \in Priorities : ProcessCreate(pr)
          \/ ProcessFork
          \/ SchedulerStart
          \/ ProcessExit
          \/ \E c \in Slots : WaitCollects(c)
          \/ WaitReturns
       /\ UNCHANGED decided

PreemptedSpec == PreemptedInit /\ [][PreemptedNext]_preemptedVars
=============================================================================
