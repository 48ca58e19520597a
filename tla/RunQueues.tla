----------------------------- MODULE RunQueues -----------------------------
(***************************************************************************)
(* What the scheduler's queues promise, without pointers: every queue is a *)
(* sequence, a process waits at most once in at most one of them, members  *)
(* keep their order, newcomers go behind everybody, and the process that   *)
(* gets the processor is the first of some ready queue.                    *)
(***************************************************************************)
EXTENDS Naturals, Sequences, Functions

CONSTANTS
    Ready,      \* names of the ready queues
    Others,     \* names of the queues nobody is dispatched from
    NoProc      \* running = NoProc: the processor is idle

VARIABLES
    order,      \* order[k]: the processes waiting in queue k, longest first
    running

vars == <<order, running>>
Names == Ready \cup Others

Queued(k) == {order[k][i] : i \in DOMAIN order[k]}

Exclusive ==
    /\ \A k \in Names : IsInjective(order[k]) /\ running \notin Queued(k)
    /\ \A k, j \in Names : k # j => Queued(k) \cap Queued(j) = {}

\* Some members of a queue may leave, the others keep their order, and a
\* newcomer goes behind them: only the last can be one.
Evolves(old, new) ==
    /\ \A i \in DOMAIN new : i < Len(new) => \E a \in DOMAIN old : old[a] = new[i]
    /\ \A a, b \in DOMAIN old, i, j \in DOMAIN new :
          a < b /\ old[a] = new[i] /\ old[b] = new[j] => i < j

Init == order = [k \in Names |-> <<>>] /\ running = NoProc

\* The processor changes no hands.
Move ==
    /\ \A k \in Names : Evolves(order[k], order'[k])
    /\ UNCHANGED running

\* The first process of ready queue k is taken off it and runs.
Dispatch(k) ==
    /\ running' # NoProc
    /\ Evolves(order[k], <<running'>> \o order'[k])
    /\ \A j \in Names \ {k} : Evolves(order[j], order'[j])

\* Nobody is ready.
Idle ==
    /\ running' = NoProc
    /\ \A k \in Ready : order'[k] = <<>>
    /\ \A k \in Others : Evolves(order[k], order'[k])

Next ==
    /\ Move \/ Idle \/ \E k \in Ready : Dispatch(k)
    /\ Exclusive'

Spec == Init /\ [][Next]_vars
=============================================================================
