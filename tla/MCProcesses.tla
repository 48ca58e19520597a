---------------------------- MODULE MCProcesses ----------------------------
(* Instances of Processes for TLC. *)
EXTENDS ProcessProperties

\* Terminate and stop only what waits on a ready queue; continue what is blocked.
SafeSignals == {<<"KILL", "READY">>, <<"STOP", "READY">>, <<"CONT", "BLOCKED">>}

\* As above, but nobody is continued: a blocked process leaves its queue by the
\* exit of a child only.
TerminateOnly == {<<"KILL", "READY">>}

\* `kill` typed with the pid of a process that is already a zombie.
KillZombies == {<<"KILL", "READY">>, <<"KILL", "ZOMBIE">>}

\* One priority inside the range and one that add_to_ready_queue clamps.
MCPriorities == {0, 2}
=============================================================================
