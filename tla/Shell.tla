------------------------------- MODULE Shell -------------------------------
(***************************************************************************)
(* The shell (src/cli/shell.c): how cd resolves a path, and the processes  *)
(* that the shell starts and waits for.  A path is its components and the  *)
(* number of slashes it begins with, of which normalize_path makes a       *)
(* difference.                                                             *)
(* execute_pipeline has no body in the repository, nor have the built-in   *)
(* commands that change more than the screen, except cd.                   *)
(* process_wait is what process.c:273-308 does, without a timer tick       *)
(* inside it; wake_waiting_parent is external, as in Processes.  Of the    *)
(* signals there are SIGCONT to the shell and those that end a running     *)
(* program.                                                                *)
(***************************************************************************)
EXTENDS CommandLine

CONSTANTS
    Lines,          \* the lines users enter: tokens, background
    PathOf,         \* the path that a word stands for
    HomePath,       \* get_env_var("HOME")
    Directories,    \* the directories of the file system, as components
    Programs,       \* the names find_executable finds
    ExitCodes,      \* what programs return, -1 when process_exec fails, -signal
    MaxJobs         \* bound on the processes started

ASSUME ShellAssumption == MaxJobs \in Nat

VARIABLES
    command,    \* the command_t of the last line
    cwd,        \* shell_ctx.cwd
    lastExit,   \* shell_ctx.last_exit_code
    shell,      \* "prompt"; "calling" process_wait, "waiting" (blocked) in it and
                \* "woken" (ready) there; "replaced" by a program
    jobs,       \* the processes started, by pid: state, exit code
    awaited,    \* the pid process_wait was last called for
    waitStatus, \* wait_status of the shell's process
    cut         \* history: a signal ended the last wait

waitVars  == <<awaited, waitStatus, cut>>
shellVars == <<command, cwd, lastExit, shell, jobs, waitVars>>

-----------------------------------------------------------------------------
(* resolve_path and normalize_path.                                        *)

\* One component; the first that is kept remembers whether it directly follows the
\* first character of the string, which strcpy(path, "/") ends.
Component(walk, token) ==
    CASE token = "."  -> [walk EXCEPT !.first = FALSE]
      [] token = ".." -> [walk EXCEPT !.first = FALSE,
                                      !.kept = SubSeq(@, 1, Len(@) - 1)]
      [] OTHER -> [first |-> FALSE,
                   kept |-> Append(walk.kept, [name |-> token, lost |-> walk.first])]

\* The components are rebuilt in place: one that begins where the terminating zero of
\* "/" is written has become the empty string.
NormalizePath(path) ==
    LET kept == FoldLeft(Component, [first |-> path.slashes = 1, kept |-> <<>>],
                         path.parts).kept
        names == [i \in DOMAIN kept |-> kept[i].name]
    IN  IF kept # <<>> /\ kept[1].lost
        THEN [slashes |-> IF Len(names) = 1 THEN 1 ELSE 2, parts |-> Tail(names)]
        ELSE [slashes |-> 1, parts |-> names]

\* A relative path is put behind the current directory and a slash.
ResolvePath(path) ==
    NormalizePath(
        IF path.slashes > 0 THEN path
        ELSE [slashes |-> IF cwd.parts = <<>> THEN 2 ELSE cwd.slashes,
              parts |-> cwd.parts \o path.parts])

-----------------------------------------------------------------------------
(* execute_command_line.                                                   *)

Unstarted == UNCHANGED <<lastExit, shell, jobs, waitVars>>

\* The single command of a line: none in an empty line or one with a pipe
Name(cmd) == IF cmd.argv = <<>> \/ cmd.pipes # <<>> THEN None ELSE cmd.argv[1]

Target(cmd) == IF Len(cmd.argv) > 1 THEN PathOf[cmd.argv[2]] ELSE HomePath

\* cmd_cd; fs_stat has the last word.
CmdCd(cmd) ==
    /\ Name(cmd) = "cd"
    /\ LET resolved == ResolvePath(Target(cmd))
       IN  cwd' = IF resolved.parts \in Directories THEN resolved ELSE cwd
    /\ Unstarted

\* Nothing, a pipeline, another built-in command, or a name that is not found
OtherCommand(cmd) ==
    /\ Name(cmd) \notin Programs \cup {"cd"}
    /\ Unstarted
    /\ UNCHANGED cwd

\* execute_external_command
StartProgram(cmd) ==
    /\ Len(jobs) < MaxJobs
    /\ jobs' = Append(jobs, [state |-> "running", code |-> 0])
    /\ IF cmd.background THEN UNCHANGED <<shell, awaited, cut>>
       ELSE shell' = "calling" /\ awaited' = Len(jobs) + 1 /\ cut' = FALSE
    /\ UNCHANGED <<cwd, lastExit, waitStatus>>

\* process_fork had no process to give: it returns 0, and the shell goes on as the
\* child that it did not get, into process_exec.
ForkFails ==
    /\ shell' = "replaced"
    /\ UNCHANGED <<cwd, lastExit, jobs, waitVars>>

ExternalCommand(cmd) ==
    /\ Name(cmd) \in Programs
    /\ StartProgram(cmd) \/ ForkFails

ExecuteCommandLine(line) ==
    /\ shell = "prompt"
    /\ LET cmd == ParseCommandLine(line.tokens, line.background)
       IN  /\ command' = cmd
           /\ OtherCommand(cmd) \/ CmdCd(cmd) \/ ExternalCommand(cmd)

-----------------------------------------------------------------------------
(* The processes.                                                          *)

\* (Mutant of ProgramExits: any child that exits wakes the shell.)
ProgramExitsWaking(pid) ==
    /\ jobs[pid].state = "running"
    /\ \E code \in ExitCodes :
          /\ jobs' = [jobs EXCEPT ![pid] = [state |-> "zombie", code |-> code]]
          /\ IF shell = "waiting" THEN shell' = "woken" /\ waitStatus' = code
             ELSE UNCHANGED <<shell, waitStatus>>
    /\ UNCHANGED <<command, cwd, lastExit, awaited, cut>>

\* process_exit of a process the shell started, or process_kill of it; both wake the shell
\* when it is blocked in a wait for this process.
ProgramExits(pid) ==
    /\ jobs[pid].state = "running"
    /\ \E code \in ExitCodes :
          /\ jobs' = [jobs EXCEPT ![pid] = [state |-> "zombie", code |-> code]]
          /\ IF shell = "waiting" /\ awaited = pid
             THEN shell' = "woken" /\ waitStatus' = code
             ELSE UNCHANGED <<shell, waitStatus>>
    /\ UNCHANGED <<command, cwd, lastExit, awaited, cut>>

\* process_wait for the command in the foreground: it has exited and is collected, or the
\* shell blocks.
ProcessWait ==
    /\ shell = "calling"
    /\ IF jobs[awaited].state = "zombie"
       THEN /\ lastExit' = jobs[awaited].code
            /\ jobs' = [jobs EXCEPT ![awaited].state = "collected"]
            /\ shell' = "prompt"
       ELSE shell' = "waiting" /\ UNCHANGED <<lastExit, jobs>>
    /\ UNCHANGED <<command, cwd, waitVars>>

\* process_kill of the shell with SIGCONT: the wait ends, wait_status is still what the
\* last one left.
ShellContinued ==
    /\ shell = "waiting"
    /\ shell' = "woken"
    /\ cut' = TRUE
    /\ UNCHANGED <<command, cwd, lastExit, jobs, awaited, waitStatus>>

\* The shell runs again behind schedule(); the child is not collected.
WaitReturns ==
    /\ shell = "woken"
    /\ lastExit' = waitStatus
    /\ shell' = "prompt"
    /\ UNCHANGED <<command, cwd, jobs, waitVars>>

ShellInit ==
    /\ command = NoCommand
    /\ cwd = [slashes |-> 1, parts |-> <<>>]
    /\ lastExit = 0
    /\ shell = "prompt"
    /\ jobs = <<>>
    /\ awaited = 0
    /\ waitStatus \in ExitCodes      \* what the process table held
    /\ cut = FALSE

ShellNext ==
    \/ \E line \in Lines : ExecuteCommandLine(line)
    \/ \E pid \in DOMAIN jobs : ProgramExits(pid)
    \/ ProcessWait
    \/ ShellContinued
    \/ WaitReturns

ShellSpec == ShellInit /\ [][ShellNext]_shellVars

-----------------------------------------------------------------------------
\* Unless a signal ended the wait, last_exit_code is what the last command in the foreground
\* returned: whether that exits before the shell waits, while it does or is never collected,
\* and whichever commands end in the background, before, meanwhile or after.
ExitCodeOfForeground ==
    IF awaited = 0 THEN lastExit = 0
    ELSE shell = "prompt" /\ ~cut =>
             jobs[awaited].state # "running" /\ lastExit = jobs[awaited].code

\* The components a path leads to from a directory
Walk(from, path) ==
    FoldLeft(LAMBDA at, token :
                 CASE token = "."  -> at
                   [] token = ".." -> SubSeq(at, 1, Len(at) - 1)
                   [] OTHER -> Append(at, token),
             IF path.slashes > 0 THEN <<>> ELSE from, path.parts)

\* cd changes to the directory it is given, and to no other.  ("Normalize path (remove
\* . and ..)", shell.c:551.)
CdGoesWhereAsked ==
    [][cwd' # cwd => cwd'.parts = Walk(cwd.parts, Target(command'))]_shellVars
=============================================================================
