--------------------------- MODULE MCApplications ---------------------------
(***************************************************************************)
(* Instances for TLC of what runs above the kernel: the window manager,    *)
(* drawing, the terminal, the shell and its command lines, the profiler,   *)
(* the container runtime and the hypervisor.  They share no state in this  *)
(* model, so one of them runs in a behaviour while the others stay as they *)
(* started.                                                                *)
(***************************************************************************)
EXTENDS WindowManager, Drawing, Terminal, Shell, Profiler, Containers, Hypervisor

CONSTANTS c, h      \* characters of the terminal

VARIABLE part       \* the component that runs

MCClear == <<c>>
MCHelp  == <<h>>

MCTokens == {"w", "v", "|", "<", ">", ">>"}

Path(slashes, parts) == [slashes |-> slashes, parts |-> parts]

\* "/d" and "/d/e", "/e"; absolute and relative words for them.
MCDirectories == {<<>>, <<"d">>, <<"e">>, <<"d", "e">>}
MCHomePath    == Path(1, <<"d">>)
MCPathOf ==
    [w \in {"/d", "/d/./e", "e", "..", "run"} |->
        CASE w = "/d"     -> MCHomePath
          [] w = "/d/./e" -> Path(1, <<"d", ".", "e">>)
          [] OTHER        -> Path(0, <<w>>)]
MCLines ==
    [tokens : {<<>>, <<"cd">>, <<"cd", "e">>, <<"cd", "..">>, <<"cd", "/d">>,
               <<"cd", "/d/./e">>, <<"run">>, <<"run", "|", "run">>, <<"echo">>},
     background : BOOLEAN]
MCExitCodes == {0, -1}

MCChains == UNION {[1 .. n -> Callees] : n \in 0 .. 3}

MCXs == -1 .. 6
MCYs == -1 .. 5

windowVars == vars

MCInit ==
    /\ part \in {"windows", "drawing", "terminal", "line", "shell", "profiler",
                 "containers", "hypervisor"}
    /\ Init /\ DrawingInit /\ TerminalInit /\ TypedInit /\ ShellInit /\ ProfilerInit
    /\ ContainersInit /\ HypervisorInit
    /\ part # "terminal" => promptLength = 1
    /\ part # "drawing" => bpp = 32
    /\ part # "shell" => waitStatus = 0

\* All but the component that runs.
Others(p) ==
    /\ UNCHANGED part
    /\ p # "windows" => UNCHANGED windowVars
    /\ p # "drawing" => UNCHANGED drawingVars
    /\ p # "terminal" => UNCHANGED terminalVars
    /\ p # "line" => UNCHANGED typed
    /\ p # "shell" => UNCHANGED shellVars
    /\ p # "profiler" => UNCHANGED profilerVars
    /\ p # "containers" => UNCHANGED containerVars
    /\ p # "hypervisor" => UNCHANGED hypervisorVars

MCNext ==
    \/ part = "windows" /\ Next /\ Others(part)
    \/ part = "drawing" /\ DrawingNext /\ Others(part)
    \/ part = "terminal" /\ TerminalNext /\ Others(part)
    \/ part = "line" /\ TypeToken /\ Others(part)
    \/ part = "shell" /\ ShellNext /\ Others(part)
    \/ part = "profiler" /\ ProfilerNext /\ Others(part)
    \/ part = "containers" /\ ContainersNext /\ Others(part)
    \/ part = "hypervisor" /\ HypervisorNext /\ Others(part)

MCSpec ==
    MCInit /\ [][MCNext]_<<windowVars, drawingVars, terminalVars, typed, shellVars,
                           profilerVars, containerVars, hypervisorVars, part>>

\* The types of the components.
MCTypeOK == TypeOK /\ TerminalTypeOK /\ ContainersTypeOK
=============================================================================
