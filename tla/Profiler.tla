------------------------------ MODULE Profiler ------------------------------
(***************************************************************************)
(* The sampling profiler (src/apps/performance_profiler/main.c): stacks    *)
(* that the sampling timer takes from the target process while the         *)
(* profiler runs, and the call graph that is built from them when it       *)
(* stops.  Timestamps, counters, names and drawing are left out.           *)
(* clear_call_graph and add_call_edge have no body in the repository.      *)
(***************************************************************************)
EXTENDS Integers, Sequences, FiniteSets, SequencesExt

CONSTANTS
    Callees,        \* code addresses
    Chains,         \* the frames that are linked on the target's stack, innermost first
    MaxStackDepth,  \* MAX_STACK_DEPTH
    MaxSamples      \* MAX_SAMPLES

\* MAX_CALL_GRAPH_NODES is left out: find_or_create_node returns NULL beyond it and
\* its caller does not look, so the targets are those that fit.
ASSUME ProfilerAssumption ==
    MaxStackDepth \in Nat /\ MaxSamples \in Nat /\ Chains \subseteq Seq(Callees)

VARIABLES
    profilerState,  \* state: IDLE, RUNNING, COMPLETE
    samples,        \* samples[0 .. sample_count - 1]: their stack_trace
    callGraph       \* call_graph.nodes: address, self_time, total_time

profilerVars == <<profilerState, samples, callGraph>>

ProfilerInit == profilerState = "IDLE" /\ samples = <<>> /\ callGraph = <<>>

StartProfiling ==
    /\ profilerState = "IDLE"
    /\ profilerState' = "RUNNING"
    /\ UNCHANGED <<samples, callGraph>>

\* capture_stack_trace: the walk ends with the chain, at the limit, or at a frame
\* whose memory cannot be read; without a process it does not begin.
Captured(chain) ==
    {SubSeq(chain, 1, n) : n \in 0 .. (IF Len(chain) < MaxStackDepth THEN Len(chain)
                                       ELSE MaxStackDepth)}

\* sample_stack_trace, by the sampling timer
SampleStackTrace ==
    /\ profilerState = "RUNNING"
    /\ Len(samples) < MaxSamples
    /\ \E chain \in Chains : \E trace \in Captured(chain) : samples' = Append(samples, trace)
    /\ UNCHANGED <<profilerState, callGraph>>

-----------------------------------------------------------------------------
(* build_call_graph.                                                       *)

\* (Mutant of FindOrCreateNode: the newest node is not looked at.)
FindButNewest(graph, a) ==
    IF \E n \in 1 .. (Len(graph) - 1) : graph[n].address = a THEN graph
    ELSE Append(graph, [address |-> a, self |-> 0, total |-> 0])

FindOrCreateNode(graph, a) ==
    IF \E n \in DOMAIN graph : graph[n].address = a THEN graph
    ELSE Append(graph, [address |-> a, self |-> 0, total |-> 0])

\* The node that a scan of the array finds.
NodeOf(graph, a) == SelectInSeq(graph, LAMBDA node : node.address = a)

\* Lines 112-123: one frame of a trace, with the frame before it.
CountFrame(graph, trace, j) ==
    LET own    == FindOrCreateNode(graph, trace[j])
        me     == NodeOf(own, trace[j])
        mine   == [own EXCEPT ![me].self = @ + 1, ![me].total = @ + 1]
        both   == FindOrCreateNode(mine, trace[j - 1])
        before == NodeOf(both, trace[j - 1])
    IN  IF j = 1 THEN mine ELSE [both EXCEPT ![before].total = @ + 1]

CountTrace(graph, trace) ==
    LET counted[j \in 0 .. Len(trace)] ==
            IF j = 0 THEN graph ELSE CountFrame(counted[j - 1], trace, j)
    IN  counted[Len(trace)]

BuildCallGraph ==
    LET built[i \in 0 .. Len(samples)] ==
            IF i = 0 THEN <<>> ELSE CountTrace(built[i - 1], samples[i])
    IN  built[Len(samples)]

StopProfiling ==
    /\ profilerState = "RUNNING"
    /\ callGraph' = BuildCallGraph
    /\ profilerState' = "COMPLETE"
    /\ UNCHANGED samples

ProfilerNext == StartProfiling \/ SampleStackTrace \/ StopProfiling

ProfilerSpec == ProfilerInit /\ [][ProfilerNext]_profilerVars

-----------------------------------------------------------------------------
\* The frames with an address; all of them, or those that another one follows.
FramesAt(a, all) ==
    {p \in (1 .. Len(samples)) \X (1 .. MaxStackDepth) :
        /\ p[2] \in DOMAIN samples[p[1]] /\ samples[p[1]][p[2]] = a
        /\ all \/ p[2] < Len(samples[p[1]])}

\* The finished call graph has one node for every address that was sampled, and no
\* other.  self_time counts the frames with the address; total_time counts them again
\* when a frame follows.  Recursion, traces cut short and nodes made out of order lose
\* and double nothing.  (build_call_graph, find_or_create_node.)
GraphCountsFrames ==
    profilerState = "COMPLETE" =>
        \A a \in Callees :
            LET nodes == {n \in DOMAIN callGraph : callGraph[n].address = a}
                here  == Cardinality(FramesAt(a, TRUE))
            IN  /\ Cardinality(nodes) = IF here = 0 THEN 0 ELSE 1
                /\ \A n \in nodes :
                      /\ callGraph[n].self = here
                      /\ callGraph[n].total = here + Cardinality(FramesAt(a, FALSE))
=============================================================================
