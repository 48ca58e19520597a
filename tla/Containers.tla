----------------------------- MODULE Containers -----------------------------
(***************************************************************************)
(* The container runtime of src/virtualization/container.c: an array of    *)
(* containers that processes ("managers") create, start, stop and remove.  *)
(* stop_container keeps a pointer into the array while it sleeps, so that  *)
(* it is two steps here; every other call is one.  The header is not in    *)
(* the repository; generate_container_id, find_container and               *)
(* is_process_running are modelled from their uses, process_kill and       *)
(* process_fork by what they do in src/kernel/process.c.                   *)
(***************************************************************************)
EXTENDS Integers, Sequences

CONSTANTS
    Managers,       \* processes that call the runtime
    MaxContainers,  \* length of the array
    LastId,         \* bounds the ids generate_container_id gives: 1 .. LastId
    NoProcess       \* an init_pid that was never set

ASSUME ContainersAssumption ==
    MaxContainers \in Nat \ {0} /\ LastId \in Nat /\ NoProcess \notin Nat

Ids   == 1 .. LastId
Slots == 0 .. (MaxContainers - 1)

\* A container is started at most once, so that the init process of container i
\* is called i as well.
Container == [id : Ids \cup {0}, state : {"CREATED", "RUNNING", "STOPPED"},
              init : Ids \cup {NoProcess}]

\* A call of stop_container, on its own or within remove_container, that sleeps.
Call == [by : Managers, for : {"stop", "remove"}, slot : Slots, id : Ids]

VARIABLES
    containers,     \* runtime.containers, slots behind container_count included
    size,           \* runtime.container_count
    lastId,         \* the last id given
    cgroups,        \* containers that have a control group
    inits,          \* init processes that have not ended
    asleep,         \* the calls that sleep; all sleep ten seconds, so they wake in order
    exited          \* managers that have exited

containerVars == <<containers, size, lastId, cgroups, inits, asleep, exited>>

ContainersInit ==
    /\ containers = [s \in Slots |-> [id |-> 0, state |-> "CREATED", init |-> NoProcess]]
    /\ size = 0
    /\ lastId = 0
    /\ cgroups = {}
    /\ inits = {}
    /\ asleep = <<>>
    /\ exited = {}

Idle(m) == m \notin exited /\ \A i \in DOMAIN asleep : asleep[i].by # m

\* find_container: the slot of a container of the table
At(id, s) == s < size /\ containers[s].id = id

-----------------------------------------------------------------------------
(* create_container: the id is written to the slot behind the last one, and *)
(* the slot counts only when every set-up step went well.                   *)

CreateContainer(complete, hasGroup) ==
    /\ size < MaxContainers
    /\ lastId < LastId
    /\ lastId' = lastId + 1
    /\ containers' = [containers EXCEPT ![size].id = lastId + 1,
                          ![size].state = IF complete THEN "CREATED" ELSE @]
    /\ size' = IF complete THEN size + 1 ELSE size
    /\ cgroups' = IF hasGroup THEN cgroups \cup {lastId + 1} ELSE cgroups
    /\ UNCHANGED <<inits, asleep, exited>>

Create == CreateContainer(TRUE, TRUE)

\* The control group could not be made, or a later step (image, mounts, network)
\* failed and left it behind.
CreateFails == \E hasGroup \in BOOLEAN : CreateContainer(FALSE, hasGroup)

-----------------------------------------------------------------------------
\* start_container
StartContainer(id) == \E s \in Slots :
    /\ At(id, s)
    /\ containers[s].state = "CREATED"
    /\ containers' = [containers EXCEPT ![s].init = id, ![s].state = "RUNNING"]
    /\ inits' = inits \cup {id}
    /\ UNCHANGED <<size, lastId, cgroups, asleep, exited>>

\* process_fork returns 0 when it fails, which start_container takes for being
\* the child: the manager enters the container, and exits.
StartContainerForkFails(m, id) == \E s \in Slots :
    /\ At(id, s)
    /\ containers[s].state = "CREATED"
    /\ exited' = exited \cup {m}
    /\ UNCHANGED <<containers, size, lastId, cgroups, inits, asleep>>

\* The init process ends by itself; nobody is told.
InitExits(id) ==
    /\ inits' = inits \ {id}
    /\ UNCHANGED <<containers, size, lastId, cgroups, asleep, exited>>

-----------------------------------------------------------------------------
(* stop_container: SIGTERM (which ends a process at once), ten seconds of   *)
(* sleep, and the rest on whatever the slot now holds.                      *)

StopBegins(m, id, for) == \E s \in Slots :
    /\ At(id, s)
    /\ containers[s].state = "RUNNING"
    /\ inits' = inits \ {containers[s].init}
    /\ asleep' = Append(asleep, [by |-> m, for |-> for, slot |-> s, id |-> id])
    /\ UNCHANGED <<containers, size, lastId, cgroups, exited>>

StopContainer(m, id) == StopBegins(m, id, "stop")

\* Line 165
StoppedAt(array, slot) == [array EXCEPT ![slot].state = "STOPPED"]

\* (Mutant of Compacted: the last container is moved into the gap, and the rest
\* stays where it is, but the count is that of the others.)
CompactedOneTooFew(array, i) ==
    [s \in Slots |-> IF i <= s /\ s < size - 2 THEN array[s + 1] ELSE array[s]]

\* Lines 188-190: the containers behind slot i move down; the last slot keeps
\* its bytes.
Compacted(array, i) ==
    [s \in Slots |-> IF i <= s /\ s < size - 1 THEN array[s + 1] ELSE array[s]]

StopEnds ==
    LET call == Head(asleep)
        old  == containers[call.slot]
        stopped == StoppedAt(containers, call.slot)
        Remains(s) == call.for = "remove" /\ s < size /\ stopped[s].id = call.id
    IN  /\ asleep # <<>>
        /\ inits' = inits \ {old.init}
        /\ cgroups' = cgroups \ {old.id}
        /\ asleep' = Tail(asleep)
        /\ \/ \E s \in Slots : Remains(s) /\ containers' = Compacted(stopped, s)
                               /\ size' = size - 1
           \/ (\A s \in Slots : ~Remains(s)) /\ containers' = stopped /\ UNCHANGED size
        /\ UNCHANGED <<lastId, exited>>

\* remove_container stops a RUNNING container first.
RemoveContainer(m, id) ==
    \/ StopBegins(m, id, "remove")
    \/ \E s \in Slots :
         /\ At(id, s)
         /\ containers[s].state # "RUNNING"
         /\ containers' = Compacted(containers, s)
         /\ size' = size - 1
         /\ UNCHANGED <<lastId, cgroups, inits, asleep, exited>>

-----------------------------------------------------------------------------
ContainersNext ==
    \/ \E m \in Managers :
         /\ Idle(m)
         /\ \/ Create
            \/ CreateFails
            \/ \E id \in Ids :
                 \/ StartContainer(id)
                 \/ StartContainerForkFails(m, id)
                 \/ StopContainer(m, id)
                 \/ RemoveContainer(m, id)
    \/ StopEnds
    \/ \E id \in inits : InitExits(id)

ContainersSpec == ContainersInit /\ [][ContainersNext]_containerVars

-----------------------------------------------------------------------------
ContainersTypeOK ==
    /\ containers \in [Slots -> Container]
    /\ size \in 0 .. MaxContainers
    /\ lastId \in Ids \cup {0}
    /\ cgroups \subseteq Ids
    /\ inits \subseteq Ids
    /\ asleep \in Seq(Call)
    /\ exited \subseteq Managers

\* No init process outlives its container or its limits: one that runs is the
\* init process of a RUNNING container of the table, which still has its control
\* group.  (start_container 126-133, stop_container, and the compaction in
\* remove_container, with one manager.)
InitsAreContained ==
    \A i \in inits : \E s \in Slots :
        /\ s < size
        /\ containers[s].id = i /\ containers[s].init = i
        /\ containers[s].state = "RUNNING"
        /\ i \in cgroups

\* "Force kill if still running" (container.c:160): what stop_container kills after
\* its sleep is the init process of the container it was called for.
KillsOnlyItsInit ==
    [][StopEnds => inits \ inits' \subseteq {Head(asleep).id}]_containerVars
=============================================================================
