----------------------------- MODULE Hypervisor -----------------------------
(***************************************************************************)
(* Making and starting virtual machines in src/virtualization/             *)
(* hypervisor.c.  create_vm fills the slot after the last machine in       *)
(* steps, any of which can fail and leave the slot as it then is for the   *)
(* next attempt.  Devices, VM exits and the VMCS are left out.             *)
(*                                                                         *)
(* Without a body in the repository: create_ept_tables, init_vmcs,         *)
(* setup_vcpu_state, allocate_physical_cpu, schedule_vcpu_on_cpu.  Blocks  *)
(* of guest memory come from buddy_alloc, tables from create_ept_tables;   *)
(* neither is ever given back.                                             *)
(***************************************************************************)
EXTENDS Integers, FiniteSets

CONSTANTS
    MaxVms,         \* MAX_VMS
    VcpuCounts,     \* vcpu_count of the configurations
    GuestBlocks,    \* blocks of memory that buddy_alloc can give
    EptRoots,       \* frames that create_ept_tables can use
    NoBlock

ASSUME HypervisorAssumption ==
    /\ MaxVms \in Nat
    /\ VcpuCounts \subseteq Nat
    /\ \E n \in VcpuCounts : \A m \in VcpuCounts : n >= m   \* it is an unsigned integer
    /\ NoBlock \notin GuestBlocks \cup EptRoots

VmSlots == 0 .. MaxVms - 1
VcpuIds == 0 .. (CHOOSE n \in VcpuCounts : \A m \in VcpuCounts : n >= m) - 1

VARIABLES
    vmCount,    \* hypervisor.vm_count
    vms,        \* hypervisor.vms
    freeBlocks, \* of GuestBlocks
    freeRoots   \* of EptRoots

hypervisorVars == <<vmCount, vms, freeBlocks, freeRoots>>

\* vcpus: the state of each, or "none" for one that was never set up
HypervisorInit ==
    /\ vmCount = 0
    /\ vms = [s \in VmSlots |->
           [state |-> "STOPPED", vcpuCount |-> 0, memory |-> NoBlock, ept |-> NoBlock,
            vcpus |-> [i \in VcpuIds |-> "none"]]]
    /\ freeBlocks = GuestBlocks
    /\ freeRoots = EptRoots

\* The slot with a new configuration: the memory, tables and VCPUs of an attempt that
\* failed are still in it.
Configured(n) == [vms[vmCount] EXCEPT !.state = "STOPPED", !.vcpuCount = n]

WithVcpus(vm, n) ==
    [vm EXCEPT !.vcpus = [i \in VcpuIds |-> IF i < n THEN "STOPPED" ELSE vm.vcpus[i]]]

\* allocate_vm_memory with no block that is large enough
MemoryFails(n) ==
    /\ vms' = [vms EXCEPT ![vmCount] = [Configured(n) EXCEPT !.memory = NoBlock]]
    /\ UNCHANGED <<vmCount, freeBlocks, freeRoots>>

\* allocate_vm_memory with a block for the guest and none for its tables
TablesFail(n) ==
    \E b \in freeBlocks :
        /\ vms' = [vms EXCEPT ![vmCount] =
                      [Configured(n) EXCEPT !.memory = b, !.ept = NoBlock]]
        /\ freeBlocks' = freeBlocks \ {b}
        /\ UNCHANGED <<vmCount, freeRoots>>

\* create_vcpus: the VMCS of one of the VCPUs, the last that is touched, cannot be set up.
VcpusFail(n) ==
    \E b \in freeBlocks, r \in freeRoots, i \in 1 .. n :
        /\ vms' = [vms EXCEPT ![vmCount] =
                      WithVcpus([Configured(n) EXCEPT !.memory = b, !.ept = r], i)]
        /\ freeBlocks' = freeBlocks \ {b}
        /\ freeRoots' = freeRoots \ {r}
        /\ UNCHANGED vmCount

CreateSucceeds(n) ==
    \E b \in freeBlocks, r \in freeRoots :
        /\ vms' = [vms EXCEPT ![vmCount] =
                      WithVcpus([Configured(n) EXCEPT !.memory = b, !.ept = r], n)]
        /\ freeBlocks' = freeBlocks \ {b}
        /\ freeRoots' = freeRoots \ {r}
        /\ vmCount' = vmCount + 1

\* (Mutant of CreateVm: the new machine is counted before its VCPUs are set up.)
CountedEarly(n) ==
    /\ vmCount < MaxVms
    /\ \/ MemoryFails(n) \/ TablesFail(n) \/ CreateSucceeds(n)
       \/ \E b \in freeBlocks, r \in freeRoots, i \in 1 .. n :
             /\ vms' = [vms EXCEPT ![vmCount] =
                           WithVcpus([Configured(n) EXCEPT !.memory = b, !.ept = r], i - 1)]
             /\ freeBlocks' = freeBlocks \ {b}
             /\ freeRoots' = freeRoots \ {r}
             /\ vmCount' = vmCount + 1

\* create_vm
CreateVm(n) ==
    /\ vmCount < MaxVms
    /\ MemoryFails(n) \/ TablesFail(n) \/ VcpusFail(n) \/ CreateSucceeds(n)

\* start_vm with start_vcpu, which cannot fail
StartVm(s) ==
    /\ s < vmCount
    /\ vms[s].state = "STOPPED"
    /\ vms' = [vms EXCEPT
           ![s].vcpus = [i \in VcpuIds |-> IF i < vms[s].vcpuCount THEN "RUNNING" ELSE @[i]],
           ![s].state = "RUNNING"]
    /\ UNCHANGED <<vmCount, freeBlocks, freeRoots>>

HypervisorNext ==
    \/ \E n \in VcpuCounts : CreateVm(n)
    \/ \E s \in VmSlots : StartVm(s)

HypervisorSpec == HypervisorInit /\ [][HypervisorNext]_hypervisorVars

-----------------------------------------------------------------------------
\* Every machine that start_vm accepts is complete: it has memory and tables that no
\* other machine has, and all its VCPUs are set up and in the state of the machine,
\* although its slot may have been through attempts that failed half way.
MachinesAreWhole ==
    \A s \in 0 .. vmCount - 1 :
        /\ vms[s].memory # NoBlock /\ vms[s].ept # NoBlock
        /\ \A t \in 0 .. vmCount - 1 :
              t # s => vms[t].memory # vms[s].memory /\ vms[t].ept # vms[s].ept
        /\ \A i \in 0 .. vms[s].vcpuCount - 1 : vms[s].vcpus[i] = vms[s].state
=============================================================================
