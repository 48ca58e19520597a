# Rodmin OS in TLA+

TLA+ models of the Rodmin OS sources (`src/`), the TLC configurations that check
them on small instances, and TLAPS proofs of what holds for every instance.
`PROJECT.json` ties the definitions to the lines they model, the runs to their
properties, and lists the hazards of the code the properties are aimed at.

Contents: [the system](#the-system), [the plan](#the-plan),
[modules and code](#modules-and-code), [runs](#runs), [proofs](#proofs),
[findings](#findings), [what is left out](#what-is-left-out).

## The system

Rodmin OS is a small x86-64 operating system in C. Applications are linked with
the kernel and call its functions directly; there is one processor, one timer
(the PIT at 100 Hz, `kernel/timer.c`), and no lock and no masking of interrupts
around the kernel's data (processes run with interrupts enabled,
`kernel/process.c:96`). Several functions are declared and used but have no body
anywhere (`schedule`, `wake_waiting_parent`, `cleanup_zombie_process`,
`add_buddy_block`, the video memory pool, most printer and audio functions).

| Component | State | Operations | Hard part | What makes it correct |
|---|---|---|---|---|
| Process management (`kernel/process.c`) | process table, slot flags, four ready queues, blocked and zombie queue through one `next` field per process, `current_process`, `next_pid` | create, fork, exec, exit, wait, kill (TERM/KILL, STOP, CONT), the timer tick | one link field for every queue; signals in any state; a waiting parent and an exiting child; preemption anywhere | every process on the queue its state says; first-come first-served; a waiting parent is woken, once, by the right child; zombies only collected |
| Page frames (`kernel/memory.c` 30-103) | memory map, bitmap | parse map, build bitmap, allocate and free a frame | bitmap sized by the sum of lengths but indexed by address; partial pages | a frame handed out is available memory, and is handed out once |
| Buddy allocator (`memory.c` 167-234) | free list per order | init, alloc (split), free (merge) | long sequences of splits and merges | blocks tile the memory; an allocation fails only when there is no room |
| Page tables (`memory.c` 105-165) | four levels of tables in page frames | map | frames that were used before; unchecked allocation failure | an address translates to what was mapped there, or to nothing |
| Slabs (`memory.c` 236-298) | slabs with a bitmap and a count | alloc, free | count and bitmap apart | an object has one holder; a free one is found |
| Video memory (`drivers/gpu/gpu_driver.c` 358-395) | table of 256 allocations | alloc, free | released slots keep their address; the pool may fail | the slot of the freed block is the one released |
| Drawing (`gpu_driver.c` 191-275) | the framebuffer | pixel, rectangle, line, blit | shapes partly off the screen; the line's error term; 24 and 32 bits | a shape appears where asked, and nothing else changes |
| Sockets and TCP (`net/network.c`) | 1024 sockets, 512 connections, accept and receive queues | socket, bind, listen, accept, connect, send, recv, close; segment handlers | lost, duplicated, reordered segments; no retransmission; reuse of slots | both ends agree on the state; a connection has one owner; a reused slot reaches no old connection |
| UDP and IP (`net/network.c` 430-513, 545-585) | id counter, wire | send, receive, forward | byte order, checksums, damage | only whole headers are acted upon |
| RFS (`fs/rfs.c`) | superblock, inodes, blocks, journal, open files | mount, format, open, close, read, write, lseek, mkdir, rmdir, unlink, sync | crash between writes; unlink of an open file; a full disk; inodes and blocks used again with old entries | every inode has one name and every block one owner; an operation on one path changes no other |
| Window manager (`gui/window_manager.c`) | window list in stacking order, `active_window`, geometry | create, destroy, focus, minimise, maximise, mouse, keyboard | pointers to destroyed windows | the active window exists, is visible and on top |
| Containers (`virtualization/container.c`) | array of containers, network bridge ids | create, start, stop, remove, build, list | a pointer into the array kept over a ten-second sleep; the processes under it come and go | a running init process is that of a running container |
| Hypervisor (`virtualization/hypervisor.c`) | virtual machines, guest registers, disk | create, start, exit handling, port I/O, disk commands | creation fails half way, in a slot that is used again | a machine that can be started is complete |
| Shell (`cli/shell.c`) | command, working directory, last exit code | parse, built-ins, fork-exec-wait, path normalisation | a failed fork looks like a child; background children; rewriting a path in place | the status is that of the command in the foreground; `cd` goes where asked |
| Second process layer (`kernel/proc.c`, `scheduler.c`) | another process table | create, exit, yield | lowest index always wins | nobody starves |
| Input, network card, other drivers | packet buffers, ring offset | interrupt handlers | signs, wrap-around | the decoded value is the sent one |
| Terminal (`apps/terminal`) | screen, cursor, input line, history | keys, output, scrolling, clear, help | several copies of one line | the screen shows the input; the history has no repeats |
| Profiler (`apps/performance_profiler`) | samples, call graph | start, sample, stop | recursion, cut traces | the graph counts every frame once |
| Other applications | widgets | drawing, dialogs | | |

How they interact. The timer interrupt calls `timer_handler`, which calls
`schedule` when the running process's slice is over; `process_exit` and
`process_wait` call it too. `kernel_main` starts the timer, creates the first
processes and then calls `scheduler_start`. The shell and the containers start
their children through `process_fork` / `process_create` and collect or kill
them; the process and page-table code take frames from `alloc_physical_page`;
the window manager's canvases and the GPU driver take video memory; the network
card's interrupt hands frames to the IP layer and this to the TCP state machine,
which shares the connections with the socket calls of processes.

`PROJECT.json` lists every component with its status, and under `hazards` what
in each is hard to test. In short: interleavings (a tick inside `process_wait`,
the queue functions or `alloc_physical_page`), one link field shared by all
queues, signals to processes in any state, two allocators over one memory,
exhaustion and partial failure, stale slots and pointers, lost segments, and
crashes around the journal.

## The plan

In the order in which it was built; all of it is done.

1. **Process management**: `ProcessQueue` (the intrusive lists), `Processes` (the
   handlers), `ProcessProperties`, the abstract `RunQueues`, proofs
   `ProcessQueueProofs` and `ProcessProofs`. `PreemptedWait` splits `process_wait` at
   the tick.
2. **Memory**: `PageFrames` and `BuddyAllocator`, composed by `PhysicalMemory`;
   proofs `PhysicalMemoryProofs`; `PageTables`; `Slabs`, `VideoMemory` and
   `Hypervisor`; proofs of these four `MemoryProofs`.
3. **Graphics**: `Drawing`, proofs `DrawingProofs`.
4. **Network**: `TcpConnection` (the state machine of one connection), `Sockets`
   (socket calls of several hosts and the network between them) and `Datagrams`,
   proofs `NetworkProofs`.
5. **RFS**: `Rfs`, implementing the abstract `FileTree`; proofs `RfsProofs`.
6. **Above the kernel**: `WindowManager`, `Containers`, `Terminal`, `CommandLine`, `Shell`
   and `Profiler`, proofs `ApplicationProofs`.

## Modules and code

**`ProcessQueue`** models `enqueue_process`, `dequeue_process` and
`remove_from_ready_queue` (`process.c` 352-429). The state is a record `lists`:
`next` is the `next` field of every slot of `process_table`, `queue[k]` the
`head`, `tail` and `count` of one `process_queue_t`. Queues `0 .. NumLevels - 1`
are `ready_queues`; two more are the blocked and the zombie queue. Each function
is an operator from lists to lists with the code's assignments, not an operation
on sequences, because the assignments are where it can go wrong.
`remove_from_blocked_queue` and `cleanup_zombie_process`, which have no body,
unlink like `remove_from_ready_queue`.

**`Processes`** has one action per handler of `process.c` and `timer.c`:

| Code | Action |
|---|---|
| `process_create`, `process_fork` | `ProcessCreate`, `ProcessFork`: `CreateInSlot` when all goes well, `CreateFails` when no page table or executable can be had (the pid is spent, the slot given back) |
| `process_exit` | `ProcessExit`: wake the parent, join the zombie queue, schedule |
| `process_exec` | changes nothing modelled when it succeeds; is `ProcessExit` when it cannot load the file |
| `process_wait` | `WaitCollects` for a zombie child; `WaitBlocks` otherwise; `WaitReturns` when the blocked call is scheduled again |
| `process_kill` | `ProcessKill`: `Terminate`, `Stop`, `Continue` |
| `timer_handler` | `TimerHandler`: one tick of the slice, or the scheduler |
| `scheduler_start` | `SchedulerStart` |

`current = NULL` is the idle process. `schedule` is external: a process that is
still RUNNING returns to its ready queue, and the head of some non-empty queue is
dispatched; which level `select_next_process` prefers is not in the sources, so
the level is chosen freely. `wake_waiting_parent` is external too: it is taken
to wake a parent that is BLOCKED and whose `wait_pid` is the child or 0, which
is what `process_wait` stores for it. The fields of an unused slot are dead and
stay as they are. Descriptors, address spaces, names, exit codes and times are
left out, as nothing here depends on them. `DefaultSlice` is counted in ticks.
`MaxPid` bounds `next_pid`. `Deliverable` is the set of (signal, state of the
target) pairs that callers produce: `process_kill` accepts every pair, the runs
and the theorems name the ones they admit. A SIGKILL to a BLOCKED or RUNNING
process leaves it on its queue or in `current_process`; those pairs are excluded
where the queues are shown sound, and `KillZombie.cfg` admits the worst of them.

**`ProcessProperties`** states what is checked. **`RunQueues`** is the abstract
scheduler: one sequence per queue, join at the end, dispatch the first, leave
from anywhere.

**`PreemptedWait`** extends the model by one variable, the decision a process has
taken in `process_wait` (276-291) and not yet acted upon (298-303); the timer may
run in between. All other handlers stay atomic.

**`PageFrames`** models `parse_memory_map`, `init_physical_bitmap`,
`alloc_physical_page` and `free_physical_page`: the bitmap is the set of its set bits.
The bitmap is as long as the sum of the region lengths, rounded down to whole bytes,
so that frames behind a hole in the map may have no bit: they are never used, which
costs memory and nothing else. Callers free only frames they were given, and may ask
for as many as there are clear bits. **`BuddyAllocator`** models `buddy_alloc` and
`buddy_free`; the free lists are sequences, addresses count pages. `add_buddy_block`
has no body: it pushes a block on the list of its order, and a region is cut into the
largest aligned blocks. **`PhysicalMemory`** runs both over one memory map, as
`memory_init` does; the buddy allocator's pages stay clear in the bitmap. Region bases
are page-aligned in the instances, as BIOS maps are in practice.

**`VideoMemory`** models `gpu_alloc_video_memory` and `gpu_free_video_memory`:
the table keeps the address of a released slot, as the code does, and the pool
(external) gives any block that is not in use, or none. In the last case the code
leaves the slot in use with a NULL address, and so does the model.

**`Rfs`** models the system calls of `fs/rfs.c`, one action each (`FsOpen`, `FsClose`,
`FsRead`, `FsWrite`, `FsLseek`, `FsMkdir`, `FsRmdir`, `FsUnlink`), on inodes, the two
bitmaps, the open-file table and the entries in every block. A block keeps what was
written behind the visible end of a directory, since the size of the inode is all that
hides it; contents of files are left out, their sizes and the positions of the
descriptors kept. Paths are sequences of names, normalised, without dots. `file` has
only the slots in use, as `fs_open` sets every field of a slot it takes. Assumptions
on what has no body: `alloc_inode` and `alloc_block` give the lowest free number, or
0; `create_file` makes an inode of size 0 and an entry behind the last visible one;
`remove_from_parent_dir` closes the gap; `write_inode_data` takes a first block for a
file that has none, fails when it gets none, and takes any number of further blocks
(`moreBlocks`, the other direct blocks and the indirect ones, whatever the size of a
block is); `check_permissions` grants regular files only, and may refuse any. A
directory has one block, and every inode one link, as nothing makes a second. A
behaviour ends when `mkdir` has written over the superblock. Callers do not remove
"/", and unlink regular files that nobody has open: `fs_unlink` checks none of this.
`O_TRUNC` and `O_EXCL` are ignored by `fs_open` and so do not appear. **`FileTree`**
is what users see: a map from paths to types and sizes in which an operation on one
path changes no other.

**`WindowManager`** models `create_window`, `destroy_window`, `focus_window`,
`minimize_window`, `maximize_window` and the paths of `gui_handle_mouse` that
reach them. The list is kept as the code does, by `head` and `next`, with
`active_window` beside it, which `destroy_window` does not reset. Assumptions:
`slab_alloc` gives the lowest free object, `find_window_at_position` finds
visible windows, `focus_next_window` focuses any other visible window,
`move_window_to_front` unlinks and pushes. `show_window` has neither a body nor a
caller, so nothing brings a minimised window back. Geometry is reduced to "its own" and
"the screen"; drawing and the events sent to windows are left out.

**`PageTables`** models `map_page`: the walk through four levels, a new table for
every entry that is not present, cleared before use, and the last entry. A table is a
frame, and a frame starts with anything in it (`Leftovers`), as `free_physical_page`
clears nothing. `Translate` is the walk of the processor, or of
`get_physical_address`, which has no body. `create_page_table` is taken to give a
cleared root; `setup_kernel_paging` does not clear the kernel's, which starts with
leftovers, too: `rootClear` remembers whether these were none. **`Slabs`** models one
cache, `slab_alloc` and `slab_free`.

**`Drawing`** models the drawing functions as bytes written to the framebuffer.
`memory` has a place for every byte that is ever written, so that one written
behind the framebuffer would show. The depth is 24 or 32 bits, of modes whose rows fit the
pitch. The loop of `gpu_draw_line` is a recursive
function of its turns; the property compares it with the distance of every pixel
from the ideal line. `asked`, the arguments of the last call, is history.

**`TcpConnection`** has the functions of `tcp_state_machine`, one per state, from
a connection and a segment to the connection and the segments sent. **`Sockets`**
puts them under the socket calls of several hosts. `network` is the set of all
segments ever sent: delivery may choose any at any time, so that loss, repetition
and reordering need no action of their own. Sequence numbers are made distinct
(`isns`), as `generate_sequence_number` is meant to. A `connect` in progress is a
flag of the socket (`waits`); while it waits its process does nothing else.
**`Datagrams`** has the path of one UDP datagram to a host, header byte by byte,
with a network that changes a byte. Bytes have 16 values in the instance, where
carries carry again for the ids it starts from.

**`Containers`** models `container.c` with several managers; `stop_container` is
two actions, before and after its sleep, and `asleep` the calls that are in it, in
the order in which they wake up. `process_fork` may fail, and then returns 0: the
manager goes on as the init process it did not get. **`Hypervisor`** models
`create_vm` with each of its failures, and `start_vm`.

**`CommandLine`** parses a line token by token, as `parse_command_line` does. A pipe
that `pipe_positions` has no room for is written over the fields of `command_t` behind
it (`WithPipe`), by the layout of `shell.h` with pointers of 8 bytes. **`Shell`** runs
the line: `cd`, an external command in the foreground or background, or anything else,
which changes nothing. `process_wait` is that of `process.c`: it collects a child that
has exited, or blocks (`ProcessWait`) until the end of that child or a SIGCONT makes
the shell run again (`ProgramExits`, `ShellContinued`), and then returns whatever
`wait_status` is, without collecting (`WaitReturns`). When the fork fails the shell
goes on as the child (`ForkFails`), and the model ends there. A path is its components
and its number of leading slashes, which `normalize_path` turns out to depend on.

**`Terminal`** has the screen, cell by cell, and what every key does to it and to the
input line and history; the text of commands and prompts is reduced to their lengths
and marks. `handle_character_input` bounds the cursor and not the line, and so does
the model: a character inserted before the end of a full line takes the line out of
its buffer (`InsertOverrunning`), over the low byte of `input_pos`, and there a
behaviour ends, since what `strlen` then finds is not in the sources. **`Profiler`**
has the samples and the call graph.

Components that share no state are checked together, to keep the number of
configurations down: `MCKernel`, `MCApplications` and `MCNetwork` choose a `part` at
the start, which then runs alone. The MC modules also give the constants their
values; `*Proofs` hold the theorems.

## Runs

| Configuration | What it shows |
|---|---|
| `Processes.cfg` | three slots, two ready levels, a priority that is clamped, four pids (so slots and levels are reused), SIGKILL and SIGSTOP to READY and SIGCONT to BLOCKED processes: types, `QueuesHoldTheirProcesses`, `SchedulerInv`, `ZombiesOnlyCollected` |
| `Waiting.cfg` | four slots on one level, a slice of two ticks, SIGKILL to READY processes: a waiting parent has a live child that will wake it (`WaiterHasLiveChild`), a returning wait has an exited child (`WaitReturnsExitedChild`), `CountsAreExact`, the lists implement `RunQueues` (`ImplementsFifo`), and a READY process is eventually not READY (`ReadyProcessesRun`) |
| `SpuriousReturn.cfg` | a violation: SIGCONT makes a blocked `process_wait` return |
| `KillZombie.cfg` | a violation: SIGKILL to a zombie breaks the zombie queue |
| `PreemptedWait.cfg` | a violation: a tick inside `process_wait` loses the wake-up |
| `Kernel.cfg` | one of: *frames*, the bitmap of three memory maps until all frames are taken (`FramesAreMemory`, `LowMemoryFirst`); *blocks*, the buddy allocator of these (`BlocksTile`, `RoomIsFound`); *slabs*, three of three objects (`SlabsAccountForObjects`); *tables*, two address spaces, four levels of two entries, dirty frames under a clear root (`TranslatesAsAsked`); *video*, three slots, four blocks, two sizes (`FreeFindsItsSlot`, `SlotsAreBlocks`); *files*, three inodes and blocks, files of several blocks, two descriptors, four paths on two levels: no name dangles and no inode is lost (`OneEntryPerInode`), no block is shared or leaked (`BlocksOwned`), `mkdir` writes over the superblock only when every block is taken (`SuperblockOutlastsSpace`), and all of it implements `FileTree` (`ImplementsTree`) |
| `Applications.cfg` | one of: *windows*, three with all buttons (`WindowListSound`, `OneFocused`, `RestoresOwnPlace`); *drawing*, every line, and rectangles and blits, in and around a screen of 5 by 4 (`DrawnAsAsked`); *terminal*, two rows of three, three characters, two lines of history (`InputShown`, `HistoryHasNoRepeats`); *line*, five tokens, where argv holds three words and there is room for one pipe (`ParsedAsWritten`); *shell*, three jobs, SIGCONT to a shell that waits (`ExitCodeOfForeground`); *profiler*, two samples of stacks up to three deep where two fit (`GraphCountsFrames`); *containers*, three and one manager (`InitsAreContained`); *hypervisor*, two machines of one or two VCPUs (`MachinesAreWhole`) |
| `Minimized.cfg` | a violation: a minimised window keeps the keyboard |
| `LongLine.cfg` | a violation: a character typed before the end of a full line (`InsertsAtCursor`) |
| `Network.cfg` | one of: *sockets*, a server and a client, one connection with data both ways or two with the client's slot used again (`StatesAgree`, `OneOwner`, `StaleCannotSend`); *datagrams*, one, with every single byte damaged (`HeadersArriveWhole`) |
| `StopContainer.cfg` | a violation: the second of two managers kills the init process of another container |
| `ChangeDirectory.cfg` | a violation: `cd` to an absolute path loses its first component |

Why the bounds are enough. Unlinking tells a head, a middle and a last node
apart, so a queue of three with two levels and a slot that is used twice meets
every branch of the queue functions; a lost or doubled node needs no more than
two queues. Waiting needs a parent, the child it names, another child, and a
grandchild that is on no waiting list: four slots. The memory maps hold a
region above the "16 MB" mark, one that ends within a page, and two separate
low regions; four orders let a block be split and merged over several levels, and one
of the maps has a block of the highest. **The bitmap also offers the buddy allocator's
pages**, and the instances go on until both allocators have given them out: in the code
nothing prevents it. `LowMemoryFirst` says when that begins, not before callers hold
every frame below 16 MB.

Three inodes beside each other and below each other let one be removed and its
number, its block and its entry's place be used again by another, which is where
a directory could show what it should not; three blocks are as many as one file can
take, so that the disk is full for the others. Three windows give the list a
first, a middle and a last member, and an object of the slab that is used again
while `active_window` still points to it.

Two rows let the terminal wrap, scroll and clear; a limit of three characters is
longer than what is left of a row behind a prompt, and a full line is typed in two
steps. `LongLine.cfg` has bytes of two values, so that the overrun of a full line both
changes `input_pos` and keeps it. One
place for pipes, with five tokens, is overrun by up to four. Lines from -1 to 6 and -1 to 5
have every slope with sides up to seven, both signs, ties, and ends on every side of
the screen. One client slot used twice against two server slots is what it takes
for an old connection to be still open at the other end when its number comes up
again; `Explored` keeps the second connection without data, as the first has shown
it. Two containers behind a third one tell "moved by one" from "moved away".

Fairness. `FairSpec` assumes only that the timer interrupt keeps arriving, and
that `kernel_main` reaches `scheduler_start`: the PIT is programmed once and runs
freely, and `kernel_main` calls nothing that waits before it. Processes need not
do anything. With several ready levels the property is not claimed, as the choice
among levels is not in the sources.

Deadlock. A system whose processes are all zombies, or stopped, or waiting for a
stopped process, has nothing to do, and pids are bounded. Failed allocations can use
up every video slot for good, which the model shows and the code allows. Connections
that wait for a lost segment wait for ever. A shell that became its own child, a line that
has outgrown its buffer, a superblock written over, a finished profile and a drawn shape go
no further. So all runs switch the check off
but that on the window that keeps the keyboard.

## Proofs

All theorems hold for every value of the constants that meets the named `ASSUME`s.

`ProcessQueueProofs` proves what the three list functions do. A queue is
described by a numbering of its nodes (`WellLinked`): the walk from `head` visits
each node once, ends at `tail`, and no node is on two queues. The lemmas show
that enqueueing a process that is on no queue, dequeueing, and removing a process
from anywhere change the members of one queue by one process, leave every other
queue alone, and keep the lists well linked and counted (`RemoveHolds`).

`ProcessProofs` composes them. The inductive invariant is
`IInv == TypeOK /\ SchedulerInv`: it joins types, well-linked and counted lists,
"each queue holds the processes its state says", "exactly `current_process` is
RUNNING" and unique pids. Each part is needed for the next step of the others: to
enqueue a process safely one must know that it is on no other queue, which
follows from its state, which follows from the queues holding their residents;
`WakeLists` takes one parent, and that there is just one follows from unique
pids. A step that fits several parts at once is described by `Holds`, lists that
hold a given state of the table, so that a handler with four queue operations is
four applications of a lemma. The theorems `SchedulerSafe`, `TypeCorrect`,
`QueuesSound`, `QueuesConsistent` and `CountsSound` assume `SafeDelivery`:
SIGKILL only to READY processes and SIGSTOP not to the running one; the finding
on SIGKILL shows why some such assumption is needed.

`FifoImplemented` is the refinement `Spec => ImplementsFifo`, under the same assumption
and with no further invariant. `QueueOrder` reads a queue as a sequence, by as many steps
along `next` as its count says. That it lists every member once is shown without
induction: the rank of a member is the number of nodes a walk from it meets, `next`
lowers the rank by one, and the ranks of the members are 1 to the count. What an
operation may do to a queue is `Follows`: who stays keeps the order, and at most one
newcomer stands behind everybody. Each of the list functions does that, two of them
in a row do it if only one lets somebody in, and so each handler is a `Move`, a
`Dispatch` or an `Idle` of `RunQueues`.

The second part of `ProcessProofs` goes on from `IInv`. `ZombiesCollectedByParent` is an
action property: every step of an `IInv` state leaves a zombie alone or frees it while
its parent runs. `NobodyWaitsInVain` and `WaitIsAnswered` assume `TerminationOnly`
(signals only SIGKILL READY processes; SIGCONT wakes anybody, as `SpuriousReturn.cfg`
shows). The two properties are one invariant (`WaitInv`): the exit that takes the last
live child away from a waiting parent is the one that wakes it, and then an exited child
is there for it; nothing between that and its return can collect the child but the
parent itself.

`PhysicalMemoryProofs` is about every memory map, page size and number of orders.
`BlocksAlwaysTile` needs `RegionsApart` (regions of the map share no page above 16 MB);
its invariant (`BuddyInv`) says that free and granted blocks are aligned and disjoint
and cover what was covered at the start, and that no list has an address twice; a split
keeps the covered set because two halves make a block, a merge because the buddy of an
aligned block is the other half of an aligned block twice as large. The recursive
functions (splitting down, merging up, cutting a region) are handled by a least
counterexample. `RoomAlwaysFound` adds to it (`MergedInv`) that no two buddies are free
at once, which holds at the start only if regions do not touch (`RegionsDoNotTouch`):
then an aligned free range that is not within one free block would hold two buddies.
`FramesInMemory` needs `PagesAligned`, since `init_physical_bitmap` rounds the base of a
region down; the invariant is that the set bits are the initial ones and the frames in
use. `LowMemoryGoesFirst` needs no hypothesis: with the same invariant a frame below
16 MB that nobody holds has a clear bit, which the scan meets first. The hypotheses are
facts about what the bootloader hands over, that the code takes for granted;
`MCHypotheses` has TLC check that the instances meet them.

`MemoryProofs` holds three tables that hand out memory, and the page tables. Slabs:
`SlabsAccountForObjects` is inductive with the types; a set of clear bits that loses or
regains an object changes its size by one. Video memory: a block in use lies in a
slot that no earlier slot, in use or released, hides with an equal stale address, since
the pool hands a block out only into the first unused slot, so that every slot before
the block's is in use by another block, or is unused since, and then was released
with another address. The hypervisor: the memory and tables of counted machines are no
longer free; about the slot after them, where failed attempts leave what they got, the
invariant says nothing but its types, since a successful attempt replaces all that
`start_vm` reads. It needs a greatest VCPU count.

`AlwaysTranslates`, of the page tables, adds to the state a witness: the table that each
address has at each depth, as far as its tables were made (`way[r][va][d]`). Following
the entries is going along it. What makes the tables interfere with nobody is `WaysApart`:
ways that meet were one way all along, so that a last entry belongs to one address of
one address space. A new table lengthens exactly the ways through the entry it is put
in, its frame is on no way yet, and, being cleared, it ends them all. The root of the
kernel is the one table nobody clears, so the invariant, like the property, is about
kernels whose root came clear (`rootClear`). Under another root the property fails, and
has to: a kernel address may then be translated by a table that nobody made. What
`map_page` and the processor do level by level is followed by a least counterexample.

`ApplicationProofs` has a section each for windows, containers, the terminal, the shell,
the profiler and command lines. `FocusIsSingle` and `MaximisedRestores` rest on
`PlacesKept`: a NORMAL window has its own place and a visible one is not MINIMIZED, so
that what `maximize_window` saves is worth restoring. `ListAlwaysSound` describes the
list (`ListInv`) by what unlinking and pushing keep: nobody has two predecessors, the
head has none, and a set that has the head and all successors has every window.
`InitsContained` assumes that all managers are one; its invariant (`ContainersInv`) adds
that ids in the table differ, that a RUNNING container knows its init process and one
not yet stopped has its group, and that the slot of a call that sleeps is `Undisturbed`,
which is what fails with two managers, and `StopContainer.cfg` shows how.
`HistoryNeverRepeats` needs only that the line typed is compared with the last one kept.
`ContainersTyped` needs no assumption on the managers. `ExitCodeIsOfForeground` rests on
`ShellInv`: while the shell is in `process_wait` it waits for a job of its table, and when
the end of that job woke it, `wait_status` is the job's code. After a SIGCONT it is whatever
the last wait left, which the property therefore leaves out (`cut`).

Three theorems of the same module are about what a loop computes, for every input.
`print_text`, `build_call_graph` and `parse_command_line` are recursive functions over the
number of turns, defined in a LET, and each has an invariant of its turns.

* `InputAlwaysShown`: every row below the cursor's is blank (`ScreenOK`), so that a
  line feed, with or without scrolling, leads to a blank row (`Fresh`), and the prompt
  is always displayed at the start of one. `Shown` then says what is in the cursor's
  row: it is stated for any prompt and line, and is kept by redrawing when both fit
  the row before and after. It is about the columns behind the prompt, and about lines
  within their buffer (`Terminated`): `LongLine.cfg` shows what happens to others.
  `TerminalTyped` comes with it, for a line of up to one character more than its
  buffer holds.
* `GraphCounts`: a graph `Holds` two counts, of all frames of each address and of the same
  plus those that are followed by another frame, if it has exactly one node for each address
  with a count, with these numbers. A frame moves a graph that holds the counts of all
  earlier frames to one that holds the next (`OneMore`); that the node is found, made at the
  end or the same for caller and callee are its cases, the last one for recursive calls.
* `LinesMeanWhatTheySay`: after n tokens the parse (`ParsedTo`) lists the words and
  the pipes up to n in their order, and has the files of the latest redirections. The
  difficulty is that a token's role depends on the one before: whether a sign is a
  redirection or the file of one alternates along a run of signs (`Run`), which the
  code keeps as `pending`. The proof also showed that the guards of a first version of
  `ParseToken` overlapped when a sign is the name of a file; it is now the chain of
  tests that the code has. While the pipes fit their array the parse is the one
  without any overrun, which is what is claimed.

`RfsProofs` is about any number of inodes, blocks, names and descriptors. The invariant
`FsInv` joins types, "a directory that shows an entry has a block of its own"
(`DirectoriesHold`), `BlocksOwned`, the parts of `OneEntryPerInode` and "names of a
directory differ" (`NamesInv`). `fs_mkdir` does not check the block it is given, so
the parts about directories hold as long as the superblock is whole (`SparesSuperblock` is
the condition on a step), and end with the behaviour otherwise. `SuperblockSafe` says
when that can be: block 0 is whole or every block is marked in use (`SpaceGone`), and by
`BlocksOwned` every marked block belongs to an inode in use. The
theorem `TreeImplemented` is the refinement `RfsSpec => ImplementsTree`, for paths closed
under taking the directory (`PathsClosed`): a path leads to at most one inode and an
inode other than the root is shown by one path (`OnlyPath`), because it has one entry in
one directory; so an entry that comes or goes changes what one path leads to, and every
handler is one step of `FileTree` on that path or leaves the tree as it is. The
argument along a path is again by a least counterexample.

`NetworkProofs` is about any hosts, tables, ports and segments, without a hypothesis. A
step changes the rows of one host, so the invariant is one formula about the rows of
each (`HostSound`), and the lemmas say what keeps rows sound: a socket is set, a
connection is set, the queue gains or loses one. `KeptOnce` says that a connection is in
at most one slot of the socket table, used or left over, or once in the queue, never
before its handshake is over; `SocketFits`, that a connection a slot holds is past
LISTEN and SYN_RECEIVED, and that while it is SYN_SENT or ESTABLISHED the slot is in use
with the same local port. It is inductive because `tcp_close` leaves no connection
ESTABLISHED, because `connect` waits while it is SYN_SENT, and because no state leads
back to CLOSED, so that a connection is never given out twice. That segments arrive in
any order and number needs nothing but that they name the port they came from. This
gives `NetworkTyped`, `OwnerIsSingle` and `StaleNeverSends`.

`EndsAlwaysAgree` is about two hosts at a time, and about everything ever sent. Its
invariant (`EndsSound`) says of each segment that its sender is still there and has gone
at least as far as the flags say (`SentBy`), and of each connection that has answered a
SYN or a SYN and ACK that its other end is (`HasOtherEnd`); a connection only goes
forward (`Grows`), so both stay true. The hard step is the ACK that ends a handshake: it
must come from the connection whose SYN began it, although a host may have had
several with the same two ports (the port of a bound socket, which `connect` also
uses, can be bound again after `close_socket`). `Pending` gives that: the first of
them to be opened was opened by this handshake. It needs that of one port at most one
connection is being opened at a time (`OpeningInv`, from `bind`, which refuses a port
in use, and `connect`, which a socket does once), and that no host waits for the ACK of a
handshake while a SYN and ACK is on its way to it (`NoneWaits`): two ends cannot both have
answered the other. No role of a host is assumed.

`HeadersWhole`, of the same module, is about the checksum of a datagram, for bytes with
any number of values from 8 on (`ByteValues`; 256 in the code). The sum of a header with
its checksum is `Whole`: a multiple of `WordValues - 1` that is not 0. Folding takes
such multiples away and never arrives at 0 (`FoldedFacts`), so that the sum of a header
with checksum 0 and the complement of its fold are whole together, and a header passes
if and only if its sum is whole. The change of one byte moves the sum by less than
`WordValues - 1`, and by more than nothing, so that no damaged header passes
(`DamageShows`). The invariant (`DatagramsInv`) says that the header of each datagram
is, but for at most one byte, the one that `send_ip_packet` made for its destination.
Sums and folds are recursive functions, followed by `FromZero`.

`DrawingProofs` (`AlwaysDrawnAsAsked`) is about a screen of any size and pitch, 24 or
32 bits, shapes of any size anywhere, and any number of calls. What the calls before
left matters little: the invariant (`DrawingInv`) is the depth and that the bytes of
`memory` are those of the framebuffer. There are two arguments. Pixels of the screen
do not share bytes and lie in the framebuffer (`PixelsApart`), since a row of them
fits the pitch (`Depths`: 3 or 4 bytes a pixel, as the depth says), and so a shape
shows at its pixels and nowhere else. And the loop of `gpu_draw_line`: after k turns
it is k steps along the longer side, and along the shorter one at the column nearest
to the line (`Nearest`), which its two tests of the error term keep true
(`NearestNext`). So it meets the end after as many turns as the longer side is long,
and not before, which is why it stops; all that is nearer than half a pixel is drawn,
nothing farther away is (`LineNear`), and of two pixels half a pixel away exactly one
(`LineTwins`). What is nearest is compared without division, as products of
coordinates. The recursive function of the loop is followed by `FromZero`.

The types that the runs check are theorems: for memory and files, which `MCTypeOK` of
`Kernel.cfg` joins, `FramesTyped` and `RfsTyped`; for windows, terminal and containers,
which `MCTypeOK` of `Applications.cfg` joins, `WindowsTyped`, `TerminalTyped` and
`ContainersTyped`.

Induction. The library's induction theorems have an operator as a parameter, which the
provers cannot instantiate. What is said of recursive functions is therefore proved
either by a least counterexample or with a set: the numbers for which it is true hold 0
and, with every number, the next, and so are `Nat` (`FromZero`).

Model-checked only: liveness under fairness (`ReadyProcessesRun`), which the prover does
not do, and the properties of the runs that expect a violation.

## Findings

* **A signal ends a wait** (`SpuriousReturn.cfg`). A comment in `process_wait`
  says that the child has exited when it returns; SIGCONT makes every BLOCKED
  process READY, also one that waits.
* **A second SIGKILL** (`KillZombie.cfg`). `process_kill` puts a zombie on the
  zombie queue again and loses those behind it. `stop_container` sends such a
  second SIGKILL.
* **A lost wake-up** (`PreemptedWait.cfg`). The test of the child and the
  caller's change of state are not one step.
* **A minimised window keeps the keyboard** (`Minimized.cfg`). `minimize_window`
  focuses the next window, and `gui_handle_mouse`, which called it, then focuses
  the minimised one again.
* **The wrong container** (`StopContainer.cfg`). `stop_container` uses a pointer into
  an array that `remove_container` compacts during its sleep.
* **A full line** (`LongLine.cfg`). `handle_character_input` bounds the cursor and not the
  line, and moves the end of a full line out of its buffer, over `input_pos`.
* **The wrong directory** (`ChangeDirectory.cfg`). `normalize_path` writes "/" and a
  zero over the first character of the first component of an absolute path.

Noticed while modelling, not claimed by a run:

* *Processes.* A wait that blocks never frees the child it returns, and children of a
  parent that has exited are collected by nobody, so slots are used up;
  `DEFAULT_TIME_SLICE` is commented as 10 milliseconds and is 10 ticks of 10;
  `process_exec` returns to its caller, so the line of the shell marked "Should not
  reach here" is reached. The table of `proc.c` is static and `scheduler.c` declares it
  extern. `process_fork` returns 0 when there is no process to be had, as it does to a
  child, so that the shell and the manager of a container go on as the child they did
  not get; the shell's branch for the failure is never taken. Both models have the step.
* *Memory.* `setup_kernel_paging` does not clear the frame it makes the kernel's PML4
  of, so that an entry left in it is taken for a table; `map_page` does not look
  whether it got a frame for a table; once the frames below 16 MB are all in use, the
  bitmap and the buddy allocator give out the same pages.
* *Files.* A file opened with `O_RDONLY` cannot be read: `fs_read` tests `flags &
  O_RDONLY`, and `O_RDONLY` is 0 (`Readable`); the shell's `cat` and `load_executable`
  open files so. `fs_mkdir` does not look whether it got a block, and with none left
  writes the directory to block 0, the superblock's; the model has the step, and ends
  there.
* *Graphics.* A new window may take the memory of the destroyed active window, and
  clicking on it then never focuses it, because `focus_window` returns when its argument
  is `active_window`; `draw_desktop` draws the front of the list first, so that windows
  in front are painted over.
* *Network.* Resets have no case in any state, so connecting to a closed port waits for
  ever, like losing the SYN; nothing is sent again; any ACK leaves FIN_WAIT_1, and
  the acknowledged number is looked at nowhere; CLOSING and TIME_WAIT are never
  left. The UDP checksum is computed and never verified. `udp_send` and
  `send_ip_packet` copy their data behind a local packet whose `data` has no room;
  the models leave the data out.
* *Containers and hypervisor.* A second SIGKILL to a zombie as above; a machine that
  could not be created keeps its memory; the direction bit of an I/O exit is taken for
  a write when it says in (`handle_io_exit`).
* *Shell.* The ninth pipe of a line and those after it are written over the padding,
  the redirections and the flags of `command_t`, as in the model (`WithPipe`).
  Built-in commands do not set the last exit code; commands in the background are
  never collected, nor are those in the foreground for which the shell had to wait; a
  SIGCONT ends the wait for one, with the exit status of an earlier one.
* *Terminal.* `terminal.h` redefines `KEY_DOWN`, which `gui.h` has as the type of a
  key event, so that presses are refused;
  `history_pos` is not reset after a repeated command; `redraw_input_line` clears one row,
  and that only behind the columns of the prompt, so that a line that wrapped and is
  shortened leaves old input in place of the prompt.
* *Profiler.* Caller and callee of an edge are exchanged; a full table gives NULL,
  which is used; a finished profiler cannot be started again.
* *Mouse.* The ninth bit of a movement is applied to a byte that already has its sign.

## What is left out

Not modelled, and why:

* Register programming, instruction sequences and mode setting (hardware): interrupt
  dispatch, AHCI, audio, Bluetooth, printers, the RTL8139, VMX and the PS/2 mouse, whose
  ring offset and sign bit are arithmetic without a state worth exploring.
* The boot loader, the build, generated icons, the package manager and the security
  module, which print messages; the per-protocol files, which hold no state.
* The second process layer (`proc.c`, `scheduler.c`), which does not link with itself
  and whose exit and yield switch to nothing.
* The file explorer, the debugger and the IDE, nearly all of whose handlers have no body.
* Pipelines, the built-in commands that only print, the hypervisor's devices, the
  journal of the file system, hardware drawing and most drawing of the applications:
  without a body, or with no state another part depends on.
* Preemption inside the queue functions, fork and `alloc_physical_page`: the sources
  neither promise that it is safe nor that it does not happen.

`PROJECT.json` names all of it under `components`.
