# Chutos kernel: formal models

TLA+ models, TLC checks and TLAPS proofs for the Chutos x86_64 kernel (C and
assembly, 64-bit, one processor, no preemption). Paths below are relative to
the repository's `src/`. `PROJECT.json` gives for every definition the lines it
models, for every property a mutant of the code it catches, and the list of
hazards the properties are aimed at.

## 1. Inventory

The kernel boots once, adds five tasks to a table, enables interrupts and then
repeats *run one task to its return, halt until the next interrupt*
(`kernel/main.c`). All concurrency is between this loop and three interrupt
handlers (timer, keyboard, mouse); an interrupt gate keeps interrupts off until
`iretq`, and tasks never preempt one another.

| Component | State | Operations | Interacts with | Hard behaviour | Correct when |
|---|---|---|---|---|---|
| Keyboard driver `arch/x86_64/keyboard.c` | ring `queue`, `queue_read`, `queue_write`, `shift_down` | `keyboard_interrupt`, `keyboard_read` | IRQ 1; input task | handler between the reader's accesses; full ring; two shift keys | bounded FIFO, drops only when full, no stuck shift |
| Scheduler `kernel/scheduler.c` | `tasks`, `next_task`, `lane_credits`, `performance_mode`, `ticks` | `scheduler_add_lane`, `scheduler_set_performance_mode`, `scheduler_run_once`, `scheduler_tick` | called by the loop; the AI task changes the policy | fairness between lanes, policy changed from inside a task | lanes share by weight, always dispatches, no lane starves |
| Page allocator `kernel/memory.c` | `regions`, `current_region`, `next_page`, counters | `memory_init`, `memory_alloc_page`, `memory_pages_free` | boot loader's map; paging, xHCI, user process | partial pages, wrap-around, limits, exhaustion | each page once, offered by the map, above the kernel, counters exact |
| AI layer `kernel/ai.c` | `command_buffer`, `last_command`, `command_ready`, voice flag | `ai_feed_key`, `ai_task`, `handle_command` | input task writes, AI task reads; calls scheduler and desktop | one-slot hand-over between two tasks | the slot always served again; no line lost where the agenda promises it, at most one in a row elsewhere |
| Desktop `kernel/desktop.c` | windows, `active_index`, mode, `tick_count`, `runtime_panel_dirty` | focus, mode, voice intents, `desktop_tick` | AI task, input task, desktop task; GPU, FAT32 | queued run against automatic focus change and monitoring message | the panel follows the focus; every request is answered, and not twice over |
| Loop and tasks `kernel/main.c` | task table, report counters | five task entries | everything above | interrupt before `hlt`; starvation | keys, commands and queued runs are served |
| Interrupt entry `arch/x86_64/boot/interrupts.asm`, `arch/x86_64/interrupts.c` | IDT, PIC, `syscall_count` | stubs, `interrupt_dispatch`, `interrupt_syscall_dispatch` | all handlers; user process | register-level conventions, end-of-interrupt | transparent stubs, right vector, right arguments |
| User process `kernel/user_process.c` | `prepared`, `exited`, `exit_code` | prepare, exit, queries | paging, allocator, system calls | partial failure; calls after exit | exits once, and nothing but its state is told afterwards |
| Paging `kernel/paging.c` | runtime root, one shared second address space | map, create, switch, allocate user page | allocator, user process | partial failure, which root a mapping goes to | kernel stays mapped, user pages reachable from user mode only where meant |
| FAT32 `fs/fat32.c` | mounted volume, one shared sector buffer | init, list, entry lookup, read | block layer, desktop | buffer overwritten during a scan; damaged chains, chains that leave the volume | the first volume is mounted; reads end; what is read is the file's chain |
| ATA, block `arch/x86_64/ata.c`, `block.c` | `primary_master_present` | init, read sector | FAT32 | status read before the drive has noticed the command; timeout against a late answer | the sector returned is the one asked for |
| Mouse `arch/x86_64/mouse.c` | packet bytes, cursor, buttons | init, `mouse_interrupt`, accessors | IRQ 12; desktop | lost bytes, torn reads | cursor in bounds, framing recovers |
| xHCI `arch/x86_64/xhci.c` | rings, slot, port, context | reset, enable slot, context, address | allocator, PCI | ring protocol with a second actor, timeouts | commands are seen in order, completions matched |
| PCI `arch/x86_64/pci.c` | device table | discovery, lookups | GPU, xHCI, AI | bounded tables, capability chains, occurrence counting | drivers find the device they are for |
| ACPI `arch/x86_64/acpi.c` | root pointer, IOAPIC table | `acpi_init` | firmware | malformed tables, tables outside the identity map | what is counted is what the firmware laid out; the walk ends |
| Audio `kernel/audio.c` | input state, voice latch | submit, task | AI | event edge detection | one event per voice burst |
| GPU `arch/x86_64/gpu.c` | device record, frame counters | `gpu_init`, frame marks | PCI; desktop | which of several displays | the display is the one documented order picks |
| Framebuffer UI `arch/x86_64/ui.c` | framebuffer description | `ui_init`, rectangles and texts | Multiboot2 information; desktop | 32-bit arithmetic on sizes the boot loader chose | no pixel leaves the framebuffer |
| Console, CPU features, boot code | cursor | output and one-shot set-up | all | little | mostly I/O |

## 2. Modules

| Module | Models | Correspondence |
|---|---|---|
| `KeyFifo` | abstract | what the keyboard driver promises: a channel of bounded capacity that may drop a key only when it is full; delivery is weakly fair |
| `Keyboard` | keyboard driver | one action for the handler (it runs with interrupts off), three for `keyboard_read`: test, load, advance; interrupts come between any two |
| `Scheduler` | scheduler | one action per function; `running` stands for the entry that executes; `granted` is a history of the round |
| `PageAllocator` | abstract | a set of free pages; allocation takes one of them and fails only when there is none |
| `Memory` | page allocator | one action per map entry, one for the default region, one per allocation; byte addresses in the map (modulo `WORD`), page frames afterwards; `usable` is a history of the stretches the map called usable |
| `Ai` | AI layer's command line | `ai_feed_key` as rub out, enter, ignore, type; the hand-over in `ai_task`; `lost` is a history of the lines overwritten since the last hand-over |
| `Desktop` | focus, mode, queued runs, runtime panel | one operator per function; `panel` is what the runtime panel shows; the two periods of `desktop_tick` are constants; `requested`, `runs` are a history of the last request and of the runs since |
| `Kernel` | composition | `Scheduler`, `KeyFifo`, `Ai`, `Desktop` by INSTANCE, the commands of `handle_command`, the entries of `main.c`, and the interrupts that end a halt |
| `Interrupts` | stubs, dispatch, system calls | registers and stack frame by name, the request and in-service registers of the two 8259 controllers, the state of the user process; `refuses` is the dispatcher's guard, `user_process_exit` has its own |
| `Paging` | page tables, preparation of the process | a page table is a function from indices to entries; one action per call of `kernel_main` and of `user_process_prepare`; any allocation may fail; `runtime_promised`, `space_promised` are histories of the calls that returned 0 |
| `Fat32` | FAT32 reader, file browser, what a block read gives | the disk is a value: unreadable sectors, and for every sector what it would be taken for as a table of partitions, as a part of the FAT and as a part of a directory; pure operators for chains, reads and lookups; one action per call of the browser |
| `Pci` | bus scan, lookups | the configuration space is a sequence of slots of function headers; `devices` is the bounded table |
| `Gpu` | choice of the display | operators on the table of `Pci` |
| `Xhci` | USB controller bring-up | one action per function and per poll, one for each of the two time-outs; the controller is a second actor with its own dequeue pointer and event position; pages come from the allocator of `Paging` |
| `Acpi` | root pointer, table search, MADT | firmware is a value; the entries of a MADT are known by their offsets |
| `Ui` | framebuffer and drawing | the acceptance tests of `ui_init`; every rectangle and text the desktop draws, down to byte offsets modulo 2^32 |
| `Ata` | disk driver | identification, command, poll; the drive takes note of a command a moment late and answers at any time |
| `Mouse` | mouse driver | bytes of packets arrive one by one and may be lost; `expected` is a history of where the device's packets lead |
| `Boot` | composition | `mouse_init` to the start of the main loop on one machine: `Paging`, `Mouse`, `Ui`, `Pci`, `Gpu`, `Xhci`, `Acpi`, `Ata` share the page allocator, the PCI table and the identity map, while the controller and the drive run on their own |
| `MC*` | instances for TLC | constants only; `MCBoot` describes the machines |
| `*_proofs` | proofs | see section 5; `Boot_proofs` is about `Boot` and the parts it starts: `Mouse`, `Ui`, `Pci`, `Gpu`, `Xhci`, `Acpi`, `Ata` |

`Kernel` uses `KeyFifo` in place of `Keyboard`, which `Keyboard_proofs` shows to
implement it. An entry is one step of `Kernel`: it runs to its return, and the
only variable it shares with a handler is the key queue, which one entry reads
at most once.

`Kernel` takes interrupts to do what their stubs intend. `Interrupts` shows
that they do not (section 4, run `vector`); the results about `Kernel` hold of
the program once the stubs pass their vector.

`Boot` runs one call after the other, as `kernel_main` does; between two calls and
inside the polling loops of the USB and disk drivers the devices move. The parts
that share nothing with these have runs of their own (`Memory`, `Scheduler`,
`Fat32`), and start in `Kernel` where `Boot` ends.

## 3. Runs that pass

| Run | Instance | What it shows |
|---|---|---|
| `keyboard` | ring of 4, keys with a shifted form, both shift keys | the slot being read is never overwritten (`HeadStable`), no stuck shift (`NoStuckShift`), refinement of the FIFO with liveness (`ImplementsFifo`), drops only when full (`LossOnlyWhenFull`) |
| `scheduler` | every table of up to 4 tasks in 3 lanes, any sequence of policy changes | runs follow the weights within a round (`LaneShares`), every active lane goes on running once the policy is left alone (`EveryLaneProgresses`) |
| `memory` | pages of 2 bytes, 14-byte address space, 10 mapped, 2 regions, every map of up to 3 disjoint entries | pages handed out are whole, above the kernel and offered by the map, or below the default end where the map offers none (`PagesAreUsable`), counters exact (`CountersExact`), refinement of the abstract allocator (`ImplementsPageAllocator`) |
| `kernel` | the real task table, one-key queue, lines of one character, keys that type, rub out, enter or are ignored, four windows, automatic focus change every 2 ticks and a monitoring message every tick | no accepted key waits for ever (`ServesKeyboard`), a line that waits does not block the slot for ever (`SlotIsServed`), at most one line is overwritten before the AI task runs (`LossBounded`), in balanced mode none is (`NoCommandLostWhenBalanced`) and every task runs (`BalancedModeRunsAll`), the panel shows the application in focus and announces no run that is not queued (`PanelCurrent`), an application is run once for a command, twice for an automatic focus change, never unasked (`RunsAsRequested`) |
| `interrupts` | rdi with every value the dispatchers tell apart, three handled lines and one the firmware left unmasked, a page fault, system calls of a process that was prepared and of one that was not | frames are balanced and registers restored (`StubsAreTransparent`), arguments arrive (`ArgumentsArrive`), a process exits once, with its first code, and all later calls but the state query are refused (`ExitIsFinal`), only lines that arrived at a wrong vector stay in service (`EoiUnlessMisrouted`) |
| `boot` | 1073 machines, each family varying one part: 0 to 22 pages, 82 USB controllers, 345 buses, 178 sets of ACPI tables, 435 sets of Multiboot2 information, 12 disks, 8 mice | paging: the kernel stays mapped in whichever root is loaded (`KernelStaysMapped`), both windows hold what successful calls promised (`WindowsAsPromised`), no page has two uses (`PagesArePrivate`), the table count is exact (`TablePagesExact`); devices: the display and USB controller are the ones on the bus (`DriversFindDevices`), driver and controller agree on the slot (`SlotsAgree`), the MADT is counted to its end and not beyond (`MadtComplete`), no pixel leaves the framebuffer or lies over another (`PixelsInFrame`), a read delivers its own sector (`SectorAsAsked`), the cursor follows the mouse and recovers after a lost byte (`CursorFollows`); and the main loop is reached (`BootFinishes`) |
| `fat32` | 4 clusters of 2 sectors, a FAT in 2 sectors, walks of 3 clusters, 2 partitions, 15,120 disks, with chains that leave the volume and sectors that look like a table of partitions | what is mounted is the first volume there is, up to the first entry that misleads the scan (`MountsFirstVolume`), a read gives the file's own sectors or fails only if the disk is at fault, unless its chain leaves the volume (`ReadsTheFile`), the browser shows a sound directory completely and once (`BrowserShowsAll`) |

Why the bounds suffice. The ring is the same code for every size above one; a
size of four gives wrap-around with one, two and three keys queued (and the
proofs cover every size). Four tasks give two tasks in a lane beside two others
and every order of three lanes. A page of two bytes gives addresses inside and
on a page boundary; two regions and three entries overflow the region table; the
wrap-around of an end address lies inside the 14-byte space. In `kernel` the
table is the real one, so the schedule is the real one; a queue of one is
the tightest, and four windows, with a focus change every other tick and a
message every tick, give every order of focus changes, messages and runs (the
proofs of both properties cover all periods, those of 75 and 90 ticks included).
One key types, one rubs
out, one enters and one (the tabulator's) is ignored: the editor tells no others
apart. A line of one character is the shortest that can be begun and not ended,
which is all that `LossBounded` depends on; the proof covers every length.
In `interrupts` the registers are independent, so two or three values
per register tell them apart (of the calls: one that reads, the exit, the state
query, and numbers that name none); the unmasked line 14 is on the second controller,
so that it holds back the mouse as well.

In `boot` the window has a first, a middle and a last page and can be filled; each
supply up to more than all the calls can use makes another allocation the one
that fails. The event ring has `RingSize` 4 entries: two ports that were reset
and two completions fill it, and one more event finds it full. The controller has
one slot (`MaxSlots`); it answers promptly, slowly, never, with a refusal, or
names a slot it does not have. The PCI table
and a capability list hold 3 entries, buses up to four functions and chains up
to four capabilities, so both overflow; the driver looks at `UsbFunctions` 2 USB
functions (16 in the code), so that an xHCI behind two others is not looked at. ACPI tables keep their real offsets: the
lengths 43 to 96 cut a MADT of five entries at every byte. `Ui` uses the real
limits (1920 by 1080), widths at the edges of its layout's arithmetic, texts of
`LongestText` 127 characters, and `WORD` 2^30 for 2^32 with the identity map's
end in proportion, TLC's integers being 32 bits wide. Three sectors (one past
LBA28) and three reads give a read after a success, after a failure, and after a
refused call. `MCMoves` has a movement whose byte has bit 3 clear and one
whose byte has it set, which is all that the framing looks at.

In `fat32` the chains of four clusters include every way to end, to join, to run in
a circle and to be cut by the walk's limit; the marks for bad clusters and ends
of chains, the 28-bit limit of addresses and the 32-bit word keep their order and
ratio (128 and 2048 stand for 2^28 and 2^32). Cluster 6 is behind the volume's last
and has sectors on the disk, and what the other sectors hold as a part of the FAT
leads back into the volume, so that a chain can leave and return. With an MBR,
the sector of a partition that is no volume may itself name no partition, one the
MBR may name as well, or one it does not name.

What the properties exempt. A property that the code does not keep in some case
says so in its formula, and the case is in the model, not ruled out by it:

* `PagesAreUsable`: when the map offers no page the kernel takes all memory below
  128 MiB for usable (`kernel/memory.c:105`). Then the pages are below that
  address, and nothing tells whether they are memory.
* `MountsFirstVolume`: from the first entry on whose sector can be read and is no
  boot sector, the scan reads other entries than the MBR's (`Misleads`). What it
  then mounts is still a valid boot sector, but perhaps none the MBR names, and
  not the first. `NoVolumeMeansNone` is the part a message of the kernel
  contradicts (section 4).
* `ReadsTheFile`: the code knows neither the number of clusters nor the mark for a
  bad one. A walk that leaves the volume (`Strays`) gives whatever is there; so does
  the mark when clusters are so large (16 sectors and more) that its address wraps
  round to a sector of the disk (`MarkIsPastTheDisk`).
* `EoiUnlessMisrouted`: lines that arrived at the default stub, or with a number
  that was not theirs, may stay in service.
* `SectorAsAsked`: after a call that failed, the drive may still be at work on its
  command, and a later read may be given what is left of it.

Fairness. The processor goes on executing instructions: weak fairness of the
code as a whole in `Kernel` and `Boot`, of the reader in `Keyboard` and of the call
and the return in `Scheduler`. Nothing is assumed of any single task: which task
runs is for the scheduler. The PIT ticks 100 times a second (`pit_init`): weak
fairness of `TimerInterrupt`, without which a halt might last. A polling loop
counts down, so each ends in a step of `Boot` that gives up; what the code's
limits are for, that a device which works has answered by then, is the flag
"prompt", under which giving up waits for the device and the device's steps are
weakly fair. All other devices may stop at any moment. Keys, packets and
interrupts of other lines come when they come: no fairness.

No deadlock: every run checks for deadlock.

## 4. Runs that find a disagreement

* `starved` (`QueuedTaskRuns`). In performance mode the AI lane has one credit a
  round and `next_task` always meets the AI task before the desktop task, so the
  desktop is never dispatched while the mode lasts: a run announced as
  "TASK QUEUED" (`kernel/desktop.c:218`) does not happen. The command that sets
  the mode answers that background work is *reduced* (`kernel/ai.c:315`).
* `vector` (`HaltsOnlyOnException`). Only the system call stub loads `rdi`; the
  others push the vector and call `interrupt_dispatch`, which reads its argument
  from `rdi`. A device interrupt that finds a value below 32 there stops the
  kernel with the message for a CPU exception (`arch/x86_64/interrupts.c:240`).
* `user_reach` (`PreparedIsReachable`). Both roots lack `PAGE_TABLE_USER` in their
  first entry (`kernel/paging.c:156`), so a processor in user mode reaches no
  page of the window, though `user_process_prepare` reports a prepared image.
* `mbr` (`NoVolumeMeansNone`). After a FAT32 partition without a valid boot sector
  the scan goes on in the buffer that now holds that sector
  (`fs/fat32.c:227`): a valid partition behind it is not found.
* `address` (`AddressAnswered`). `xhci_address_device` writes its command to entry
  0 of the command ring, where `xhci_enable_slot` wrote the first one
  (`arch/x86_64/xhci.c:380`). The controller goes on from entry 1, so the command
  is never fetched and a working device is reported as failed.

## 5. Proofs

Every theorem holds for all values of the constants that satisfy the named
assumptions of the modules (`*Assumption`). Beside them nothing is assumed. Most
say that the constants are of the kind the code gives them, and that a null value
is none of the others. Those that say more:

* `MachinesAssumption` (`Boot`): a machine is what its parts can be. On the bus a
  header that is present has the fields of a header (`IsBus`). Firmware
  (`IsFirmware`) has pointers that lead to a table or are null, tables of any
  length, and a MADT whose bytes can be read as entries that follow one another;
  the last one may have a length of zero or one, or stick out of the table.
* `ScreenAssumption` (`Ui`): the identity map ends within the range of 32-bit
  addresses, as `IDENTITY_MAPPED_BYTES` does (`kernel/paging.c:12`).
* `GeometryAssumption` (`Fat32`): the range of clusters `next_cluster` looks up
  (`fs/fat32.c:58`) ends before the marks.
* `VolumeAssumption` (`Fat32`): the volume's clusters are in the range the code
  looks up, and the addresses of their sectors are below 2^32, wherever on the
  disk the volume begins.
* `DisksAssumption` (`Fat32`): a disk has numbers where the code reads numbers. Which
  numbers, and what a sector holds, is free.

`Keyboard_proofs`
: The inductive invariant `IInv` is the type invariant with `HeadStable` and
  `NoStuckShift`. `HeadStable` is written so that it needs no strengthening: it
  says of the reader past its test that the ring is not empty, and past its load
  that the character taken is still the one in the slot `queue_read` names. The
  handler keeps it because it writes at `queue_write` only, and leaves one slot
  free, so that it never makes a full ring look empty. From `IInv` follow
  `TypeCorrect`, `HeadNeverOverwritten`, `ShiftReleased`, `NoEarlyLoss`, and
  `RingImplementsFifo`: under the map that reads the slots from `queue_read` to
  `queue_write` as a sequence, the handler is an `Accept` or a stutter,
  `ReadAdvance` a `Deliver`, and the other steps stutter.

`Scheduler_proofs`
: `TypeCorrect` is inductive as stated. `LanesShare` needs that before interrupts
  are enabled nothing has been granted (adding a task changes the active lanes).
  `WorkConserving` needs that every task in the table is active and that the
  selection is never empty: among the candidates there is one of greatest credit
  and, among those, one of least distance from `next_task`, obtained by
  well-founded induction on the naturals; and that replenishing gives an active
  lane a credit, since no weight is zero.

`Memory_proofs`
: The pages to be trusted are those the map offers, or, when it offers none, those
  below the default end (`Trusted`). `IInv` adds to the type invariant that every
  region consists of such pages, behind the kernel and inside the identity map
  (`RegionsSound`); that regions do not overlap (`RegionsDisjoint`; it holds because
  an entry brings only bytes the map did not call usable before); that nothing is
  given before `memory_init` returns; and that pages given are trusted. What is
  trusted changes when the map offers its first page, so the invariant has to
  say that the table is empty until then (`TableTells`): an entry that offers a
  page is always put into an empty table, and one that offers none never is
  (`EntryTells`), which is also why the default region never joins another. It
  yields `TypeCorrect` and `UsablePagesOnly`. `Counted` says that free and given
  pages are disjoint and add up to `pages_total`; with it, and the lemmas
  `GrowthIsFresh`, `AllocTakes` and `AllocFailsEmpty` on how each step changes the
  set `Free`, follow `CountersAreExact` and `MemoryImplementsAllocator`.

`Interrupts_proofs`
: Between entry and exit of a stub the stack holds, slot by slot, the registers of
  the interrupted code (`StackInv`, with the frame written as a function of those
  registers); hence `RegistersRestored`, and `SyscallArguments`, for which the
  offsets the stub loads from are the places of the registers it means. While C
  runs for a device, its line is in service, nothing in service comes before it,
  and the rest is accounted for by interrupts that arrived at a wrong vector
  (`PicInv`); that is what a non-specific end-of-interrupt command needs to
  release the right line, and it yields `LinesReleased`. The history of
  `ExitIsFinal` is written when the caller executes `int 0x80`, from the caller's
  registers, and the code's state when C runs, from what the stub loaded; `ExitInv`
  ties the two together between these steps, with the arguments that arrive, and
  yields `FirstExitStays`. The guard in `user_process_exit` is not what it rests on:
  behind that of the dispatcher (`refuses`) it is never met, as the model, which
  has both, shows.

`Paging_proofs`
: `IInv` says what *every* entry of *every* page is (`Shape`), in terms of the
  variables of `paging.c` and of what was promised: page 1 leads to page 2, page 2
  to the identity map and the window's directory, and so on for both roots, and
  all other pages are zero. For a step to keep that, tables must be different
  pages (`TablesApart`), the links must be made in order (`Stages`: no table
  without its directory, no promise without a table, and the loaded root is one
  of the two), and a promised page must be none of the tables (`Promises`).
  `MapEntries` states which entries a mapping writes, `NewTables` that the tables
  it makes are new pages and that it counts them. `Walk` then reads the shape the
  way the processor does, and yields `IdentityMapKept`, `WindowsCorrect` and
  `PagesHaveOneUse`; `Count` with the cardinality of the set of tables yields
  `TableCountExact`. The theorems are about `Paging`'s own specification; the
  steps of `Boot` that touch its variables are those steps, and allocations of the
  USB driver, each the step `DriverAlloc` or several of them.

`Kernel_proofs`
: `IInv` is the conjunction of the four parts' type invariants, of what a round of
  the loop looks like to the processor, and of `PanelCurrent`, which is inductive
  with the type of the desktop: each function that moves the focus either marks
  the panel or redraws it, and a monitoring message names the application that has
  the focus before the tick moves it, in which case the tick draws again.
: `RunsAnswerRequests` needs no more than the types: what was run since the last
  request and what is queued add up to what that request calls for (`RunsAreDue`),
  since an intent that asks for a run queues one and starts the count anew
  (`IntentRuns`), and a tick turns what is queued into a run (`TickRuns`).
: `NoLineOverwritten` is about the order of the kernel's own task table, so its
  invariant is the schedule itself (`BalancedInv`). In balanced mode the three lanes'
  credits and the place of the search take thirteen values together (`Round`), from
  any change of mode on; `Chosen` and `Drawn` give the one task each of them leads
  to. The weaker fact that the AI task follows the input task is not inductive: it
  needs the AI lane to hold as much credit as any other there, which only the whole
  round shows. Given it, a line that is ready waits at the place behind the input task or
  is being taken (`LineWaits`), so the input task never runs while one is ready. In
  performance mode the statement is false, and the theorem does not claim it.
: `OneOfTwoLines` holds in either mode, whenever it is changed. In performance mode
  credits and place take sixteen values (`Pace`), which tell how often the input
  task still runs before the AI task does: three times at most. A run of the input
  task reads one key, so `n` runs end at most `(n + 1) div 2` lines, or as many when a
  line is begun. The invariant `LossInv` bounds the lines lost so far plus those
  that may still be ended (`Ahead`, `Begun`) by one. A change of the mode cannot break
  it, since only the AI task changes it, when it has just taken a line.

`Boot_proofs`, the parts
: *Disk* (`ReadsTheSector`): as long as no call has failed the drive is at rest
  between calls; during a call it is either still at rest with the command pending
  or works on that very command (`DriveAnswers`). A status read too early therefore
  shows a drive at rest and never the answer to an earlier command.
: *Mouse* (`CursorFollowsPackets`): in step, the driver holds exactly the bytes sent
  of the current packet. After a loss it may hold any number of bytes, but not
  exactly one just before the last byte of a quiet packet: whichever number it
  started with, the quiet bytes complete its packet or are rejected, so it ends
  with none (`MayBeInStep`).
: *Screen* (`ScreenIsSafe`): the invariant is that an accepted framebuffer passed
  the tests of `ui_init`. `RectanglesType` shows that every rectangle is a 32-bit
  one, whichever subtraction wrapped round; `FrameHoldsPixels` that what `put_pixel`
  accepts lies, byte for byte, in its own place of the frame.
: *ACPI* (`MadtIsComplete`): the walk is a function on the offsets of entries;
  `WalkExists` shows that such a function exists, since offsets grow, and
  `WalkIsWhole`, by a least counterexample, that it reaches every entry before the
  first malformed one, and none behind it.
: *USB* (`SlotIsEnabled`, about `Xhci` alone): the events the driver has not seen are
  those between its index and the controller's position (`EventsWaiting`); the
  controller executes one command at most, the first (`OneCommand`: the second one is
  never fetched, as run `address` finds); and its completion is, from then on,
  among the events posted (`OneCompletion`). Hence the slot the driver reads from a
  completion is the one enabled, whenever the events of ports come in between.
: *PCI and display*: `AllRanked` shows by induction over the scan that a function
  that answers is in the table at the place given by how many answer before it
  (`TableHolds`). A lookup by class and occurrence then finds, for an occurrence, the
  function with that many of its class before it, and the first index is the first
  place (`ClassIsFirst`, `UsbDeviceIsFirst`). `ChainIsFollowed` does the same for
  capabilities.

`Boot_proofs`, the composition
: `BootRunsTheParts` shows that every step of `Boot` is, for each part, a step of its
  specification or leaves its variables alone (`PartSteps`); for paging the pages the
  USB driver takes are steps `DriverAlloc` or several of them (`UsbTakesPages`). For
  that the inductive invariant `BootIInv` has to say what one part hands to the next
  (`Handed`): there are page tables before a driver takes a page, and the table
  holds the bus before a driver looks into it. With it `DevicesAreFirst` and
  `SlotsAgreeInBoot` hold of the machine that boots, and `BootKeepsPromises` carries
  over every other invariant of the run `boot`, those of `Paging_proofs` included.

`Fat32_proofs`
: *Mounting*: after each entry of the scan, what it has found loads, and as long as
  no entry misleads it the buffer holds the MBR still and no volume was passed over
  (`ScanHolds`). `VolumeIsFirst` reads the first volume off that.
: *Reads*: `Address` shows that the address of a cluster of the volume does not wrap
  round, and `Addresses` that the bad mark, where it is past the disk, leads to
  nothing that can be read. So what a walk gets that does not stray lies in the
  volume (`WhatIsGot`), and each cluster follows from the last (`WalkUnfolds`);
  conversely a walk that begins where a chain does follows it (`WalkFollows`), and
  therefore does not stray. `ReadGivesFile` puts the two together: a read that
  gives something gives a chain's data or strayed, and one that gives nothing met
  no sound chain it could have followed to its end.
: *Browser*: the lookup numbers the visible entries by rank. `Ranks` shows that the
  ranks of a finite set are the numbers below its size, in order. So the invariant
  is that the listing in progress holds the entries of rank 0, 1, ... up to its length
  (`SoFar`), and it is complete when the lookup finds nothing more (`Full`).
  `SoundWalk` and `FullIsListing` show that what the walk sees of a sound directory is
  what the disk describes. `FatIInv` adds that nothing is read or listed before a
  volume is mounted, since mounting changes what addresses mean.

Recursive functions appear in these proofs through their defining equations:
`RecursionExists` shows that a function over 0..N with such an equation exists, by
a least counterexample (`LeastElement`, from the well-foundedness of the naturals).
It is a lemma about functions, so that no induction theorem with an operator as
parameter is needed.

Checked by TLC only: all liveness (`ImplementsFifo`'s delivery,
`EveryLaneProgresses`, `SlotIsServed`, `ServesKeyboard`, `BalancedModeRunsAll`,
`BootFinishes`), which needs ENABLED. Every invariant and every action property
of a passing run is a theorem, and so is the safety part of the keyboard driver's
refinement of `KeyFifo` (`RingImplementsFifo`); `WorkConserving`, and the type
invariant of the scheduler for tables other than the kernel's, are proved only. That the kernel uses the
queue as `KeyFifo` says is no result: its actions on the queue are written in
terms of that module. What `ServesKeyboard` adds is the fairness `KeyFifo` asks for.

A task-level version of `EveryLaneProgresses` is not a theorem: with other tables
(three tasks in lanes 0, 0, 1, say) a task may starve in balanced mode too. It is
checked for the kernel's own table in `kernel`.

## 6. Not modelled, and the plan

* Console, CPUID and control-register set-up, the boot assembly,
  `user_mode.asm`: straight-line input/output without state that a property could
  relate. Nothing enters user mode yet.
* Audio: no driver calls `audio_submit_pcm16`, so `audio_task` does nothing but
  test flags, and the AI layer's voice event does not occur.
* Wording and layout: the comparison of strings in `handle_command`, colours and
  glyphs, the texts of applications, printing.
* In `Fat32`: `fat32_list_root` walks as the lookup does and prints; nothing calls
  `fat32_read_root_83`; names are compared as values. A volume's geometry is fixed
  but for its validity.
* In `Interrupts`: spurious interrupts, error codes of exceptions, the bit layout
  of descriptors, the PIT's divisor. Interrupts of different priority do not nest,
  since gates keep interrupts off.
* In `Paging` the TLB: the kernel never changes an entry that was present.
* In `Mouse`: movements of more than 127 (see the hazards), the packet counter.
* In `Pci`, `Acpi`, `Xhci`: register formats, signatures and checksums byte by byte,
  the contents of device contexts.
* In `Boot`: the calls that share nothing with the others (`memory_init` is in
  `Memory`, the FAT32 calls are some sector reads).

What is left to do, in order:

1. `Fat32` over `Ata`: the block layer as the composition instead of the coarser
   view, now that `ReadsTheSector` says what a read of a sector gives.
2. The voice latch of the audio component, once a driver feeds it.
3. `Xhci` past the first device's address, as the driver grows.
