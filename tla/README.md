# A TLA+ model of the Apostrof' kernel

Apostrof' is a 32-bit hobby operating system: a multiboot kernel in C and C++ (`src/src/kernel`), a
library that wraps its system calls (`src/apolib`) and a few programs, of which the terminal is the
one the kernel starts (`src/apps`). This directory holds TLA+ modules that model the kernel's core,
TLC configurations that check them, and proofs of their main properties for every size.

Contents: 1 inventory, 2 how the modules follow the code, 3 what is checked, 4 bounds and
assumptions, 5 fairness, 6 what is proved, 7 what is not modelled, 8 plan.

## 1. Inventory

| Part | State it keeps | Operations | Uses |
|---|---|---|---|
| Kernel heap (`kmm.c`) | `entries`, a sorted table of blocks | `kmalloc`, `kmalloc_pa`, `krealloc`, `kfree` | - |
| Virtual memory (`vmem.c`) | frame bitmap, page directories and tables, `current_vmem` | `vmem_allocPage`, `vmem_freePage`, `vmem_cloneKernelMemory`, `vmem_freeMemory`, `vmem_switchMemory` | heap (tables) |
| Tasks (`task/task.cpp`) | `tasklist`, `currentTask`, the `Task` objects, `task_last_id` | `create`, `get`, `close`, `resume`, `switchTask` | heap, virtual memory, ELF loader |
| Interrupt entries (`int/`) | the saved frame pointers, the table of handlers | `isr_handler`, `irq_handler` | tasks |
| System calls (`task/syscall.cpp`) | - | one per case of `syscall_exec` | all of the above |
| Descriptors (`task/fd.c`) | type, block, count, cursor, pipe | `fd_create*`, `fd_read`, `fd_write`, `fd_istream_write`, `fd_seek`, `fd_tell` | heap |
| Task's descriptors (`task/task.cpp`) | `fds`, `stdin`, `stdout`, `stderr` | `open`, `read`, `write`, `createStdStream`, `getfd`, `attach` | descriptors, screen |
| User heap (`task/task.cpp`) | `blocks`, `heap_brk` | `malloc`, `realloc`, `free` (the first `malloc` never returns) | `Array`, virtual memory |
| ELF loader (`task/elf32.cpp`) | - | `elf32_load` | file system, virtual memory |
| Containers (`utils.hpp`) | block, count, capacity | `push`, `insert`, `remove`, `indexOf` | heap |
| ISO 9660 and VFS (`fs/`) | path table, root | `mount`, `getFile`, `read` | drive |
| PCI (`drv/pci.c`) | the table of devices | `pci_checkAll` at start-up | ports |
| Drive, IDE, GPT (`drv/`) | list of drives, channel registers | `ide_init`, `ide_search`, `drive_read`, `ide_ata_read` | PCI, ports, timer |
| Keyboard (`drv/keyboard.c`, `kb_layout/`) | E0 prefix, modifiers, caps lock | `keyboard_callback`, the layout's key handlers | ports; calls the shell's handlers |
| Timer (`drv/timer.c`) | counter | tick, `timer_sleep` | ports |
| Screen (`vga.cpp`) | cursor, colours, the display's memory | `vga_writeChar`, `vga_scroll`, `vga_setCursor`, `vga_open`, `vga_get`, `vga_set` | descriptors |
| Terminal (`apps/terminal`) | cursor, escape state, parameters | `term_write` | system calls |
| Kernel shell (`shell/shell.cpp`) | line, cursor, where the line starts on the screen | `char_callback`, `keydown_callback`, `run_command` | keyboard, screen, heap |
| `apofs`, `gpt_read`, boot code | - | not run, or straight-line | - |

**How they interact.** Programs raise interrupt 0x1C; the entry saves the frame, moves to the one
kernel stack and calls `syscall_exec` in the caller's address space, whose first pages are the
kernel's. Every hardware interrupt ends in `Task::switchTask`, which never returns to its caller: it
resumes a task from its saved frame. Parents and children share only pipes: a descriptor at each end,
both in the kernel heap, named in programs by their addresses.

**What is hard.**

- *Interleaving.* The gates clear the interrupt flag, so a system call is atomic with respect to the
  timer. The exception is `kernel_main`: `timer_sleep`, called by the IDE driver, sets the flag and
  nobody clears it, so the first `Task::resume` can be interrupted between any two of its statements.
- *Stale state.* An exited task's object, address space and frame stay in use until the next
  interrupt; heap addresses come back; arrays keep pointers to freed descriptors.
- *Partial failure.* Nearly every call allocates several times, and each allocation can fail.
- *Long sequences.* The heap, the page tables, the pipes' blocks and the task list are data structures
  whose damage shows many calls later; so are a screen that has scrolled and a line that is full.
- *Silence.* Busy waits on drives, a scheduler that must reach every task, loops that do not move on.

**What makes each part correct.** Heap: live blocks are disjoint, keep their bytes when they move, and
a refusal changes nothing. Virtual memory: no frame behind two pages, every mapped frame marked, the
kernel mapped everywhere. Tasks: the running code, `currentTask` and `cr3` agree; frames stay with
their tasks; nobody is overtaken or starved. Descriptors: every handle leads to the stream it was
given for; a pipe delivers each byte once and in order. Arrays: the elements callers put there, in
order, inside the block. ELF loader: each section in place with the permission it asks for, the heap
above all of them, and memory used as its owner allows. Drives: a successful read has stored the sectors
asked for, and the driver always comes back. File system: a path leads to the file the directories say,
a read delivers a slice of it. Terminal: the cursor stays on the screen, and what is drawn lands where it was
meant. Keyboard: the driver's modifiers are those held down. Shell: it edits one line, and the screen shows
that line. The hazards, each at its line, are in `PROJECT.json`.

## 2. How the modules follow the code

| Module | Models | State and actions |
|---|---|---|
| `KernelHeap` | `kmm.c` | `entries` is the table, a sequence; `call` the last call and its answer; `crossed` a history variable: a block of 0 bytes has stood behind a block that begins at the same byte. One action per function. `AddEntry`, `RemoveEntry`, `EntryIndex` are the table's helpers, `FirstFit` the scan of `kmalloc`, `Moved` the failing and the moving half of `krealloc`. |
| `Allocator` | what `kmm.h` promises | A set of disjoint blocks; any free place may be handed out. The promise is `kept` until a hollow block is put where another begins (`Break`). `KernelHeap` implements it under `blocks <- Range(entries)`, `used <- Len(entries)`, `kept <- ~crossed`. |
| `VirtualMemory` | `vmem.c` | `bitmap` the bits that are set; `tables` and `pages` the present tables and pages of each live directory; `reset` the absent pages whose entry is known to be 0, not what the heap left there; `short` the address spaces made without all kernel tables; `halted` a fault in the kernel; `cleared` a history variable: mapped frames whose bit was cleared by its number alone, by `vmem_freeMemory` or, from an entry never written, by `vmem_freePage`. |
| `Tasks` | `task.cpp`, `isr.cpp`, the process calls, the end of `kernel_main` | `object` is the memory at each address a `Task` can have and survives `kfree`; `allocated` what the heap has handed out; `flow` whose instructions run; `boot` how far `kernel_main` is; `ahead` a history variable for the turns. |
| `Streams` | `fd.c`, the descriptor calls, `vga_open` | `fd` is the memory at each address, `std`, `attached` the task's pointers, `room` how many more its array takes, `lost` the tasks whose array could not grow, `known` the handles in the program's own memory, `call` the last transfer. |
| `Channels` | what streams promise programs | FIFO queues, whole writes. `Streams` implements it under `queue <-` the counted part of each block. |
| `ElfLoader` | `elf32.cpp` | Extends `VirtualMemory`, its state with page attributes, the bytes in frames and the address space in force; `load` is how far the call is. One action per turn of a loop, since a page that cannot be had stops the load half way. |
| `Pci` | `pci.c` | Operators: `devices(m)` is the table that the scan of machine `m` leaves. |
| `Drive` | `drive.c` | `Count`: a number of sectors, in 8 bits. What `IdeDrive` and `Iso9660` share. |
| `Splitting` | - | What it means to split a sequence: the runs between separators, in order. The reference for paths and lines. |
| `IdeDrive` | `ide.c`, `drive.c` | `machine` is what the buses hold, `Init` the scan and the choice of a controller; `driver` is where the driver is; each look at a status register is a step. `device` is the drive behind the ports, modelled as the driver uses it (external). |
| `Iso9660` | `fs/` | `disc` is what the drive holds, a byte named by its position; `fs`, `file` the mounted file system and the last file looked up; `answer` the bytes delivered. |
| `Arrays` | `Array<T>` of `utils.hpp` | `buffer` the block, `count`, `capacity` as in the code; `list` (history) what callers put there. |
| `Framebuffer` | `fd.c`, descriptors of fixed-size buffers | Operators on a descriptor (its size and cursor): `fd_seek`, `fd_tell`, `fd_read`, `fd_write`. |
| `Terminal` | `terminal.c`, `vga_set` | Cursor, escape state and collected bytes as in the code; `fb` the descriptor it draws through, `shown` the cursor of the screen, `drawn` the bytes that the step wrote last and `meant` those it wanted to; one action per branch of `term_write` and `term_writeEscaped`. |
| `Vga` | `vga.cpp`, text output | Operators on a screen (cells and cursor), one per function. |
| `Keyboard` | `keyboard.c`, `nl_be_qemu.c` | `wire` is what the keyboard has sent (external: what its keys send), `held` the keys somebody holds; `escape_e0`, `state`, `caps` the driver's variables. `keyboard_callback` takes one byte. |
| `Shell` | `shell.cpp` | `input_buffer`, `cursor`, `input_x`, `input_y` as in the code, `screen` a screen of `Vga`; one action per branch of the handlers. `parse_command`'s two passes are `WordEnds` with `argc`, and `WordStarts` with `argv`. |
| `LineEditor` | what a line editor promises | A line, a position and the words of the line entered last. `Shell` implements it under `line <- Text(input_buffer)`. |
| `Console` | keyboard and shell together | Each interrupt is the driver, the layout, and the shell's handlers one after the other. |
| `MC*` | - | The instances TLC checks. |
| `CommonLemmas`, `*Proofs` | - | Lemmas on `InsertAt` and `RemoveAt`, division, least numbers, recursion, and the runs of a sequence; theorems. |

Some definitions come before others with the comment "Variant of X": each is X with a plausible slip,
and shows that the property named for it in `PROJECT.json` would notice.

Things the code does that a reader may not expect, and that the modules keep:

- A function that runs off its end returns what its last instruction left in `eax` (the build is
  gcc without optimisation): `kmm_getEntryIndex` answers entry 0, `Array::indexOf` the count,
  `Task::attach` an address. So `krealloc` of an unknown pointer resizes the lowest block, the
  scheduler restarts at the head of the list after an exit, and `open("/dev/fb")` always answers 0
  while the freed descriptor stays in the task's array.
- The heap grants a request of 0 bytes like any other, and the kernel makes such requests: `parsePath` of
  `/` builds an `Array` of none (`filesystem.cpp:45`, `utils.hpp:31`), `Array::remove` resizes a block to
  nothing (`utils.hpp:66`). The request fits the first gap, so it is answered with the heap's first byte.
  If a block begins there, the hollow block is entered behind it and the table is out of order: the gap
  between the two is negative, the unsigned difference at `kmm.c:260` huge, and the next `kmalloc` hands
  out the space of the lower block; a `kfree` of the pointer then takes the lower block from the table. A
  `krealloc` of a hollow block that finds no room crosses the two in the same way when it puts the block
  back. A hollow block in front of another, the other order of the two, does no harm, and neither does one
  in a place of its own. `BlocksDisjoint`, `ReallocKeepsContents`, `FailedReallocRestores` and the promise
  of `Allocator` therefore hold until `crossed`.
- `vmem_freeMemory` clears the bitmap by page number, not by frame number. `vmem_freePage` clears the bit
  of the frame in the page's entry also when the page is absent, and `vmem_allocTable` clears only the
  present bits of a new table (`vmem.c:36`), so that the entry of a page never mapped there is what the
  heap's memory held before. `FramesExclusive` and `MappedIsUsed` carry the exception `cleared`: sharing is
  possible for those frames only.
- `vmem_cloneKernelMemory` does not look at what `vmem_mapPage` answers (`vmem.c:195`), so an address space
  made when the heap runs out has the first kernel tables only (`short`), and the first thing its task or
  the loader touches behind them faults. Without a directory the clone writes through address 0
  (`CloneNowhere`), and nothing more is said.
- `Array::push` takes what `krealloc` answers for its block (`utils.hpp:39`): a task's 21st descriptor, and
  every tenth after it, may cost it all of them when memory is short. (The first block is large enough for
  twenty, so that the first `krealloc` shrinks it in place.) The array then goes on at address 0; `getfd`
  may find a handle there or not, and both are modelled.
- A program that asks for a section in kernel space stops the machine
  (`process_create_inKernelSpace`).
- `process_createWithStdout` can answer 0 although the child runs.
- `Array::insert` at index 0 never ends: it compares a signed index with an unsigned bound
  (`utils.hpp:53`), and shifts all memory below the block. The first `malloc` of every program does this,
  so no program of this build gets beyond one (run `array_insert`, the one finding).
- `Array::remove` gives back ten elements whenever the count passes a multiple of ten downwards, whatever
  the capacity. That is right for an array that has grown past the multiple, and wrong for one that was
  exactly full: with ten elements and capacity 10, one removal leaves a block of 0 bytes under nine elements,
  and no later push grows it, since the count is already above the capacity. `KeepsList` carries that
  exception (`squeezed`), as a statement of when it happens.
- `drive_read` takes its count in 8 bits: a read of 256 sectors or more fetches the remainder and reports
  success. `ReadIsSlice` and `ReadExact` say so exactly.
- The magic word of a disc is only looked at together with type and version (`iso9660.cpp:163`), a path
  table entry without a name hangs the mount, a name without a Rock Ridge entry is lost, and nothing
  checks that the names in the middle of a path are directories.
- In the terminal, a scroll by more rows than the cursor has above it wraps the row (`wrapped`), a third
  parameter is written past its array (`status = "overrun"`), and an escape sequence other than `ESC [`
  leaves the terminal swallowing characters. A cursor that has left the screen is mostly harmless, since
  `fd_seek` refuses a place outside the display and `fd_write` cuts what does not fit, but an erasure from
  that cursor to the end has a negative size, and that one passes the test of `fd_write`, whose sum wraps
  (`OverrunByErasure` says that this is the only way). Since `open("/dev/fb")` answers 0 in this build, the
  terminal gives up in `term_init`; `Terminal` starts where that call has succeeded.
- In the shell, a character typed behind the last one of a full line takes the place of its terminator
  (`status = "overrun"`; `KEY_RIGHT` can bring the cursor there). The row a line starts in is not corrected
  when the end of the line scrolls the screen: from then on it is rendered one row below (`moved`).
- The Pause key sends the codes of left ctrl behind a prefix that the driver does not know, so that the
  driver takes a left ctrl that is held for released (`forgotten`). Caps lock changes with every make code,
  a repeated one included.
- The PCI scan looks at eight buses when the device at place 0:0.0 has several functions, and also when
  there is none (registers read as ones); nothing keeps it from finding more devices than its table holds.
  Every controller of mass storage is taken for an IDE controller (`ide_init` compares the base class
  twice), and only the first is used.

## 3. What is checked

| Run | Properties | What it shows |
|---|---|---|
| `kernel_heap` | `TypeOK`, `BlocksDisjoint`, `ReallocKeepsContents`, `FailedReallocRestores`, `KeepsPromise` | Until a hollow block crosses another: no sequence of calls makes blocks overlap; a moved block never has its bytes overwritten before they are copied; a refused `krealloc` leaves no trace; requests are refused only when there is no room. 111 539 states. |
| `virtual_memory` | `TypeOK`, `FramesExclusive`, `MappedIsUsed`, `KernelMapped`, `TablesInUse` | Frames are shared only through bits cleared by their number; the kernel is mapped whole, or its first tables when the others could not be had; tables come and go with their pages. 2 426 310 states. |
| `tasks` | `TypeOK`, `OwnContext`, `OwnAddressSpace`, `ListedAlive`, `ExitedNeverResumed`, `NoOvertaking`, `EveryTaskRuns` | With interrupts anywhere, also inside the first `resume`, contexts and address spaces stay apart; a frame written to a freed object is never used; turns go round; every task runs again or the machine has stopped. 30 206 states. |
| `streams` | `SingleReader`, `OutputHasReader`, `HandlesLive` | Whatever is redirected, opened, or fails half way, and whatever address comes back, handles lead where they should, or nowhere once an array is lost, and no two processes read one pipe. 279 053 states. |
| `pipes` | `WithinBlock`, `ArePipes` | The resized and shifted blocks behave as FIFO channels. 17 160 states. |
| `elf_loader` | `ImageInPlace`, `WritableAsLinked`, `HeapAbove`, `MemoryProtocol` | Whatever the order of sections and whatever was loaded or deleted before, a loaded program's bytes and permissions are those of its file, its heap starts above it, and every step is one `VirtualMemory` allows or none, also when frames or kernel tables run out. 56 110 states. |
| `ide_drive` | `ReadExact`, `WordsOffered`, `DrivesFound`, `Returns` | The driver takes words only from a drive that offers them; it finds each drive of the first controller in reach once, whenever the drives answer; a failed sector ends the call, and every call ends. 17 052 states. |
| `iso9660` | `ReadIsSlice`, `LookupResolves` | Every path of up to four characters (and some longer ones), every range: the answer is the reference's. 6 372 states. |
| `arrays` | `KeepsList` | Pushes, inserts and removes across several growths and shrinks. 128 898 states. |
| `array_insert` | `InsertReturns` | *Violated*: an insertion at 0 does not come back, although the programs that `malloc` expect it to. |
| `terminal` | `CursorOnScreen`, `DrawsAsMeant`, `OverrunByErasure` | Any characters in any order, numbers that overflow included: the cursor is on the screen where the screen shows it, what is drawn lands where it was meant, unless a scroll has taken more rows than there were; and then only one kind of erasure reaches memory outside the display. 658 311 states. |
| `console` | `ModifiersHeld`, `LineShown`, `EditsLine` | Any keys in any order, byte by byte: the driver knows the modifiers that are held; the shell behind it implements the line editor, down to the words a command gets; the screen shows the line and the cursor, until a scroll moves the line. 6 182 244 states. |

## 4. Bounds and assumptions

Bounds of the runs, and why they suffice:

- `kernel_heap`: 12 bytes in pages of 4, at most 3 blocks, requests of 0, 1, 3 and 4. The table fills, the
  memory fills first, gaps of every kind occur before, between and after blocks, rounding up passes a
  block's start, and a block can move down, up and over itself; hollow blocks stand alone, together, before
  and behind others. The unsigned word is 24, larger than any address, as 2^32 is. A table that a crossing
  has spoilt may place blocks beyond the heap: those that would end at or beyond the word are left out.
- `virtual_memory`: 2 kernel pages in one table, 2 more tables, 4 free frames, two address spaces that
  use pages 2, 4 and 5; any table can be refused, and the entry of a page never mapped in its table holds
  any frame number. Frames run out; a table has one page or two; table 1 can be absent below a
  present table 2, so that `vmem_freeMemory` skips page 4; page numbers and frame numbers differ.
- `tasks`: 3 objects and 5 processes, so that addresses are used again and a freed object is written
  while its address belongs to a new task; up to 3 tasks in the list.
- `streams`: 4 descriptors, 2 processes, one byte, and no memory for bytes (`MaxBlock = 0`): this run is
  about descriptors only. `pipes`: 3 descriptors, 1 process, two bytes, writes and reads of 1 or 2,
  blocks of up to 3: this run is about bytes only. In both an array takes one descriptor, and one more each
  time it gets a larger block, so that the second may lose it. `streams` looks at states without `call`
  (`StreamView`), which no action reads and none of its properties mentions.
- `elf_loader`: pages of 2 bytes, 10 of them, 4 the kernel's, in two tables, so that one may be missing; two address
  spaces; programs whose sections
  share a page in either order of permission, lie out of order, are empty, not allocated or without bytes
  in the file, reach the stack's page, or reach into the kernel after having taken a page.
- `ide_drive`: bytes of 2 bits and heads of 1 bit, so that the short form of an address ends at 128, with
  addresses on both sides of it and counts on both sides of a full byte; eight machines, with the controller
  a first, second or last function, on bus 0, 1, 3 or 7, alone, twice or missing, and drives of every kind
  before and after each other. The scan's own numbers (8 buses, 32 devices, 8 functions) are the code's.
- `iso9660`: sectors of 2 bytes and counts of 3 bits; a file longer than a full count, one that ends
  within a sector, an empty one, a directory with padding; discs that are refused, hang, or pass by
  mistake.
- `arrays`: steps of 3 (the code's 10) and up to 8 elements: several growths and shrinks.
- `terminal`: a screen of 3 by 2, tab stops of 2, 5 bytes for a sequence (the code's 32), words of 5 bits,
  shorts of 4 and bytes of 2, so that numbers of two digits overflow them all and the size of an erasure
  can wrap. `TerminalAssumption` keeps what the code's numbers have: the display's bytes, twice over, are
  less than a word.
- `console`: a screen of 5 by 2 and a line of 3 characters, so that a line starts in the last row, fills,
  goes on in the next row and scrolls; a key with one character in each table and the space bar, one
  modifier with a prefix and two without, caps lock, and the four keys the shell knows.
- `Object`, `MaxPid`, `Fd`, `MaxBlock`, `MaxCall` bound what the code bounds by memory alone.
- The runs other than `kernel_heap` do not check for deadlock: in the model of virtual memory a fault
  stops the machine, tasks halt on the error screen, processes may all have exited, a program's refusal
  or a fault ends the loader's model, a machine without drives has nothing to read, a mount can fail or
  hang, arrays, the terminal and the shell stop when memory is lost or a call does not come back, and the
  console after an error of the keyboard.

Assumptions on the code's surroundings:

- Kernel entries run with the interrupt flag clear and are one step each; the interrupts that can hit
  `kernel_main` before the first task exists touch no state modelled here (the timer's counter and the
  keyboard's modifiers), and `currentTask` is null then.
- The memory behind the heap's table is zero, as RAM is at start-up: `kmm_addEntry` relies on it for its
  terminator. The table holds fewer than 16 384 entries, below the display's memory.
- Requests are smaller than the heap, so that `base + size` does not wrap. Programs write at least one byte.
- After a crossing in the heap, and after an array or a page directory has gone to address 0, the models
  keep what still holds and leave the rest open: a handle is found or not, a machine without a directory
  halts. The modules that use the heap without modelling its table take its blocks for disjoint.
- Programs use the handles they were given, and do nothing after their `exit` call until the next
  interrupt. The library's `exit` is followed by nothing, and its entry code never calls it.
- ELF files are well-formed: sections end within the address space, and their headers within the file.
- A drive notices a command within four reads of the alternate status (400 ns, what the ATA standard
  gives it) or a sleep of a millisecond; it supports LBA; a slot without a drive reads as status 0 (a
  channel without any drive that reads as 0xFF would hold the search for ever).
- Discs that `isValid` accepts are what ISO 9660 says (`DiscAssumption`): a sector is a whole number of 512
  bytes; the entries of a directory lie one behind the other inside it, and a directory shares its name with
  nothing else beside it; directories are shorter than a full count of sectors. Discs are smaller than 4 GiB,
  so that positions fit a word, and the heap has room during a lookup. Nothing is assumed of discs that are
  refused, of files, or of paths.
- The terminal's `malloc` comes back or does not; `Terminal` has both.
- The keyboard sends a key's bytes one after the other, and the next key's after they have been taken.
  Codes of keys are below 96, as all of `keys.h` are: the break code of a key 96 would be the byte 224 that
  announces a prefix, and `ModifiersHeld` would be false (`LayoutAssumption`).
  `Shell` begins after `shell_init`, which is commented out in `kernel_main`; commands print whole lines,
  and the heap has room for `argv`. No command turns interrupts on (`timer_sleep` has no other caller than
  the search for drives), so a command is part of the interrupt that starts it. A line and a row fit a byte,
  as 127 and 80 do, characters that are typed can be shown, and no key has both a character and a meaning
  for `keydown_callback` (`ShellAssumption`, `ConsoleAssumption`): the code tests them one after the other.
- The machine has no more PCI functions than the table holds, every device has a function 0, and says there
  whether it has others, as PCI demands (`AsDemanded`). An IDE controller's ports are those the driver reads
  from its configuration.
- The task list stays within its first 10 slots. In `Tasks` an address space is made whole or its program
  is refused (what a missing table does is in `VirtualMemory` and `ElfLoader`), and the first program loads
  or `kernel_main` idles.

## 5. Fairness

`Tasks` and `IdeDrive` are the modules with fairness. `IdeDrive`: `WF(Driver)`, since the processor goes
on executing the loop it is in, and `WF(Device(s))` for each drive, which ends each command in data or an
error; the caller may stop asking. `Tasks`: `WF(irq_handler)`: the timer interrupts every millisecond,
programs are entered and resumed with interrupts on, and nothing but the error screen turns them off for
good, which the action's guard `~halted` reflects. `WF(kernel_main)`: the processor executes
`kernel_main` until it enters the first task. `EveryTaskRuns` needs nothing of the programs, which may
create and exit as they like: pids are bounded, so exits end.

## 6. What is proved

TLAPS checks the following for every value of the constants that satisfies the named assumptions of the
modules, and nothing else:

| Module | Assumptions | Checked properties it proves |
|---|---|---|
| `KernelHeapProofs` | `HeapAssumption`, `ArrayAssumption` | `TypeOK`, `BlocksDisjoint`, `ReallocKeepsContents`, `FailedReallocRestores`, `KeepsPromise`; `KeepsList` of `Arrays` |
| `MemoryProofs` | `MemoryAssumption`, `LoaderAssumption`, `ImageAssumption` | `TypeOK`, `FramesExclusive`, `MappedIsUsed`, `KernelMapped`, `TablesInUse`; `MemoryProtocol`, `HeapAbove`, `WritableAsLinked`, `ImageInPlace` of `ElfLoader` |
| `TasksProofs` | `TaskAssumption` | `TypeOK`, `OwnContext`, `OwnAddressSpace`, `ListedAlive`, `ExitedNeverResumed`, `NoOvertaking` |
| `StreamsProofs` | `StreamsAssumption` | `SingleReader`, `OutputHasReader`, `HandlesLive`, `WithinBlock`, `ArePipes` |
| `DriveProofs` | `ByteAssumption`, `DriveAssumption`; `DiscAssumption` | `WordsOffered`, `ReadExact`, `DrivesFound`; `ReadIsSlice`, `LookupResolves` of `Iso9660` |
| `TerminalProofs` | `TerminalAssumption`, `WordAssumption` | `CursorOnScreen`, `DrawsAsMeant`, `OverrunByErasure` |
| `ConsoleProofs` | `LayoutAssumption`; `ScreenAssumption`, `ShellAssumption`, `ConsoleAssumption` | `ModifiersHeld`; `EditsLine`, `LineShown` of `Shell` |

**Kernel heap** (`KernelHeapProofs`). `IInv` says that the table is always a table (a sequence of blocks, not
too long: `Table`), and until `crossed` that its entries are within the heap and neighbours are in order
(`Heap`), which is enough because order is transitive (`HeapOrdered` derives that of any two). The work is in
the insertion point: first fit chooses gap *i*, and the scan of `kmm_addEntry` must stop at the same *i*
(`PositionInGap`). For a block with bytes it does, since all bases before the gap are smaller or hollow and all
after it larger. A hollow block is entered behind all that begin where it does (`HollowEntered`), and either
those are hollow too and nothing changes, or the two have crossed. `ContentsKept` follows from first fit: once
the block is out of the table its own place is a gap that may have grown, so a new place is below it, or clear
of it. `FailureRestores` uses that taking an entry out and adding it again is the identity on a sorted table,
hollow twins and all, or a crossing (`PutBack`).

`HeapKeepsPromise` is the refinement of `Allocator`. Inserting or removing an entry adds it to or takes it from
the set of blocks, unless it is hollow and has a twin, which is why the allocator counts its blocks (`used`) and
lets a hollow block stay (`RangeInsertAt`, `RangeWithout`); a gap the scan accepts is free of every block
(`GapIsFree`), and when it accepts none, no free place exists (`NoFit`). Each function is then a step of the
abstract allocator that keeps the promise, or is one of the two calls of `Break`: that no other call can cross
two blocks is the point of the theorem. `ArraysKeepLists` is about the first client
of `krealloc`: as long as no removal has squeezed the array and memory is there, the count is at most the
capacity, the capacity at most the block, and the block agrees with the list in the counted places (`Sound`).

**Virtual memory and the ELF loader** (`MemoryProofs`). The invariant is the conjunction of `TypeOK`,
`FramesExclusive`, `MappedIsUsed` and `KernelMapped`: exclusiveness needs that mapped frames are marked
(a new frame's bit was clear), and marking needs exclusiveness (freeing a page's frame must not unmark
another's). A stale entry may name any frame; its bit is cleared and, if it is mapped, it joins `cleared`.
`KernelMapped` says that the kernel's pages an address space has are the first ones, up to whole tables
(`FirstPages`), and all of them unless it is `short`. `TablesMatchPages` is a separate induction over `TypeOK`
and `TablesInUse`.

`UsesMemoryAsDescribed` says that the loader is a client `VirtualMemory` allows, so that what is proved of
`VirtualMemory` carries over to it. `LInv` adds to it that a call in progress is typed and has its address
space, that every address space that is not `short` has the kernel's pages, and that the page index stays
below the end of the section: a page that is asked for because it is not mapped is then outside the kernel, and
inside the address space. A call that lacks a kernel table gets no new table, and may fault at any step. It needs that no section wraps around (`ImageAssumption`), which `elf32_load` does not check.
`HeapAboveProgram` is a second induction, over `HeapInv`: the sections dealt with so far end at or below
`heap_address`. The last step is arithmetic, that a byte below an end is on a page below the end rounded up.

What is in a loaded program is a third induction, over `PlaceInv`. A call works in an address space of its
own (`OwnInv`); a page has the attribute that the sections dealt with on it ask for (`AttributeInv`, from
which `AttributesAsLinked`); and every byte of the sections before the one in hand holds what the file
says, unless a later one covers it (`FillInv`, from which `ProgramsStayInPlace`). That filling one section
disturbs no other program is `FramesExclusive` together with `SameByte`: two addresses with the same frame
and offset are the same page and the same byte. The exception for `cleared` frames comes through from there.

**Tasks** (`TasksProofs`). The checked properties are not inductive. `IInv` adds that listed pids are
distinct and already issued; a description of who runs (`Idle` before the first task, `Entering` inside
the first `resume`, `Running` after it, with the current object possibly freed but then shared with no
listed task); that every listed task that has started and is not current has its own frame; and that the
pairs of `ahead` follow the order of the list counted from the current task, which is what makes
`NoOvertaking` true. Then `ContextsSeparate`, `AddressSpaces`, `ListedTasks`, `NeverResumed` and `InTurn`
follow.

**Descriptors and pipes** (`StreamsProofs`). The invariant says what every address holds (an end of a pipe
if it is handed out, else at most the leftover of `open`: `DescriptorInv`), that what a program was given is
live, and attached unless its array is lost (`KnownInv`), and that each stream of a living process drains into
a pipe that somebody was given, or nowhere (`StdInv`). `SingleReader` needs more than its own statement: that a pipe is held by one
living process at most, as its stdin or as a handle it was given (`OwnerInv`). A call that fails half way is
then harmless since all that it leaves behind are addresses nobody was given; this is the shape every creating
call has (`Making`). `StreamsArePipes` maps the counted part of each block to a channel's queue: creations open
empty channels, a write appends all of its bytes or none, and a read takes bytes from the front, which is that
the shift in the block and the smaller count come to `SubSeq`.

**IDE driver** (`DriveProofs`). Driver and drive take turns without a handshake, so the invariant relates
their two states: while a call reads, the selected drive is at the sector the driver expects next, with as many
left as the driver wants (`ReadInv`), and what is stored is the sectors from the first on (`StoredInv`). The
other half is arithmetic: the bytes that `ide_set_lba` writes and the head bits, put together again by the drive,
are the address, in the short form (24 bits and a head of 4) as in the long one. With bytes and heads of any size these
are the digits of a number (`Division`, `NestedDivision`, `Weight`).

`FindsDrives` follows the search through its slots. `ScanInv` says that the drives found are those of the slots
passed, in order (`FoundInv`), and what the driver can know at its slot from the answer that the drive's kind
gives to IDENTIFY (`SearchInv`); a slot is passed only if nothing usable is there (`ScanLooks`, `ScanAnswered`). That
the controller is the right one needs no induction: the places of PCI are in a linear order, and since every
device has a function 0 that announces the others, the scan skips none on the buses it looks at.

**File system** (`DriveProofs`). `ReadsSlices` is arithmetic (`SectorsAsked`, `ReadBytes`): the sectors from the
one with the offset to the one with the last byte, less than a full count of them or the exception holds, contain
the bytes asked for at `offset % Unit`; a sector of the disc being a multiple of the drive's, `lbaTo512` loses
nothing. `LookupsResolve` has three parts. `parsePath`, which writes zeros over slashes and finds names in what is
left, gives the runs between slashes (`NamesParsed`), for every path: a place starts a name just when it starts a
run, and the name's zero, or the path's end, is where the run ends. The loop over a directory stops at every entry,
whatever padding lies before it (`AllEntries`): if it passed one, the last stop before it would be at an entry that
overlaps it, or at a zero that it leaves by one byte. And a lookup agrees with the files the directories lead to,
name by name (`AgreeNext`, `LookupAgrees`): as long as the path has only led through directories there is at most
one on the way, since a directory shares its name with nothing, and the lookup has it. The last name may be one that
several files have; any of them is a right answer.

**Terminal** (`TerminalProofs`). Between two characters the descriptor is in the display's memory and the cursor
is on the screen and where it is shown (`ReadyInv`). During one it is not: a character may leave the cursor one
place too far, `term_writeEscaped` anywhere a number leads, and a scroll may wrap the row. `Sound` is what every
step before `term_updateCursor` gives (one place too far, drawn as meant, or wrapped), and `term_updateCursor`
turns `Sound` into `ReadyInv`. `OverrunsByErasure` is a fact about each single drawing, whatever the cursor: a write that passes
`fd_write`'s test and leaves the display's memory has a negative size. A parsed number is the value of a recursive
function over the bytes of the sequence; that it is a word for any sequence uses `Recursion`, a bounded induction
by way of the least counterexample.

**Keyboard** (`ConsoleProofs`). `ModifiersHeld` says something only when no byte is on its way. `KeyboardInv`
adds what may be on the wire otherwise: the rest of a key's bytes with the driver inside its prefix or not, the
rest of Pause's or Print Screen's, or a fault; and about which modifier the driver is not up to date meanwhile.
The proof is about the keyboard alone and holds whatever the handlers do, since they do not touch the driver.
It failed at first for a key of code 96; hence `LayoutAssumption` (section 4).

**Kernel shell** (`ConsoleProofs`). `ShellIsEditor` is the refinement of `LineEditor`. Its invariant `LineInv` is
that the buffer is a line of *n* characters and zeros to its end, with the cursor in 0 .. *n*: no handler leaves a
character behind a zero, and the last place, which `shell_start` does not clear, keeps its zero. With it, the loops of
`char_callback` and `KEY_BACKSPACE` come to `InsertAt` and `RemoveAt` (`InsertedText`, `DeletedText`). For Enter, the
first pass of `parse_command` counts the ends of words and the second finds their starts in what the first has left;
`RunsCounted` pairs each start with the end of its word, so that the places `argv` was given are as many as the words
(`EndsAre`, `StartsAre`, `WordsAre`).

`LineIsShown` adds `ScreenInv` (the cursor is in a row of the screen, the line starts within one). Its core is
`TextWritten`: a text without line ends that fits before the end of the screen lies in consecutive places from the
cursor on, across the ends of rows, and writing it keeps what is there; any text leaves the cursor in a row. The
shell's own cursor is set to `input_x + cursor`, beyond the end of a row for a long line, and `y * Width + x` is
still the right place. The property is exempt from the first scroll on (`moved`), which is where the code is wrong.

TLC checked each of these invariants on the instances of section 3 before it was proved. Some definitions were
written with the proofs in mind and are otherwise the same: `Weight` of `IdeDrive` is a table; `Progress` of
`Terminal`, `vga_writeText` of `Vga`, and the loops of `Iso9660` are recursive functions; the *n*-th name or word
is found by counting (`Nth`); and the specifications of `VirtualMemory`, `Arrays` and `Iso9660` have names of their
own (`MemorySpec`, `ArraySpec`, `FsSpec`), so that a module can extend them beside others.

What a recursive function computes is proved here by way of the least counterexample over its finite domain
(`LeastNat`, `Recursion`, `Upward` of `CommonLemmas`), which serves for statements about each value; induction
theorems that take a predicate cannot be instantiated by the installed provers.

**Only model-checked.**

- `EveryTaskRuns` and `Returns`: liveness under fairness is out of the prover's reach. Of the first, its safety half
  is proved: turns go round, and nobody is overtaken between two exits (`InTurn`).
- `InsertReturns`, which is false.

## 7. What is not modelled

- The user heap (`taskmm_*`, `Task::malloc`, `realloc`, `free`). The first `malloc` of every program does not
  return from `Array::insert` (run `array_insert`), so that no state of it beyond the first block is ever
  reached: a model would describe a program that does not exist.
- `apofs`, `gpt_read`, `vmem_createTaskMemory`, `fd_close`: nothing calls them. The PARRAY and ARRAY of
  `kmm.c` are used by `drive.c`'s list of drives only.
- Formatting and logging, the boot code, the tables of key and device names, the texts of the shell's
  commands, colours.
- Privilege levels and page attributes other than write permission; the kernel and its programs run at the
  same level.
- What happens after memory has been destroyed: the models stop there (`halted`, `faulted`, `overrun`, an
  array's `memory`), or go on and promise nothing (`crossed`, `cleared`, `lost`).
- Known weaknesses that no property states: a moved block is copied with the new size, past the end of the
  old one (`kmm.c:196`); the heap's table runs into the display's memory from entry 16384 on; the tables of
  the kernel's own pages are never freed (`vmem.c:246`), nor are streams; `process_create` uses the null
  answer of `Task::create` (`syscall.cpp:37`). `vmem_freePage` has one caller, the user heap
  (`taskmm_freeHeapPages`): what it does to absent pages is modelled for any caller.

## 8. Plan

1. *Done*: `KernelHeap` with `Allocator`, `VirtualMemory`, `Tasks`, `Streams` with `Channels`, `ElfLoader`
   over `VirtualMemory`, `Pci` with `IdeDrive`, `Iso9660`, `Arrays`, `Framebuffer` with `Terminal`,
   `Keyboard`, `Vga`, `Shell` with `LineEditor`, `Console`; the proofs of section 6.
2. *Done*: every invariant, action property and refinement that a run checks is a theorem; liveness is not.
3. The page tables of `VirtualMemory` as blocks of `KernelHeap`: what `vmem_freeMemory` leaves behind.
