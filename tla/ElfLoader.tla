------------------------------- MODULE ElfLoader -------------------------------
(* Loading a program, src/src/kernel/task/elf32.cpp: elf32_load gives each
   section that occupies memory its pages, writes it there, and adds the stack.
   Pages and frames are those of VirtualMemory, whose operations the loader
   calls; this module adds what elf32_load relies on besides: which pages are
   writable, what the frames hold, and the address space in force.

   The call runs to its end undisturbed, but is taken apart here: it can stop
   half way.  Files that are refused before the address space is made (missing,
   short, no executable for this machine) change nothing and are left out. *)
EXTENDS VirtualMemory, Sequences

CONSTANTS
    PageBytes,   \* bytes in a page
    Programs,    \* the executable files
    Image,       \* the section headers of each
    StackTop,    \* VMEM_TASK_STACK >> 12
    StackPages,  \* pages of the stack Task::create asks for
    Caller       \* the address space the loader was called in

ASSUME LoaderAssumption ==
    /\ PageBytes \in Nat \ {0} /\ StackTop \in Nat /\ StackPages \in Nat
    /\ StackTop + 1 - StackPages >= KernelPages /\ StackTop < MemPages
    /\ UserPages = KernelPages .. MemPages - 1
    /\ Image \in [Programs -> Seq([addr : Nat, size : Nat, alloc : BOOLEAN,
                                   write : BOOLEAN, nobits : BOOLEAN])]
    /\ Caller \notin Spaces

VARIABLES
    writable,      \* for each address space, its pages with that attribute
    contents,      \* what each byte of each frame holds
    current_vmem,  \* the address space in force
    load,          \* how far the call in progress is
    loaded         \* for each program in memory, its file and its heap's start

vars == <<memory, writable, contents, current_vmem, load, loaded>>

Offset == 0 .. PageBytes - 1
Zero   == <<>>
Idle   == [stage |-> "idle"]

CeilDiv(a, b) == a \div b + (IF a % b # 0 THEN 1 ELSE 0)

Occupies(s)  == s.alloc /\ s.size > 0
FirstPage(s) == s.addr \div PageBytes

\* The first page after the section.
PageLimit(s) == CeilDiv(s.addr + s.size, PageBytes)

\* Sections end within the address space: addr + size does not wrap.
ASSUME ImageAssumption ==
    \A x \in Programs : \A i \in DOMAIN Image[x] : PageLimit(Image[x][i]) <= MemPages

Bytes(s)   == s.addr .. s.addr + s.size - 1
PageOf(b)  == b \div PageBytes
Touched(s) == {PageOf(b) : b \in Bytes(s)}

Header == Image[load.program][load.i]
Mapped == DOMAIN pages[load.mem]

\* What the file holds for byte b of its section i.
FileByte(x, i, b) ==
    IF Image[x][i].nobits THEN Zero ELSE <<x, i, b - Image[x][i].addr>>

-------------------------------------------------------------------------------

Init ==
    /\ MemoryInit
    /\ writable = <<>>
    /\ contents = [c \in Page \X Offset |-> Zero]
    /\ current_vmem = Caller
    /\ load = Idle
    /\ loaded = <<>>

Step(next) == load' = next /\ UNCHANGED <<current_vmem, loaded>>

\* The next header, or the stack after the last one.
Advance == Step([load EXCEPT !.i = @ + 1,
                             !.stage = IF load.i < Len(Image[load.program])
                                       THEN "section" ELSE "stack",
                             !.j = 0])

vmem_switchMemory(v) == current_vmem' = v

\* The file has passed the checks (an ELF executable for this machine): its
\* address space is made, with the kernel tables there is room for, and put in force.
Begin(v, x) ==
    /\ load.stage = "idle"
    /\ vmem_cloneKernelMemory(v)
    /\ writable' = WithSpace(writable, v, {})
    /\ vmem_switchMemory(v)
    /\ load' = [stage |-> IF Image[x] = <<>> THEN "stack" ELSE "section",
                mem |-> v, program |-> x, i |-> 1, j |-> 0, heap_address |-> 0]
    /\ UNCHANGED <<contents, loaded>>

\* Not even a directory could be had.
NoDirectory ==
    /\ load.stage = "idle"
    /\ CloneNowhere
    /\ load' = [stage |-> "faulted"]
    /\ UNCHANGED <<writable, contents, current_vmem, loaded>>

\* The address space in force lacks kernel tables, and the kernel touches what they
\* map: its stack, its heap, the file's buffer.
KernelMissing ==
    /\ load.stage \in {"section", "page", "fill", "stack"} /\ load.mem \in short
    /\ Step([load EXCEPT !.stage = "faulted"])
    /\ UNCHANGED <<memory, writable, contents>>

SkipSection ==
    /\ load.stage = "section" /\ ~Occupies(Header)
    /\ Advance
    /\ UNCHANGED <<memory, writable, contents>>

\* Variant of HeapAddress: the last section decides, whatever its place.
HeapAddressLast(top, s) == s.addr + s.size

HeapAddress(top, s) == IF s.addr + s.size > top THEN s.addr + s.size ELSE top

EnterSection ==
    /\ load.stage = "section" /\ Occupies(Header)
    /\ Step([load EXCEPT !.stage = "page", !.j = FirstPage(Header),
                         !.heap_address = HeapAddress(@, Header)])
    /\ UNCHANGED <<memory, writable, contents>>

NextPage == Step([load EXCEPT !.j = @ + 1,
                              !.stage = IF load.j + 1 < PageLimit(Header)
                                        THEN "page" ELSE "fill"])

\* The mapped pages without the user bit: the kernel's.
Foreign == Mapped \cap KernelPage

\* A page of the kernel: the whole address space is given back.  Task::create
\* returns at once, so that kernel_memory stays in force and the caller, which
\* is not mapped there, cannot go on.
Refuse ==
    /\ load.stage = "page" /\ load.j \in Foreign
    /\ vmem_switchMemory("kernel_memory")
    /\ vmem_freeMemory(load.mem)
    /\ writable' = WithoutSpace(writable, load.mem)
    /\ load' = [load EXCEPT !.stage = "refused"]
    /\ UNCHANGED <<contents, loaded>>

\* Variant of Attribute: the section that comes last decides.
AttributeOfLast(v, p, w) ==
    [writable EXCEPT ![v] = IF w THEN @ \cup {p} ELSE @ \ {p}]

\* A page is writable once any section on it is.
Attribute(v, p, w) == [writable EXCEPT ![v] = IF w THEN @ \cup {p} ELSE @]

\* A page that an earlier section shares.
SharePage ==
    /\ load.stage = "page" /\ load.j \in Mapped \ Foreign
    /\ writable' = Attribute(load.mem, load.j, Header.write)
    /\ NextPage
    /\ UNCHANGED <<memory, contents>>

\* vmem_allocPage with the attribute: without a frame or a table it fails, and
\* its result is not looked at.  The heap that had no room for all kernel tables
\* has none for another table: nothing is freed during the call.
AllocPage(p, w) ==
    /\ \/ load.mem \notin short /\ vmem_allocPage(load.mem, p)
       \/ load.mem \in short /\ LosesFrame(load.mem, p)
       \/ NextBit = {} /\ UNCHANGED memory
    /\ writable' = IF p \notin Mapped /\ p \in DOMAIN pages'[load.mem]
                   THEN Attribute(load.mem, p, w) ELSE writable

NewPage ==
    /\ load.stage = "page" /\ load.j \notin Mapped
    /\ AllocPage(load.j, Header.write)
    /\ NextPage
    /\ UNCHANGED contents

\* Variant of Erased: memset clears whole pages.
ErasedPages(s) == {b \in 0 .. MemPages * PageBytes - 1 : PageOf(b) \in Touched(s)}

\* The bytes memset clears before the section is copied.
Erased(s) == Bytes(s)

\* memset and memcpy go through the address space in force.
Fill ==
    /\ load.stage = "fill"
    /\ Touched(Header) \subseteq DOMAIN pages[current_vmem]
    /\ LET at(b) == <<pages[current_vmem][PageOf(b)], b % PageBytes>>
       IN  contents' = [c \in DOMAIN contents |->
              IF \E b \in Bytes(Header) : c = at(b)
              THEN FileByte(load.program, load.i,
                            CHOOSE b \in Bytes(Header) : c = at(b))
              ELSE IF \E b \in Erased(Header) : PageOf(b) \in DOMAIN pages[current_vmem]
                                                /\ c = at(b)
                   THEN Zero ELSE contents[c]]
    /\ Advance
    /\ UNCHANGED <<memory, writable>>

\* A page of the section is missing: the kernel faults.
FillFaults ==
    /\ load.stage = "fill"
    /\ ~ Touched(Header) \subseteq DOMAIN pages[current_vmem]
    /\ Step([load EXCEPT !.stage = "faulted"])
    /\ UNCHANGED <<memory, writable, contents>>

\* Variant of StackAt: the stack's pages are counted upwards.
StackUpwards(j) == StackTop + j

StackAt(j) == StackTop - j

StackPage ==
    /\ load.stage = "stack" /\ load.j < StackPages
    /\ AllocPage(StackAt(load.j), TRUE)
    /\ Step([load EXCEPT !.j = @ + 1])
    /\ UNCHANGED contents

\* The task's fields; Task::create then goes back to the caller's memory.
Finish ==
    /\ load.stage = "stack" /\ load.j = StackPages
    /\ loaded' = WithSpace(loaded, load.mem,
                    [program |-> load.program,
                     heap |-> CeilDiv(load.heap_address, PageBytes)])
    /\ vmem_switchMemory(Caller)
    /\ load' = Idle
    /\ UNCHANGED <<memory, writable, contents>>

\* The task is deleted.
Exit(v) ==
    /\ load.stage = "idle" /\ v \in DOMAIN loaded
    /\ vmem_freeMemory(v)
    /\ writable' = WithoutSpace(writable, v)
    /\ loaded' = WithoutSpace(loaded, v)
    /\ UNCHANGED <<contents, current_vmem, load>>

Next ==
    \/ \E v \in Spaces, x \in Programs : Begin(v, x)
    \/ NoDirectory \/ KernelMissing
    \/ SkipSection \/ EnterSection
    \/ SharePage \/ NewPage \/ Refuse
    \/ Fill \/ FillFaults
    \/ StackPage \/ Finish
    \/ \E v \in Spaces : Exit(v)

Spec == Init /\ [][Next]_vars

-------------------------------------------------------------------------------
(* Properties *)

Occupying(x) == {i \in DOMAIN Image[x] : Occupies(Image[x][i])}

\* The last section of the file that covers byte b.
LastAt(x, b) ==
    CHOOSE i \in Occupying(x) :
       /\ b \in Bytes(Image[x][i])
       /\ \A k \in Occupying(x) : k > i => b \notin Bytes(Image[x][k])

\* Every section of a loaded program is mapped and holds what its file says,
\* also where sections share a page, and whatever has been loaded or deleted
\* since; but for frames that vmem_freeMemory gave out a second time.
ImageInPlace ==
    \A v \in DOMAIN loaded :
       LET x == loaded[v].program
       IN  \A i \in Occupying(x) : \A b \in Bytes(Image[x][i]) :
              /\ PageOf(b) \in DOMAIN pages[v]
              /\ LET frame == pages[v][PageOf(b)]
                 IN  \/ contents[frame, b % PageBytes] = FileByte(x, LastAt(x, b), b)
                     \/ frame \in cleared

\* A page can be written just when some section on it asks for that, in
\* whatever order the sections come, or when it is the stack's alone.
WritableAsLinked ==
    \A v \in DOMAIN loaded : \A p \in DOMAIN pages[v] \ KernelPage :
       LET x == loaded[v].program
           on == {i \in Occupying(x) : p \in Touched(Image[x][i])}
       IN  p \in writable[v] <=> on = {} \/ \E i \in on : Image[x][i].write

\* The heap starts above every section, so that the pages taskmm_allocHeapPages
\* asks for from there are not mapped yet.
HeapAbove ==
    \A v \in DOMAIN loaded :
       \A i \in Occupying(loaded[v].program) :
          \A b \in Bytes(Image[loaded[v].program][i]) : PageOf(b) < loaded[v].heap

\* The loader uses memory as VirtualMemory describes: it asks for pages only
\* outside the kernel, and frees only address spaces it made.
MemoryProtocol == MemorySpec
===============================================================================
