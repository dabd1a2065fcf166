----------------------------- MODULE VirtualMemory -----------------------------
(* Physical frames and address spaces, src/src/kernel/vmem.c: the bitmap that
   hands out frames, the page directories that map them, and their teardown.
   A frame and a page are both numbers of 4096-byte units; the first
   KernelPages of either are the kernel's and are mapped one to one in every
   address space.

   Kernel code runs with interrupts off, so a call is one step.  Directories and
   page tables come from the kernel heap, which may be exhausted: a step that
   creates one chooses whether it gets it.  Where the code does not look, a page
   without a table is entered in the memory at address 0, which is no table. *)
EXTENDS Integers, FiniteSets, Functions

CONSTANTS
    KernelPages,  \* VMEM_KERNEL_PAGES
    TablePages,   \* pages one table maps
    MemPages,     \* pages of the address space, and frames of physical memory
    UserPages,    \* the pages callers allocate and free
    Spaces        \* identities of address spaces

ASSUME MemoryAssumption ==
    /\ KernelPages \in Nat \ {0} /\ TablePages \in Nat \ {0} /\ MemPages \in Nat
    /\ KernelPages <= MemPages /\ KernelPages % TablePages = 0
    /\ UserPages \subseteq KernelPages .. MemPages - 1

VARIABLES
    bitmap,  \* the bits that are set, one per frame above the kernel's
    tables,  \* for each live address space, the tables that are present
    pages,   \* for each live address space, the frame of each present page
    reset,   \* the absent pages of present tables whose entry has been set to 0
    short,   \* the live address spaces that were made without all kernel tables
    halted,  \* a fault inside the kernel has stopped the machine
    cleared  \* the mapped frames whose bit was cleared by its number alone (history)

memory == <<bitmap, tables, pages, reset, short, halted, cleared>>

Page        == 0 .. MemPages - 1
KernelPage  == 0 .. KernelPages - 1
Bits        == 0 .. MemPages - KernelPages - 1
TableOf(p)  == p \div TablePages
TableNumber == {TableOf(p) : p \in Page}
KernelTable == {TableOf(p) : p \in KernelPage}
Live        == DOMAIN pages

UserPagesOf(v) == DOMAIN pages[v] \ KernelPage
MappedFrames   == UNION {{pages[v][p] : p \in UserPagesOf(v)} : v \in Live}

TypeOK ==
    /\ bitmap \subseteq Bits
    /\ Live \subseteq Spaces /\ DOMAIN tables = Live
    /\ \A v \in Live : /\ tables[v] \subseteq TableNumber
                       /\ DOMAIN pages[v] \subseteq Page
                       /\ \A p \in DOMAIN pages[v] : pages[v][p] \in Page
    /\ reset \subseteq Spaces \X Page
    /\ short \subseteq Live
    /\ halted \in BOOLEAN
    /\ cleared \subseteq Page

-------------------------------------------------------------------------------

\* Variant of FrameOf: the kernel's frames are not skipped.
FrameOfBit(bit) == bit

FrameOf(bit) == bit + KernelPages

\* Variant of FreeBits: the scan runs one bit past the end.
FreeBitsPastEnd == (0 .. MemPages - KernelPages) \ bitmap

\* vmem_allocFrame: the first clear bit.
FreeBits == Bits \ bitmap

\* Variant of NextBit: the scan tests the bit before the one it takes.
NextBitShifted == {b \in Bits : b > 0 /\ b - 1 \in FreeBits}

NextBit == {b \in FreeBits : \A c \in FreeBits : b <= c}

WithSpace(f, v, x) == [u \in DOMAIN f \cup {v} |-> IF u = v THEN x ELSE f[u]]
WithoutSpace(f, v) == [u \in DOMAIN f \ {v} |-> f[u]]

\* Variant of Unmap: the page's entry is left as it is.
UnmapNothing(m, p) == m

Map(m, p, f) == [q \in DOMAIN m \cup {p} |-> IF q = p THEN f ELSE m[q]]
Unmap(m, p)  == [q \in DOMAIN m \ {p} |-> m[q]]

\* Variant of TablesLeft: an empty table is kept.
TablesKept(v, p) == tables[v]

\* vmem_freePage's end: the table goes when no page of it is present.
TablesLeft(v, p) ==
    IF \E q \in DOMAIN pages[v] \ {p} : TableOf(q) = TableOf(p)
    THEN tables[v] ELSE tables[v] \ {TableOf(p)}

\* What the entry of p in its table gives for a frame.  A new table has its present
\* bits cleared and nothing else, so that the entry of a page that was never in it
\* is what the heap's memory held before.
EntryFrame(v, p) ==
    IF p \in DOMAIN pages[v] THEN {pages[v][p]}
    ELSE IF <<v, p>> \in reset THEN {0} ELSE Page

\* The present pages vmem_freeMemory looks at: an absent table makes it skip to
\* the second page of the next one.
Visited(v) ==
    {p \in DOMAIN pages[v] :
        ~ (p % TablePages = 0 /\ p # 0 /\ TableOf(p) - 1 \notin tables[v])}

\* The bits it clears: those of the page numbers, not of the frames behind them.
ClearedBits(v) == {p - KernelPages : p \in Visited(v) \ KernelPage}

-------------------------------------------------------------------------------

\* vmem_init: kernel_memory is the caller's first vmem_cloneKernelMemory.
MemoryInit ==
    /\ bitmap = {}
    /\ tables = <<>> /\ pages = <<>> /\ reset = {} /\ short = {}
    /\ halted = FALSE
    /\ cleared = {}

\* Tables that can be had: nothing is freed in between, so that after one that
\* cannot there are no more.
FirstTables == {{t \in KernelTable : t < n} : n \in 0 .. KernelPages \div TablePages}

\* The pages of a missing table are missing as well.
CloneTables(got) == [p \in {q \in KernelPage : TableOf(q) \in got} |-> p]

vmem_cloneKernelMemory(v) ==
    /\ ~halted /\ v \notin Live
    /\ \E got \in FirstTables :
          /\ tables' = WithSpace(tables, v, got)
          /\ pages' = WithSpace(pages, v, CloneTables(got))
          /\ short' = IF got = KernelTable THEN short ELSE short \cup {v}
    /\ UNCHANGED <<bitmap, reset, halted, cleared>>

\* Without a directory the memory at address 0 is taken for one, and the clone writes
\* through what stands there: no more is said of the machine then.
CloneNowhere ==
    /\ ~halted
    /\ halted' = TRUE
    /\ UNCHANGED <<bitmap, tables, pages, reset, short, cleared>>

\* vmem_allocPage takes a frame first.
GainsPage(v, p) ==
    /\ ~halted /\ v \in Live /\ p \notin DOMAIN pages[v]
    /\ \E bit \in NextBit :
          /\ bitmap' = bitmap \cup {bit}
          /\ pages' = [pages EXCEPT ![v] = Map(@, p, FrameOf(bit))]
    /\ tables' = [tables EXCEPT ![v] = @ \cup {TableOf(p)}]
    /\ reset' = reset \ {<<v, p>>}
    /\ UNCHANGED <<short, halted, cleared>>

\* The frame stays taken when the page is already present, and when the page's
\* table cannot be allocated.
LosesFrame(v, p) ==
    /\ ~halted /\ v \in Live
    /\ p \in DOMAIN pages[v] \/ TableOf(p) \notin tables[v]
    /\ \E bit \in NextBit : bitmap' = bitmap \cup {bit}
    /\ UNCHANGED <<tables, pages, reset, short, halted, cleared>>

vmem_allocPage(v, p) == GainsPage(v, p) \/ LosesFrame(v, p)

\* The bit of the entry's frame is cleared, also when the page is absent.  A kernel
\* frame's, or frame 0's, is far outside the bitmap, and clearing it faults.
vmem_freePage(v, p) ==
    /\ ~halted /\ v \in Live /\ TableOf(p) \in tables[v]
    /\ \E frame \in EntryFrame(v, p) :
          \/ /\ frame \in KernelPage
             /\ halted' = TRUE
             /\ UNCHANGED <<bitmap, tables, pages, reset, cleared>>
          \/ /\ frame \notin KernelPage
             /\ bitmap' = bitmap \ {frame - KernelPages}
             /\ tables' = [tables EXCEPT ![v] = TablesLeft(v, p)]
             /\ pages' = [pages EXCEPT ![v] = Unmap(@, p)]
             /\ reset' = {e \in reset \cup {<<v, p>>} :
                             e[1] = v => TableOf(e[2]) \in TablesLeft(v, p)}
             /\ cleared' = MappedFrames' \cap
                   (IF p \in DOMAIN pages[v] THEN cleared ELSE cleared \cup {frame})
             /\ UNCHANGED halted
    /\ UNCHANGED short

vmem_freeMemory(v) ==
    /\ ~halted /\ v \in Live
    /\ bitmap' = bitmap \ ClearedBits(v)
    /\ tables' = WithoutSpace(tables, v)
    /\ pages' = WithoutSpace(pages, v)
    /\ reset' = {e \in reset : e[1] # v}
    /\ short' = short \ {v}
    /\ cleared' = MappedFrames' \cap (cleared \cup {FrameOf(bit) : bit \in ClearedBits(v)})
    /\ UNCHANGED halted

MemoryNext ==
    \/ \E v \in Spaces : vmem_cloneKernelMemory(v)
    \/ CloneNowhere
    \/ \E v \in Spaces, p \in UserPages : vmem_allocPage(v, p)
    \/ \E v \in short, p \in KernelPage : LosesFrame(v, p)
    \/ \E v \in Spaces, p \in UserPages : vmem_freePage(v, p)
    \/ \E v \in Spaces : vmem_freeMemory(v)

MemorySpec == MemoryInit /\ [][MemoryNext]_memory

-------------------------------------------------------------------------------
(* Properties *)

\* A frame is behind one page of one address space.  Two calls break this, by
\* clearing bits by their number alone: vmem_freeMemory those of page numbers, and
\* vmem_freePage, of an absent page, that of whatever its entry held.  Then, and
\* only then, can the frames of those numbers be handed out a second time.
FramesExclusive ==
    \A v, w \in Live : \A p \in UserPagesOf(v), q \in UserPagesOf(w) :
       pages[v][p] = pages[w][q] => (v = w /\ p = q) \/ pages[v][p] \in cleared

\* A mapped frame is marked used, with the same exception.
MappedIsUsed ==
    \A v \in Live : \A p \in UserPagesOf(v) :
       pages[v][p] - KernelPages \in bitmap \/ pages[v][p] \in cleared

\* Every address space keeps the kernel's identity map, which the kernel needs to
\* run in it, as far as its tables could be had when it was made: all of it, or the
\* first tables of it.  No user page reaches a frame of the kernel.
KernelMapped ==
    \A v \in Live :
       /\ v \in short \/ KernelPage \subseteq DOMAIN pages[v]
       /\ \A p \in KernelPage, q \in DOMAIN pages[v] \cap KernelPage :
             p <= q => p \in DOMAIN pages[v] /\ pages[v][p] = p
       /\ \A p \in UserPagesOf(v) : pages[v][p] >= KernelPages

\* A table is present just when a page of it is: freePage's check that the table
\* is empty, allocPage's creation of it and the clone keep in step.
TablesInUse ==
    \A v \in Live : tables[v] = {TableOf(p) : p \in DOMAIN pages[v]}
===============================================================================
