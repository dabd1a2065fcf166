------------------------------ MODULE KernelHeap ------------------------------
(* The kernel heap of src/src/kernel/kmm.c: one table of [base, limit) blocks,
   sorted by base, from which every kernel object is carved: page tables, the
   frame bitmap, tasks, streams and their buffers, containers, file buffers.

   Modelled whole: kmalloc, kmalloc_pa, krealloc, kfree and the table helpers
   they call.  Kernel code runs with interrupts off, so a call is one step.

   The code ends the table with an entry of base 0; here the sequence's length
   is that end.  (kmm_addEntry leaves the terminator to the memory behind the
   table being zero, which is assumed.)

   A request of 0 bytes is granted like any other (parsePath of "/" makes one, and
   Array::remove resizes a block to nothing), so a block may be hollow.  It may then
   be entered behind a block that begins at the same byte, and the table is out of
   order: the variable crossed remembers that this has happened.

   Not modelled: a request larger than KHEAP_LIMIT.  Bound: blocks end below Word. *)
EXTENDS Integers, SequencesExt

CONSTANTS
    KHEAP_BASE,    \* first byte of the heap
    KHEAP_LIMIT,   \* first byte after the heap
    MEM_ENTRIES,   \* number of blocks the table can hold
    PageSize,      \* the alignment of kmalloc_pa
    Word,          \* 2^w, the modulus of unsigned arithmetic
    Sizes          \* the sizes callers request

ASSUME HeapAssumption ==
    /\ KHEAP_BASE \in Nat \ {0} /\ KHEAP_LIMIT \in Nat /\ Word \in Nat
    /\ KHEAP_BASE < KHEAP_LIMIT /\ KHEAP_LIMIT < Word
    /\ MEM_ENTRIES \in Nat \ {0} /\ PageSize \in Nat \ {0}
    /\ Sizes \subseteq 0..KHEAP_LIMIT

VARIABLES
    entries,  \* the table, a sequence of blocks sorted by base
    call,     \* the last call: its operation, arguments and result
    crossed   \* a hollow block has stood behind a block that begins at the same byte

vars == <<entries, call, crossed>>

Null  == 0
Block == [base : Nat, limit : Nat]

Ops == {"init", "kmalloc", "kmalloc_pa", "krealloc", "kfree"}

TypeOK ==
    /\ entries \in Seq(Block)
    /\ Len(entries) <= MEM_ENTRIES
    /\ call \in [op : Ops, ptr : Nat, size : Nat, ret : Nat]
    /\ crossed \in BOOLEAN

-------------------------------------------------------------------------------
(* The table, as the code scans it. *)

Sub(a, b)  == IF a >= b THEN a - b ELSE Word + a - b
RoundUp(v) == (v \div PageSize + (IF v % PageSize = 0 THEN 0 ELSE 1)) * PageSize

\* Gap i lies before entry i; the last one lies between the last entry and the
\* end of the heap.
Gaps(s)        == 1 .. Len(s) + 1
GapStart(s, i) == IF i = 1 THEN KHEAP_BASE ELSE s[i - 1].limit
GapEnd(s, i)   == IF i = Len(s) + 1 THEN KHEAP_LIMIT ELSE s[i].base

\* Where kmm_addEntry's scan stops: before the first entry with a larger base.
Position(s, base) ==
    CHOOSE e \in Gaps(s) : /\ \A j \in 1 .. e - 1 : s[j].base <= base
                           /\ e <= Len(s) => s[e].base > base

\* Variant of Full: the bound is noticed one entry late.
FullLate(s) == Len(s) > MEM_ENTRIES

Full(s) == Len(s) >= MEM_ENTRIES

AddEntry(s, b) == IF Full(s) THEN s ELSE InsertAt(s, Position(s, b.base), b)

Holders(s, base) == {i \in DOMAIN s : s[i].base = base}

\* The entry whose base is the pointer.  kmm_getEntryIndex runs off its end when
\* there is none, and the build (gcc, no -O) then returns the 0 its last test
\* left in eax: the first entry.
EntryIndex(s, ptr) ==
    IF Holders(s, ptr) = {} THEN 1
    ELSE CHOOSE i \in Holders(s, ptr) : \A j \in Holders(s, ptr) : i <= j

RemoveEntry(s, base) ==
    IF Holders(s, base) = {} THEN s ELSE RemoveAt(s, EntryIndex(s, base))

\* Variant of Fits: a gap one byte too small is taken.
FitsOffByOne(s, i, size) == Sub(GapEnd(s, i), GapStart(s, i)) >= size - 1

Fits(s, i, size) == Sub(GapEnd(s, i), GapStart(s, i)) >= size

FitsPA(s, i, size) ==
    LET start == RoundUp(GapStart(s, i))
    IN  start < GapEnd(s, i) /\ Sub(GapEnd(s, i), start) >= size

\* First fit: the gap that can take the request while none before it can.
FirstFit(s, size) ==
    {i \in Gaps(s) : Fits(s, i, size) /\ \A j \in 1 .. i - 1 : ~Fits(s, j, size)}

FirstFitPA(s, size) ==
    {i \in Gaps(s) : FitsPA(s, i, size) /\ \A j \in 1 .. i - 1 : ~FitsPA(s, j, size)}

-------------------------------------------------------------------------------
(* Each operation: the table it leaves and the pointer it returns. *)

Placed(s, base, size) ==
    IF Full(s) THEN [table |-> s, ret |-> Null]
    ELSE [table |-> AddEntry(s, [base |-> base, limit |-> base + size]), ret |-> base]

Kmalloc(s, size) ==
    IF FirstFit(s, size) = {} THEN [table |-> s, ret |-> Null]
    ELSE Placed(s, GapStart(s, CHOOSE i \in FirstFit(s, size) : TRUE), size)

KmallocPA(s, size) ==
    IF FirstFitPA(s, size) = {} THEN [table |-> s, ret |-> Null]
    ELSE Placed(s, RoundUp(GapStart(s, CHOOSE i \in FirstFitPA(s, size) : TRUE)), size)

\* Whether the block at idx can end at base + size where it stands.
GrowsInPlace(s, idx, size) == Sub(GapEnd(s, idx + 1), s[idx].base) >= size

\* Variant of Resized: the base is moved instead of the limit.
ResizedFront(s, idx, size) ==
    [s EXCEPT ![idx] = [base |-> s[idx].limit - size, limit |-> s[idx].limit]]

Resized(s, idx, size) ==
    [s EXCEPT ![idx] = [base |-> s[idx].base, limit |-> s[idx].base + size]]

\* Variant of Moved: a block that finds no place is not put back.
MovedForgets(s, idx, size) == Kmalloc(RemoveEntry(s, s[idx].base), size)

\* The block gives its place up, is allocated anew, and is put back on failure.
Moved(s, idx, size) ==
    LET rest == RemoveEntry(s, s[idx].base)
        new  == Kmalloc(rest, size)
    IN  IF new.ret # Null THEN new
        ELSE [table |-> AddEntry(rest, s[idx]), ret |-> Null]

Krealloc(s, ptr, size) ==
    LET idx == EntryIndex(s, ptr)
    IN  IF s = <<>> THEN [table |-> s, ret |-> ptr]  \* only the terminator is resized
        ELSE IF GrowsInPlace(s, idx, size)
             THEN [table |-> Resized(s, idx, size), ret |-> ptr]
             ELSE Moved(s, idx, size)

-------------------------------------------------------------------------------

Init ==
    /\ entries = <<>>
    /\ call = [op |-> "init", ptr |-> Null, size |-> 0, ret |-> Null]
    /\ crossed = FALSE

Hollow(b) == b.base = b.limit

Crosses(s) ==
    \E i, j \in DOMAIN s :
       i < j /\ s[i].base = s[j].base /\ ~Hollow(s[i]) /\ Hollow(s[j])

Returns(op, ptr, size, r) ==
    /\ \A i \in DOMAIN r.table : r.table[i].limit < Word
    /\ entries' = r.table
    /\ crossed' = (crossed \/ Crosses(r.table))
    /\ call' = [op |-> op, ptr |-> ptr, size |-> size, ret |-> r.ret]

kmalloc(size)       == Returns("kmalloc", Null, size, Kmalloc(entries, size))
kmalloc_pa(size)    == Returns("kmalloc_pa", Null, size, KmallocPA(entries, size))
krealloc(ptr, size) == Returns("krealloc", ptr, size, Krealloc(entries, ptr, size))
kfree(ptr)          == Returns("kfree", ptr, 0,
                               [table |-> RemoveEntry(entries, ptr), ret |-> Null])

\* The pointers callers pass: those of live blocks, and the null pointer that a
\* failed allocation left in its owner.
Pointers == {b.base : b \in Range(entries)} \cup {Null}

Next ==
    \/ \E size \in Sizes : kmalloc(size)
    \/ \E size \in Sizes : kmalloc_pa(size)
    \/ \E ptr \in Pointers, size \in Sizes : krealloc(ptr, size)
    \/ \E ptr \in Pointers : kfree(ptr)

Spec == Init /\ [][Next]_vars

-------------------------------------------------------------------------------
(* Properties *)

\* Blocks lie inside the heap, in the order of the table, and no two overlap.
\* What the first-fit scans, the insertion point and krealloc's reuse of the
\* next block's base must keep together, hollow blocks among them.  It ends when
\* a hollow block crosses another: the gap between the two is then negative, the
\* unsigned difference huge, and kmalloc hands out what is behind it.
BlocksDisjoint ==
    \/ crossed
    \/ /\ \A i \in DOMAIN entries :
             /\ KHEAP_BASE <= entries[i].base /\ entries[i].limit <= KHEAP_LIMIT
             /\ entries[i].base <= entries[i].limit
       /\ \A i, j \in DOMAIN entries : i < j => entries[i].limit <= entries[j].base

\* krealloc moves a block with a forward memcpy after its old place was given
\* up, so that the new place may overlap the old one: every old byte is read
\* before it is overwritten only when the block moves down or clear of itself.
ReallocKeepsContents ==
    [][crossed' \/
       \A old \in Range(entries) \ Range(entries'), new \in Range(entries') \ Range(entries) :
          new.base <= old.base \/ old.limit <= new.base]_vars

\* A krealloc that finds no room has already taken its block out of the table;
\* it puts it back in its old place, and nothing else has moved.
FailedReallocRestores ==
    [][call'.op = "krealloc" /\ call'.ptr # Null /\ call'.ret = Null
          => crossed' \/ entries' = entries]_vars

\* The promise the rest of the kernel relies on: a heap that hands out any free
\* place, touches no other block, and refuses only when there is no room, and
\* that is good until a request of 0 bytes, or the failed resizing of a hollow
\* block, has crossed two blocks.
Promise == INSTANCE Allocator
             WITH blocks <- Range(entries), used <- Len(entries), kept <- ~crossed,
                  Capacity <- MEM_ENTRIES,
                  First <- KHEAP_BASE, End <- KHEAP_LIMIT, Align <- PageSize

KeepsPromise == Promise!Spec
===============================================================================
