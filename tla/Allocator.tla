------------------------------- MODULE Allocator -------------------------------
(* What an allocator of blocks promises its callers, whatever table it keeps:
   a set of disjoint blocks inside [First, End).  A request gets any free place;
   it is refused only when no place is free or the table is full; a block is
   resized wherever it fits, in its own space too; freeing a block gives back
   that block and no other.

   A block may be hollow, of no bytes.  Several hollow blocks may stand in one
   place, and one may stand where another block begins; a pointer then names the
   hollow one.  The promise is kept until a hollow block is put where a block
   already begins, which takes one of the two calls of Break.  KernelHeap
   implements it. *)
EXTENDS Integers

CONSTANTS
    First, End,   \* the memory handed out
    Align,        \* the alignment of an aligned request
    Capacity,     \* how many blocks can be live
    Sizes         \* the sizes requested

VARIABLES
    blocks,  \* the live blocks, hollow twins once
    used,    \* how many blocks are live, twins counted
    kept,    \* whether the promise still holds
    call     \* the last call: its operation, arguments and result

vars == <<blocks, used, kept, call>>

Place(a, n) == [base |-> a, limit |-> a + n]
Hollow(b)   == b.base = b.limit

Free(a, n, live) ==
    /\ First <= a /\ a + n <= End
    /\ \A b \in live : a + n <= b.base \/ b.limit <= a

\* An aligned place has a free byte to begin with, even when none is asked for.
Room(n, live)        == {a \in First .. End : Free(a, n, live)}
AlignedRoom(n, live) == {a \in Room(IF n = 0 THEN 1 ELSE n, live) : a % Align = 0}

Answers(op, ptr, size, ret) ==
    call' = [op |-> op, ptr |-> ptr, size |-> size, ret |-> ret]

Init ==
    /\ blocks = {} /\ used = 0 /\ kept = TRUE
    /\ call = [op |-> "init", ptr |-> 0, size |-> 0, ret |-> 0]

Allocate(op, n, room) ==
    \/ /\ used < Capacity /\ used' = used + 1
       /\ \E a \in room : blocks' = blocks \cup {Place(a, n)} /\ Answers(op, 0, n, a)
    \/ /\ used = Capacity \/ room = {}
       /\ UNCHANGED <<blocks, used>> /\ Answers(op, 0, n, 0)

\* The block a pointer to its base names.
Named(b) == Hollow(b) \/ ~\E c \in blocks : c.base = b.base /\ Hollow(c)

\* What is left when b goes: a hollow block may leave a twin.
Without(b) == {blocks \ {b}} \cup (IF Hollow(b) THEN {blocks} ELSE {})

\* The answer when b, asked for by ptr, ends up at a: a null pointer that resized a
\* block where it stands is answered with itself.
Moved(ptr, b, a) ==
    IF a # b.base THEN {a} ELSE IF Hollow(b) THEN {ptr, a} ELSE {ptr}

Resize(ptr, b, n) ==
    /\ Named(b) /\ UNCHANGED used
    /\ \E rest \in Without(b) :
          \/ \E a \in Room(n, rest) :
                /\ blocks' = rest \cup {Place(a, n)}
                /\ \E ret \in Moved(ptr, b, a) : Answers("krealloc", ptr, n, ret)
          \/ /\ Room(n, rest) = {}
             /\ UNCHANGED blocks /\ Answers("krealloc", ptr, n, 0)

\* A pointer that is no block's resizes the lowest block (kmm_getEntryIndex).
ResizeUnknown(n) ==
    \/ blocks = {} /\ UNCHANGED <<blocks, used>> /\ Answers("krealloc", 0, n, 0)
    \/ \E b \in blocks : (\A c \in blocks : b.base <= c.base) /\ Resize(0, b, n)

Release(b) ==
    /\ Named(b) /\ used' = used - 1
    /\ blocks' \in Without(b) /\ Answers("kfree", b.base, 0, 0)

ReleaseUnknown == UNCHANGED <<blocks, used>> /\ Answers("kfree", 0, 0, 0)

Serve ==
    \/ \E n \in Sizes : Allocate("kmalloc", n, Room(n, blocks))
    \/ \E n \in Sizes : Allocate("kmalloc_pa", n, AlignedRoom(n, blocks))
    \/ \E n \in Sizes, b \in blocks : Resize(b.base, b, n)
    \/ \E n \in Sizes : ResizeUnknown(n)
    \/ \E b \in blocks : Release(b)
    \/ ReleaseUnknown

\* The calls that may break the promise: a request of 0 bytes, which goes to First
\* whatever is there, and a resize of a hollow block that finds no room.
Break ==
    \/ /\ call'.op = "kmalloc" /\ call'.size = 0
       /\ \E b \in blocks : b.base = First /\ ~Hollow(b)
    \/ /\ call'.op = "krealloc" /\ call'.ret = 0
       /\ \E b, c \in blocks : b.base = c.base /\ Hollow(b) /\ ~Hollow(c)

Next ==
    \/ kept /\ Serve /\ UNCHANGED kept
    \/ kept /\ Break /\ kept' = FALSE
    \/ ~kept /\ UNCHANGED kept

Spec == Init /\ [][Next]_vars
===============================================================================
