--------------------------------- MODULE Arrays --------------------------------
(* The kernel's growing array, Array<T> in src/src/kernel/utils.hpp: the number
   of elements, the capacity the code counts with, and the block of the kernel
   heap that holds them.  The task list, the descriptors and blocks of a task,
   directories and paths are such arrays. *)
EXTENDS Integers, SequencesExt

CONSTANTS
    Step,      \* what a full array grows by, and an emptier one shrinks by: 10
    SizeOf,    \* sizeof(T): the constructor asks for capacity * sizeof(T) elements
    Values,    \* what is stored
    MaxCount   \* bound: callers stop adding here

ASSUME ArrayAssumption ==
    Step \in Nat \ {0} /\ SizeOf \in Nat \ {0} /\ MaxCount \in Nat

VARIABLES
    buffer,    \* the elements of the block, used or not
    count,     \* elements in use
    capacity,  \* elements the code believes the block holds
    memory,    \* "sound", "overrun" (a write past the block), "null" (the block
               \* is lost) or "smashed" (all memory below it has been shifted)
    squeezed,  \* a remove has shrunk the block below the elements in use (history)
    list       \* the elements callers have put there (history)

arrayVars == <<buffer, count, capacity, memory, squeezed, list>>

Unset == "unset"

\* krealloc to n elements: what fits is kept.
Realloc(b, n) == [k \in 1 .. n |-> IF k <= Len(b) THEN b[k] ELSE Unset]

\* buffer[k] = t, counting from 0.
Write(b, k, t) ==
    IF k < Len(b) THEN buffer' = [b EXCEPT ![k + 1] = t] /\ memory' = "sound"
    ELSE buffer' = b /\ memory' = "overrun"

Lost ==  \* krealloc has answered null
    memory' = "null" /\ buffer' = <<>>

-------------------------------------------------------------------------------

ArrayInit ==
    /\ capacity = Step /\ count = 0
    /\ buffer = [k \in 1 .. Step * SizeOf |-> Unset]
    /\ memory = "sound"
    /\ squeezed = FALSE /\ list = <<>>

\* Variant of IsFull: the block is grown one element late.
IsFullLate == count > capacity

IsFull == count = capacity

\* push's and insert's first statement, with the block that comes of it.
Grown(b) == capacity' = capacity + Step /\ b = Realloc(buffer, capacity + Step)
Kept(b)  == capacity' = capacity /\ b = buffer

Blocks == {buffer, Realloc(buffer, capacity + Step)}

push(t) ==
    /\ memory = "sound" /\ count < MaxCount
    /\ \/ \E b \in Blocks :
             /\ IF IsFull THEN Grown(b) ELSE Kept(b)
             /\ Write(b, count, t)
       \/ IsFull /\ capacity' = capacity + Step /\ Lost
    /\ count' = count + 1
    /\ list' = Append(list, t)
    /\ UNCHANGED squeezed

\* b with the elements from idx on one place up, and t at idx.
Shifted(b, idx, t) ==
    [k \in DOMAIN b |-> IF k = idx + 1 THEN t
                        ELSE IF k \in idx + 2 .. count + 1 THEN b[k - 1] ELSE b[k]]

\* The elements from idx on move up by one, from the last down.  The signed
\* index is compared with the unsigned bound, which for bound 0 is never above
\* it: everything below the block is shifted until the kernel is destroyed.
insert(t, idx) ==
    /\ memory = "sound" /\ count < MaxCount /\ idx <= count
    /\ \/ \E b \in Blocks :
             /\ IF IsFull THEN Grown(b) ELSE Kept(b)
             /\ IF idx = 0 THEN memory' = "smashed" /\ buffer' = b
                ELSE IF count < Len(b)
                THEN buffer' = Shifted(b, idx, t) /\ memory' = "sound"
                ELSE memory' = "overrun" /\ buffer' = b
       \/ IsFull /\ capacity' = capacity + Step /\ Lost
    /\ count' = count + 1
    /\ list' = InsertAt(list, idx + 1, t)
    /\ UNCHANGED squeezed

\* Whether the count crosses a multiple of Step; the capacity is not looked at.
Shrinks == count - 1 # 0 /\ (count - 1) \div Step < count \div Step

remove(i) ==
    /\ memory = "sound" /\ i < count
    /\ LET moved == [k \in DOMAIN buffer |->
                       IF k \in i + 1 .. count - 1 /\ k < Len(buffer) THEN buffer[k + 1]
                       ELSE buffer[k]]
       IN  IF Shrinks
           THEN /\ capacity' = capacity - Step
                /\ \/ buffer' = Realloc(moved, capacity - Step) /\ UNCHANGED memory
                   \/ Lost
                /\ squeezed' = (squeezed \/ capacity - Step < count - 1)
           ELSE buffer' = moved /\ UNCHANGED <<capacity, memory, squeezed>>
    /\ count' = count - 1
    /\ list' = RemoveAt(list, i + 1)

ArrayNext ==
    \/ \E t \in Values : push(t)
    \/ \E t \in Values, idx \in 0 .. MaxCount : insert(t, idx)
    \/ \E i \in 0 .. MaxCount : remove(i)

ArraySpec == ArrayInit /\ [][ArrayNext]_arrayVars

-------------------------------------------------------------------------------
(* Properties *)

\* An array holds what was put there, in order, inside its block, unless a
\* remove has shrunk the block under its elements or memory is gone.
KeepsList ==
    squeezed \/ memory \in {"null", "smashed"} \/
       /\ memory = "sound"
       /\ count <= Len(buffer)
       /\ SubSeq(buffer, 1, count) = list

\* An insertion comes to its end.  Programs rely on it for every malloc:
\* Task::malloc inserts its first block at 0.
InsertReturns == memory # "smashed"
===============================================================================
