-------------------------------- MODULE Channels --------------------------------
(* What the kernel's streams promise the programs at their two ends: channels
   that deliver what is written, in order and once.  A write is taken whole or
   refused whole; a read gets the oldest bytes, as many as there are up to the
   number it asks for.  Streams implements it. *)
EXTENDS Integers, Sequences

CONSTANTS
    Channel,  \* identities of channels
    Data,     \* bytes
    MaxCall   \* the largest write and read

VARIABLES
    queue,  \* for each open channel, the bytes written and not yet read
    call    \* the last transfer: what was asked of which channel, and the answer

vars == <<queue, call>>

Silent == [op |-> "none", channel |-> "none", data |-> <<>>, ret |-> 0]

Init == queue = <<>> /\ call = Silent

Opened(C) ==
    queue' = [c \in DOMAIN queue \cup C |-> IF c \in C THEN <<>> ELSE queue[c]]

Open == /\ \E C \in SUBSET (Channel \ DOMAIN queue) : Opened(C)
        /\ call' = Silent

Send(c, d) ==
    \E ret \in {0, Len(d)} :
       /\ queue' = IF ret = 0 THEN queue ELSE [queue EXCEPT ![c] = @ \o d]
       /\ call' = [op |-> "write", channel |-> c, data |-> d, ret |-> ret]

Receive(c, n) ==
    LET k == IF n < Len(queue[c]) THEN n ELSE Len(queue[c])
    IN  /\ queue' = [queue EXCEPT ![c] = SubSeq(@, k + 1, Len(@))]
        /\ call' = [op |-> "read", channel |-> c, data |-> SubSeq(queue[c], 1, k),
                    ret |-> k]

Next ==
    \/ Open
    \/ \E c \in DOMAIN queue, k \in 1 .. MaxCall : \E d \in [1 .. k -> Data] : Send(c, d)
    \/ \E c \in DOMAIN queue, n \in 1 .. MaxCall : Receive(c, n)

Spec == Init /\ [][Next]_vars
===============================================================================
