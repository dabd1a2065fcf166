--------------------------------- MODULE Streams ---------------------------------
(* File descriptors and pipes: src/src/kernel/task/fd.c, the descriptor calls of
   task/task.cpp and task/syscall.cpp, and the framebuffer's vga_open.

   A descriptor is a heap object, named by its address; a program's handle is
   that address, or STDIN, STDOUT, STDERR.  The bytes of a pipe are the buffer of
   its FD_IN_STREAM; the FD_OUT_STREAM at its other end has none.  Descriptors of
   streams are never given back (nothing calls fd_close).

   A system call runs with interrupts off and is one step; any live process may
   make the next one.  Memory may run out in any call, and of the descriptors a
   call makes those after that fail too.  A process's array of descriptors grows
   as it is given more; when there is no memory for the larger block the array
   goes on at address 0, where what getfd finds is anybody's guess.

   Programs use the handles they were given and write at least one byte.  Not
   modelled: seek and tell, which change nothing on a stream, reads and writes of
   fixed buffers, which no program gets a handle to (see open), and process_create
   of a program that does not load (Tasks). *)
EXTENDS Integers, Sequences, FiniteSets

CONSTANTS
    Fd,           \* the addresses a descriptor can have
    Null,         \* the null pointer
    void_stream,  \* the static descriptor that swallows what is written
    MaxPid,       \* how many processes are created
    Data,         \* bytes
    MaxCall,      \* the largest write and read
    MaxBlock,     \* the largest buffer the heap has room for
    FirstRoom,    \* how many descriptors an array takes before it needs a larger block
    Growth        \* and how many more each time it gets one

ASSUME StreamsAssumption ==
    /\ Null \notin Fd \cup {void_stream, 0, 1, 2} /\ void_stream \notin Fd
    /\ Fd \cap {0, 1, 2} = {}
    /\ MaxPid \in Nat \ {0} /\ MaxCall \in Nat \ {0} /\ MaxBlock \in Nat
    /\ FirstRoom \in Nat /\ Growth \in Nat \ {0}

VARIABLES
    fd,         \* the contents of each descriptor: its kind, its block of bytes, how
                \* many of them count, and the stdin it leads to
    allocated,  \* the descriptors the heap has handed out and not got back
    nextPid,    \* the pid the next process gets
    alive,      \* the processes that have not exited
    std,        \* each process's stdin, stdout and stderr
    attached,   \* each process's fds array
    room,       \* how many more it takes
    lost,       \* the processes whose fds array has lost its block
    known,      \* the handles each process was given (the program's own memory)
    call        \* the last transfer between a program and a pipe, if any

vars == <<fd, allocated, nextPid, alive, std, attached, room, lost, known, call>>

STDIN  == 0
STDOUT == 1
STDERR == 2

FD_RW_FBUFFER == 2
FD_IN_STREAM  == 3
FD_OUT_STREAM == 4
FD_VOID       == 5

Pid    == 1 .. MaxPid
Bytes  == UNION {[1 .. k -> Data] : k \in 1 .. MaxCall}

-------------------------------------------------------------------------------
(* Descriptors *)

Blank(type, pipe) == [type |-> type, buffer |-> <<>>, buffer_size |-> 0, pipe |-> pipe]

\* Variant of OutStream: a pipe to no stdin is kept as it is.
OutStreamRaw(pipe) == Blank(FD_OUT_STREAM, pipe)

InStream        == Blank(FD_IN_STREAM, Null)
OutStream(pipe) == Blank(FD_OUT_STREAM, IF pipe = Null THEN void_stream ELSE pipe)
Framebuffer     == Blank(FD_RW_FBUFFER, Null)

\* What the call's next kmallocs answer: distinct free addresses, or Null from
\* the one that finds no memory on.
Grants(n) ==
    {g \in [1 .. n -> (Fd \ allocated) \cup {Null}] :
        \A i, j \in 1 .. n : /\ i < j /\ g[i] = Null => g[j] = Null
                             /\ i # j /\ g[i] = g[j] => g[i] = Null}

\* What lies at f once it is made a descriptor d; nothing when f is Null.
With(fds, f, d) == [x \in Fd |-> IF x = f THEN d ELSE fds[x]]

Taken(g) == {g[i] : i \in DOMAIN g} \ {Null}

\* fd_read's shift of what is left to the front of the block.
Shifted(b, size, k) == [i \in 1 .. Len(b) |-> IF i <= size - k THEN b[i + k] ELSE b[i]]

\* Variant of Drained: the bytes that were read stay counted.
DrainedNot(d, k) == [d EXCEPT !.buffer = Shifted(d.buffer, d.buffer_size, k)]

Drained(d, k) == [d EXCEPT !.buffer = Shifted(d.buffer, d.buffer_size, k),
                           !.buffer_size = @ - k]

\* Variant of Filled: the block is resized for the new bytes alone.
FilledShort(d, bytes) ==
    [d EXCEPT !.buffer = bytes, !.buffer_size = @ + Len(bytes)]

\* fd_istream_write: the block is resized to what it holds and the new bytes,
\* longer or shorter than it was.
Filled(d, bytes) ==
    [d EXCEPT !.buffer = SubSeq(@, 1, d.buffer_size) \o bytes,
              !.buffer_size = @ + Len(bytes)]

-------------------------------------------------------------------------------
(* Programs *)

Init ==
    /\ fd = [f \in Fd |-> Framebuffer]
    /\ allocated = {}
    /\ nextPid = 1 /\ alive = {}
    /\ std = [p \in Pid |-> [stdin |-> Null, stdout |-> void_stream,
                             stderr |-> void_stream]]
    /\ attached = [p \in Pid |-> {}]
    /\ room = [p \in Pid |-> FirstRoom] /\ lost = {}
    /\ known = [p \in Pid |-> {}]
    /\ call = [op |-> "none", channel |-> "none", data |-> <<>>, ret |-> 0]

Silent == call' = [op |-> "none", channel |-> "none", data |-> <<>>, ret |-> 0]

\* Task::create's part: the next process.
Started == /\ nextPid <= MaxPid
           /\ nextPid' = nextPid + 1
           /\ alive' = alive \cup {nextPid}

NewStd(f) == [stdin |-> f, stdout |-> void_stream, stderr |-> void_stream]

\* kernel_main's first program, and process_create.
process_create ==
    /\ nextPid = 1 \/ alive # {}
    /\ \E g \in Grants(1) :
          /\ Started
          /\ fd' = With(fd, g[1], InStream)
          /\ allocated' = allocated \cup Taken(g)
          /\ std' = [std EXCEPT ![nextPid] = NewStd(g[1])]
    /\ Silent
    /\ UNCHANGED <<attached, room, lost, known>>

\* Task::attach: Array::push asks for a larger block when the array is full, and
\* takes what krealloc answers for it: after a failure the array lies at address 0.
attach(p, f) ==
    \/ /\ p \notin lost
       /\ attached' = [attached EXCEPT ![p] = @ \cup {f}]
       /\ room' = [room EXCEPT ![p] = (IF @ = 0 THEN Growth ELSE @) - 1]
       /\ UNCHANGED lost
    \/ /\ p \in lost \/ room[p] = 0
       /\ attached' = [attached EXCEPT ![p] = {}]
       /\ lost' = lost \cup {p}
       /\ UNCHANGED room

\* Variant of Given: the descriptor is attached but not answered.
GivenUnseen(p, f) ==
    /\ IF f = Null THEN UNCHANGED <<attached, room, lost>> ELSE attach(p, f)
    /\ UNCHANGED known

\* The caller's descriptor f, when there is one, is attached and returned.
Given(p, f) ==
    \/ f = Null /\ UNCHANGED <<attached, room, lost, known>>
    \/ f # Null /\ attach(p, f) /\ known' = [known EXCEPT ![p] = @ \cup {f}]

\* The process exists even when there is no memory for its streams and the
\* caller is told that it does not.
process_createWithStdout(p) ==
    /\ p \in alive
    /\ \E g \in Grants(3) :
          /\ Started
          /\ fd' = With(With(With(fd, g[1], InStream), g[2], InStream),
                        g[3], OutStream(g[2]))
          /\ allocated' = allocated \cup Taken(g)
          /\ std' = [std EXCEPT ![nextPid] = [NewStd(g[1]) EXCEPT !.stdout = g[3]]]
          /\ Given(p, g[2])
    /\ Silent

\* An end of process q's stdin, for writing.
process_getStdin(p, q) ==
    /\ p \in alive /\ q \in alive
    /\ \E g \in Grants(1) :
          /\ fd' = With(fd, g[1], OutStream(std[q].stdin))
          /\ allocated' = allocated \cup Taken(g)
          /\ Given(p, g[1])
    /\ Silent
    /\ UNCHANGED <<nextPid, alive, std>>

Redirected(q, s, f) ==
    [std EXCEPT ![q] = IF s = STDOUT THEN [@ EXCEPT !.stdout = f]
                                     ELSE [@ EXCEPT !.stderr = f]]

\* Process q's stdout or stderr goes to a new pipe, whose reading end p gets;
\* bytes still in the pipe it went to before stay there.
process_getStdout(p, q, s) ==
    /\ p \in alive /\ q \in alive
    /\ \E g \in Grants(2) :
          /\ fd' = With(With(fd, g[1], InStream), g[2], OutStream(g[1]))
          /\ allocated' = allocated \cup Taken(g)
          /\ std' = Redirected(q, s, g[2])
          /\ Given(p, g[1])
    /\ Silent
    /\ UNCHANGED <<nextPid, alive>>

\* Variant of OpenAnswer: the address of the descriptor is answered.
OpenAnswerFreed(f) == {f}

\* What the program learns: nothing.
OpenAnswer(f) == {}

\* Task::attach has no return statement and leaves the address of the array's
\* slot in eax, which vga_open takes for an error: it frees the descriptor that
\* has just been attached, and open answers 0.
open(p) ==
    /\ p \in alive
    /\ \E f \in Fd \ allocated :
          /\ fd' = With(fd, f, Framebuffer)
          /\ attach(p, f)
          /\ known' = [known EXCEPT ![p] = @ \cup OpenAnswer(f)]
    /\ Silent
    /\ UNCHANGED <<allocated, nextPid, alive, std>>

\* The Task object goes, with its fds array and its three pointers; the
\* descriptors they name stay.
exit(p) ==
    /\ p \in alive
    /\ alive' = alive \ {p}
    /\ attached' = [attached EXCEPT ![p] = {}]
    /\ room' = [room EXCEPT ![p] = FirstRoom] /\ lost' = lost \ {p}
    /\ std' = [std EXCEPT ![p] = NewStd(Null)]
    /\ Silent
    /\ UNCHANGED <<fd, allocated, nextPid, known>>

-------------------------------------------------------------------------------
(* Reading and writing *)

Handles(p) == {STDIN, STDOUT, STDERR} \cup known[p]

OrVoid(f) == IF f = Null THEN void_stream ELSE f

\* What getfd may answer: it goes through the array, and once that is lost through
\* whatever lies at its new place.
getfd(p, h) ==
    CASE h = STDIN  -> {std[p].stdin}
      [] h = STDOUT -> {OrVoid(std[p].stdout)}
      [] h = STDERR -> {OrVoid(std[p].stderr)}
      [] OTHER -> {f \in {h, Null} : p \in lost \/ (f = h <=> h \in attached[p])}

IsIn(f)  == f \in Fd /\ fd[f].type = FD_IN_STREAM
IsOut(f) == f \in Fd /\ fd[f].type = FD_OUT_STREAM

Transfer(op, f, data, ret) ==
    call' = [op |-> op, channel |-> f, data |-> data, ret |-> ret]

\* How many of n bytes a read gets.
Available(f, n) == IF n > fd[f].buffer_size THEN fd[f].buffer_size ELSE n

read(p, h, n) ==
    /\ p \in alive
    /\ \E f \in getfd(p, h) :
          \/ /\ IsIn(f)
             /\ LET k == Available(f, n)
                IN  /\ fd' = [fd EXCEPT ![f] = Drained(@, k)]
                    /\ Transfer("read", f, SubSeq(fd[f].buffer, 1, k), k)
          \/ /\ ~IsIn(f)  \* answers 0, or the descriptor's type
             /\ Silent /\ UNCHANGED fd
    /\ UNCHANGED <<allocated, nextPid, alive, std, attached, room, lost, known>>

\* The bytes reach the pipe f.
WriteTo(f, d) ==
    \/ /\ fd[f].buffer_size + Len(d) <= MaxBlock
       /\ fd' = [fd EXCEPT ![f] = Filled(@, d)]
       /\ Transfer("write", f, d, Len(d))
    \/ /\ UNCHANGED fd  \* no memory
       /\ Transfer("write", f, d, 0)

write(p, h, d) ==
    /\ p \in alive
    /\ \E f \in getfd(p, h) :
          \/ IsOut(f) /\ IsIn(fd[f].pipe) /\ WriteTo(fd[f].pipe, d)
          \/ /\ ~(IsOut(f) /\ IsIn(fd[f].pipe))
             /\ Silent /\ UNCHANGED fd  \* swallowed, or refused with some answer
    /\ UNCHANGED <<allocated, nextPid, alive, std, attached, room, lost, known>>

Next ==
    \/ process_create
    \/ \E p \in Pid : process_createWithStdout(p)
    \/ \E p, q \in Pid : process_getStdin(p, q)
    \/ \E p, q \in Pid, s \in {STDOUT, STDERR} : process_getStdout(p, q, s)
    \/ \E p \in Pid : open(p)
    \/ \E p \in Pid : exit(p)
    \/ \E p \in Pid : \E h \in Handles(p), n \in 1 .. MaxCall : read(p, h, n)
    \/ \E p \in Pid : \E h \in Handles(p), d \in Bytes : write(p, h, d)

Spec == Init /\ [][Next]_vars

-------------------------------------------------------------------------------
(* Properties *)

InStreams == {f \in allocated : fd[f].type = FD_IN_STREAM}

\* A pipe never counts more bytes than its block has room for, although the
\* block is resized to the count, down as well as up, and the count alone shrinks
\* when bytes are read.
WithinBlock == \A f \in InStreams : fd[f].buffer_size <= Len(fd[f].buffer)

Reads(p, f) == \E h \in Handles(p) : f \in getfd(p, h)

\* No two processes read from one pipe, so neither takes bytes meant for the
\* other: what handing out a fresh reading end for every redirection is for.  A
\* descriptor freed by open may be in several processes' arrays and come back as
\* another's pipe; only the handles programs were given keep them apart.
SingleReader ==
    \A f \in InStreams : \A p, q \in alive : Reads(p, f) /\ Reads(q, f) => p = q

\* What a process writes reaches a pipe that somebody was given the reading end
\* of, or nothing: after any mix of redirections, of calls that ran out of memory
\* half way, and of descriptors freed and handed out again.
OutputHasReader ==
    \A p \in alive : \A f \in {OrVoid(std[p].stdout), OrVoid(std[p].stderr)} \ {void_stream} :
       /\ f \in allocated /\ fd[f].type = FD_OUT_STREAM
       /\ fd[f].pipe \in InStreams /\ \E q \in Pid : fd[f].pipe \in known[q]

\* Every handle a living program was given leads to a live stream, and what it
\* writes there to a live pipe or to nothing.  The program can use it as long as
\* its array has not been lost.
HandlesLive ==
    \A p \in alive : \A f \in known[p] :
       /\ p \in lost \/ f \in attached[p]
       /\ f \in allocated
       /\ IsIn(f) \/ (IsOut(f) /\ fd[f].pipe \in InStreams \cup {void_stream})

\* Pipes are channels: nothing is lost, repeated or reordered between a write and
\* the reads that get its bytes, and a write that is refused leaves no trace.
Pipes == INSTANCE Channels
           WITH Channel <- Fd,
                queue <- [f \in InStreams |-> SubSeq(fd[f].buffer, 1, fd[f].buffer_size)]

ArePipes == Pipes!Spec
===============================================================================
