----------------------------- MODULE StreamsProofs -----------------------------
(* Proofs about descriptors and pipes, for any number of processes and any amount
   of memory.  The inductive invariant says what every address holds, that the
   handles a program was given are live and its own, where each process's three
   streams lead, and that a pipe is held by one living process at most: as its
   stdin, or as a handle it was given. *)
EXTENDS Streams, SequenceTheorems, TLAPS

Kinds == {FD_RW_FBUFFER, FD_IN_STREAM, FD_OUT_STREAM}
Sinks == Fd \cup {Null, void_stream}

Descriptor == [type : Kinds, buffer : Seq(Data), buffer_size : Nat, pipe : Sinks]
StdStreams == [stdin : Fd \cup {Null}, stdout : Sinks, stderr : Sinks]

TypeOK ==
    /\ fd \in [Fd -> Descriptor]
    /\ allocated \in SUBSET Fd
    /\ nextPid \in 1 .. MaxPid + 1 /\ alive \in SUBSET (1 .. nextPid - 1)
    /\ std \in [Pid -> StdStreams]
    /\ attached \in [Pid -> SUBSET Fd]
    /\ room \in [Pid -> Nat] /\ lost \in SUBSET Pid
    /\ known \in [Pid -> SUBSET Fd]

\* An address that was handed out holds one end of a pipe; any other was only ever
\* written by open.
DescriptorInv ==
    \A f \in Fd :
       IF f \in allocated
       THEN IsIn(f) \/ (IsOut(f) /\ fd[f].pipe \in InStreams \cup {void_stream})
       ELSE fd[f].type = FD_RW_FBUFFER

KnownInv ==
    /\ \A p \in Pid : known[p] \subseteq allocated /\ (p >= nextPid => known[p] = {})
    /\ \A p \in alive \ lost : known[p] \subseteq attached[p]

\* What is written to o goes to a pipe somebody was given, or nowhere.
Drains(o) ==
    \/ o \in {Null, void_stream}
    \/ /\ o \in allocated /\ fd[o].type = FD_OUT_STREAM
       /\ fd[o].pipe \in InStreams /\ \E q \in Pid : fd[o].pipe \in known[q]

StdInv ==
    \A p \in alive : /\ std[p].stdin \in InStreams \cup {Null}
                     /\ Drains(std[p].stdout) /\ Drains(std[p].stderr)

Holds(p, f) == std[p].stdin = f \/ f \in known[p]

OwnerInv == \A f \in InStreams : \A p, q \in alive : Holds(p, f) /\ Holds(q, f) => p = q

IInv == TypeOK /\ DescriptorInv /\ KnownInv /\ StdInv /\ OwnerInv /\ WithinBlock

-------------------------------------------------------------------------------
(* Sequences of bytes *)

\* The first k bytes of a sequence, byte by byte.
LEMMA Prefix ==
    ASSUME NEW S, NEW s \in Seq(S), NEW k \in 0 .. Len(s)
    PROVE  /\ SubSeq(s, 1, k) \in Seq(S) /\ Len(SubSeq(s, 1, k)) = k
           /\ \A i \in 1 .. k : SubSeq(s, 1, k)[i] = s[i]
<1>1. Len(s) \in Nat /\ \A i \in 1 .. Len(s) : s[i] \in S
      BY LenProperties, ElementOfSeq
<1>2. /\ SubSeq(s, 1, k) \in Seq(S)
      /\ Len(SubSeq(s, 1, k)) = IF 1 <= k THEN k - 1 + 1 ELSE 0
      /\ \A i \in 1 .. k - 1 + 1 : SubSeq(s, 1, k)[i] = s[1 + i - 1]
  <2>1. 1 \in Int /\ k \in Int /\ \A i \in 1 .. k : s[i] \in S
        BY <1>1
  <2>   QED BY <2>1, SubSeqProperties
<1>   QED BY <1>1, <1>2

\* The bytes of a descriptor's block that count.
Counted(d) == SubSeq(d.buffer, 1, d.buffer_size)

\* A write leaves the bytes that counted and the new ones, in a block that holds
\* just these.
LEMMA FilledCounts ==
    ASSUME NEW d \in Descriptor, d.buffer_size <= Len(d.buffer), NEW bytes \in Seq(Data)
    PROVE  /\ Filled(d, bytes) \in Descriptor
           /\ Filled(d, bytes).type = d.type
           /\ Filled(d, bytes).buffer_size = Len(Filled(d, bytes).buffer)
           /\ Counted(Filled(d, bytes)) = Counted(d) \o bytes
<1>1. /\ d.buffer \in Seq(Data) /\ d.buffer_size \in Nat
      /\ Len(d.buffer) \in Nat /\ Len(bytes) \in Nat
      BY LenProperties DEF Descriptor
<1>2. Counted(d) \in Seq(Data) /\ Len(Counted(d)) = d.buffer_size
      BY <1>1, Prefix DEF Counted
<1>   DEFINE b == Counted(d) \o bytes
             n == d.buffer_size + Len(bytes)
<1>3. b \in Seq(Data) /\ Len(b) = n /\ n \in Nat
  <2>1. b \in Seq(Data) /\ Len(b) = Len(Counted(d)) + Len(bytes)
        BY <1>2, ConcatProperties
  <2>   QED BY <2>1, <1>1, <1>2
<1>4. Filled(d, bytes) = [d EXCEPT !.buffer = b, !.buffer_size = n]
      BY DEF Filled, Counted
<1>5. SubSeq(b, 1, n) = b
      BY <1>3, SubSeqFull
<1>   HIDE DEF b, n
<1>6. /\ Filled(d, bytes) \in Descriptor
      /\ Filled(d, bytes).buffer = b /\ Filled(d, bytes).buffer_size = n
      /\ Filled(d, bytes).type = d.type
      BY <1>3, <1>4 DEF Descriptor
<1>   QED BY <1>3, <1>5, <1>6 DEF Counted, b

\* A read of k bytes that count leaves those behind them, in the same block.
LEMMA DrainedCounts ==
    ASSUME NEW d \in Descriptor, d.buffer_size <= Len(d.buffer),
           NEW k \in 0 .. d.buffer_size
    PROVE  /\ Drained(d, k) \in Descriptor
           /\ Drained(d, k).type = d.type
           /\ Drained(d, k).buffer_size <= Len(Drained(d, k).buffer)
           /\ Counted(Drained(d, k)) = SubSeq(Counted(d), k + 1, Len(Counted(d)))
<1>1. /\ d.buffer \in Seq(Data) /\ d.buffer_size \in Nat /\ Len(d.buffer) \in Nat
      /\ k \in Nat
      /\ \A i \in 1 .. Len(d.buffer) : d.buffer[i] \in Data
      BY LenProperties, ElementOfSeq DEF Descriptor
<1>   DEFINE n == d.buffer_size
             b == Shifted(d.buffer, n, k)
<1>2. /\ b \in [1 .. Len(d.buffer) -> Data]
      /\ \A i \in 1 .. n - k : b[i] = d.buffer[i + k]
      BY <1>1 DEF Shifted
<1>3. b \in Seq(Data) /\ Len(b) = Len(d.buffer)
      BY <1>1, <1>2, IsASeq, LenProperties
<1>4. Drained(d, k) = [d EXCEPT !.buffer = b, !.buffer_size = n - k]
      BY DEF Drained
<1>5. n \in Nat /\ n - k \in Nat /\ n - k <= Len(b) /\ n <= Len(d.buffer) /\ k <= n
      BY <1>1, <1>3
<1>6. /\ Counted(d) \in Seq(Data) /\ Len(Counted(d)) = n
      /\ \A i \in 1 .. n : Counted(d)[i] = d.buffer[i]
      BY <1>1, <1>5, Prefix DEF Counted
<1>   HIDE DEF b, n
<1>7. /\ Drained(d, k) \in Descriptor
      /\ Drained(d, k).buffer = b /\ Drained(d, k).buffer_size = n - k
      /\ Drained(d, k).type = d.type
      BY <1>3, <1>4, <1>5 DEF Descriptor
<1>   DEFINE old == SubSeq(Counted(d), k + 1, n)
             new == SubSeq(b, 1, n - k)
<1>8. /\ old \in Seq(Data) /\ Len(old) = n - k
      /\ \A i \in 1 .. n - k : old[i] = Counted(d)[k + i]
  <2>1. \A i \in k + 1 .. n : Counted(d)[i] \in Data
        BY <1>1, <1>5, <1>6
  <2>2. /\ old \in Seq(Data)
        /\ Len(old) = IF k + 1 <= n THEN n - (k + 1) + 1 ELSE 0
        /\ \A i \in 1 .. n - (k + 1) + 1 : old[i] = Counted(d)[(k + 1) + i - 1]
        BY <2>1, <1>1, <1>5, SubSeqProperties
  <2>   QED BY <2>2, <1>1, <1>5
<1>9. /\ new \in Seq(Data) /\ Len(new) = n - k
      /\ \A i \in 1 .. n - k : new[i] = b[i]
      BY <1>3, <1>5, Prefix
<1>10. \A i \in 1 .. n - k : new[i] = old[i]
  <2>   SUFFICES ASSUME NEW i \in 1 .. n - k PROVE new[i] = old[i]
        OBVIOUS
  <2>1. k + i \in 1 .. n /\ k + i = i + k
        BY <1>1, <1>5
  <2>2. b[i] = d.buffer[i + k]
        BY <1>2 DEF b, n
  <2>   QED BY <2>1, <2>2, <1>6, <1>8, <1>9
<1>   HIDE DEF old, new
<1>11. new = old
      BY <1>8, <1>9, <1>10, <1>5, SeqEqual
<1>   QED BY <1>5, <1>6, <1>7, <1>11 DEF Counted, old, new

-------------------------------------------------------------------------------
(* Calls that make descriptors *)

\* What the heap grants: free addresses, no two the same, and none after a Null.
LEMMA GrantFacts ==
    ASSUME NEW n \in Nat, NEW g \in Grants(n)
    PROVE  /\ \A i \in 1 .. n : g[i] = Null \/ (g[i] \in Fd /\ g[i] \notin allocated)
           /\ \A i, j \in 1 .. n : i # j /\ g[i] # Null => g[i] # g[j]
           /\ \A i, j \in 1 .. n : i < j /\ g[j] # Null => g[i] # Null
           /\ Taken(g) = {g[i] : i \in 1 .. n} \ {Null}
           /\ Taken(g) \subseteq Fd /\ Taken(g) \cap allocated = {}
<1>1. /\ g \in [1 .. n -> (Fd \ allocated) \cup {Null}]
      /\ \A i, j \in 1 .. n : /\ i < j /\ g[i] = Null => g[j] = Null
                              /\ i # j /\ g[i] = g[j] => g[i] = Null
      BY DEF Grants
<1>2. DOMAIN g = 1 .. n
      BY <1>1
<1>3. Taken(g) = {g[i] : i \in 1 .. n} \ {Null}
      BY <1>2 DEF Taken
<1>   QED BY <1>1, <1>3

\* The blank descriptors are descriptors.
LEMMA BlankTypes ==
    /\ Framebuffer \in Descriptor /\ InStream \in Descriptor
    /\ \A pipe \in Fd \cup {Null, void_stream} : OutStream(pipe) \in Descriptor
<1>1. <<>> \in Seq(Data)
      BY EmptySeq
<1>   QED BY <1>1 DEF Framebuffer, InStream, OutStream, Blank, Descriptor, Kinds, Sinks

\* What a call that makes descriptors does to the table: every address handed out
\* keeps what it held, and the new ones hold the two ends of an empty pipe.
Extended ==
    /\ fd' \in [Fd -> Descriptor]
    /\ allocated \subseteq allocated' /\ allocated' \subseteq Fd
    /\ \A f \in allocated : fd'[f] = fd[f]
    /\ \A f \in allocated' \ allocated :
          \/ fd'[f] = InStream
          \/ \E pipe \in InStreams' \cup {void_stream} : fd'[f] = Blank(FD_OUT_STREAM, pipe)
    /\ \A f \in Fd \ allocated' : fd'[f].type = FD_RW_FBUFFER

\* Old pipes stay pipes, no old end turns into one, and the new ones are empty.
LEMMA ExtendedStreams ==
    ASSUME IInv, Extended
    PROVE  /\ InStreams \subseteq InStreams'
           /\ \A f \in InStreams' : f \in allocated => f \in InStreams
           /\ \A f \in InStreams' : f \notin allocated => fd'[f] = InStream
<1>1. InStreams = {f \in allocated : fd[f].type = FD_IN_STREAM}
      BY DEF InStreams
<1>2. InStreams' = {f \in allocated' : fd'[f].type = FD_IN_STREAM}
      BY DEF InStreams
<1>3. \A pipe : Blank(FD_OUT_STREAM, pipe).type # FD_IN_STREAM
      BY DEF Blank, FD_OUT_STREAM, FD_IN_STREAM
<1>   QED BY <1>1, <1>2, <1>3 DEF Extended

\* The parts of the invariant that only the descriptors decide.
LEMMA ExtendedKeeps ==
    ASSUME IInv, Extended
    PROVE  DescriptorInv' /\ WithinBlock'
<1>1. DescriptorInv'
  <2>   SUFFICES ASSUME NEW f \in Fd
                 PROVE  IF f \in allocated'
                        THEN \/ fd'[f].type = FD_IN_STREAM
                             \/ /\ fd'[f].type = FD_OUT_STREAM
                                /\ fd'[f].pipe \in InStreams' \cup {void_stream}
                        ELSE fd'[f].type = FD_RW_FBUFFER
        BY DEF DescriptorInv, IsIn, IsOut
  <2>1. CASE f \in allocated
    <3>1. \/ fd[f].type = FD_IN_STREAM
          \/ fd[f].type = FD_OUT_STREAM /\ fd[f].pipe \in InStreams \cup {void_stream}
          BY <2>1 DEF IInv, DescriptorInv, IsIn, IsOut
    <3>   QED BY <2>1, <3>1, ExtendedStreams DEF Extended
  <2>2. CASE f \in allocated' \ allocated
    <3>1. CASE fd'[f] = InStream
          BY <2>2, <3>1 DEF InStream, Blank
    <3>2. ASSUME NEW pipe \in InStreams' \cup {void_stream},
                 fd'[f] = Blank(FD_OUT_STREAM, pipe)
          PROVE  fd'[f].type = FD_OUT_STREAM /\ fd'[f].pipe \in InStreams' \cup {void_stream}
          BY <3>2 DEF Blank
    <3>   QED BY <2>2, <3>1, <3>2 DEF Extended
  <2>3. CASE f \notin allocated'
        BY <2>3 DEF Extended
  <2>   QED BY <2>1, <2>2, <2>3
<1>2. WithinBlock'
  <2>   SUFFICES ASSUME NEW f \in InStreams'
                 PROVE  fd'[f].buffer_size <= Len(fd'[f].buffer)
        BY DEF WithinBlock
  <2>1. CASE f \in allocated
    <3>1. fd'[f] = fd[f] /\ f \in InStreams
          BY <2>1, ExtendedStreams DEF Extended
    <3>   QED BY <3>1 DEF IInv, WithinBlock
  <2>2. CASE f \notin allocated
    <3>1. fd'[f] = InStream
          BY <2>2, ExtendedStreams
    <3>   QED BY <3>1 DEF InStream, Blank
  <2>   QED BY <2>1, <2>2
<1>   QED BY <1>1, <1>2

\* What drains still does, when no handle is taken back.
LEMMA DrainsOn ==
    ASSUME IInv, Extended, \A q \in Pid : known[q] \subseteq known'[q]
    PROVE  \A o : Drains(o) =>
              \/ o \in {Null, void_stream}
              \/ /\ o \in allocated' /\ fd'[o].type = FD_OUT_STREAM
                 /\ fd'[o].pipe \in InStreams' /\ \E q \in Pid : fd'[o].pipe \in known'[q]
BY ExtendedStreams DEF Drains, Extended

\* The next pid is nobody's, and living processes have pids.
LEMMA PidFacts ==
    ASSUME TypeOK
    PROVE  /\ nextPid \in Nat /\ nextPid \notin alive /\ alive \subseteq Pid
           /\ nextPid <= MaxPid => nextPid \in Pid
           /\ \A p \in alive : p \in Nat /\ p < nextPid
BY StreamsAssumption DEF TypeOK, Pid

\* An old pipe is held only by those who held it: the owners stay apart when the
\* new pipes have one holder each.
LEMMA OwnersApart ==
    ASSUME IInv, Extended,
           \A r \in alive' : \A f \in InStreams :
              std'[r].stdin = f \/ f \in known'[r] => r \in alive /\ Holds(r, f),
           \A q, r \in alive' : \A f \in InStreams' :
              /\ f \notin allocated
              /\ std'[q].stdin = f \/ f \in known'[q]
              /\ std'[r].stdin = f \/ f \in known'[r]
              => q = r
    PROVE  OwnerInv'
<1>   SUFFICES ASSUME NEW f \in InStreams', NEW p \in alive', NEW q \in alive',
                      std'[p].stdin = f \/ f \in known'[p],
                      std'[q].stdin = f \/ f \in known'[q]
               PROVE  p = q
      BY DEF OwnerInv, Holds
<1>1. CASE f \in allocated
  <2>1. f \in InStreams
        BY <1>1, ExtendedStreams
  <2>2. p \in alive /\ Holds(p, f) /\ q \in alive /\ Holds(q, f)
        BY <2>1
  <2>   QED BY <2>1, <2>2 DEF IInv, OwnerInv
<1>2. CASE f \notin allocated
      BY <1>2
<1>   QED BY <1>1, <1>2

\* What living processes hold was handed out.
LEMMA HeldAllocated ==
    ASSUME IInv, NEW p \in alive
    PROVE  /\ std[p].stdin \in allocated \cup {Null}
           /\ known[p] \subseteq allocated
BY PidFacts DEF IInv, KnownInv, StdInv, InStreams

\* An array that grows keeps what it held, and one that does not is lost.
LEMMA AttachFacts ==
    ASSUME TypeOK, NEW p \in Pid, NEW f \in Fd, attach(p, f)
    PROVE  /\ attached' \in [Pid -> SUBSET Fd]
           /\ room' \in [Pid -> Nat] /\ lost' \in SUBSET Pid
           /\ lost \subseteq lost'
           /\ \A r \in Pid \ lost' : /\ attached[r] \subseteq attached'[r]
                                     /\ r = p => f \in attached'[r]
<1>1. CASE /\ attached' = [attached EXCEPT ![p] = @ \cup {f}]
           /\ room' = [room EXCEPT ![p] = (IF @ = 0 THEN Growth ELSE @) - 1]
           /\ UNCHANGED lost
  <2>1. \A n \in Nat : (IF n = 0 THEN Growth ELSE n) - 1 \in Nat
        BY StreamsAssumption
  <2>   QED BY <1>1, <2>1 DEF TypeOK
<1>2. CASE /\ attached' = [attached EXCEPT ![p] = {}]
           /\ lost' = lost \cup {p}
           /\ UNCHANGED room
      BY <1>2 DEF TypeOK
<1>   QED BY <1>1, <1>2 DEF attach

\* The caller's handle f, when it is new, is its own from now on.
LEMMA GivenKeeps ==
    ASSUME IInv, NEW p \in alive, NEW f, Given(p, f),
           f = Null \/ (f \in Fd /\ f \notin allocated),
           allocated \subseteq allocated', f # Null => f \in allocated',
           nextPid' \in Nat, nextPid <= nextPid', alive' \subseteq alive \cup {nextPid},
           alive' \subseteq Pid
    PROVE  /\ attached' \in [Pid -> SUBSET Fd] /\ known' \in [Pid -> SUBSET Fd]
           /\ room' \in [Pid -> Nat] /\ lost' \in SUBSET Pid
           /\ \A r \in Pid : known'[r] = IF r = p THEN known[r] \cup ({f} \ {Null})
                                                  ELSE known[r]
           /\ KnownInv'
<1>1. /\ TypeOK /\ p \in Pid /\ p < nextPid /\ p \in Nat /\ nextPid \in Nat
      BY PidFacts DEF IInv
<1>2. /\ \A r \in Pid : known'[r] = IF r = p THEN known[r] \cup ({f} \ {Null}) ELSE known[r]
      /\ \A r \in Pid \ lost' : /\ attached[r] \subseteq attached'[r]
                                /\ r = p => {f} \ {Null} \subseteq attached'[r]
      /\ attached' \in [Pid -> SUBSET Fd] /\ known' \in [Pid -> SUBSET Fd]
      /\ room' \in [Pid -> Nat] /\ lost' \in SUBSET Pid /\ lost \subseteq lost'
  <2>1. CASE f = Null /\ UNCHANGED <<attached, room, lost, known>>
        BY <1>1, <2>1 DEF TypeOK
  <2>2. CASE f # Null /\ attach(p, f) /\ known' = [known EXCEPT ![p] = @ \cup {f}]
    <3>1. /\ attached' \in [Pid -> SUBSET Fd]
          /\ room' \in [Pid -> Nat] /\ lost' \in SUBSET Pid /\ lost \subseteq lost'
          /\ \A r \in Pid \ lost' : /\ attached[r] \subseteq attached'[r]
                                    /\ r = p => f \in attached'[r]
          BY <1>1, <2>2, AttachFacts
    <3>2. /\ \A r \in Pid : known'[r] = IF r = p THEN known[r] \cup ({f} \ {Null})
                                                 ELSE known[r]
          /\ known' \in [Pid -> SUBSET Fd]
          BY <1>1, <2>2 DEF TypeOK
    <3>   QED BY <3>1, <3>2
  <2>   QED BY <2>1, <2>2 DEF Given
<1>3. \A r \in Pid : known'[r] \subseteq allocated' /\ (r >= nextPid' => known'[r] = {})
  <2>   SUFFICES ASSUME NEW r \in Pid
                 PROVE  known'[r] \subseteq allocated' /\ (r >= nextPid' => known'[r] = {})
        OBVIOUS
  <2>1. known[r] \subseteq allocated /\ (r >= nextPid => known[r] = {}) /\ r \in Nat
        BY DEF IInv, KnownInv, Pid
  <2>2. r >= nextPid' => r >= nextPid /\ r # p
        BY <1>1, <2>1
  <2>   QED BY <1>2, <2>1, <2>2
<1>4. ASSUME NEW r \in alive' \ lost' PROVE known'[r] \subseteq attached'[r]
  <2>1. r \in Pid \ lost' /\ r \notin lost
        BY <1>2
  <2>2. known[r] \subseteq attached[r]
    <3>1. CASE r \in alive
          BY <2>1, <3>1 DEF IInv, KnownInv
    <3>2. CASE r = nextPid
          BY <1>1, <2>1, <3>2 DEF IInv, KnownInv
    <3>   QED BY <3>1, <3>2
  <2>3. attached[r] \subseteq attached'[r] /\ (r = p => {f} \ {Null} \subseteq attached'[r])
        BY <1>2, <2>1
  <2>   QED BY <1>2, <2>1, <2>2, <2>3
<1>   QED BY <1>2, <1>3, <1>4 DEF KnownInv

\* process_create leaves the state typed and the table extended; the new process
\* alone holds the new pipe.
LEMMA CreateStep ==
    ASSUME IInv, process_create
    PROVE  TypeOK' /\ Extended /\ KnownInv' /\ StdInv' /\ OwnerInv'
<1>1. PICK g \in Grants(1) :
         /\ Started
         /\ fd' = With(fd, g[1], InStream)
         /\ allocated' = allocated \cup Taken(g)
         /\ std' = [std EXCEPT ![nextPid] = NewStd(g[1])]
      BY DEF process_create
<1>2. UNCHANGED <<attached, room, lost, known>>
      BY DEF process_create
<1>3. /\ g[1] = Null \/ (g[1] \in Fd /\ g[1] \notin allocated)
      /\ Taken(g) = {g[1]} \ {Null}
      /\ Taken(g) \subseteq Fd
  <2>1. 1 \in Nat /\ 1 .. 1 = {1}
        OBVIOUS
  <2>   QED BY <2>1, GrantFacts
<1>4. Null \notin Fd /\ void_stream \notin Fd /\ Null # void_stream
      BY StreamsAssumption
<1>5. TypeOK
      BY DEF IInv
<1>6. Extended
  <2>1. fd' = [x \in Fd |-> IF x = g[1] THEN InStream ELSE fd[x]]
        BY <1>1 DEF With
  <2>   QED BY <1>1, <1>3, <1>4, <1>5, <2>1, BlankTypes
           DEF Extended, TypeOK, InStream, Blank, IInv, DescriptorInv
<1>7. /\ nextPid' = nextPid + 1 /\ alive' = alive \cup {nextPid}
      /\ nextPid \in Pid /\ nextPid \notin alive /\ alive \subseteq Pid /\ nextPid \in Nat
      /\ \A p \in Pid : p >= nextPid' => p >= nextPid
      BY <1>1, <1>5, PidFacts DEF Started, Pid
<1>8. /\ \A p \in Pid : std'[p] = IF p = nextPid THEN NewStd(g[1]) ELSE std[p]
      /\ std' \in [Pid -> StdStreams]
      BY <1>1, <1>3, <1>5, <1>7 DEF TypeOK, NewStd, StdStreams, Sinks
<1>9. TypeOK'
      BY <1>1, <1>2, <1>5, <1>6, <1>7, <1>8, PidFacts, StreamsAssumption
         DEF TypeOK, Extended, Started
<1>10. known[nextPid] = {}
      BY <1>7 DEF IInv, KnownInv
<1>11. KnownInv'
      BY <1>2, <1>6, <1>7, <1>10 DEF IInv, KnownInv, Extended
<1>12. g[1] # Null => g[1] \in InStreams'
      BY <1>1, <1>3, <1>4 DEF InStreams, With, InStream, Blank
<1>13. StdInv'
  <2>   SUFFICES ASSUME NEW p \in alive'
                 PROVE  /\ std'[p].stdin \in InStreams' \cup {Null}
                        /\ Drains(std[p].stdout)' /\ Drains(std[p].stderr)'
        BY DEF StdInv
  <2>1. CASE p = nextPid
        BY <1>7, <1>8, <1>12, <2>1 DEF NewStd, Drains
  <2>2. CASE p # nextPid
    <3>1. p \in alive /\ std'[p] = std[p]
          BY <1>7, <1>8, <2>2
    <3>2. /\ std[p].stdin \in InStreams \cup {Null}
          /\ Drains(std[p].stdout) /\ Drains(std[p].stderr)
          BY <3>1 DEF IInv, StdInv
    <3>   QED BY <1>2, <1>6, <3>1, <3>2, DrainsOn, ExtendedStreams DEF Drains
  <2>   QED BY <2>1, <2>2
<1>14. OwnerInv'
  <2>1. ASSUME NEW r \in alive', NEW f \in Fd, std'[r].stdin = f \/ f \in known'[r]
        PROVE  IF r = nextPid THEN f = g[1] ELSE r \in alive /\ f \in allocated /\ Holds(r, f)
    <3>1. CASE r = nextPid
          BY <1>2, <1>7, <1>8, <1>10, <2>1, <3>1 DEF NewStd
    <3>2. CASE r # nextPid
      <4>1. r \in alive /\ std'[r] = std[r] /\ known'[r] = known[r]
            BY <1>2, <1>7, <1>8, <3>2
      <4>   QED BY <1>4, <2>1, <3>2, <4>1, HeldAllocated DEF Holds
    <3>   QED BY <3>1, <3>2
  <2>2. InStreams \subseteq allocated /\ InStreams' \subseteq Fd /\ InStreams \subseteq Fd
        BY <1>5, <1>6 DEF InStreams, Extended, TypeOK
  <2>   QED BY <1>3, <1>4, <1>6, <2>1, <2>2, OwnersApart
<1>   QED BY <1>6, <1>9, <1>11, <1>13, <1>14

\* process_createWithStdout: the new process holds its stdin, the caller the
\* reading end of its stdout.
LEMMA CreateWithStdoutStep ==
    ASSUME IInv, NEW p \in Pid, process_createWithStdout(p)
    PROVE  TypeOK' /\ Extended /\ KnownInv' /\ StdInv' /\ OwnerInv'
<1>1. PICK g \in Grants(3) :
         /\ Started
         /\ fd' = With(With(With(fd, g[1], InStream), g[2], InStream), g[3], OutStream(g[2]))
         /\ allocated' = allocated \cup Taken(g)
         /\ std' = [std EXCEPT ![nextPid] = [NewStd(g[1]) EXCEPT !.stdout = g[3]]]
         /\ Given(p, g[2])
      BY DEF process_createWithStdout
<1>2. p \in alive
      BY DEF process_createWithStdout
<1>3. /\ \A i \in 1 .. 3 : g[i] = Null \/ (g[i] \in Fd /\ g[i] \notin allocated)
      /\ g[1] # Null => g[1] # g[2] /\ g[1] # g[3]
      /\ g[2] # Null => g[2] # g[3]
      /\ g[3] # Null => g[2] # Null
      /\ Taken(g) = {g[1], g[2], g[3]} \ {Null}
      /\ Taken(g) \subseteq Fd
  <2>1. 3 \in Nat /\ 1 .. 3 = {1, 2, 3}
        OBVIOUS
  <2>2. /\ \A i \in 1 .. 3 : g[i] = Null \/ (g[i] \in Fd /\ g[i] \notin allocated)
        /\ \A i, j \in 1 .. 3 : i # j /\ g[i] # Null => g[i] # g[j]
        /\ \A i, j \in 1 .. 3 : i < j /\ g[j] # Null => g[i] # Null
        /\ Taken(g) = {g[i] : i \in 1 .. 3} \ {Null}
        /\ Taken(g) \subseteq Fd
        BY <2>1, GrantFacts
  <2>   QED BY <2>1, <2>2
<1>4. Null \notin Fd /\ void_stream \notin Fd /\ Null # void_stream
      BY StreamsAssumption
<1>5. TypeOK
      BY DEF IInv
<1>6. fd' = [x \in Fd |-> IF x = g[3] THEN OutStream(g[2])
                          ELSE IF x = g[2] \/ x = g[1] THEN InStream ELSE fd[x]]
      BY <1>1 DEF With
<1>7. g[2] # Null => g[2] \in InStreams'
      BY <1>1, <1>3, <1>6 DEF InStreams, InStream, Blank
<1>8. g[1] # Null => g[1] \in InStreams'
      BY <1>1, <1>3, <1>6 DEF InStreams, InStream, Blank
<1>9. g[3] # Null => fd'[g[3]] = Blank(FD_OUT_STREAM, g[2])
      BY <1>3, <1>6 DEF OutStream
<1>10. Extended
  <2>1. fd' \in [Fd -> Descriptor]
        BY <1>3, <1>5, <1>6, BlankTypes DEF TypeOK
  <2>2. \A f \in Fd \ allocated : fd[f].type = FD_RW_FBUFFER
        BY DEF IInv, DescriptorInv
  <2>3. \A f \in allocated : f \in Fd /\ fd'[f] = fd[f]
        BY <1>3, <1>4, <1>5, <1>6 DEF TypeOK
  <2>4. ASSUME NEW f \in allocated', f \notin allocated
        PROVE  fd'[f] = InStream \/ (g[2] \in InStreams' /\ fd'[f] = Blank(FD_OUT_STREAM, g[2]))
        BY <1>1, <1>3, <1>6, <1>7, <1>9, <2>4
  <2>5. allocated \subseteq allocated' /\ allocated' \subseteq Fd
        BY <1>1, <1>3, <1>5 DEF TypeOK
  <2>6. \A f \in Fd \ allocated' : fd'[f].type = FD_RW_FBUFFER
        BY <1>1, <1>3, <1>4, <1>6, <2>2
  <2>   QED BY <2>1, <2>3, <2>4, <2>5, <2>6 DEF Extended
<1>11. /\ nextPid' = nextPid + 1 /\ alive' = alive \cup {nextPid}
       /\ nextPid \in Pid /\ nextPid \notin alive /\ alive \subseteq Pid /\ nextPid \in Nat
       /\ nextPid <= nextPid' /\ nextPid' \in Nat /\ alive' \subseteq Pid
      BY <1>1, <1>5, PidFacts DEF Started, Pid
<1>12. /\ \A q \in Pid : std'[q] = IF q = nextPid
                                   THEN [stdin |-> g[1], stdout |-> g[3], stderr |-> void_stream]
                                   ELSE std[q]
       /\ std' \in [Pid -> StdStreams]
  <2>1. [NewStd(g[1]) EXCEPT !.stdout = g[3]]
           = [stdin |-> g[1], stdout |-> g[3], stderr |-> void_stream]
        BY DEF NewStd
  <2>2. [stdin |-> g[1], stdout |-> g[3], stderr |-> void_stream] \in StdStreams
        BY <1>3 DEF StdStreams, Sinks
  <2>   QED BY <1>1, <1>5, <1>11, <2>1, <2>2 DEF TypeOK
<1>13. /\ attached' \in [Pid -> SUBSET Fd] /\ known' \in [Pid -> SUBSET Fd]
       /\ room' \in [Pid -> Nat] /\ lost' \in SUBSET Pid
       /\ \A r \in Pid : known'[r] = IF r = p THEN known[r] \cup ({g[2]} \ {Null})
                                              ELSE known[r]
       /\ KnownInv'
  <2>1. g[2] # Null => g[2] \in allocated'
        BY <1>1, <1>3
  <2>2. g[2] = Null \/ (g[2] \in Fd /\ g[2] \notin allocated)
        BY <1>3
  <2>3. allocated \subseteq allocated' /\ alive' \subseteq alive \cup {nextPid}
        BY <1>10, <1>11 DEF Extended
  <2>4. Given(p, g[2])
        BY <1>1
  <2>   QED BY <1>2, <1>11, <2>1, <2>2, <2>3, <2>4, GivenKeeps
<1>14. TypeOK'
      BY <1>5, <1>10, <1>11, <1>12, <1>13, <1>1, PidFacts, StreamsAssumption
         DEF TypeOK, Extended, Started
<1>15. known[nextPid] = {} /\ p # nextPid
      BY <1>2, <1>11 DEF IInv, KnownInv
<1>16. StdInv'
  <2>   SUFFICES ASSUME NEW q \in alive'
                 PROVE  /\ std'[q].stdin \in InStreams' \cup {Null}
                        /\ Drains(std[q].stdout)' /\ Drains(std[q].stderr)'
        BY DEF StdInv
  <2>1. CASE q = nextPid
    <3>1. g[3] # Null => /\ g[3] \in allocated' /\ fd'[g[3]].type = FD_OUT_STREAM
                         /\ fd'[g[3]].pipe = g[2] /\ g[2] \in known'[p]
          BY <1>1, <1>2, <1>3, <1>9, <1>13 DEF Blank
    <3>   QED BY <1>3, <1>7, <1>8, <1>11, <1>12, <2>1, <3>1 DEF Drains
  <2>2. CASE q # nextPid
    <3>1. q \in alive /\ std'[q] = std[q]
          BY <1>11, <1>12, <2>2
    <3>2. /\ std[q].stdin \in InStreams \cup {Null}
          /\ Drains(std[q].stdout) /\ Drains(std[q].stderr)
          BY <3>1 DEF IInv, StdInv
    <3>   QED BY <1>10, <1>13, <3>1, <3>2, DrainsOn, ExtendedStreams DEF Drains
  <2>   QED BY <2>1, <2>2
<1>17. OwnerInv'
  <2>1. ASSUME NEW r \in alive', NEW f \in Fd, std'[r].stdin = f \/ f \in known'[r]
        PROVE  \/ r = nextPid /\ f = g[1]
               \/ r = p /\ f = g[2]
               \/ r \in alive /\ f \in allocated /\ Holds(r, f)
    <3>1. CASE r = nextPid
      <4>1. std'[r].stdin = g[1]
            BY <1>11, <1>12, <3>1
      <4>2. known'[r] = {}
            BY <1>11, <1>13, <1>15, <3>1
      <4>   QED BY <2>1, <3>1, <4>1, <4>2
    <3>2. CASE r # nextPid
      <4>1. r \in alive /\ std'[r] = std[r] /\ r \in Pid
            BY <1>11, <1>12, <3>2
      <4>   QED BY <1>4, <1>13, <2>1, <4>1, HeldAllocated DEF Holds
    <3>   QED BY <3>1, <3>2
  <2>2. InStreams \subseteq allocated /\ InStreams' \subseteq Fd /\ InStreams \subseteq Fd
        BY <1>5, <1>10 DEF InStreams, Extended, TypeOK
  <2>   QED BY <1>3, <1>4, <1>10, <2>1, <2>2, OwnersApart
<1>   QED BY <1>10, <1>13, <1>14, <1>16, <1>17

\* process_getStdin: the caller gets the writing end of a pipe that is there, or of
\* nothing.
LEMMA GetStdinStep ==
    ASSUME IInv, NEW p \in Pid, NEW q \in Pid, process_getStdin(p, q)
    PROVE  TypeOK' /\ Extended /\ KnownInv' /\ StdInv' /\ OwnerInv'
<1>1. PICK g \in Grants(1) :
         /\ fd' = With(fd, g[1], OutStream(std[q].stdin))
         /\ allocated' = allocated \cup Taken(g)
         /\ Given(p, g[1])
      BY DEF process_getStdin
<1>2. p \in alive /\ q \in alive /\ nextPid' = nextPid /\ alive' = alive /\ std' = std
      BY DEF process_getStdin
<1>3. /\ g[1] = Null \/ (g[1] \in Fd /\ g[1] \notin allocated)
      /\ Taken(g) = {g[1]} \ {Null}
      /\ Taken(g) \subseteq Fd
  <2>1. 1 \in Nat /\ 1 .. 1 = {1}
        OBVIOUS
  <2>   QED BY <2>1, GrantFacts
<1>4. Null \notin Fd /\ void_stream \notin Fd /\ Null # void_stream
      BY StreamsAssumption
<1>5. TypeOK
      BY DEF IInv
<1>6. PICK sink \in InStreams \cup {void_stream} :
         OutStream(std[q].stdin) = Blank(FD_OUT_STREAM, sink)
  <2>1. std[q].stdin \in InStreams \cup {Null}
        BY <1>2 DEF IInv, StdInv
  <2>   QED BY <2>1 DEF OutStream
<1>7. fd' = [x \in Fd |-> IF x = g[1] THEN Blank(FD_OUT_STREAM, sink) ELSE fd[x]]
      BY <1>1, <1>6 DEF With
<1>8. Extended
  <2>1. fd' \in [Fd -> Descriptor]
    <3>1. Blank(FD_OUT_STREAM, sink) \in Descriptor
          BY <1>4, <1>5, <1>6, BlankTypes DEF OutStream, InStreams, TypeOK
    <3>   QED BY <1>5, <1>7, <3>1 DEF TypeOK
  <2>2. \A f \in Fd \ allocated : fd[f].type = FD_RW_FBUFFER
        BY DEF IInv, DescriptorInv
  <2>3. \A f \in allocated : f \in Fd /\ fd'[f] = fd[f]
        BY <1>3, <1>4, <1>5, <1>7 DEF TypeOK
  <2>4. allocated \subseteq allocated' /\ allocated' \subseteq Fd
        BY <1>1, <1>3, <1>5 DEF TypeOK
  <2>5. sink \in InStreams' \cup {void_stream}
        BY <1>6, <2>3, <2>4 DEF InStreams
  <2>6. ASSUME NEW f \in allocated', f \notin allocated
        PROVE  fd'[f] = Blank(FD_OUT_STREAM, sink)
    <3>1. f = g[1] /\ f \in Fd
          BY <1>1, <1>3, <2>6
    <3>   QED BY <1>7, <3>1
  <2>7. \A f \in Fd \ allocated' : fd'[f].type = FD_RW_FBUFFER
        BY <1>1, <1>3, <1>4, <1>7, <2>2
  <2>   QED BY <2>1, <2>3, <2>4, <2>5, <2>6, <2>7 DEF Extended
<1>9. /\ attached' \in [Pid -> SUBSET Fd] /\ known' \in [Pid -> SUBSET Fd]
      /\ room' \in [Pid -> Nat] /\ lost' \in SUBSET Pid
      /\ \A r \in Pid : known'[r] = IF r = p THEN known[r] \cup ({g[1]} \ {Null})
                                             ELSE known[r]
      /\ KnownInv'
  <2>1. g[1] # Null => g[1] \in allocated'
        BY <1>1, <1>3
  <2>2. allocated \subseteq allocated'
        BY <1>8 DEF Extended
  <2>3. /\ nextPid' \in Nat /\ nextPid <= nextPid' /\ alive' \subseteq alive \cup {nextPid}
        /\ alive' \subseteq Pid
        BY <1>2, <1>5, PidFacts
  <2>4. Given(p, g[1])
        BY <1>1
  <2>   QED BY <1>2, <1>3, <2>1, <2>2, <2>3, <2>4, GivenKeeps
<1>10. TypeOK'
      BY <1>2, <1>5, <1>8, <1>9 DEF TypeOK, Extended
<1>11. StdInv'
  <2>   SUFFICES ASSUME NEW r \in alive
                 PROVE  /\ std'[r].stdin \in InStreams' \cup {Null}
                        /\ Drains(std[r].stdout)' /\ Drains(std[r].stderr)'
        BY <1>2 DEF StdInv
  <2>1. /\ std[r].stdin \in InStreams \cup {Null}
        /\ Drains(std[r].stdout) /\ Drains(std[r].stderr)
        BY DEF IInv, StdInv
  <2>   QED BY <1>2, <1>8, <1>9, <2>1, DrainsOn, ExtendedStreams DEF Drains
<1>12. OwnerInv'
  <2>1. g[1] # Null => g[1] \notin InStreams'
        BY <1>3, <1>7 DEF InStreams, Blank, FD_IN_STREAM, FD_OUT_STREAM
  <2>2. ASSUME NEW r \in alive', NEW f \in InStreams', std'[r].stdin = f \/ f \in known'[r]
        PROVE  r \in alive /\ f \in allocated /\ Holds(r, f)
    <3>1. r \in alive /\ std'[r] = std[r] /\ r \in Pid
          BY <1>2, <1>5, PidFacts
    <3>2. f \in Fd /\ f # Null /\ f # g[1]
          BY <1>4, <1>8, <2>1 DEF InStreams, Extended
    <3>   QED BY <1>9, <2>2, <3>1, <3>2, HeldAllocated DEF Holds
  <2>   QED BY <1>8, <2>2, ExtendedStreams, OwnersApart
<1>   QED BY <1>8, <1>9, <1>10, <1>11, <1>12

\* process_getStdout: the caller holds the new sink, and the process writes to it.
LEMMA GetStdoutStep ==
    ASSUME IInv, NEW p \in Pid, NEW q \in Pid, NEW s, process_getStdout(p, q, s)
    PROVE  TypeOK' /\ Extended /\ KnownInv' /\ StdInv' /\ OwnerInv'
<1>1. PICK g \in Grants(2) :
         /\ fd' = With(With(fd, g[1], InStream), g[2], OutStream(g[1]))
         /\ allocated' = allocated \cup Taken(g)
         /\ std' = Redirected(q, s, g[2])
         /\ Given(p, g[1])
      BY DEF process_getStdout
<1>2. p \in alive /\ q \in alive /\ nextPid' = nextPid /\ alive' = alive
      BY DEF process_getStdout
<1>3. /\ g[1] = Null \/ (g[1] \in Fd /\ g[1] \notin allocated)
      /\ g[2] = Null \/ (g[2] \in Fd /\ g[2] \notin allocated)
      /\ g[1] # Null => g[1] # g[2]
      /\ g[2] # Null => g[1] # Null
      /\ Taken(g) = {g[1], g[2]} \ {Null}
      /\ Taken(g) \subseteq Fd
  <2>1. 2 \in Nat /\ 1 .. 2 = {1, 2}
        OBVIOUS
  <2>2. /\ \A i \in 1 .. 2 : g[i] = Null \/ (g[i] \in Fd /\ g[i] \notin allocated)
        /\ \A i, j \in 1 .. 2 : i # j /\ g[i] # Null => g[i] # g[j]
        /\ \A i, j \in 1 .. 2 : i < j /\ g[j] # Null => g[i] # Null
        /\ Taken(g) = {g[i] : i \in 1 .. 2} \ {Null}
        /\ Taken(g) \subseteq Fd
        BY <2>1, GrantFacts
  <2>   QED BY <2>1, <2>2
<1>4. Null \notin Fd /\ void_stream \notin Fd /\ Null # void_stream
      BY StreamsAssumption
<1>5. TypeOK /\ q \in Pid
      BY DEF IInv
<1>6. fd' = [x \in Fd |-> IF x = g[2] THEN OutStream(g[1])
                          ELSE IF x = g[1] THEN InStream ELSE fd[x]]
      BY <1>1 DEF With
<1>7. g[1] # Null => g[1] \in InStreams'
      BY <1>1, <1>3, <1>6 DEF InStreams, InStream, Blank
<1>8. g[2] # Null => fd'[g[2]] = Blank(FD_OUT_STREAM, g[1])
      BY <1>3, <1>6 DEF OutStream
<1>9. Extended
  <2>1. fd' \in [Fd -> Descriptor]
        BY <1>3, <1>5, <1>6, BlankTypes DEF TypeOK
  <2>2. \A f \in Fd \ allocated : fd[f].type = FD_RW_FBUFFER
        BY DEF IInv, DescriptorInv
  <2>3. \A f \in allocated : f \in Fd /\ fd'[f] = fd[f]
        BY <1>3, <1>4, <1>5, <1>6 DEF TypeOK
  <2>4. ASSUME NEW f \in allocated', f \notin allocated
        PROVE  fd'[f] = InStream \/ (g[1] \in InStreams' /\ fd'[f] = Blank(FD_OUT_STREAM, g[1]))
        BY <1>1, <1>3, <1>6, <1>7, <1>8, <2>4
  <2>5. allocated \subseteq allocated' /\ allocated' \subseteq Fd
        BY <1>1, <1>3, <1>5 DEF TypeOK
  <2>6. \A f \in Fd \ allocated' : fd'[f].type = FD_RW_FBUFFER
        BY <1>1, <1>3, <1>4, <1>6, <2>2
  <2>   QED BY <2>1, <2>3, <2>4, <2>5, <2>6 DEF Extended
<1>10. /\ std' \in [Pid -> StdStreams]
       /\ \A r \in Pid : /\ std'[r].stdin = std[r].stdin
                         /\ std'[r].stdout \in {std[r].stdout, g[2]}
                         /\ std'[r].stderr \in {std[r].stderr, g[2]}
  <2>1. \A r \in Pid : std[r] \in StdStreams
        BY <1>5 DEF TypeOK
  <2>2. \A r \in Pid : std'[r] = IF r # q THEN std[r]
                                 ELSE IF s = STDOUT THEN [std[q] EXCEPT !.stdout = g[2]]
                                                    ELSE [std[q] EXCEPT !.stderr = g[2]]
        BY <1>1, <1>5 DEF Redirected, TypeOK
  <2>3. /\ [std[q] EXCEPT !.stdout = g[2]] = [stdin |-> std[q].stdin, stdout |-> g[2],
                                              stderr |-> std[q].stderr]
        /\ [std[q] EXCEPT !.stderr = g[2]] = [stdin |-> std[q].stdin,
                                              stdout |-> std[q].stdout, stderr |-> g[2]]
        BY <1>5, <2>1 DEF StdStreams
  <2>4. g[2] \in Sinks
        BY <1>3 DEF Sinks
  <2>5. ASSUME NEW r \in Pid
        PROVE  /\ std'[r] \in StdStreams
               /\ std'[r].stdin = std[r].stdin
               /\ std'[r].stdout \in {std[r].stdout, g[2]}
               /\ std'[r].stderr \in {std[r].stderr, g[2]}
        BY <1>5, <2>1, <2>2, <2>3, <2>4 DEF StdStreams
  <2>6. std' = [r \in Pid |-> std'[r]]
        BY <1>1, <1>5 DEF Redirected, TypeOK
  <2>   QED BY <2>5, <2>6
<1>11. /\ attached' \in [Pid -> SUBSET Fd] /\ known' \in [Pid -> SUBSET Fd]
       /\ room' \in [Pid -> Nat] /\ lost' \in SUBSET Pid
       /\ \A r \in Pid : known'[r] = IF r = p THEN known[r] \cup ({g[1]} \ {Null})
                                              ELSE known[r]
       /\ KnownInv'
  <2>1. g[1] # Null => g[1] \in allocated'
        BY <1>1, <1>3
  <2>2. allocated \subseteq allocated'
        BY <1>9 DEF Extended
  <2>3. /\ nextPid' \in Nat /\ nextPid <= nextPid' /\ alive' \subseteq alive \cup {nextPid}
        /\ alive' \subseteq Pid
        BY <1>2, <1>5, PidFacts
  <2>4. Given(p, g[1]) /\ (g[1] = Null \/ (g[1] \in Fd /\ g[1] \notin allocated))
        BY <1>1, <1>3
  <2>   QED BY <1>2, <2>1, <2>2, <2>3, <2>4, GivenKeeps
<1>12. TypeOK'
      BY <1>2, <1>5, <1>9, <1>10, <1>11 DEF TypeOK, Extended
<1>13. StdInv'
  <2>   SUFFICES ASSUME NEW r \in alive
                 PROVE  /\ std'[r].stdin \in InStreams' \cup {Null}
                        /\ Drains(std[r].stdout)' /\ Drains(std[r].stderr)'
        BY <1>2 DEF StdInv
  <2>1. /\ std[r].stdin \in InStreams \cup {Null} /\ r \in Pid
        /\ Drains(std[r].stdout) /\ Drains(std[r].stderr)
        BY <1>5, PidFacts DEF IInv, StdInv
  <2>2. g[2] # Null => /\ g[2] \in allocated' /\ fd'[g[2]].type = FD_OUT_STREAM
                       /\ fd'[g[2]].pipe = g[1] /\ g[1] \in InStreams' /\ g[1] \in known'[p]
        BY <1>1, <1>2, <1>3, <1>7, <1>8, <1>11 DEF Blank
  <2>3. std'[r].stdin = std[r].stdin
        BY <1>10, <2>1
  <2>4. Drains(std[r].stdout)'
    <3>1. CASE std'[r].stdout = g[2]
          BY <2>2, <3>1 DEF Drains
    <3>2. CASE std'[r].stdout = std[r].stdout
          BY <1>9, <1>11, <2>1, <3>2, DrainsOn DEF Drains
    <3>   QED BY <1>10, <2>1, <3>1, <3>2
  <2>5. Drains(std[r].stderr)'
    <3>1. CASE std'[r].stderr = g[2]
          BY <2>2, <3>1 DEF Drains
    <3>2. CASE std'[r].stderr = std[r].stderr
          BY <1>9, <1>11, <2>1, <3>2, DrainsOn DEF Drains
    <3>   QED BY <1>10, <2>1, <3>1, <3>2
  <2>   QED BY <1>9, <2>1, <2>3, <2>4, <2>5, ExtendedStreams
<1>14. OwnerInv'
  <2>1. ASSUME NEW r \in alive', NEW f \in Fd, std'[r].stdin = f \/ f \in known'[r]
        PROVE  \/ r = p /\ f = g[1]
               \/ r \in alive /\ f \in allocated /\ Holds(r, f)
    <3>1. r \in alive /\ r \in Pid /\ std'[r].stdin = std[r].stdin
          BY <1>2, <1>5, <1>10, PidFacts
    <3>   QED BY <1>4, <1>11, <2>1, <3>1, HeldAllocated DEF Holds
  <2>2. InStreams \subseteq allocated /\ InStreams' \subseteq Fd /\ InStreams \subseteq Fd
        BY <1>5, <1>9 DEF InStreams, Extended, TypeOK
  <2>   QED BY <1>3, <1>4, <1>9, <2>1, <2>2, OwnersApart
<1>   QED BY <1>9, <1>11, <1>12, <1>13, <1>14

\* open: a descriptor that no program was given is made, attached and freed.
LEMMA OpenStep ==
    ASSUME IInv, NEW p \in Pid, open(p)
    PROVE  TypeOK' /\ Extended /\ KnownInv' /\ StdInv' /\ OwnerInv'
<1>1. PICK f \in Fd \ allocated :
         /\ fd' = With(fd, f, Framebuffer)
         /\ attach(p, f)
         /\ known' = [known EXCEPT ![p] = @ \cup OpenAnswer(f)]
      BY DEF open
<1>2. p \in alive /\ UNCHANGED <<allocated, nextPid, alive, std>>
      BY DEF open
<1>3. TypeOK
      BY DEF IInv
<1>4. known' = known
      BY <1>1, <1>3 DEF OpenAnswer, TypeOK
<1>5. /\ attached' \in [Pid -> SUBSET Fd]
      /\ room' \in [Pid -> Nat] /\ lost' \in SUBSET Pid /\ lost \subseteq lost'
      /\ \A r \in Pid \ lost' : attached[r] \subseteq attached'[r]
  <2>1. f \in Fd /\ attach(p, f)
        BY <1>1
  <2>   QED BY <1>3, <2>1, AttachFacts
<1>6. Extended
  <2>1. fd' = [x \in Fd |-> IF x = f THEN Framebuffer ELSE fd[x]]
        BY <1>1 DEF With
  <2>   QED BY <1>2, <1>3, <2>1, BlankTypes
           DEF Extended, TypeOK, Framebuffer, Blank, IInv, DescriptorInv
<1>7. TypeOK'
      BY <1>2, <1>3, <1>4, <1>5, <1>6 DEF TypeOK, Extended
<1>8. KnownInv'
      BY <1>2, <1>3, <1>4, <1>5, PidFacts DEF IInv, KnownInv
<1>9. StdInv'
  <2>   SUFFICES ASSUME NEW r \in alive
                 PROVE  /\ std'[r].stdin \in InStreams' \cup {Null}
                        /\ Drains(std[r].stdout)' /\ Drains(std[r].stderr)'
        BY <1>2 DEF StdInv
  <2>1. /\ std[r].stdin \in InStreams \cup {Null}
        /\ Drains(std[r].stdout) /\ Drains(std[r].stderr)
        BY DEF IInv, StdInv
  <2>   QED BY <1>2, <1>4, <1>6, <2>1, DrainsOn, ExtendedStreams DEF Drains
<1>10. OwnerInv'
  <2>1. InStreams' \subseteq allocated
        BY <1>2 DEF InStreams
  <2>   QED BY <1>2, <1>4, <1>6, <2>1, OwnersApart DEF Holds
<1>   QED BY <1>6, <1>7, <1>8, <1>9, <1>10

\* exit: what the process held is held by nobody.
LEMMA ExitStep ==
    ASSUME IInv, NEW p \in Pid, exit(p)
    PROVE  TypeOK' /\ Extended /\ KnownInv' /\ StdInv' /\ OwnerInv'
<1>1. /\ p \in alive /\ alive' = alive \ {p}
      /\ attached' = [attached EXCEPT ![p] = {}]
      /\ room' = [room EXCEPT ![p] = FirstRoom] /\ lost' = lost \ {p}
      /\ std' = [std EXCEPT ![p] = NewStd(Null)]
      /\ UNCHANGED <<fd, allocated, nextPid, known>>
      BY DEF exit
<1>2. TypeOK
      BY DEF IInv
<1>3. \A r \in alive' : r \in Pid /\ r \in alive /\ std'[r] = std[r] /\ attached'[r] = attached[r]
      BY <1>1, <1>2, PidFacts DEF TypeOK
<1>4. Extended
      BY <1>1, <1>2 DEF Extended, IInv, DescriptorInv, TypeOK
<1>5. TypeOK'
  <2>1. NewStd(Null) \in StdStreams
        BY DEF NewStd, StdStreams, Sinks
  <2>   QED BY <1>1, <1>2, <2>1, StreamsAssumption DEF TypeOK
<1>6. KnownInv'
      BY <1>1, <1>3 DEF IInv, KnownInv
<1>7. InStreams' = InStreams
      BY <1>1 DEF InStreams
<1>8. StdInv'
  <2>   SUFFICES ASSUME NEW r \in alive'
                 PROVE  /\ std'[r].stdin \in InStreams' \cup {Null}
                        /\ Drains(std[r].stdout)' /\ Drains(std[r].stderr)'
        BY DEF StdInv
  <2>1. /\ std[r].stdin \in InStreams \cup {Null}
        /\ Drains(std[r].stdout) /\ Drains(std[r].stderr)
        BY <1>3 DEF IInv, StdInv
  <2>   QED BY <1>1, <1>3, <1>7, <2>1 DEF Drains
<1>9. OwnerInv'
      BY <1>1, <1>3, <1>7 DEF IInv, OwnerInv, Holds
<1>   QED BY <1>4, <1>5, <1>6, <1>8, <1>9

-------------------------------------------------------------------------------
(* Reads and writes *)

\* A transfer changes one pipe, f, which goes on being one: its block and its count.
Transferred(f, d) ==
    /\ f \in InStreams /\ fd' = [fd EXCEPT ![f] = d]
    /\ d \in Descriptor /\ d.type = fd[f].type /\ d.buffer_size <= Len(d.buffer)

\* A transfer, or a call that only answers, keeps the invariant.
LEMMA TransferKeeps ==
    ASSUME IInv, UNCHANGED <<allocated, nextPid, alive, std, attached, room, lost, known>>,
           UNCHANGED fd \/ \E f \in Fd, d \in Descriptor : Transferred(f, d)
    PROVE  IInv' /\ InStreams' = InStreams
<1>1. TypeOK
      BY DEF IInv
<1>2. CASE UNCHANGED fd
      BY <1>2 DEF IInv, TypeOK, DescriptorInv, KnownInv, StdInv, OwnerInv, WithinBlock,
                  IsIn, IsOut, InStreams, Drains, Holds
<1>3. ASSUME NEW f \in Fd, NEW d \in Descriptor, Transferred(f, d)
      PROVE  IInv' /\ InStreams' = InStreams
  <2>1. /\ fd' = [fd EXCEPT ![f] = d] /\ f \in InStreams
        /\ d.type = FD_IN_STREAM /\ fd[f].type = FD_IN_STREAM
        /\ d.buffer_size <= Len(d.buffer)
        BY <1>3 DEF Transferred, InStreams
  <2>2. \A x \in Fd : fd'[x] = IF x = f THEN d ELSE fd[x]
        BY <1>1, <2>1 DEF TypeOK
  <2>3. InStreams' = InStreams
        BY <1>1, <2>1, <2>2 DEF InStreams, TypeOK
  <2>4. TypeOK'
        BY <1>1, <2>1 DEF TypeOK
  <2>5. \A x \in Fd : fd[x].type = FD_OUT_STREAM \/ fd[x].type = FD_RW_FBUFFER => x # f
        BY <2>1 DEF FD_IN_STREAM, FD_OUT_STREAM, FD_RW_FBUFFER
  <2>6. DescriptorInv'
    <3>   SUFFICES ASSUME NEW x \in Fd
                   PROVE  IF x \in allocated
                          THEN \/ fd'[x].type = FD_IN_STREAM
                               \/ /\ fd'[x].type = FD_OUT_STREAM
                                  /\ fd'[x].pipe \in InStreams \cup {void_stream}
                          ELSE fd'[x].type = FD_RW_FBUFFER
          BY <2>3 DEF DescriptorInv, IsIn, IsOut
    <3>1. IF x \in allocated
          THEN \/ fd[x].type = FD_IN_STREAM
               \/ fd[x].type = FD_OUT_STREAM /\ fd[x].pipe \in InStreams \cup {void_stream}
          ELSE fd[x].type = FD_RW_FBUFFER
          BY DEF IInv, DescriptorInv, IsIn, IsOut
    <3>2. CASE x = f
          BY <2>1, <2>2, <3>2 DEF InStreams
    <3>3. CASE x # f
          BY <2>2, <3>1, <3>3
    <3>   QED BY <3>2, <3>3
  <2>7. KnownInv' /\ OwnerInv'
        BY <2>3 DEF IInv, KnownInv, OwnerInv, Holds
  <2>8. StdInv'
    <3>   SUFFICES ASSUME NEW r \in alive
                   PROVE  /\ std'[r].stdin \in InStreams' \cup {Null}
                          /\ Drains(std[r].stdout)' /\ Drains(std[r].stderr)'
          BY DEF StdInv
    <3>1. /\ std[r].stdin \in InStreams \cup {Null}
          /\ Drains(std[r].stdout) /\ Drains(std[r].stderr)
          BY DEF IInv, StdInv
    <3>   QED BY <1>1, <2>2, <2>3, <2>5, <3>1 DEF Drains, TypeOK
  <2>9. WithinBlock'
    <3>   SUFFICES ASSUME NEW x \in InStreams
                   PROVE  fd'[x].buffer_size <= Len(fd'[x].buffer)
          BY <2>3 DEF WithinBlock
    <3>   QED BY <1>1, <2>1, <2>2 DEF IInv, WithinBlock, InStreams, TypeOK
  <2>   QED BY <2>3, <2>4, <2>6, <2>7, <2>8, <2>9 DEF IInv
<1>   QED BY <1>2, <1>3

\* Reads and writes act on pipes that were handed out.
LEMMA InIsStream ==
    ASSUME IInv, NEW f, IsIn(f)
    PROVE  /\ f \in InStreams /\ f \in Fd /\ fd[f] \in Descriptor
           /\ fd[f].buffer_size \in Nat /\ fd[f].buffer_size <= Len(fd[f].buffer)
           /\ fd[f].buffer \in Seq(Data) /\ Len(fd[f].buffer) \in Nat
<1>1. f \in Fd /\ fd[f].type = FD_IN_STREAM
      BY DEF IsIn
<1>2. f \in InStreams
      BY <1>1 DEF IInv, DescriptorInv, InStreams, FD_IN_STREAM, FD_RW_FBUFFER
<1>3. fd[f] \in Descriptor
      BY <1>1 DEF IInv, TypeOK
<1>   QED BY <1>1, <1>2, <1>3, LenProperties DEF IInv, WithinBlock, Descriptor

\* A read takes the oldest k bytes that count out of one pipe, or does nothing.
LEMMA ReadStep ==
    ASSUME IInv, NEW p \in Pid, NEW h, NEW n \in 1 .. MaxCall, read(p, h, n)
    PROVE  /\ UNCHANGED <<allocated, nextPid, alive, std, attached, room, lost, known>>
           /\ \/ Silent /\ UNCHANGED fd
              \/ \E f \in InStreams : \E k \in 0 .. fd[f].buffer_size :
                    /\ k = IF n < fd[f].buffer_size THEN n ELSE fd[f].buffer_size
                    /\ Transferred(f, Drained(fd[f], k))
                    /\ Transfer("read", f, SubSeq(fd[f].buffer, 1, k), k)
<1>1. UNCHANGED <<allocated, nextPid, alive, std, attached, room, lost, known>>
      BY DEF read
<1>2. CASE Silent /\ UNCHANGED fd
      BY <1>1, <1>2
<1>3. ASSUME NEW f, IsIn(f),
             fd' = [fd EXCEPT ![f] = Drained(@, Available(f, n))],
             Transfer("read", f, SubSeq(fd[f].buffer, 1, Available(f, n)), Available(f, n))
      PROVE  \E x \in InStreams : \E k \in 0 .. fd[x].buffer_size :
                /\ k = IF n < fd[x].buffer_size THEN n ELSE fd[x].buffer_size
                /\ Transferred(x, Drained(fd[x], k))
                /\ Transfer("read", x, SubSeq(fd[x].buffer, 1, k), k)
  <2>2. PICK k : k = Available(f, n)
        OBVIOUS
  <2>3. /\ fd' = [fd EXCEPT ![f] = Drained(fd[f], k)]
        /\ Transfer("read", f, SubSeq(fd[f].buffer, 1, k), k)
        BY <1>3, <2>2
  <2>4. /\ f \in InStreams /\ f \in Fd /\ fd[f] \in Descriptor
        /\ fd[f].buffer_size \in Nat /\ fd[f].buffer_size <= Len(fd[f].buffer)
        BY <1>3, InIsStream
  <2>5. /\ k \in 0 .. fd[f].buffer_size
        /\ k = IF n < fd[f].buffer_size THEN n ELSE fd[f].buffer_size
        BY <2>2, <2>4, StreamsAssumption DEF Available
  <2>6. Transferred(f, Drained(fd[f], k))
        BY <2>3, <2>4, <2>5, DrainedCounts DEF Transferred
  <2>   QED BY <2>3, <2>4, <2>5, <2>6
<1>   QED BY <1>1, <1>2, <1>3 DEF read

\* A write appends all its bytes to one pipe, is refused by it, or does nothing.
LEMMA WriteStep ==
    ASSUME IInv, NEW p \in Pid, NEW h, NEW d \in Bytes, write(p, h, d)
    PROVE  /\ UNCHANGED <<allocated, nextPid, alive, std, attached, room, lost, known>>
           /\ \/ Silent /\ UNCHANGED fd
              \/ \E f \in InStreams : UNCHANGED fd /\ Transfer("write", f, d, 0)
              \/ \E f \in InStreams : /\ Transferred(f, Filled(fd[f], d))
                                      /\ Transfer("write", f, d, Len(d))
<1>1. UNCHANGED <<allocated, nextPid, alive, std, attached, room, lost, known>>
      BY DEF write
<1>2. CASE Silent /\ UNCHANGED fd
      BY <1>1, <1>2
<1>3. ASSUME NEW f, IsIn(f), WriteTo(f, d)
      PROVE  \/ \E x \in InStreams : UNCHANGED fd /\ Transfer("write", x, d, 0)
             \/ \E x \in InStreams : /\ Transferred(x, Filled(fd[x], d))
                                     /\ Transfer("write", x, d, Len(d))
  <2>2. /\ f \in InStreams /\ f \in Fd /\ fd[f] \in Descriptor
        /\ fd[f].buffer_size \in Nat /\ fd[f].buffer_size <= Len(fd[f].buffer)
        BY <1>3, InIsStream
  <2>3. d \in Seq(Data)
    <3>1. PICK k \in 1 .. MaxCall : d \in [1 .. k -> Data]
          BY DEF Bytes
    <3>2. k \in Nat
          BY StreamsAssumption
    <3>   QED BY <3>1, <3>2, SeqDef
  <2>4. \/ UNCHANGED fd /\ Transfer("write", f, d, 0)
        \/ fd' = [fd EXCEPT ![f] = Filled(fd[f], d)] /\ Transfer("write", f, d, Len(d))
        BY <1>3 DEF WriteTo
  <2>5. CASE fd' = [fd EXCEPT ![f] = Filled(fd[f], d)] /\ Transfer("write", f, d, Len(d))
    <3>1. /\ Filled(fd[f], d) \in Descriptor /\ Filled(fd[f], d).type = fd[f].type
          /\ Filled(fd[f], d).buffer_size <= Len(Filled(fd[f], d).buffer)
      <4>1. /\ Filled(fd[f], d) \in Descriptor /\ Filled(fd[f], d).type = fd[f].type
            /\ Filled(fd[f], d).buffer_size = Len(Filled(fd[f], d).buffer)
            BY <2>2, <2>3, FilledCounts
      <4>2. Filled(fd[f], d).buffer_size \in Nat
            BY <4>1 DEF Descriptor
      <4>   QED BY <4>1, <4>2
    <3>   QED BY <2>2, <2>5, <3>1 DEF Transferred
  <2>   QED BY <2>2, <2>4, <2>5
<1>4. \/ Silent /\ UNCHANGED fd
      \/ \E f \in getfd(p, h) : /\ IsOut(f) /\ IsIn(fd[f].pipe)
                                /\ WriteTo(fd[f].pipe, d)
      BY DEF write
<1>   QED BY <1>1, <1>2, <1>3, <1>4

-------------------------------------------------------------------------------
(* The invariant *)

\* The invariant holds before the first program starts.
LEMMA InitInvariant == Init => IInv
<1>   SUFFICES ASSUME Init PROVE IInv
      OBVIOUS
<1>1. 1 \in 1 .. MaxPid + 1 /\ alive = {} /\ allocated = {}
      BY StreamsAssumption DEF Init
<1>2. TypeOK
      BY <1>1, BlankTypes, StreamsAssumption DEF Init, TypeOK, StdStreams, Sinks
<1>3. DescriptorInv
      BY <1>1 DEF Init, DescriptorInv, Framebuffer, Blank
<1>4. InStreams = {}
      BY <1>1 DEF InStreams
<1>   QED BY <1>1, <1>2, <1>3, <1>4 DEF IInv, Init, KnownInv, StdInv, OwnerInv, WithinBlock

\* What the calls that make descriptors, open and exit have in common.
Making ==
    \/ process_create
    \/ \E p \in Pid : process_createWithStdout(p)
    \/ \E p, q \in Pid : process_getStdin(p, q)
    \/ \E p, q \in Pid, s \in {STDOUT, STDERR} : process_getStdout(p, q, s)
    \/ \E p \in Pid : open(p)
    \/ \E p \in Pid : exit(p)

\* The calls that do not transfer keep the invariant, and show nothing to the channels.
LEMMA MakingStep ==
    ASSUME IInv, Making
    PROVE  IInv' /\ Extended /\ Silent
<1>1. TypeOK' /\ Extended /\ KnownInv' /\ StdInv' /\ OwnerInv'
      BY CreateStep, CreateWithStdoutStep, GetStdinStep, GetStdoutStep, OpenStep, ExitStep
         DEF Making
<1>2. DescriptorInv' /\ WithinBlock'
      BY <1>1, ExtendedKeeps
<1>3. Silent
      BY DEF Making, process_create, process_createWithStdout, process_getStdin,
             process_getStdout, open, exit
<1>   QED BY <1>1, <1>2, <1>3 DEF IInv

\* Every call keeps the invariant.
LEMMA NextInvariant == IInv /\ [Next]_vars => IInv'
<1>   SUFFICES ASSUME IInv, [Next]_vars PROVE IInv'
      OBVIOUS
<1>1. CASE Making
      BY <1>1, MakingStep
<1>2. ASSUME NEW p \in Pid, NEW h \in Handles(p), NEW n \in 1 .. MaxCall, read(p, h, n)
      PROVE  IInv'
  <2>1. UNCHANGED fd \/ \E f \in Fd, d \in Descriptor : Transferred(f, d)
        BY <1>2, ReadStep DEF Transferred, InStreams, IInv, TypeOK
  <2>   QED BY <1>2, <2>1, ReadStep, TransferKeeps
<1>3. ASSUME NEW p \in Pid, NEW h \in Handles(p), NEW d \in Bytes, write(p, h, d)
      PROVE  IInv'
  <2>1. UNCHANGED fd \/ \E f \in Fd, e \in Descriptor : Transferred(f, e)
        BY <1>3, WriteStep DEF Transferred, InStreams, IInv, TypeOK
  <2>   QED BY <1>3, <2>1, WriteStep, TransferKeeps
<1>4. CASE UNCHANGED vars
  <2>1. UNCHANGED <<allocated, nextPid, alive, std, attached, room, lost, known>> /\ UNCHANGED fd
        BY <1>4 DEF vars
  <2>   QED BY <2>1, TransferKeeps
<1>   QED BY <1>1, <1>2, <1>3, <1>4 DEF Next, Making

\* The inductive invariant holds throughout, whatever programs call.
THEOREM Invariant == Spec => []IInv
<1>   QED BY InitInvariant, NextInvariant, PTL DEF Spec

-------------------------------------------------------------------------------
(* What the invariant is for *)

\* A process reads only from a pipe it holds.
LEMMA ReadsWhatItHolds ==
    ASSUME IInv, NEW p \in alive, NEW f \in InStreams, Reads(p, f)
    PROVE  Holds(p, f)
<1>1. PICK h \in Handles(p) : f \in getfd(p, h)
      BY DEF Reads
<1>2. f \in Fd /\ fd[f].type = FD_IN_STREAM /\ f # void_stream /\ f # Null
      BY StreamsAssumption DEF InStreams, IInv, TypeOK
<1>3. Drains(std[p].stdout) /\ Drains(std[p].stderr)
      BY DEF IInv, StdInv
<1>4. OrVoid(std[p].stdout) # f /\ OrVoid(std[p].stderr) # f
      BY <1>2, <1>3 DEF Drains, OrVoid, FD_IN_STREAM, FD_OUT_STREAM
<1>5. CASE h \in {STDIN, STDOUT, STDERR}
  <2>1. getfd(p, h) \subseteq {std[p].stdin, OrVoid(std[p].stdout), OrVoid(std[p].stderr)}
    <3>1. CASE h = STDIN
          BY <3>1 DEF getfd, STDIN, STDOUT, STDERR
    <3>2. CASE h = STDOUT
          BY <3>2 DEF getfd, STDIN, STDOUT, STDERR
    <3>3. CASE h = STDERR
          BY <3>3 DEF getfd, STDIN, STDOUT, STDERR
    <3>   QED BY <1>5, <3>1, <3>2, <3>3
  <2>   QED BY <1>1, <1>4, <2>1 DEF Holds
<1>6. CASE h \in known[p]
  <2>1. h \in Fd /\ h \notin {STDIN, STDOUT, STDERR}
        BY <1>6, PidFacts, StreamsAssumption DEF IInv, TypeOK, STDIN, STDOUT, STDERR
  <2>2. getfd(p, h) \subseteq {h, Null}
        BY <2>1 DEF getfd
  <2>   QED BY <1>1, <1>2, <1>6, <2>2 DEF Holds
<1>   QED BY <1>1, <1>5, <1>6 DEF Handles

\* Two processes never read from one pipe: getfd leads a process only to a pipe it
\* holds, and every call hands a new pipe to one holder.
THEOREM PipesHaveOneReader == Spec => []SingleReader
<1>1. IInv => SingleReader
      BY ReadsWhatItHolds DEF IInv, OwnerInv, SingleReader
<1>   QED BY <1>1, Invariant, PTL

\* stdout and stderr of a living process lead to a pipe whose reading end was given
\* to somebody, or nowhere, through every redirection and every failed call.
THEOREM OutputIsReadable == Spec => []OutputHasReader
<1>1. IInv => OutputHasReader
      BY DEF IInv, StdInv, Drains, OutputHasReader, OrVoid
<1>   QED BY <1>1, Invariant, PTL

\* Handles that programs were given never dangle, although open frees descriptors
\* that stay attached, and are found while the array has its block.
THEOREM GivenHandlesLive == Spec => []HandlesLive
<1>1. IInv => HandlesLive
  <2>   SUFFICES ASSUME IInv, NEW p \in alive, NEW f \in known[p]
                 PROVE  /\ p \in lost \/ f \in attached[p]
                        /\ f \in allocated
                        /\ IsIn(f) \/ (IsOut(f) /\ fd[f].pipe \in InStreams \cup {void_stream})
        BY DEF HandlesLive
  <2>1. p \in Pid /\ (p \in lost \/ f \in attached[p]) /\ f \in allocated /\ f \in Fd
        BY PidFacts DEF IInv, KnownInv, TypeOK
  <2>   QED BY <2>1 DEF IInv, DescriptorInv
<1>   QED BY <1>1, Invariant, PTL

\* No pipe counts bytes its block has no room for.
THEOREM PipesWithinBlock == Spec => []WithinBlock
<1>1. IInv => WithinBlock
      BY DEF IInv
<1>   QED BY <1>1, Invariant, PTL

-------------------------------------------------------------------------------
(* Pipes are channels: the queue of a channel is the counted bytes of its block. *)

Queue == [f \in InStreams |-> SubSeq(fd[f].buffer, 1, fd[f].buffer_size)]

\* Making descriptors opens channels, with nothing in them.
LEMMA MakingOpens ==
    ASSUME IInv, Making
    PROVE  Pipes!Open
<1>   DEFINE C == InStreams' \ InStreams
<1>1. Extended /\ Silent /\ IInv'
      BY MakingStep
<1>2. /\ InStreams \subseteq InStreams' /\ InStreams' \subseteq Fd
      /\ InStreams \subseteq allocated
      BY <1>1, ExtendedStreams DEF InStreams, Extended
<1>3. ASSUME NEW f \in InStreams' PROVE Queue'[f] = IF f \in C THEN <<>> ELSE Queue[f]
  <2>1. Queue'[f] = SubSeq(fd'[f].buffer, 1, fd'[f].buffer_size)
        BY DEF Queue
  <2>2. CASE f \in C
    <3>1. fd'[f] = InStream
          BY <1>1, <2>2, ExtendedStreams DEF InStreams
    <3>2. fd'[f].buffer = <<>> /\ fd'[f].buffer_size = 0
          BY <3>1 DEF InStream, Blank
    <3>3. SubSeq(<<>>, 1, 0) = <<>>
          OBVIOUS
    <3>   QED BY <2>1, <2>2, <3>2, <3>3
  <2>3. CASE f \notin C
    <3>1. f \in InStreams /\ fd'[f] = fd[f]
          BY <1>1, <1>2, <2>3 DEF Extended
    <3>   QED BY <2>1, <2>3, <3>1 DEF Queue
  <2>   QED BY <2>2, <2>3
<1>4. Queue' = [c \in DOMAIN Queue \cup C |-> IF c \in C THEN <<>> ELSE Queue[c]]
  <2>1. DOMAIN Queue = InStreams /\ InStreams' = InStreams \cup C
        BY <1>2 DEF Queue
  <2>2. Queue' = [f \in InStreams' |-> Queue'[f]]
        BY DEF Queue
  <2>   QED BY <1>3, <2>1, <2>2
<1>5. C \in SUBSET (Fd \ DOMAIN Queue)
      BY <1>2 DEF Queue
<1>   QED BY <1>1, <1>4, <1>5 DEF Queue, Pipes!Open, Pipes!Opened, Pipes!Silent, Silent

\* A transfer on f replaces the bytes of one channel.
LEMMA TransferQueue ==
    ASSUME IInv, UNCHANGED <<allocated, nextPid, alive, std, attached, room, lost, known>>,
           NEW f \in Fd, NEW d \in Descriptor, Transferred(f, d)
    PROVE  /\ f \in InStreams /\ Queue[f] = Counted(fd[f])
           /\ Queue' = [Queue EXCEPT ![f] = Counted(d)]
<1>1. InStreams' = InStreams
      BY TransferKeeps
<1>2. f \in InStreams /\ fd \in [Fd -> Descriptor] /\ InStreams \subseteq Fd
      BY DEF Transferred, IInv, TypeOK, InStreams
<1>3. \A x \in InStreams : fd'[x] = IF x = f THEN d ELSE fd[x]
      BY <1>2 DEF Transferred
<1>4. Queue' = [x \in InStreams |-> SubSeq(fd'[x].buffer, 1, fd'[x].buffer_size)]
      BY <1>1 DEF Queue
<1>   QED BY <1>2, <1>3, <1>4 DEF Queue, Counted

\* A read receives from a channel, or changes nothing.
LEMMA ReadReceives ==
    ASSUME IInv, NEW p \in Pid, NEW h, NEW n \in 1 .. MaxCall, read(p, h, n)
    PROVE  Pipes!Next \/ (Silent /\ UNCHANGED fd)
<1>1. CASE Silent /\ UNCHANGED fd
      BY <1>1
<1>2. ASSUME NEW f \in InStreams, NEW k \in 0 .. fd[f].buffer_size,
             k = IF n < fd[f].buffer_size THEN n ELSE fd[f].buffer_size,
             Transferred(f, Drained(fd[f], k)),
             Transfer("read", f, SubSeq(fd[f].buffer, 1, k), k)
      PROVE  Pipes!Receive(f, n)
  <2>1. /\ f \in Fd /\ fd[f] \in Descriptor
        /\ fd[f].buffer_size \in Nat /\ fd[f].buffer_size <= Len(fd[f].buffer)
        /\ fd[f].buffer \in Seq(Data) /\ Len(fd[f].buffer) \in Nat
        BY InIsStream DEF IsIn, InStreams, IInv, TypeOK
  <2>2. /\ Drained(fd[f], k) \in Descriptor
        /\ Counted(Drained(fd[f], k)) = SubSeq(Counted(fd[f]), k + 1, Len(Counted(fd[f])))
        BY <2>1, DrainedCounts
  <2>3. /\ Queue[f] = Counted(fd[f])
        /\ Queue' = [Queue EXCEPT ![f] = SubSeq(Counted(fd[f]), k + 1, Len(Counted(fd[f])))]
    <3>1. UNCHANGED <<allocated, nextPid, alive, std, attached, room, lost, known>>
          BY ReadStep
    <3>2. /\ Queue[f] = Counted(fd[f])
          /\ Queue' = [Queue EXCEPT ![f] = Counted(Drained(fd[f], k))]
          BY <1>2, <2>1, <2>2, <3>1, TransferQueue
    <3>   QED BY <2>2, <3>2
  <2>4. /\ Len(Counted(fd[f])) = fd[f].buffer_size
        /\ SubSeq(Counted(fd[f]), 1, k) = SubSeq(fd[f].buffer, 1, k)
    <3>   DEFINE c == Counted(fd[f])
    <3>1. /\ c \in Seq(Data) /\ Len(c) = fd[f].buffer_size
          /\ \A i \in 1 .. fd[f].buffer_size : c[i] = fd[f].buffer[i]
          BY <2>1, Prefix DEF Counted
    <3>2. k \in Nat /\ k <= fd[f].buffer_size
          BY <2>1
    <3>   HIDE DEF c
    <3>3. /\ SubSeq(c, 1, k) \in Seq(Data) /\ Len(SubSeq(c, 1, k)) = k
          /\ \A i \in 1 .. k : SubSeq(c, 1, k)[i] = c[i]
          BY <2>1, <3>1, <3>2, Prefix
    <3>4. /\ SubSeq(fd[f].buffer, 1, k) \in Seq(Data) /\ Len(SubSeq(fd[f].buffer, 1, k)) = k
          /\ \A i \in 1 .. k : SubSeq(fd[f].buffer, 1, k)[i] = fd[f].buffer[i]
          BY <2>1, <3>2, Prefix
    <3>5. \A i \in 1 .. k : SubSeq(c, 1, k)[i] = SubSeq(fd[f].buffer, 1, k)[i]
          BY <2>1, <3>1, <3>2, <3>3, <3>4
    <3>6. SubSeq(c, 1, k) = SubSeq(fd[f].buffer, 1, k)
          BY <3>3, <3>4, <3>5, SeqEqual
    <3>   QED BY <3>1, <3>6 DEF c
  <2>   QED BY <1>2, <2>3, <2>4 DEF Queue, Pipes!Receive, Transfer
<1>3. \A f \in InStreams : f \in DOMAIN Queue
      BY DEF Queue
<1>   QED BY <1>1, <1>2, <1>3, ReadStep DEF Pipes!Next, Queue

\* A write sends to a channel or is refused by it, or changes nothing.
LEMMA WriteSends ==
    ASSUME IInv, NEW p \in Pid, NEW h, NEW d \in Bytes, write(p, h, d)
    PROVE  Pipes!Next \/ (Silent /\ UNCHANGED fd)
<1>1. PICK k \in 1 .. MaxCall : d \in [1 .. k -> Data]
      BY DEF Bytes
<1>2. d \in Seq(Data) /\ Len(d) = k /\ k # 0
  <2>1. k \in Nat /\ k # 0
        BY StreamsAssumption
  <2>   QED BY <1>1, <2>1, SeqDef, LenProperties
<1>3. UNCHANGED <<allocated, nextPid, alive, std, attached, room, lost, known>>
      BY WriteStep
<1>4. ASSUME NEW f \in InStreams, UNCHANGED fd, Transfer("write", f, d, 0)
      PROVE  Pipes!Send(f, d)
  <2>1. Queue' = Queue
        BY <1>3, <1>4 DEF Queue, InStreams
  <2>   QED BY <1>4, <2>1 DEF Queue, Pipes!Send, Transfer
<1>5. ASSUME NEW f \in InStreams, Transferred(f, Filled(fd[f], d)),
             Transfer("write", f, d, Len(d))
      PROVE  Pipes!Send(f, d)
  <2>1. f \in Fd /\ fd[f] \in Descriptor /\ fd[f].buffer_size <= Len(fd[f].buffer)
        BY InIsStream DEF IsIn, InStreams, IInv, TypeOK
  <2>2. /\ Filled(fd[f], d) \in Descriptor
        /\ Counted(Filled(fd[f], d)) = Counted(fd[f]) \o d
        BY <1>2, <2>1, FilledCounts
  <2>3. /\ Queue[f] = Counted(fd[f])
        /\ Queue' = [Queue EXCEPT ![f] = Counted(Filled(fd[f], d))]
        BY <1>3, <1>5, <2>1, <2>2, TransferQueue
  <2>4. Queue' = [Queue EXCEPT ![f] = @ \o d]
        BY <2>2, <2>3
  <2>5. Len(d) # 0
        BY <1>2
  <2>   QED BY <1>5, <2>4, <2>5 DEF Queue, Pipes!Send, Transfer
<1>6. \A f \in InStreams : Pipes!Send(f, d) => Pipes!Next
      BY <1>1 DEF Pipes!Next, Queue
<1>   QED BY <1>4, <1>5, <1>6, WriteStep

\* Streams implements channels: whatever the interleaving of calls and wherever
\* memory runs out, the bytes read from a pipe are the bytes written to it, in
\* order, each once.
THEOREM StreamsArePipes == Spec => ArePipes
<1>1. Init => Pipes!Init
  <2>   SUFFICES ASSUME Init PROVE Pipes!Init
        OBVIOUS
  <2>1. InStreams = {}
        BY DEF Init, InStreams
  <2>2. [f \in InStreams |-> SubSeq(fd[f].buffer, 1, fd[f].buffer_size)] = <<>>
        BY <2>1
  <2>   QED BY <2>2 DEF Init, Pipes!Init, Pipes!Silent
<1>2. IInv /\ [Next]_vars => [Pipes!Next]_<<Queue, call>>
  <2>   SUFFICES ASSUME IInv, [Next]_vars PROVE [Pipes!Next]_<<Queue, call>>
        OBVIOUS
  <2>1. CASE Making
        BY <2>1, MakingOpens DEF Pipes!Next
  <2>2. CASE UNCHANGED vars
        BY <2>2 DEF vars, Queue, InStreams
  <2>3. ASSUME Silent, UNCHANGED <<fd, allocated>>
        PROVE  Pipes!Next
    <3>1. Queue' = [c \in DOMAIN Queue \cup {} |-> IF c \in {} THEN <<>> ELSE Queue[c]]
          BY <2>3 DEF Queue, InStreams
    <3>2. {} \in SUBSET (Fd \ DOMAIN Queue)
          OBVIOUS
    <3>3. Pipes!Open
          BY <2>3, <3>1, <3>2 DEF Queue, Pipes!Open, Pipes!Opened, Pipes!Silent, Silent
    <3>   QED BY <3>3 DEF Pipes!Next
  <2>4. ASSUME NEW p \in Pid, NEW h \in Handles(p), NEW n \in 1 .. MaxCall, read(p, h, n)
        PROVE  Pipes!Next
    <3>1. UNCHANGED allocated
          BY <2>4 DEF read
    <3>   QED BY <2>3, <2>4, <3>1, ReadReceives
  <2>5. ASSUME NEW p \in Pid, NEW h \in Handles(p), NEW d \in Bytes, write(p, h, d)
        PROVE  Pipes!Next
    <3>1. UNCHANGED allocated
          BY <2>5 DEF write
    <3>   QED BY <2>3, <2>5, <3>1, WriteSends
  <2>   QED BY <2>1, <2>2, <2>4, <2>5 DEF Next, Making
<1>   QED BY <1>1, <1>2, Invariant, PTL DEF Spec, ArePipes, Pipes!Spec, Pipes!vars, Queue
===============================================================================
