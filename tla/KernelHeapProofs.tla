--------------------------- MODULE KernelHeapProofs ---------------------------
(* Proofs about the kernel heap: the table stays well formed until a hollow block
   crosses another, so the blocks it hands out never overlap, for every heap size,
   table size and set of request sizes; and it implements the abstract Allocator.
   Heap(s) is the inductive invariant, said of a table s so that the lemmas about
   the helpers can use it for the tables inside a call too.  The arrays kept in
   such blocks follow. *)
EXTENDS KernelHeap, Arrays, CommonLemmas

Table(s) == s \in Seq(Block) /\ Len(s) <= MEM_ENTRIES

Heap(s) ==
    /\ s \in Seq(Block)
    /\ Len(s) <= MEM_ENTRIES
    /\ \A i \in 1 .. Len(s) :
          /\ KHEAP_BASE <= s[i].base /\ s[i].limit <= KHEAP_LIMIT
          /\ s[i].base <= s[i].limit /\ s[i].base < KHEAP_LIMIT
    /\ \A i, j \in 1 .. Len(s) : i < j => s[i].limit <= s[j].base

CallOK == call \in [op : Ops, ptr : Nat, size : Nat, ret : Nat] /\ crossed \in BOOLEAN

IInv == Table(entries) /\ (crossed \/ Heap(entries)) /\ CallOK

-------------------------------------------------------------------------------
(* What any table keeps, a crossed one too: it is a sequence of blocks, no longer
   than the table is. *)

\* What a table says of its entries and gaps.
LEMMA TableEntry ==
    ASSUME NEW s, Table(s)
    PROVE  /\ s \in Seq(Block) /\ Len(s) \in Nat /\ DOMAIN s = 1 .. Len(s)
           /\ \A k \in 1 .. Len(s) : s[k] \in Block /\ s[k].base \in Nat /\ s[k].limit \in Nat
           /\ \A i \in Gaps(s) : GapStart(s, i) \in Nat
<1>1. s \in Seq(Block) /\ Len(s) \in Nat /\ DOMAIN s = 1 .. Len(s)
      BY LenProperties DEF Table
<1>2. \A k \in 1 .. Len(s) : s[k] \in Block
      BY <1>1, ElementOfSeq
<1>3. \A k \in 1 .. Len(s) : s[k].base \in Nat /\ s[k].limit \in Nat
      BY <1>2 DEF Block
<1>4. ASSUME NEW i \in Gaps(s) PROVE GapStart(s, i) \in Nat
  <2>1. CASE i = 1
        BY <2>1, HeapAssumption DEF GapStart
  <2>2. CASE i # 1
    <3>1. i - 1 \in 1 .. Len(s)
          BY <1>1, <2>2 DEF Gaps
    <3>   QED BY <1>3, <2>2, <3>1 DEF GapStart
  <2>   QED BY <2>1, <2>2
<1>   QED BY <1>1, <1>2, <1>3, <1>4

\* kmm_addEntry's scan stops somewhere in the table, or behind it.
LEMMA PositionStops ==
    ASSUME NEW s, Table(s), NEW base \in Nat
    PROVE  /\ Position(s, base) \in Gaps(s)
           /\ \A j \in 1 .. Position(s, base) - 1 : s[j].base <= base
           /\ Position(s, base) <= Len(s) => s[Position(s, base)].base > base
<1>   DEFINE Stops(e) == /\ \A j \in 1 .. e - 1 : s[j].base <= base
                         /\ e <= Len(s) => s[e].base > base
             above == {e \in Gaps(s) : e = Len(s) + 1 \/ s[e].base > base}
<1>1. Len(s) \in Nat /\ \A k \in 1 .. Len(s) : s[k].base \in Nat
      BY TableEntry
<1>2. Len(s) + 1 \in above /\ above \subseteq Nat
      BY <1>1 DEF Gaps
<1>3. PICK e \in above : \A k \in above : e <= k
      BY <1>2, LeastNat
<1>4. e \in Gaps(s) /\ e \in 1 .. Len(s) + 1
      BY <1>3 DEF Gaps
<1>5. ASSUME NEW j \in 1 .. e - 1 PROVE s[j].base <= base
  <2>1. j \in Gaps(s) /\ j # Len(s) + 1 /\ ~(e <= j) /\ j \in 1 .. Len(s)
        BY <1>1, <1>4 DEF Gaps
  <2>2. ~(s[j].base > base)
        BY <1>3, <2>1
  <2>   QED BY <1>1, <2>1, <2>2
<1>6. Stops(e)
      BY <1>1, <1>3, <1>4, <1>5
<1>7. Position(s, base) = CHOOSE x \in Gaps(s) : Stops(x)
      BY DEF Position
<1>8. Position(s, base) \in Gaps(s) /\ Stops(Position(s, base))
  <2>   HIDE DEF Stops
  <2>   QED BY <1>4, <1>6, <1>7
<1>   QED BY <1>8

\* An entry put into a table that is not full.
LEMMA AddEntryTable ==
    ASSUME NEW s, Table(s), NEW b \in Block
    PROVE  Table(AddEntry(s, b))
<1>1. CASE Full(s)
      BY <1>1 DEF AddEntry
<1>2. CASE ~Full(s)
  <2>   DEFINE p == Position(s, b.base)
  <2>1. b.base \in Nat
        BY DEF Block
  <2>2. p \in 1 .. Len(s) + 1 /\ s \in Seq(Block) /\ Len(s) \in Nat
        BY <2>1, PositionStops, TableEntry DEF Gaps
  <2>3. AddEntry(s, b) = InsertAt(s, p, b)
        BY <1>2 DEF AddEntry
  <2>   HIDE DEF p
  <2>4. InsertAt(s, p, b) \in Seq(Block) /\ Len(InsertAt(s, p, b)) = Len(s) + 1
        BY <2>2, InsertAtProperties
  <2>5. Len(s) + 1 <= MEM_ENTRIES
        BY <1>2, <2>2, HeapAssumption DEF Full
  <2>   QED BY <2>3, <2>4, <2>5 DEF Table
<1>   QED BY <1>1, <1>2

\* The first entry of a pointer: it begins there and none before it does; a pointer
\* that is no block's has the first entry of all.
LEMMA FirstHolder ==
    ASSUME NEW s, Table(s), s # <<>>, NEW ptr
    PROVE  /\ EntryIndex(s, ptr) \in 1 .. Len(s)
           /\ \A j \in 1 .. EntryIndex(s, ptr) - 1 : s[j].base # s[EntryIndex(s, ptr)].base
           /\ \A k \in 1 .. Len(s) : s[k].base = ptr => s[EntryIndex(s, ptr)].base = ptr
           /\ Holders(s, ptr) # {} => EntryIndex(s, ptr) \in Holders(s, ptr)
<1>1. /\ s \in Seq(Block) /\ Len(s) \in Nat /\ DOMAIN s = 1 .. Len(s) /\ Len(s) # 0
      BY TableEntry, EmptySeq
<1>2. Holders(s, ptr) = {k \in 1 .. Len(s) : s[k].base = ptr}
      BY <1>1 DEF Holders
<1>3. CASE Holders(s, ptr) = {}
  <2>1. EntryIndex(s, ptr) = 1
        BY <1>3 DEF EntryIndex
  <2>2. 1 \in 1 .. Len(s) /\ 1 .. 1 - 1 = {}
        BY <1>1
  <2>   QED BY <1>2, <1>3, <2>1, <2>2
<1>4. CASE Holders(s, ptr) # {}
  <2>   DEFINE held == Holders(s, ptr)
               Least(i) == \A j \in held : i <= j
  <2>1. held \subseteq Nat
        BY <1>1, <1>2
  <2>2. \E i \in held : Least(i)
    <3>1. PICK x : x \in held
          BY <1>4
    <3>   HIDE DEF held
    <3>2. PICK n \in held : \A k \in held : n <= k
          BY <2>1, <3>1, LeastNat
    <3>   QED BY <3>2
  <2>3. EntryIndex(s, ptr) = CHOOSE i \in held : Least(i)
        BY <1>4 DEF EntryIndex
  <2>4. EntryIndex(s, ptr) \in held /\ Least(EntryIndex(s, ptr))
    <3>   HIDE DEF held, Least
    <3>   QED BY <2>2, <2>3
  <2>   DEFINE e == EntryIndex(s, ptr)
  <2>5. e \in 1 .. Len(s) /\ s[e].base = ptr
        BY <1>2, <2>4
  <2>6. ASSUME NEW j \in 1 .. e - 1 PROVE s[j].base # ptr
    <3>1. j \in 1 .. Len(s) /\ ~(e <= j)
      <4>   HIDE DEF e
      <4>   QED BY <1>1, <2>5
    <3>   QED BY <1>2, <2>4, <3>1
  <2>   QED BY <2>4, <2>5, <2>6
<1>   QED BY <1>3, <1>4

\* The first entry of its own base is found again by that base.
LEMMA FoundAgain ==
    ASSUME NEW s, Table(s), NEW idx \in 1 .. Len(s),
           \A j \in 1 .. idx - 1 : s[j].base # s[idx].base
    PROVE  RemoveEntry(s, s[idx].base) = RemoveAt(s, idx)
<1>1. Len(s) \in Nat /\ DOMAIN s = 1 .. Len(s) /\ s \in Seq(Block)
      BY TableEntry
<1>2. s # <<>> /\ idx \in Holders(s, s[idx].base)
  <2>1. Len(s) # 0
        BY <1>1
  <2>   QED BY <1>1, <2>1, EmptySeq DEF Holders
<1>   DEFINE e == EntryIndex(s, s[idx].base)
<1>3. /\ e \in 1 .. Len(s) /\ s[e].base = s[idx].base
      /\ \A j \in 1 .. e - 1 : s[j].base # s[e].base
      BY <1>2, FirstHolder
<1>4. RemoveEntry(s, s[idx].base) = RemoveAt(s, e)
      BY <1>2 DEF RemoveEntry
<1>   HIDE DEF e
<1>5. ~(e < idx) /\ ~(idx < e)
  <2>1. e < idx => e \in 1 .. idx - 1
        BY <1>1, <1>3
  <2>2. idx < e => idx \in 1 .. e - 1
        BY <1>1, <1>3
  <2>   QED BY <1>3, <2>1, <2>2
<1>   QED BY <1>1, <1>3, <1>4, <1>5

\* Freeing removes one entry at most.
LEMMA RemoveEntryTable ==
    ASSUME NEW s, Table(s), NEW base
    PROVE  /\ Table(RemoveEntry(s, base))
           /\ \/ RemoveEntry(s, base) = s /\ Holders(s, base) = {}
              \/ \E i \in 1 .. Len(s) :
                    /\ RemoveEntry(s, base) = RemoveAt(s, i) /\ s[i].base = base
                    /\ \A j \in 1 .. i - 1 : s[j].base # base
<1>1. s \in Seq(Block) /\ Len(s) \in Nat /\ DOMAIN s = 1 .. Len(s)
      BY TableEntry
<1>2. CASE Holders(s, base) = {}
      BY <1>2 DEF RemoveEntry
<1>3. CASE Holders(s, base) # {}
  <2>   DEFINE i == EntryIndex(s, base)
  <2>0. s # <<>>
    <3>1. PICK k \in 1 .. Len(s) : s[k].base = base
          BY <1>1, <1>3 DEF Holders
    <3>2. Len(s) # 0
          BY <1>1, <3>1
    <3>   QED BY <3>2, EmptySeq
  <2>1. /\ i \in 1 .. Len(s) /\ s[i].base = base
        /\ \A j \in 1 .. i - 1 : s[j].base # base
    <3>1. /\ i \in 1 .. Len(s) /\ i \in Holders(s, base)
          /\ \A j \in 1 .. i - 1 : s[j].base # s[i].base
          BY <1>3, <2>0, FirstHolder
    <3>   HIDE DEF i
    <3>   QED BY <3>1 DEF Holders
  <2>2. RemoveEntry(s, base) = RemoveAt(s, i)
        BY <1>3 DEF RemoveEntry
  <2>   HIDE DEF i
  <2>3. RemoveAt(s, i) \in Seq(Block) /\ Len(RemoveAt(s, i)) = Len(s) - 1
        BY <1>1, <2>1, RemoveAtProperties
  <2>4. Table(RemoveAt(s, i))
        BY <1>1, <2>3, HeapAssumption DEF Table
  <2>   QED BY <2>1, <2>2, <2>4
<1>   QED BY <1>2, <1>3

\* A placed block, wherever it is.
LEMMA PlacedTable ==
    ASSUME NEW s, Table(s), NEW base \in Nat, NEW size \in Sizes
    PROVE  Table(Placed(s, base, size).table) /\ Placed(s, base, size).ret \in Nat
<1>1. [base |-> base, limit |-> base + size] \in Block
      BY HeapAssumption DEF Block
<1>   QED BY <1>1, AddEntryTable DEF Placed, Null

\* Rounding up to a page never makes an address smaller.
LEMMA RoundUpProperties ==
    ASSUME NEW v \in Nat
    PROVE  RoundUp(v) \in Nat /\ v <= RoundUp(v)
<1>   DEFINE q == v \div PageSize
             r == v % PageSize
<1>1. /\ PageSize \in Nat /\ PageSize > 0
      BY HeapAssumption
<1>2. /\ q \in Nat /\ r \in Nat /\ r < PageSize /\ v = q * PageSize + r
      BY <1>1, Z3
<1>   HIDE DEF q, r
<1>3. CASE r = 0
  <2>1. RoundUp(v) = (q + 0) * PageSize
        BY <1>3 DEF RoundUp, q, r
  <2>   QED BY <2>1, <1>1, <1>2, <1>3
<1>4. CASE r # 0
  <2>1. RoundUp(v) = (q + 1) * PageSize
        BY <1>4 DEF RoundUp, q, r
  <2>2. (q + 1) * PageSize = q * PageSize + PageSize
        BY <1>1, <1>2
  <2>3. q * PageSize \in Nat
        BY <1>1, <1>2
  <2>   HIDE DEF RoundUp
  <2>   QED BY <2>1, <2>2, <2>3, <1>1, <1>2
<1>   QED BY <1>3, <1>4

\* Both allocators return a table and an address.
LEMMA KmallocTable ==
    ASSUME NEW s, Table(s), NEW size \in Sizes
    PROVE  /\ Table(Kmalloc(s, size).table) /\ Kmalloc(s, size).ret \in Nat
           /\ Table(KmallocPA(s, size).table) /\ KmallocPA(s, size).ret \in Nat
<1>1. Table(Kmalloc(s, size).table) /\ Kmalloc(s, size).ret \in Nat
  <2>1. CASE FirstFit(s, size) = {}
        BY <2>1 DEF Kmalloc, Null
  <2>2. CASE FirstFit(s, size) # {}
    <3>   DEFINE i == CHOOSE i \in FirstFit(s, size) : TRUE
    <3>1. i \in Gaps(s)
          BY <2>2 DEF FirstFit
    <3>2. Kmalloc(s, size) = Placed(s, GapStart(s, i), size)
          BY <2>2 DEF Kmalloc
    <3>   HIDE DEF i
    <3>   QED BY <3>1, <3>2, TableEntry, PlacedTable
  <2>   QED BY <2>1, <2>2
<1>2. Table(KmallocPA(s, size).table) /\ KmallocPA(s, size).ret \in Nat
  <2>1. CASE FirstFitPA(s, size) = {}
        BY <2>1 DEF KmallocPA, Null
  <2>2. CASE FirstFitPA(s, size) # {}
    <3>   DEFINE i == CHOOSE i \in FirstFitPA(s, size) : TRUE
    <3>1. i \in Gaps(s)
          BY <2>2 DEF FirstFitPA
    <3>2. KmallocPA(s, size) = Placed(s, RoundUp(GapStart(s, i)), size)
          BY <2>2 DEF KmallocPA
    <3>   HIDE DEF i
    <3>   QED BY <3>1, <3>2, TableEntry, RoundUpProperties, PlacedTable
  <2>   QED BY <2>1, <2>2
<1>   QED BY <1>1, <1>2

\* And so does krealloc.
LEMMA KreallocTable ==
    ASSUME NEW s, Table(s), NEW ptr \in Nat, NEW size \in Sizes
    PROVE  Table(Krealloc(s, ptr, size).table) /\ Krealloc(s, ptr, size).ret \in Nat
<1>1. CASE s = <<>>
      BY <1>1 DEF Krealloc
<1>2. CASE s # <<>>
  <2>   DEFINE idx == EntryIndex(s, ptr)
  <2>1. /\ idx \in 1 .. Len(s) /\ s \in Seq(Block) /\ Len(s) \in Nat
        /\ s[idx] \in Block /\ s[idx].base \in Nat
        BY <1>2, FirstHolder, TableEntry
  <2>   HIDE DEF idx
  <2>2. Krealloc(s, ptr, size) = IF GrowsInPlace(s, idx, size)
                                 THEN [table |-> Resized(s, idx, size), ret |-> ptr]
                                 ELSE Moved(s, idx, size)
        BY <1>2 DEF Krealloc, idx
  <2>3. Table(Resized(s, idx, size))
    <3>   DEFINE b == [base |-> s[idx].base, limit |-> s[idx].base + size]
    <3>1. b \in Block
          BY <2>1, HeapAssumption DEF Block
    <3>2. Resized(s, idx, size) = [s EXCEPT ![idx] = b]
          BY DEF Resized
    <3>   HIDE DEF b
    <3>   QED BY <2>1, <3>1, <3>2, ExceptSeq DEF Table
  <2>4. Table(Moved(s, idx, size).table) /\ Moved(s, idx, size).ret \in Nat
    <3>   DEFINE rest == RemoveEntry(s, s[idx].base)
                 new  == Kmalloc(rest, size)
    <3>1. Table(rest)
          BY RemoveEntryTable
    <3>2. Moved(s, idx, size) = IF new.ret # Null THEN new
                                ELSE [table |-> AddEntry(rest, s[idx]), ret |-> Null]
          BY DEF Moved
    <3>   HIDE DEF rest
    <3>3. Table(new.table) /\ new.ret \in Nat
          BY <3>1, KmallocTable
    <3>   HIDE DEF new
    <3>4. Table(AddEntry(rest, s[idx]))
          BY <2>1, <3>1, AddEntryTable
    <3>   QED BY <3>2, <3>3, <3>4 DEF Null
  <2>   QED BY <2>2, <2>3, <2>4
<1>   QED BY <1>1, <1>2

-------------------------------------------------------------------------------
(* The table's helpers keep it well formed. *)

\* What the invariant says of one entry.
LEMMA HeapEntry ==
    ASSUME NEW s, Heap(s)
    PROVE  /\ Table(s) /\ s \in Seq(Block) /\ Len(s) \in Nat /\ Len(s) <= MEM_ENTRIES
           /\ \A k \in 1 .. Len(s) :
                 /\ s[k] \in Block /\ s[k].base \in Nat /\ s[k].limit \in Nat
                 /\ KHEAP_BASE <= s[k].base /\ s[k].limit <= KHEAP_LIMIT
                 /\ s[k].base <= s[k].limit /\ s[k].base < KHEAP_LIMIT
<1>1. Table(s)
      BY DEF Heap, Table
<1>   QED BY <1>1, TableEntry DEF Heap, Table

\* No hollow block stands behind a block that begins at the same byte.
LEMMA HeapOrdered ==
    ASSUME NEW s, Heap(s)
    PROVE  ~Crosses(s)
<1>   SUFFICES ASSUME NEW i \in 1 .. Len(s), NEW j \in 1 .. Len(s), i < j,
                      s[i].base = s[j].base, ~Hollow(s[i])
               PROVE  FALSE
      BY HeapEntry, TableEntry DEF Crosses
<1>1. s[i].limit <= s[j].base
      BY DEF Heap
<1>   QED BY <1>1, HeapEntry DEF Hollow

\* What lies around a gap of a well-formed table: its bounds, and the entries before
\* and after it.
LEMMA Gap ==
    ASSUME NEW s, Heap(s), NEW i \in Gaps(s)
    PROVE  /\ GapStart(s, i) \in Nat /\ KHEAP_BASE <= GapStart(s, i)
           /\ GapEnd(s, i) \in Nat /\ GapEnd(s, i) <= KHEAP_LIMIT
           /\ GapStart(s, i) <= GapEnd(s, i)
           /\ \A j \in 1 .. Len(s) : j < i => s[j].limit <= GapStart(s, i)
           /\ \A j \in 1 .. Len(s) : i <= j => GapEnd(s, i) <= s[j].base
<1>1. /\ Len(s) \in Nat /\ i \in 1 .. Len(s) + 1
      /\ \A k \in 1 .. Len(s) : s[k].base \in Nat /\ s[k].limit \in Nat
      BY HeapEntry DEF Gaps
<1>2. i # 1 => i - 1 \in 1 .. Len(s)
      BY <1>1
<1>3. i # Len(s) + 1 => i \in 1 .. Len(s)
      BY <1>1
<1>4. /\ GapStart(s, i) \in Nat /\ KHEAP_BASE <= GapStart(s, i)
      /\ GapStart(s, i) <= KHEAP_LIMIT
      BY <1>1, <1>2, HeapAssumption DEF Heap, GapStart
<1>5. /\ GapEnd(s, i) \in Nat /\ GapEnd(s, i) <= KHEAP_LIMIT
      BY <1>1, <1>3, HeapAssumption DEF Heap, GapEnd
<1>6. ASSUME NEW j \in 1 .. Len(s), j < i
      PROVE  s[j].limit <= GapStart(s, i)
  <2>1. CASE j = i - 1
        BY <2>1, <1>1, <1>6 DEF GapStart
  <2>2. CASE j < i - 1
    <3>1. s[j].limit <= s[i - 1].base /\ s[i - 1].base <= s[i - 1].limit
          BY <2>2, <1>1, <1>2 DEF Heap
    <3>   QED BY <2>2, <3>1, <1>1, <1>2 DEF GapStart
  <2>   QED BY <2>1, <2>2, <1>1, <1>6
<1>7. ASSUME NEW j \in 1 .. Len(s), i <= j
      PROVE  GapEnd(s, i) <= s[j].base
  <2>1. CASE j = i
        BY <2>1, <1>1 DEF GapEnd
  <2>2. CASE j > i
    <3>1. s[i].limit <= s[j].base /\ s[i].base <= s[i].limit
          BY <2>2, <1>1, <1>7 DEF Heap
    <3>2. GapEnd(s, i) = s[i].base
          BY <2>2, <1>1 DEF GapEnd
    <3>3. s[i].base \in Nat /\ s[i].limit \in Nat /\ s[j].base \in Nat
          BY <1>1, <2>2
    <3>   QED BY <3>1, <3>2, <3>3
  <2>   QED BY <2>1, <2>2, <1>1, <1>7
<1>8. GapStart(s, i) <= GapEnd(s, i)
  <2>1. CASE i = Len(s) + 1
        BY <2>1, <1>4 DEF GapEnd
  <2>2. CASE i = 1 /\ i # Len(s) + 1
        BY <2>2, <1>1, <1>3 DEF Heap, GapStart, GapEnd
  <2>3. CASE i # 1 /\ i # Len(s) + 1
        BY <2>3, <1>1, <1>2, <1>3 DEF Heap, GapStart, GapEnd
  <2>   QED BY <2>1, <2>2, <2>3
<1>   QED BY <1>4, <1>5, <1>6, <1>7, <1>8

\* kmm_addEntry's scan stops before the first block that begins higher.
LEMMA PositionAt ==
    ASSUME NEW s, Table(s), NEW i \in Gaps(s), NEW base \in Nat,
           \A j \in 1 .. Len(s) : j < i => s[j].base <= base,
           \A j \in 1 .. Len(s) : i <= j => s[j].base > base
    PROVE  Position(s, base) = i
<1>   DEFINE e == Position(s, base)
<1>1. Len(s) \in Nat /\ \A k \in 1 .. Len(s) : s[k].base \in Nat
      BY TableEntry
<1>2. /\ e \in 1 .. Len(s) + 1 /\ i \in 1 .. Len(s) + 1
      /\ \A j \in 1 .. e - 1 : s[j].base <= base
      /\ e <= Len(s) => s[e].base > base
      BY PositionStops DEF Gaps
<1>   HIDE DEF e
<1>3. ~ e < i
  <2>   SUFFICES ASSUME e < i PROVE FALSE
        OBVIOUS
  <2>1. e \in 1 .. Len(s) /\ s[e].base > base /\ s[e].base <= base
        BY <1>1, <1>2
  <2>   QED BY <1>1, <2>1
<1>4. ~ i < e
  <2>   SUFFICES ASSUME i < e PROVE FALSE
        OBVIOUS
  <2>1. i \in 1 .. e - 1 /\ i \in 1 .. Len(s)
        BY <1>1, <1>2
  <2>2. s[i].base <= base /\ s[i].base > base
        BY <1>1, <1>2, <2>1
  <2>   QED BY <1>1, <2>1, <2>2
<1>   QED BY <1>1, <1>2, <1>3, <1>4 DEF e

\* In a well formed table that is the gap that holds the new block.
LEMMA PositionInGap ==
    ASSUME NEW s, Heap(s), NEW i \in Gaps(s), NEW base \in Nat,
           GapStart(s, i) <= base, base < GapEnd(s, i)
    PROVE  Position(s, base) = i
<1>1. /\ Table(s)
      /\ \A k \in 1 .. Len(s) : /\ s[k].base \in Nat /\ s[k].limit \in Nat
                                 /\ s[k].base <= s[k].limit /\ s[k].base < KHEAP_LIMIT
      BY HeapEntry
<1>2. /\ GapStart(s, i) \in Nat /\ GapEnd(s, i) \in Nat
      /\ \A j \in 1 .. Len(s) : j < i => s[j].limit <= GapStart(s, i)
      /\ \A j \in 1 .. Len(s) : i <= j => GapEnd(s, i) <= s[j].base
      BY Gap
<1>3. ASSUME NEW j \in 1 .. Len(s)
      PROVE  /\ j < i => s[j].base <= base
             /\ i <= j => s[j].base > base
  <2>1. s[j].base \in Nat /\ s[j].limit \in Nat /\ s[j].base <= s[j].limit
        BY <1>1
  <2>2. j < i => s[j].limit <= GapStart(s, i)
        BY <1>2
  <2>3. i <= j => GapEnd(s, i) <= s[j].base
        BY <1>2
  <2>   QED BY <2>1, <2>2, <2>3, <1>2
<1>   QED BY <1>1, <1>3, PositionAt

\* A block that fits in a gap is entered in that gap, and the table stays well formed.
LEMMA AddEntryHeap ==
    ASSUME NEW s, Heap(s), ~Full(s), NEW i \in Gaps(s),
           NEW base \in Nat, NEW limit \in Nat,
           GapStart(s, i) <= base, base <= limit, base < GapEnd(s, i), limit <= GapEnd(s, i)
    PROVE  /\ AddEntry(s, [base |-> base, limit |-> limit])
                 = InsertAt(s, i, [base |-> base, limit |-> limit])
           /\ Heap(AddEntry(s, [base |-> base, limit |-> limit]))
<1>   DEFINE b == [base |-> base, limit |-> limit]
             t == InsertAt(s, i, b)
<1>1. /\ s \in Seq(Block) /\ Len(s) \in Nat /\ i \in 1 .. Len(s) + 1
      /\ \A k \in 1 .. Len(s) : s[k].base \in Nat /\ s[k].limit \in Nat
      BY HeapEntry DEF Gaps
<1>2. /\ GapStart(s, i) \in Nat /\ KHEAP_BASE <= GapStart(s, i)
      /\ GapEnd(s, i) \in Nat /\ GapEnd(s, i) <= KHEAP_LIMIT
      /\ \A j \in 1 .. Len(s) : j < i => s[j].limit <= GapStart(s, i)
      /\ \A j \in 1 .. Len(s) : i <= j => GapEnd(s, i) <= s[j].base
      BY Gap
<1>3. Position(s, base) = i
      BY PositionInGap
<1>4. AddEntry(s, b) = t
      BY <1>3 DEF AddEntry
<1>5. b \in Block /\ b.base = base /\ b.limit = limit
      BY DEF Block
<1>6. /\ t \in Seq(Block) /\ Len(t) = Len(s) + 1
      /\ \A k \in 1 .. Len(s) + 1 :
            t[k] = IF k < i THEN s[k] ELSE IF k = i THEN b ELSE s[k - 1]
  <2>   HIDE DEF b
  <2>   QED BY <1>1, <1>5, InsertAtProperties
<1>   HIDE DEF b, t
<1>7. Len(t) <= MEM_ENTRIES
      BY <1>1, <1>6, HeapAssumption DEF Full
<1>8. ASSUME NEW k \in 1 .. Len(t)
      PROVE  /\ KHEAP_BASE <= t[k].base /\ t[k].limit <= KHEAP_LIMIT
             /\ t[k].base <= t[k].limit /\ t[k].base < KHEAP_LIMIT
  <2>0. k \in 1 .. Len(s) + 1
        BY <1>6
  <2>1. CASE k < i
    <3>1. k \in 1 .. Len(s) /\ t[k] = s[k]
          BY <2>0, <2>1, <1>1, <1>6
    <3>   QED BY <3>1 DEF Heap
  <2>2. CASE k = i
    <3>1. t[k] = b
          BY <2>0, <2>2, <1>1, <1>6
    <3>   QED BY <3>1, <1>2, <1>5, HeapAssumption
  <2>3. CASE k > i
    <3>1. k - 1 \in 1 .. Len(s) /\ t[k] = s[k - 1]
          BY <2>0, <2>3, <1>1, <1>6
    <3>   QED BY <3>1 DEF Heap
  <2>   QED BY <2>0, <2>1, <2>2, <2>3, <1>1
<1>9. ASSUME NEW j \in 1 .. Len(t), NEW k \in 1 .. Len(t), j < k
      PROVE  t[j].limit <= t[k].base
  <2>0. j \in 1 .. Len(s) + 1 /\ k \in 1 .. Len(s) + 1
        BY <1>6
  <2>1. CASE k < i
    <3>1. /\ j \in 1 .. Len(s) /\ k \in 1 .. Len(s)
          /\ t[j] = s[j] /\ t[k] = s[k]
          BY <2>0, <2>1, <1>1, <1>6, <1>9
    <3>   QED BY <3>1, <1>9 DEF Heap
  <2>2. CASE k = i
    <3>1. j \in 1 .. Len(s) /\ t[j] = s[j] /\ t[k] = b
          BY <2>0, <2>2, <1>1, <1>6, <1>9
    <3>2. s[j].limit <= GapStart(s, i) /\ s[j].limit \in Nat
          BY <3>1, <2>2, <1>1, <1>2, <1>9
    <3>   QED BY <3>1, <3>2, <1>2, <1>5
  <2>3. CASE k > i /\ j = i
    <3>1. k - 1 \in 1 .. Len(s) /\ i <= k - 1 /\ t[k] = s[k - 1] /\ t[j] = b
          BY <2>0, <2>3, <1>1, <1>6
    <3>2. GapEnd(s, i) <= s[k - 1].base /\ s[k - 1].base \in Nat
          BY <3>1, <1>1, <1>2
    <3>   QED BY <3>1, <3>2, <1>2, <1>5
  <2>4. CASE k > i /\ j < i
    <3>1. /\ j \in 1 .. Len(s) /\ k - 1 \in 1 .. Len(s) /\ i <= k - 1
          /\ t[j] = s[j] /\ t[k] = s[k - 1] /\ j < k - 1
          BY <2>0, <2>4, <1>1, <1>6
    <3>   QED BY <3>1 DEF Heap
  <2>5. CASE k > i /\ j > i
    <3>1. /\ j - 1 \in 1 .. Len(s) /\ k - 1 \in 1 .. Len(s)
          /\ t[j] = s[j - 1] /\ t[k] = s[k - 1] /\ j - 1 < k - 1
          BY <2>0, <2>5, <1>1, <1>6, <1>9
    <3>   QED BY <3>1 DEF Heap
  <2>6. k < i \/ k = i \/ (k > i /\ (j = i \/ j < i \/ j > i))
        BY <2>0, <1>1
  <2>   QED BY <2>1, <2>2, <2>3, <2>4, <2>5, <2>6
<1>10. Heap(t)
       BY <1>6, <1>7, <1>8, <1>9 DEF Heap
<1>   QED BY <1>4, <1>10 DEF b, t

\* Without one of its entries a table is still well formed.
LEMMA RemoveAtHeap ==
    ASSUME NEW s, Heap(s), NEW i \in 1 .. Len(s)
    PROVE  Heap(RemoveAt(s, i))
<1>   DEFINE t == RemoveAt(s, i)
<1>1. /\ s \in Seq(Block) /\ Len(s) \in Nat /\ Len(s) <= MEM_ENTRIES
      BY HeapEntry
<1>2. /\ t \in Seq(Block) /\ Len(t) = Len(s) - 1
      /\ \A k \in 1 .. Len(s) - 1 : t[k] = IF k < i THEN s[k] ELSE s[k + 1]
      BY <1>1, RemoveAtProperties
<1>   HIDE DEF t
<1>   DEFINE old(k) == IF k < i THEN k ELSE k + 1
<1>3. ASSUME NEW k \in 1 .. Len(t)
      PROVE  old(k) \in 1 .. Len(s) /\ t[k] = s[old(k)]
      BY <1>1, <1>2
<1>4. \A j, k \in 1 .. Len(t) : j < k => old(j) < old(k)
      BY <1>1, <1>2
<1>   HIDE DEF old
<1>5. /\ \A k \in 1 .. Len(t) :
            /\ KHEAP_BASE <= t[k].base /\ t[k].limit <= KHEAP_LIMIT
            /\ t[k].base <= t[k].limit /\ t[k].base < KHEAP_LIMIT
      /\ \A j, k \in 1 .. Len(t) : j < k => t[j].limit <= t[k].base
      BY <1>3, <1>4 DEF Heap
<1>6. Len(t) <= MEM_ENTRIES
      BY <1>1, <1>2, HeapAssumption
<1>   QED BY <1>2, <1>5, <1>6 DEF Heap, t

\* Unsigned subtraction does not wrap on the operands the scans have.
LEMMA SubNoWrap ==
    ASSUME NEW a \in Nat, NEW b \in Nat, b <= a
    PROVE  Sub(a, b) = a - b
BY DEF Sub

\* krealloc in place: the block ends before the next one begins.
LEMMA ResizedHeap ==
    ASSUME NEW s, Heap(s), NEW idx \in 1 .. Len(s), NEW size \in Sizes,
           GrowsInPlace(s, idx, size)
    PROVE  Heap(Resized(s, idx, size))
<1>   DEFINE b == [base |-> s[idx].base, limit |-> s[idx].base + size]
             t == Resized(s, idx, size)
<1>1. /\ s \in Seq(Block) /\ Len(s) \in Nat /\ Len(s) <= MEM_ENTRIES
      /\ \A k \in 1 .. Len(s) :
            /\ s[k].base \in Nat /\ s[k].limit \in Nat
            /\ KHEAP_BASE <= s[k].base /\ s[k].limit <= KHEAP_LIMIT
            /\ s[k].base <= s[k].limit /\ s[k].base < KHEAP_LIMIT
      BY HeapEntry
<1>2. size \in Nat
      BY HeapAssumption
<1>3. idx + 1 \in Gaps(s)
      BY <1>1 DEF Gaps
<1>4. /\ GapEnd(s, idx + 1) \in Nat /\ GapEnd(s, idx + 1) <= KHEAP_LIMIT
      /\ s[idx].limit <= GapEnd(s, idx + 1)
      /\ \A j \in 1 .. Len(s) : idx + 1 <= j => GapEnd(s, idx + 1) <= s[j].base
  <2>1. /\ GapEnd(s, idx + 1) \in Nat /\ GapEnd(s, idx + 1) <= KHEAP_LIMIT
        /\ GapStart(s, idx + 1) <= GapEnd(s, idx + 1)
        /\ \A j \in 1 .. Len(s) : idx + 1 <= j => GapEnd(s, idx + 1) <= s[j].base
        BY <1>3, Gap
  <2>2. GapStart(s, idx + 1) = s[idx].limit
        BY <1>1 DEF GapStart
  <2>   QED BY <2>1, <2>2
<1>5. s[idx].base + size <= GapEnd(s, idx + 1)
  <2>1. s[idx].base <= GapEnd(s, idx + 1)
        BY <1>1, <1>4
  <2>2. Sub(GapEnd(s, idx + 1), s[idx].base) = GapEnd(s, idx + 1) - s[idx].base
        BY <2>1, <1>1, <1>4, SubNoWrap
  <2>   QED BY <2>2, <1>1, <1>2, <1>4 DEF GrowsInPlace
<1>6. b \in Block /\ b.base = s[idx].base /\ b.limit = s[idx].base + size
      BY <1>1, <1>2 DEF Block
<1>7. /\ t \in Seq(Block) /\ Len(t) = Len(s)
      /\ \A k \in 1 .. Len(s) : t[k] = IF k = idx THEN b ELSE s[k]
  <2>   HIDE DEF b
  <2>1. t = [s EXCEPT ![idx] = b]
        BY DEF Resized, b
  <2>   QED BY <2>1, <1>1, <1>6, ExceptSeq
<1>   HIDE DEF b, t
<1>8. ASSUME NEW k \in 1 .. Len(t)
      PROVE  /\ KHEAP_BASE <= t[k].base /\ t[k].limit <= KHEAP_LIMIT
             /\ t[k].base <= t[k].limit /\ t[k].base < KHEAP_LIMIT
  <2>1. CASE k = idx
    <3>1. t[k] = b
          BY <2>1, <1>7
    <3>   QED BY <3>1, <1>1, <1>2, <1>4, <1>5, <1>6, HeapAssumption
  <2>2. CASE k # idx
        BY <2>2, <1>1, <1>7
  <2>   QED BY <2>1, <2>2
<1>9. ASSUME NEW j \in 1 .. Len(t), NEW k \in 1 .. Len(t), j < k
      PROVE  t[j].limit <= t[k].base
  <2>0. s[j].limit <= s[k].base
        BY <1>7, <1>9 DEF Heap
  <2>1. CASE j = idx
    <3>1. t[j] = b /\ t[k] = s[k] /\ idx + 1 <= k /\ k \in 1 .. Len(s)
          BY <2>1, <1>1, <1>7, <1>9
    <3>2. GapEnd(s, idx + 1) <= s[k].base
          BY <3>1, <1>4
    <3>   QED BY <3>1, <3>2, <1>1, <1>2, <1>4, <1>5, <1>6
  <2>2. CASE j # idx /\ k = idx
        BY <2>0, <2>2, <1>6, <1>7
  <2>3. CASE j # idx /\ k # idx
        BY <2>0, <2>3, <1>7
  <2>   QED BY <2>1, <2>2, <2>3
<1>   QED BY <1>1, <1>7, <1>8, <1>9 DEF Heap, t

\* A request for 0 bytes always fits where the block stands.
LEMMA MovesForMore ==
    ASSUME NEW s, NEW idx, NEW size \in Sizes, Heap(s), idx \in 1 .. Len(s),
           ~GrowsInPlace(s, idx, size)
    PROVE  size > 0
<1>1. /\ s[idx].base \in Nat /\ size \in Nat /\ KHEAP_LIMIT < Word
      /\ s[idx].base <= KHEAP_LIMIT
      BY HeapEntry, HeapAssumption
<1>2. GapEnd(s, idx + 1) \in Nat
  <2>1. idx + 1 \in Gaps(s)
        BY HeapEntry DEF Gaps
  <2>   QED BY <2>1, Gap
<1>3. Sub(GapEnd(s, idx + 1), s[idx].base) >= 0
      BY <1>1, <1>2, HeapAssumption DEF Sub
<1>   QED BY <1>1, <1>3 DEF GrowsInPlace

-------------------------------------------------------------------------------
(* Each operation keeps the table well formed. *)

\* A block put at the base of, or higher in, a gap that is large enough.
LEMMA PlacedHeap ==
    ASSUME NEW s, Heap(s), NEW i \in Gaps(s), NEW base \in Nat, NEW size \in Sizes,
           GapStart(s, i) <= base, base < GapEnd(s, i), GapEnd(s, i) - base >= size
    PROVE  /\ Heap(Placed(s, base, size).table)
           /\ Placed(s, base, size).ret \in Nat
           /\ \/ /\ Placed(s, base, size).ret = Null
                 /\ Placed(s, base, size).table = s
                 /\ Full(s)
              \/ /\ Placed(s, base, size).ret = base
                 /\ Placed(s, base, size).table
                       = InsertAt(s, i, [base |-> base, limit |-> base + size])
<1>1. CASE Full(s)
      BY <1>1 DEF Placed, Null
<1>2. CASE ~Full(s)
  <2>1. size \in Nat
        BY HeapAssumption
  <2>2. GapEnd(s, i) \in Nat
        BY Gap
  <2>3. base + size \in Nat /\ base <= base + size /\ base + size <= GapEnd(s, i)
        BY <2>1, <2>2
  <2>4. /\ AddEntry(s, [base |-> base, limit |-> base + size])
              = InsertAt(s, i, [base |-> base, limit |-> base + size])
        /\ Heap(AddEntry(s, [base |-> base, limit |-> base + size]))
        BY <1>2, <2>3, AddEntryHeap
  <2>   QED BY <1>2, <2>4 DEF Placed
<1>   QED BY <1>1, <1>2

\* Whether a table has a block with bytes that begins at a.
BeginsAt(s, a) == \E k \in 1 .. Len(s) : s[k].base = a /\ ~Hollow(s[k])

\* A hollow block is entered behind the blocks that begin where it does: it stands
\* in a gap, or crosses one that has bytes.
LEMMA HollowEntered ==
    ASSUME NEW s, Heap(s), ~Full(s), NEW a \in Nat, KHEAP_BASE <= a, a < KHEAP_LIMIT,
           \A k \in 1 .. Len(s) : s[k].base < a => s[k].limit <= a
    PROVE  \/ BeginsAt(s, a) /\ Crosses(AddEntry(s, [base |-> a, limit |-> a]))
           \/ /\ ~BeginsAt(s, a)
              /\ GapStart(s, Position(s, a)) <= a /\ a < GapEnd(s, Position(s, a))
<1>   DEFINE p == Position(s, a)
             b == [base |-> a, limit |-> a]
             t == InsertAt(s, p, b)
<1>1. /\ Table(s) /\ s \in Seq(Block) /\ Len(s) \in Nat
      /\ \A k \in 1 .. Len(s) : /\ s[k].base \in Nat /\ s[k].limit \in Nat
                                /\ s[k].base <= s[k].limit /\ s[k].base < KHEAP_LIMIT
      BY HeapEntry
<1>2. /\ p \in Gaps(s) /\ p \in 1 .. Len(s) + 1
      /\ \A j \in 1 .. p - 1 : s[j].base <= a
      /\ p <= Len(s) => s[p].base > a
      BY <1>1, PositionStops DEF Gaps
<1>3. AddEntry(s, b) = t
      BY DEF AddEntry
<1>4. b \in Block /\ Hollow(b) /\ b.base = a
      BY DEF Block, Hollow
<1>   HIDE DEF b, p
<1>5. /\ t \in Seq(Block) /\ Len(t) = Len(s) + 1 /\ DOMAIN t = 1 .. Len(s) + 1
      /\ \A k \in 1 .. Len(s) + 1 :
            t[k] = IF k < p THEN s[k] ELSE IF k = p THEN b ELSE s[k - 1]
  <2>1. /\ t \in Seq(Block) /\ Len(t) = Len(s) + 1
        /\ \A k \in 1 .. Len(s) + 1 :
              t[k] = IF k < p THEN s[k] ELSE IF k = p THEN b ELSE s[k - 1]
        BY <1>1, <1>2, <1>4, InsertAtProperties
  <2>   QED BY <2>1, LenProperties
<1>   HIDE DEF t
<1>6. ASSUME NEW k \in 1 .. Len(s), s[k].base = a PROVE k < p
  <2>1. CASE p <= k
    <3>1. p <= Len(s) /\ s[p].base > a /\ p \in 1 .. Len(s)
          BY <1>1, <1>2, <2>1
    <3>2. p # k
          BY <1>6, <3>1, <1>1
    <3>3. s[p].limit <= s[k].base
          BY <2>1, <3>1, <3>2, <1>2 DEF Heap
    <3>   QED BY <1>1, <1>6, <3>1, <3>3
  <2>   QED BY <1>2, <2>1
<1>7. ASSUME NEW k \in 1 .. Len(s), s[k].base = a, ~Hollow(s[k])
      PROVE  BeginsAt(s, a) /\ Crosses(t)
  <2>1. k < p
        BY <1>6, <1>7
  <2>2. k \in DOMAIN t /\ p \in DOMAIN t /\ t[k] = s[k] /\ t[p] = b
        BY <1>1, <1>2, <1>5, <2>1
  <2>   QED BY <1>4, <1>7, <2>1, <2>2 DEF Crosses, BeginsAt
<1>8. ASSUME \A k \in 1 .. Len(s) : s[k].base = a => Hollow(s[k])
      PROVE  ~BeginsAt(s, a) /\ GapStart(s, p) <= a /\ a < GapEnd(s, p)
  <2>1. GapStart(s, p) <= a
    <3>1. CASE p = 1
          BY <3>1 DEF GapStart
    <3>2. CASE p # 1
      <4>1. p - 1 \in 1 .. p - 1 /\ p - 1 \in 1 .. Len(s)
            BY <1>1, <1>2, <3>2
      <4>2. s[p - 1].base <= a
            BY <1>2, <4>1
      <4>3. s[p - 1].limit <= a
            BY <1>1, <1>8, <4>1, <4>2 DEF Hollow
      <4>   QED BY <3>2, <4>3 DEF GapStart
    <3>   QED BY <3>1, <3>2
  <2>2. a < GapEnd(s, p)
        BY <1>1, <1>2 DEF GapEnd
  <2>   QED BY <1>8, <2>1, <2>2 DEF BeginsAt
<1>   QED BY <1>3, <1>7, <1>8 DEF b, p

\* kmalloc keeps the table well formed: it refuses, or enters a block in a gap, or
\* crosses the block the heap begins with by one of no bytes.
LEMMA KmallocHeap ==
    ASSUME NEW s, Heap(s), NEW size \in Sizes
    PROVE  \/ /\ Kmalloc(s, size).ret = Null
              /\ Kmalloc(s, size).table = s
              /\ Full(s) \/ FirstFit(s, size) = {}
           \/ /\ size = 0 /\ BeginsAt(s, KHEAP_BASE) /\ Crosses(Kmalloc(s, size).table)
              /\ Kmalloc(s, size).ret # Null
           \/ /\ Heap(Kmalloc(s, size).table) /\ ~Full(s)
              /\ \E i \in Gaps(s) :
                    /\ GapStart(s, i) + size <= GapEnd(s, i)
                    /\ Kmalloc(s, size).ret = GapStart(s, i)
                    /\ Kmalloc(s, size).table
                          = InsertAt(s, i, [base  |-> GapStart(s, i),
                                            limit |-> GapStart(s, i) + size])
<1>0. size \in Nat /\ 0 \in Nat
      BY HeapAssumption
<1>1. CASE FirstFit(s, size) = {}
      BY <1>1 DEF Kmalloc
<1>2. CASE FirstFit(s, size) # {}
  <2>   DEFINE i == CHOOSE i \in FirstFit(s, size) : TRUE
  <2>1. i \in FirstFit(s, size)
        BY <1>2
  <2>2. Kmalloc(s, size) = Placed(s, GapStart(s, i), size)
        BY <1>2 DEF Kmalloc
  <2>   HIDE DEF i
  <2>3. /\ i \in Gaps(s) /\ Fits(s, i, size)
        /\ \A j \in 1 .. i - 1 : ~Fits(s, j, size)
        BY <2>1 DEF FirstFit
  <2>4. /\ GapStart(s, i) \in Nat /\ GapEnd(s, i) \in Nat
        /\ GapStart(s, i) <= GapEnd(s, i)
        BY <2>3, Gap
  <2>5. GapEnd(s, i) - GapStart(s, i) >= size
        BY <2>3, <2>4, SubNoWrap DEF Fits
  <2>6. CASE Full(s)
        BY <2>2, <2>6 DEF Placed
  <2>7. CASE ~Full(s) /\ size # 0
    <3>   DEFINE base == GapStart(s, i)
    <3>1. /\ base \in Nat /\ GapStart(s, i) <= base /\ base < GapEnd(s, i)
          /\ GapEnd(s, i) - base >= size
          BY <1>0, <2>4, <2>5, <2>7
    <3>2. base + size <= GapEnd(s, i)
          BY <1>0, <2>4, <2>5
    <3>   HIDE DEF base
    <3>3. /\ Heap(Placed(s, base, size).table)
          /\ Placed(s, base, size).ret = base
          /\ Placed(s, base, size).table
                = InsertAt(s, i, [base |-> base, limit |-> base + size])
          BY <2>3, <2>7, <3>1, PlacedHeap DEF Placed
    <3>   QED BY <2>2, <2>3, <2>7, <3>2, <3>3 DEF base
  <2>8. CASE ~Full(s) /\ size = 0
    <3>1. i = 1
      <4>1. Len(s) \in Nat /\ 1 \in Gaps(s)
            BY HeapEntry DEF Gaps
      <4>2. Fits(s, 1, size)
        <5>1. /\ GapStart(s, 1) \in Nat /\ GapEnd(s, 1) \in Nat
              /\ GapStart(s, 1) <= GapEnd(s, 1)
              BY <4>1, Gap
        <5>   QED BY <5>1, <2>8, SubNoWrap DEF Fits
      <4>   QED BY <2>3, <4>1, <4>2 DEF Gaps
    <3>   DEFINE a == KHEAP_BASE
                 q == Position(s, a)
    <3>2. Kmalloc(s, size) = Placed(s, a, size)
          BY <2>2, <3>1 DEF GapStart
    <3>3. /\ a \in Nat /\ a < KHEAP_LIMIT /\ a # Null /\ a + 0 = a
          /\ \A k \in 1 .. Len(s) : s[k].base < a => s[k].limit <= a
          BY HeapEntry, HeapAssumption DEF Null
    <3>4. \/ BeginsAt(s, a) /\ Crosses(AddEntry(s, [base |-> a, limit |-> a]))
          \/ ~BeginsAt(s, a) /\ GapStart(s, q) <= a /\ a < GapEnd(s, q)
      <4>1. KHEAP_BASE <= a
            BY HeapAssumption
      <4>   QED BY <2>8, <3>3, <4>1, HollowEntered
    <3>5. Placed(s, a, size) = [table |-> AddEntry(s, [base |-> a, limit |-> a]), ret |-> a]
          BY <2>8, <3>3 DEF Placed
    <3>6. CASE BeginsAt(s, a) /\ Crosses(AddEntry(s, [base |-> a, limit |-> a]))
          BY <2>8, <3>2, <3>3, <3>5, <3>6
    <3>7. CASE ~BeginsAt(s, a) /\ GapStart(s, q) <= a /\ a < GapEnd(s, q)
      <4>1. q \in Gaps(s)
            BY <3>3, HeapEntry, PositionStops
      <4>2. GapStart(s, q) \in Nat /\ GapEnd(s, q) \in Nat /\ KHEAP_BASE <= GapStart(s, q)
            BY <4>1, Gap
      <4>3. GapStart(s, q) = a /\ GapEnd(s, q) - a >= size
            BY <2>8, <3>3, <3>7, <4>2
      <4>   HIDE DEF a, q
      <4>4. /\ Heap(Placed(s, a, size).table)
            /\ Placed(s, a, size).table
                  = InsertAt(s, q, [base |-> a, limit |-> a + size])
            BY <2>8, <3>3, <3>5, <3>7, <4>1, <4>3, PlacedHeap
      <4>5. Placed(s, a, size).ret = a /\ a + size <= GapEnd(s, q)
            BY <2>8, <3>3, <3>5, <3>7, <4>2
      <4>   QED BY <2>8, <3>2, <4>1, <4>3, <4>4, <4>5
    <3>   QED BY <3>4, <3>6, <3>7
  <2>   QED BY <2>6, <2>7, <2>8
<1>   QED BY <1>1, <1>2

\* So does kmalloc_pa.
LEMMA KmallocPAHeap ==
    ASSUME NEW s, Heap(s), NEW size \in Sizes
    PROVE  /\ Heap(KmallocPA(s, size).table)
           /\ KmallocPA(s, size).ret \in Nat
           /\ \/ KmallocPA(s, size).table = s
              \/ \E i \in Gaps(s), b \in Block : KmallocPA(s, size).table = InsertAt(s, i, b)
<1>1. CASE FirstFitPA(s, size) = {}
      BY <1>1 DEF KmallocPA, Null
<1>2. CASE FirstFitPA(s, size) # {}
  <2>   DEFINE i == CHOOSE i \in FirstFitPA(s, size) : TRUE
               base == RoundUp(GapStart(s, i))
  <2>1. i \in FirstFitPA(s, size)
        BY <1>2
  <2>2. KmallocPA(s, size) = Placed(s, base, size)
        BY <1>2 DEF KmallocPA
  <2>   HIDE DEF i
  <2>3. i \in Gaps(s) /\ base < GapEnd(s, i) /\ Sub(GapEnd(s, i), base) >= size
        BY <2>1 DEF FirstFitPA, FitsPA
  <2>4. GapStart(s, i) \in Nat /\ GapEnd(s, i) \in Nat
        BY <2>3, Gap
  <2>5. base \in Nat /\ GapStart(s, i) <= base
        BY <2>4, RoundUpProperties
  <2>   HIDE DEF base
  <2>6. base < GapEnd(s, i) /\ GapEnd(s, i) - base >= size
        BY <2>3, <2>4, <2>5, SubNoWrap
  <2>7. /\ Heap(Placed(s, base, size).table)
        /\ Placed(s, base, size).ret \in Nat
        /\ \/ Placed(s, base, size).table = s
           \/ Placed(s, base, size).table
                 = InsertAt(s, i, [base |-> base, limit |-> base + size])
        BY <2>3, <2>5, <2>6, PlacedHeap
  <2>8. [base |-> base, limit |-> base + size] \in Block
        BY <2>5, HeapAssumption DEF Block
  <2>   QED BY <2>2, <2>3, <2>7, <2>8
<1>   QED BY <1>1, <1>2

\* Taking a block out leaves its place free, and it fits there again.
LEMMA PlaceLeft ==
    ASSUME NEW s, Heap(s), NEW idx \in 1 .. Len(s)
    PROVE  /\ Heap(RemoveAt(s, idx)) /\ Len(RemoveAt(s, idx)) = Len(s) - 1
           /\ idx \in Gaps(RemoveAt(s, idx)) /\ ~Full(RemoveAt(s, idx))
           /\ GapStart(RemoveAt(s, idx), idx) <= s[idx].base
           /\ s[idx].limit <= GapEnd(RemoveAt(s, idx), idx)
           /\ \A k \in 1 .. Len(s) - 1 :
                 RemoveAt(s, idx)[k] = IF k < idx THEN s[k] ELSE s[k + 1]
<1>   DEFINE t == RemoveAt(s, idx)
<1>1. /\ s \in Seq(Block) /\ Len(s) \in Nat /\ Len(s) <= MEM_ENTRIES
      /\ \A k \in 1 .. Len(s) :
            /\ s[k] \in Block /\ s[k].base \in Nat /\ s[k].limit \in Nat
            /\ KHEAP_BASE <= s[k].base /\ s[k].limit <= KHEAP_LIMIT
            /\ s[k].base <= s[k].limit /\ s[k].base < KHEAP_LIMIT
      BY HeapEntry
<1>2. /\ Heap(t) /\ t \in Seq(Block) /\ Len(t) = Len(s) - 1
      /\ \A k \in 1 .. Len(s) - 1 : t[k] = IF k < idx THEN s[k] ELSE s[k + 1]
      BY <1>1, RemoveAtHeap, RemoveAtProperties
<1>   HIDE DEF t
<1>3. idx \in Gaps(t) /\ ~Full(t)
      BY <1>1, <1>2, HeapAssumption DEF Gaps, Full
<1>4. GapStart(t, idx) <= s[idx].base
  <2>1. CASE idx = 1
        BY <2>1, <1>1 DEF GapStart
  <2>2. CASE idx # 1
    <3>1. idx - 1 \in 1 .. Len(s) - 1 /\ idx - 1 \in 1 .. Len(s) /\ idx - 1 < idx
          BY <2>2, <1>1
    <3>2. t[idx - 1] = s[idx - 1]
          BY <3>1, <1>2
    <3>3. s[idx - 1].limit <= s[idx].base
          BY <3>1 DEF Heap
    <3>   QED BY <2>2, <3>2, <3>3 DEF GapStart
  <2>   QED BY <2>1, <2>2
<1>5. s[idx].limit <= GapEnd(t, idx)
  <2>1. CASE idx = Len(t) + 1
        BY <2>1, <1>1 DEF GapEnd
  <2>2. CASE idx # Len(t) + 1
    <3>1. idx \in 1 .. Len(s) - 1 /\ idx + 1 \in 1 .. Len(s) /\ idx < idx + 1
          BY <2>2, <1>1, <1>2
    <3>2. t[idx] = s[idx + 1]
          BY <3>1, <1>2
    <3>3. s[idx].limit <= s[idx + 1].base
          BY <3>1 DEF Heap
    <3>   QED BY <2>2, <3>2, <3>3 DEF GapEnd
  <2>   QED BY <2>1, <2>2
<1>   QED BY <1>2, <1>3, <1>4, <1>5 DEF t

\* Putting an entry in at position p that is the one taken out there changes nothing.
LEMMA PutAt ==
    ASSUME NEW s, Heap(s), NEW idx \in 1 .. Len(s)
    PROVE  InsertAt(RemoveAt(s, idx), idx, s[idx]) = s
<1>   DEFINE t == RemoveAt(s, idx)
<1>1. /\ s \in Seq(Block) /\ Len(s) \in Nat /\ s[idx] \in Block
      BY HeapEntry
<1>2. /\ t \in Seq(Block) /\ Len(t) = Len(s) - 1
      /\ \A k \in 1 .. Len(s) - 1 : t[k] = IF k < idx THEN s[k] ELSE s[k + 1]
      BY <1>1, RemoveAtProperties
<1>   HIDE DEF t
<1>3. InsertAt(t, idx, s[idx]) = s
  <2>   DEFINE u == InsertAt(t, idx, s[idx])
  <2>1. /\ u \in Seq(Block) /\ Len(u) = Len(t) + 1
        /\ \A k \in 1 .. Len(t) + 1 :
              u[k] = IF k < idx THEN t[k] ELSE IF k = idx THEN s[idx] ELSE t[k - 1]
    <3>1. idx \in 1 .. Len(t) + 1 /\ s[idx] \in Block
          BY <1>1, <1>2
    <3>   DEFINE x == s[idx]
    <3>2. x \in Block
          BY <3>1
    <3>   HIDE DEF x
    <3>3. /\ InsertAt(t, idx, x) \in Seq(Block) /\ Len(InsertAt(t, idx, x)) = Len(t) + 1
          /\ \A k \in 1 .. Len(t) + 1 :
                InsertAt(t, idx, x)[k] = IF k < idx THEN t[k] ELSE IF k = idx THEN x ELSE t[k - 1]
          BY <3>1, <3>2, <1>2, InsertAtProperties
    <3>   QED BY <3>3 DEF x
  <2>   HIDE DEF u
  <2>2. ASSUME NEW k \in 1 .. Len(s) PROVE u[k] = s[k]
    <3>1. CASE k < idx
          BY <3>1, <2>1, <1>1, <1>2
    <3>2. CASE k = idx
          BY <3>2, <2>1, <1>1, <1>2
    <3>3. CASE k > idx
      <4>1. k - 1 \in 1 .. Len(s) - 1 /\ ~(k - 1 < idx) /\ (k - 1) + 1 = k
            BY <3>3, <1>1
      <4>   QED BY <3>3, <4>1, <2>1, <1>1, <1>2
    <3>   QED BY <3>1, <3>2, <3>3, <1>1
  <2>3. Len(u) = Len(s)
        BY <2>1, <1>1, <1>2
  <2>4. u = s
        BY <2>1, <2>2, <2>3, <1>1, SeqEqual
  <2>   QED BY <2>4 DEF u
<1>   QED BY <1>3 DEF t

\* Taking an entry out at one of several equal ones is the same table.
LEMMA EqualRemoved ==
    ASSUME NEW s, Heap(s), NEW i \in 1 .. Len(s), NEW j \in 1 .. Len(s), i <= j,
           \A k \in i .. j : s[k] = s[i]
    PROVE  RemoveAt(s, i) = RemoveAt(s, j)
<1>1. s \in Seq(Block) /\ Len(s) \in Nat
      BY HeapEntry
<1>2. /\ RemoveAt(s, i) \in Seq(Block) /\ Len(RemoveAt(s, i)) = Len(s) - 1
      /\ \A k \in 1 .. Len(s) - 1 : RemoveAt(s, i)[k] = IF k < i THEN s[k] ELSE s[k + 1]
      BY <1>1, RemoveAtProperties
<1>3. /\ RemoveAt(s, j) \in Seq(Block) /\ Len(RemoveAt(s, j)) = Len(s) - 1
      /\ \A k \in 1 .. Len(s) - 1 : RemoveAt(s, j)[k] = IF k < j THEN s[k] ELSE s[k + 1]
      BY <1>1, RemoveAtProperties
<1>4. ASSUME NEW k \in 1 .. Len(s) - 1 PROVE RemoveAt(s, i)[k] = RemoveAt(s, j)[k]
  <2>1. CASE k < i \/ j <= k
        BY <2>1, <1>2, <1>3, <1>1
  <2>2. CASE i <= k /\ k < j
    <3>1. k \in i .. j /\ k + 1 \in i .. j
          BY <2>2, <1>1
    <3>2. s[k] = s[k + 1]
          BY <3>1
    <3>   QED BY <2>2, <3>2, <1>2, <1>3, <1>1
  <2>   QED BY <2>1, <2>2, <1>1
<1>   QED BY <1>1, <1>2, <1>3, <1>4, SeqEqual

\* Taking a block out and putting it back is no change at all, unless it is hollow
\* and crosses a block that begins where it does.
LEMMA PutBack ==
    ASSUME NEW s, Heap(s), NEW idx \in 1 .. Len(s)
    PROVE  \/ AddEntry(RemoveAt(s, idx), s[idx]) = s
           \/ /\ Hollow(s[idx]) /\ BeginsAt(s, s[idx].base)
              /\ Crosses(AddEntry(RemoveAt(s, idx), s[idx]))
<1>   DEFINE t  == RemoveAt(s, idx)
             lo == s[idx].base
             hi == s[idx].limit
             p  == Position(t, lo)
<1>1. /\ s \in Seq(Block) /\ Len(s) \in Nat /\ Len(s) <= MEM_ENTRIES
      /\ \A k \in 1 .. Len(s) :
            /\ s[k] \in Block /\ s[k].base \in Nat /\ s[k].limit \in Nat
            /\ KHEAP_BASE <= s[k].base /\ s[k].limit <= KHEAP_LIMIT
            /\ s[k].base <= s[k].limit /\ s[k].base < KHEAP_LIMIT
      BY HeapEntry
<1>2. /\ Heap(t) /\ Len(t) = Len(s) - 1 /\ idx \in Gaps(t) /\ ~Full(t)
      /\ GapStart(t, idx) <= lo /\ hi <= GapEnd(t, idx)
      /\ \A k \in 1 .. Len(s) - 1 : t[k] = IF k < idx THEN s[k] ELSE s[k + 1]
      BY PlaceLeft
<1>3. s[idx] = [base |-> lo, limit |-> hi] /\ lo \in Nat /\ hi \in Nat /\ lo <= hi
      BY <1>1 DEF Block
<1>4. CASE lo < GapEnd(t, idx)
  <2>1. AddEntry(t, [base |-> lo, limit |-> hi]) = InsertAt(t, idx, [base |-> lo, limit |-> hi])
    <3>   HIDE DEF t, lo, hi
    <3>   QED BY <1>2, <1>3, <1>4, AddEntryHeap
  <2>   QED BY <2>1, <1>3, PutAt
<1>5. CASE ~(lo < GapEnd(t, idx))
  <2>1. lo = hi /\ Hollow(s[idx])
    <3>1. GapEnd(t, idx) \in Nat
          BY <1>2, Gap
    <3>   QED BY <1>2, <1>3, <1>5, <3>1 DEF Hollow
  <2>2. \A k \in 1 .. Len(t) : t[k].base < lo => t[k].limit <= lo
    <3>   SUFFICES ASSUME NEW k \in 1 .. Len(t), t[k].base < lo PROVE t[k].limit <= lo
          OBVIOUS
    <3>0. k \in 1 .. Len(s) - 1
          BY <1>2
    <3>1. CASE k < idx
      <4>1. k \in 1 .. Len(s)
            BY <1>1, <3>0
      <4>2. t[k] = s[k]
            BY <1>2, <3>0, <3>1
      <4>   QED BY <3>1, <4>1, <4>2 DEF Heap
    <3>2. CASE idx <= k
      <4>1. t[k] = s[k + 1] /\ k + 1 \in 1 .. Len(s) /\ idx < k + 1
            BY <1>1, <1>2, <3>2
      <4>2. hi <= s[k + 1].base
            BY <4>1 DEF Heap
      <4>   QED BY <1>1, <1>3, <2>1, <4>1, <4>2
    <3>   QED BY <1>1, <1>2, <3>1, <3>2
  <2>3. /\ KHEAP_BASE <= lo /\ lo < KHEAP_LIMIT
        BY <1>1
  <2>4. \/ BeginsAt(t, lo) /\ Crosses(AddEntry(t, [base |-> lo, limit |-> lo]))
        \/ GapStart(t, p) <= lo /\ lo < GapEnd(t, p)
    <3>   HIDE DEF t, lo
    <3>   QED BY <1>2, <1>3, <2>2, <2>3, HollowEntered DEF p
  <2>5. CASE BeginsAt(t, lo) /\ Crosses(AddEntry(t, [base |-> lo, limit |-> lo]))
    <3>1. PICK k \in 1 .. Len(t) : t[k].base = lo /\ ~Hollow(t[k])
          BY <2>5 DEF BeginsAt
    <3>2. \E j \in 1 .. Len(s) : t[k] = s[j]
      <4>1. /\ k \in 1 .. Len(s) - 1 /\ k \in 1 .. Len(s) /\ k + 1 \in 1 .. Len(s)
            /\ t[k] = s[k] \/ t[k] = s[k + 1]
            BY <1>1, <1>2, <3>1
      <4>   QED BY <4>1
    <3>   QED BY <1>3, <2>1, <2>5, <3>1, <3>2 DEF BeginsAt
  <2>6. CASE GapStart(t, p) <= lo /\ lo < GapEnd(t, p)
    <3>1. p \in Gaps(t) /\ p \in 1 .. Len(s)
      <4>   HIDE DEF t, lo
      <4>1. p \in Gaps(t)
            BY <1>2, <1>3, HeapEntry, PositionStops DEF p
      <4>2. p \in 1 .. Len(t) + 1
            BY <4>1 DEF Gaps
      <4>   QED BY <1>1, <1>2, <4>1, <4>2
    <3>   DEFINE x == [base |-> lo, limit |-> hi]
    <3>2. AddEntry(t, x) = InsertAt(t, p, x)
      <4>   HIDE DEF t, lo, hi, p
      <4>1. lo <= hi /\ hi <= GapEnd(t, p) /\ lo \in Nat /\ hi \in Nat
        <5>1. GapEnd(t, p) \in Nat
              BY <1>2, <3>1, Gap
        <5>   QED BY <1>3, <2>1, <2>6, <5>1
      <4>   QED BY <1>2, <2>6, <3>1, <4>1, AddEntryHeap
    <3>3. /\ \A k \in 1 .. Len(t) : k < p => t[k].limit <= GapStart(t, p)
          /\ \A k \in 1 .. Len(t) : p <= k => GapEnd(t, p) <= t[k].base
          /\ GapStart(t, p) \in Nat /\ GapEnd(t, p) \in Nat
      <4>   HIDE DEF t, p
      <4>   QED BY <1>2, <3>1, Gap
    <3>   HIDE DEF p
    <3>4. idx <= p
      <4>1. CASE p < idx
        <5>1. p \in 1 .. Len(t) /\ t[p] = s[p]
              BY <1>1, <1>2, <3>1, <4>1
        <5>2. GapEnd(t, p) <= s[p].base
              BY <3>1, <3>3, <5>1
        <5>3. s[p].limit <= lo
              BY <3>1, <4>1 DEF Heap
        <5>   QED BY <1>1, <1>3, <2>6, <3>1, <3>3, <5>2, <5>3
      <4>   QED BY <1>1, <3>1, <4>1
    <3>5. ASSUME NEW k \in idx .. p PROVE s[k] = s[idx]
      <4>1. CASE k # idx
        <5>1. /\ k - 1 \in 1 .. Len(t) /\ k - 1 < p /\ ~(k - 1 < idx) /\ (k - 1) + 1 = k
              /\ idx < k /\ k \in 1 .. Len(s) /\ k - 1 \in 1 .. Len(s) - 1
              BY <1>1, <1>2, <3>1, <3>4, <4>1
        <5>2. t[k - 1] = s[k]
              BY <1>2, <5>1
        <5>3. s[k].limit <= lo
              BY <1>1, <1>3, <2>6, <3>3, <5>1, <5>2
        <5>4. hi <= s[k].base
              BY <5>1 DEF Heap
        <5>5. s[k].base = lo /\ s[k].limit = hi /\ s[k] \in Block
              BY <1>1, <1>3, <2>1, <5>1, <5>3, <5>4
        <5>   HIDE DEF lo, hi, t
        <5>   QED BY <1>3, <5>5 DEF Block
      <4>   QED BY <4>1
    <3>6. t = RemoveAt(s, p) /\ s[p] = s[idx]
      <4>1. p \in idx .. p
            BY <1>1, <3>1, <3>4
      <4>2. s[p] = s[idx]
            BY <3>5, <4>1
      <4>   QED BY <3>1, <3>4, <3>5, <4>2, EqualRemoved
    <3>7. InsertAt(t, p, s[idx]) = s
          BY <3>1, <3>6, PutAt
    <3>   HIDE DEF t, lo, hi
    <3>   QED BY <1>3, <3>2, <3>7 DEF t
  <2>   QED BY <2>4, <2>5, <2>6
<1>   QED BY <1>4, <1>5

\* Moving a block keeps the table well formed: it is refused, or the old entry goes
\* and a new one comes; or the block is hollow and crosses another when it is put back.
LEMMA MovedHeap ==
    ASSUME NEW s, Heap(s), NEW idx \in 1 .. Len(s), NEW size \in Sizes, size > 0,
           \A j \in 1 .. idx - 1 : s[j].base # s[idx].base
    PROVE  \/ /\ Moved(s, idx, size).ret = Null
              /\ Moved(s, idx, size).table = s
              /\ FirstFit(RemoveAt(s, idx), size) = {}
           \/ /\ Moved(s, idx, size).ret = Null
              /\ Hollow(s[idx]) /\ BeginsAt(s, s[idx].base)
              /\ Crosses(Moved(s, idx, size).table)
           \/ /\ Moved(s, idx, size).ret # Null
              /\ Moved(s, idx, size) = Kmalloc(RemoveAt(s, idx), size)
              /\ Heap(Moved(s, idx, size).table)
              /\ \E i \in Gaps(RemoveAt(s, idx)) :
                    /\ GapStart(RemoveAt(s, idx), i) + size <= GapEnd(RemoveAt(s, idx), i)
                    /\ Moved(s, idx, size).ret = GapStart(RemoveAt(s, idx), i)
                    /\ Moved(s, idx, size).table
                         = InsertAt(RemoveAt(s, idx), i,
                                    [base  |-> GapStart(RemoveAt(s, idx), i),
                                     limit |-> GapStart(RemoveAt(s, idx), i) + size])
<1>   DEFINE t   == RemoveAt(s, idx)
             new == Kmalloc(t, size)
<1>1. RemoveEntry(s, s[idx].base) = t
      BY HeapEntry, FoundAgain
<1>2. Heap(t) /\ ~Full(t)
      BY PlaceLeft
<1>3. Moved(s, idx, size) = IF new.ret # Null THEN new
                            ELSE [table |-> AddEntry(t, s[idx]), ret |-> Null]
      BY <1>1 DEF Moved
<1>4. \/ AddEntry(t, s[idx]) = s
      \/ Hollow(s[idx]) /\ BeginsAt(s, s[idx].base) /\ Crosses(AddEntry(t, s[idx]))
      BY PutBack
<1>   HIDE DEF t
<1>5. \/ new.ret = Null /\ FirstFit(t, size) = {}
      \/ /\ Heap(new.table)
         /\ \E i \in Gaps(t) :
               /\ GapStart(t, i) + size <= GapEnd(t, i)
               /\ new.ret = GapStart(t, i)
               /\ new.table = InsertAt(t, i, [base  |-> GapStart(t, i),
                                              limit |-> GapStart(t, i) + size])
      BY <1>2, KmallocHeap
<1>6. new.ret = Null => FirstFit(t, size) = {}
  <2>1. ASSUME NEW i \in Gaps(t) PROVE GapStart(t, i) # Null
        BY <1>2, <2>1, Gap, HeapAssumption DEF Null
  <2>   HIDE DEF new
  <2>   QED BY <1>5, <2>1
<1>   HIDE DEF new
<1>7. CASE new.ret = Null
      BY <1>3, <1>4, <1>6, <1>7 DEF t
<1>8. CASE new.ret # Null
      BY <1>3, <1>5, <1>8 DEF t, new
<1>   QED BY <1>7, <1>8

\* krealloc keeps the table well formed, or crosses a block by a hollow one.
LEMMA KreallocHeap ==
    ASSUME NEW s, Heap(s), NEW ptr \in Nat, NEW size \in Sizes
    PROVE  Heap(Krealloc(s, ptr, size).table) \/ Crosses(Krealloc(s, ptr, size).table)
<1>1. CASE s = <<>>
      BY <1>1 DEF Krealloc
<1>2. CASE s # <<>>
  <2>   DEFINE idx == EntryIndex(s, ptr)
  <2>1. /\ idx \in 1 .. Len(s)
        /\ \A j \in 1 .. idx - 1 : s[j].base # s[idx].base
        BY <1>2, HeapEntry, FirstHolder
  <2>   HIDE DEF idx
  <2>2. Krealloc(s, ptr, size) = IF GrowsInPlace(s, idx, size)
                                 THEN [table |-> Resized(s, idx, size), ret |-> ptr]
                                 ELSE Moved(s, idx, size)
        BY <1>2 DEF Krealloc, idx
  <2>3. CASE GrowsInPlace(s, idx, size)
        BY <2>1, <2>2, <2>3, ResizedHeap
  <2>4. CASE ~GrowsInPlace(s, idx, size)
    <3>1. size > 0
          BY <2>1, <2>4, MovesForMore
    <3>   QED BY <2>1, <2>2, <2>4, <3>1, MovedHeap
  <2>   QED BY <2>3, <2>4
<1>   QED BY <1>1, <1>2

-------------------------------------------------------------------------------
(* The theorems. *)

\* The pointers callers hold are addresses.
LEMMA PointersNat ==
    ASSUME Table(entries), NEW ptr \in Pointers
    PROVE  ptr \in Nat
<1>1. CASE ptr = Null
      BY <1>1 DEF Null
<1>2. CASE ptr # Null
  <2>1. PICK b \in Range(entries) : ptr = b.base
        BY <1>2 DEF Pointers
  <2>2. PICK k \in 1 .. Len(entries) : b = entries[k]
        BY TableEntry DEF Range
  <2>   QED BY <2>1, <2>2, TableEntry
<1>   QED BY <1>1, <1>2

\* The sizes callers ask for are numbers.
LEMMA SizesNat == Sizes \subseteq Nat
BY HeapAssumption

\* A call leaves a well formed table, or has crossed two blocks.
LEMMA StepKeepsHeap ==
    ASSUME Heap(entries), Next
    PROVE  crossed' \/ Heap(entries')
<1>1. ASSUME NEW size \in Sizes, kmalloc(size) PROVE crossed' \/ Heap(entries')
  <2>1. Heap(Kmalloc(entries, size).table) \/ Crosses(Kmalloc(entries, size).table)
        BY KmallocHeap
  <2>   QED BY <1>1, <2>1 DEF kmalloc, Returns
<1>2. ASSUME NEW size \in Sizes, kmalloc_pa(size) PROVE crossed' \/ Heap(entries')
  <2>1. Heap(KmallocPA(entries, size).table)
        BY KmallocPAHeap
  <2>   QED BY <1>2, <2>1 DEF kmalloc_pa, Returns
<1>3. ASSUME NEW ptr \in Pointers, NEW size \in Sizes, krealloc(ptr, size)
      PROVE  crossed' \/ Heap(entries')
  <2>1. Heap(Krealloc(entries, ptr, size).table) \/ Crosses(Krealloc(entries, ptr, size).table)
        BY HeapEntry, PointersNat, KreallocHeap
  <2>   QED BY <1>3, <2>1 DEF krealloc, Returns
<1>4. ASSUME NEW ptr \in Pointers, kfree(ptr) PROVE crossed' \/ Heap(entries')
  <2>1. Heap(RemoveEntry(entries, ptr))
        BY HeapEntry, RemoveEntryTable, RemoveAtHeap
  <2>   QED BY <1>4, <2>1 DEF kfree, Returns
<1>   QED BY <1>1, <1>2, <1>3, <1>4 DEF Next

\* The table is a table in every state of every run, and well formed until a hollow
\* block has crossed another.
THEOREM HeapInvariant == Spec => []IInv
<1>1. Init => IInv
  <2>   SUFFICES ASSUME Init PROVE IInv
        OBVIOUS
  <2>1. entries = <<>> /\ Len(entries) = 0 /\ entries \in Seq(Block)
        BY EmptySeq DEF Init
  <2>2. Heap(entries) /\ Table(entries)
        BY <2>1, HeapAssumption DEF Heap, Table
  <2>3. CallOK
        BY DEF Init, CallOK, Ops, Null
  <2>   QED BY <2>2, <2>3 DEF IInv
<1>2. IInv /\ [Next]_vars => IInv'
  <2>   SUFFICES ASSUME IInv, [Next]_vars PROVE IInv'
        OBVIOUS
  <2>0. Table(entries) /\ crossed \in BOOLEAN
        BY DEF IInv, CallOK
  <2>1. ASSUME NEW size \in Sizes, kmalloc(size) PROVE Table(entries') /\ CallOK'
    <3>1. Table(Kmalloc(entries, size).table) /\ Kmalloc(entries, size).ret \in Nat
          BY <2>0, KmallocTable
    <3>   QED BY <2>0, <2>1, <3>1, SizesNat DEF kmalloc, Returns, CallOK, Ops, Null
  <2>2. ASSUME NEW size \in Sizes, kmalloc_pa(size) PROVE Table(entries') /\ CallOK'
    <3>1. Table(KmallocPA(entries, size).table) /\ KmallocPA(entries, size).ret \in Nat
          BY <2>0, KmallocTable
    <3>   QED BY <2>0, <2>2, <3>1, SizesNat DEF kmalloc_pa, Returns, CallOK, Ops, Null
  <2>3. ASSUME NEW ptr \in Pointers, NEW size \in Sizes, krealloc(ptr, size)
        PROVE  Table(entries') /\ CallOK'
    <3>1. ptr \in Nat
          BY <2>0, PointersNat
    <3>2. Table(Krealloc(entries, ptr, size).table) /\ Krealloc(entries, ptr, size).ret \in Nat
          BY <2>0, <3>1, KreallocTable
    <3>   QED BY <2>0, <2>3, <3>1, <3>2, SizesNat DEF krealloc, Returns, CallOK, Ops
  <2>4. ASSUME NEW ptr \in Pointers, kfree(ptr) PROVE Table(entries') /\ CallOK'
    <3>1. ptr \in Nat
          BY <2>0, PointersNat
    <3>2. Table(RemoveEntry(entries, ptr))
          BY <2>0, RemoveEntryTable
    <3>   QED BY <2>0, <2>4, <3>1, <3>2 DEF kfree, Returns, CallOK, Ops, Null
  <2>5. CASE Next
    <3>1. Table(entries') /\ CallOK'
          BY <2>1, <2>2, <2>3, <2>4, <2>5 DEF Next
    <3>2. crossed => crossed'
          BY <2>5 DEF Next, kmalloc, kmalloc_pa, krealloc, kfree, Returns
    <3>3. Heap(entries) => crossed' \/ Heap(entries')
          BY <2>5, StepKeepsHeap
    <3>   QED BY <3>1, <3>2, <3>3 DEF IInv, Table, Heap
  <2>6. CASE UNCHANGED vars
        BY <2>6 DEF vars, IInv, CallOK, Table, Heap
  <2>   QED BY <2>5, <2>6
<1>   QED BY <1>1, <1>2, PTL DEF Spec

\* The table holds blocks and no more of them than it has entries for.
THEOREM TypeCorrect == Spec => []TypeOK
<1>1. IInv => TypeOK
      BY DEF IInv, Table, CallOK, TypeOK
<1>   QED BY <1>1, HeapInvariant, PTL

\* No two live blocks of the kernel heap overlap, whatever the calls, until a request
\* of 0 bytes has put a block where one begins.
THEOREM Disjointness == Spec => []BlocksDisjoint
<1>1. IInv => BlocksDisjoint
      BY HeapEntry, LenProperties DEF IInv, Heap, BlocksDisjoint
<1>   QED BY <1>1, HeapInvariant, PTL

\* The elements of a table with an entry put in, and with one taken out.
LEMMA RangeInsertAt ==
    ASSUME NEW S, NEW s \in Seq(S), NEW i \in 1 .. Len(s) + 1, NEW x \in S
    PROVE  Range(s) \subseteq Range(InsertAt(s, i, x))
           /\ Range(InsertAt(s, i, x)) \subseteq Range(s) \cup {x}
           /\ x \in Range(InsertAt(s, i, x))
<1>   DEFINE t == InsertAt(s, i, x)
<1>1. /\ t \in Seq(S) /\ Len(t) = Len(s) + 1
      /\ \A k \in 1 .. Len(s) + 1 :
            t[k] = IF k < i THEN s[k] ELSE IF k = i THEN x ELSE s[k - 1]
  <2>1. t \in Seq(S)
        BY InsertAtProperties
  <2>2. Len(t) = Len(s) + 1
        BY InsertAtProperties
  <2>3. ASSUME NEW k \in 1 .. Len(s) + 1
        PROVE  t[k] = IF k < i THEN s[k] ELSE IF k = i THEN x ELSE s[k - 1]
        BY InsertAtProperties, SMTT(30)
  <2>   QED BY <2>1, <2>2, <2>3
<1>   HIDE DEF t
<1>2. Len(s) \in Nat /\ DOMAIN s = 1 .. Len(s) /\ DOMAIN t = 1 .. Len(s) + 1
      BY <1>1, LenProperties
<1>3. ASSUME NEW k \in 1 .. Len(s) PROVE s[k] \in Range(t)
  <2>1. CASE k < i
    <3>1. k \in DOMAIN t /\ t[k] = s[k]
          BY <2>1, <1>1, <1>2
    <3>   QED BY <3>1 DEF Range
  <2>2. CASE k >= i
    <3>1. k + 1 \in DOMAIN t /\ t[k + 1] = s[k]
          BY <2>2, <1>1, <1>2
    <3>   QED BY <3>1 DEF Range
  <2>   QED BY <2>1, <2>2, <1>2
<1>4. ASSUME NEW k \in 1 .. Len(s) + 1 PROVE t[k] \in Range(s) \cup {x}
  <2>1. CASE k < i
    <3>1. k \in DOMAIN s /\ t[k] = s[k]
          BY <2>1, <1>1, <1>2
    <3>   QED BY <3>1 DEF Range
  <2>2. CASE k = i
        BY <2>2, <1>1
  <2>3. CASE k > i
    <3>1. k - 1 \in DOMAIN s /\ t[k] = s[k - 1]
          BY <2>3, <1>1, <1>2
    <3>   QED BY <3>1 DEF Range
  <2>   QED BY <2>1, <2>2, <2>3, <1>2
<1>5. i \in DOMAIN t /\ t[i] = x
      BY <1>1, <1>2
<1>6. x \in Range(t)
      BY <1>5 DEF Range
<1>7. Range(s) \subseteq Range(t) /\ Range(t) \subseteq Range(s) \cup {x}
      BY <1>2, <1>3, <1>4 DEF Range
<1>   QED BY <1>6, <1>7 DEF t

\* Removing position i loses the entry at i at most.
LEMMA RangeRemoveAt ==
    ASSUME NEW S, NEW s \in Seq(S), NEW i \in 1 .. Len(s)
    PROVE  Range(RemoveAt(s, i)) \subseteq Range(s)
           /\ Range(s) \subseteq Range(RemoveAt(s, i)) \cup {s[i]}
<1>   DEFINE t == RemoveAt(s, i)
<1>1. /\ t \in Seq(S) /\ Len(t) = Len(s) - 1
      /\ \A k \in 1 .. Len(s) - 1 : t[k] = IF k < i THEN s[k] ELSE s[k + 1]
      BY RemoveAtProperties
<1>   HIDE DEF t
<1>2. Len(s) \in Nat /\ DOMAIN s = 1 .. Len(s) /\ DOMAIN t = 1 .. Len(s) - 1
      BY <1>1, LenProperties
<1>3. ASSUME NEW k \in 1 .. Len(s) - 1 PROVE t[k] \in Range(s)
  <2>1. \E j \in DOMAIN s : t[k] = s[j]
        BY <1>1, <1>2
  <2>   QED BY <2>1 DEF Range
<1>4. ASSUME NEW k \in 1 .. Len(s) PROVE s[k] \in Range(t) \cup {s[i]}
  <2>1. CASE k < i
    <3>1. k \in DOMAIN t /\ t[k] = s[k]
          BY <2>1, <1>1, <1>2
    <3>   QED BY <3>1 DEF Range
  <2>2. CASE k = i
        BY <2>2
  <2>3. CASE k > i
    <3>1. k - 1 \in DOMAIN t /\ ~(k - 1 < i) /\ (k - 1) + 1 = k
          BY <2>3, <1>2
    <3>2. t[k - 1] = s[k]
          BY <3>1, <1>1, <1>2
    <3>   QED BY <3>1, <3>2 DEF Range
  <2>   QED BY <2>1, <2>2, <2>3, <1>2
<1>5. Range(t) \subseteq Range(s) /\ Range(s) \subseteq Range(t) \cup {s[i]}
      BY <1>2, <1>3, <1>4 DEF Range
<1>   QED BY <1>5 DEF t

\* A block that is moved lands below its old base or above its old limit.
LEMMA MovedClear ==
    ASSUME NEW s, Heap(s), NEW idx \in 1 .. Len(s), NEW i \in Gaps(RemoveAt(s, idx))
    PROVE  \/ GapStart(RemoveAt(s, idx), i) <= s[idx].base
           \/ s[idx].limit <= GapStart(RemoveAt(s, idx), i)
<1>   DEFINE t == RemoveAt(s, idx)
<1>1. /\ s \in Seq(Block) /\ Len(s) \in Nat
      /\ \A k \in 1 .. Len(s) :
            /\ s[k].base \in Nat /\ s[k].limit \in Nat
            /\ KHEAP_BASE <= s[k].base /\ s[k].base <= s[k].limit
      BY HeapEntry
<1>2. /\ Len(t) = Len(s) - 1 /\ i \in 1 .. Len(t) + 1
      /\ \A k \in 1 .. Len(s) - 1 : t[k] = IF k < idx THEN s[k] ELSE s[k + 1]
      BY <1>1, RemoveAtProperties DEF Gaps
<1>   HIDE DEF t
<1>3. CASE i = 1
      BY <1>1, <1>3 DEF GapStart, t
<1>4. CASE i # 1 /\ i <= idx
  <2>1. i - 1 \in 1 .. Len(s) /\ i - 1 < idx /\ t[i - 1] = s[i - 1]
        BY <1>1, <1>2, <1>4
  <2>2. s[i - 1].limit <= s[idx].base
        BY <2>1 DEF Heap
  <2>3. GapStart(t, i) = s[i - 1].limit
        BY <2>1, <1>4 DEF GapStart
  <2>   QED BY <2>2, <2>3 DEF t
<1>5. CASE i # 1 /\ i > idx
  <2>1. i \in 1 .. Len(s) /\ idx < i /\ t[i - 1] = s[i]
        BY <1>1, <1>2, <1>5
  <2>2. s[idx].limit <= s[i].base /\ s[i].base <= s[i].limit
        BY <2>1 DEF Heap
  <2>3. GapStart(t, i) = s[i].limit
        BY <2>1, <1>5 DEF GapStart
  <2>4. s[idx].limit <= GapStart(t, i)
        BY <2>1, <2>2, <2>3, <1>1
  <2>   QED BY <2>4 DEF t
<1>   QED BY <1>1, <1>2, <1>3, <1>4, <1>5

Clear(s, t) ==
    \A old \in Range(s) \ Range(t), new \in Range(t) \ Range(s) :
       new.base <= old.base \/ old.limit <= new.base

\* krealloc leaves a block where it is, or moves it clear of its old place; when it
\* refuses it changes nothing, unless it crosses two blocks.
LEMMA KreallocClear ==
    ASSUME NEW s, Heap(s), NEW ptr \in Nat, NEW size \in Sizes
    PROVE  \/ Crosses(Krealloc(s, ptr, size).table)
           \/ /\ Clear(s, Krealloc(s, ptr, size).table)
              /\ ptr # Null /\ Krealloc(s, ptr, size).ret = Null
                    => Krealloc(s, ptr, size).table = s
<1>1. CASE s = <<>>
      BY <1>1 DEF Krealloc, Clear
<1>2. CASE s # <<>>
  <2>   DEFINE idx == EntryIndex(s, ptr)
  <2>1. /\ idx \in 1 .. Len(s)
        /\ \A j \in 1 .. idx - 1 : s[j].base # s[idx].base
        BY <1>2, HeapEntry, FirstHolder
  <2>   HIDE DEF idx
  <2>2. Krealloc(s, ptr, size) = IF GrowsInPlace(s, idx, size)
                                 THEN [table |-> Resized(s, idx, size), ret |-> ptr]
                                 ELSE Moved(s, idx, size)
        BY <1>2 DEF Krealloc, idx
  <2>3. /\ s \in Seq(Block) /\ Len(s) \in Nat /\ DOMAIN s = 1 .. Len(s)
        /\ \A k \in 1 .. Len(s) : s[k] \in Block /\ s[k].base \in Nat
        BY HeapEntry, TableEntry
  <2>4. CASE GrowsInPlace(s, idx, size)
    <3>   DEFINE b == [base |-> s[idx].base, limit |-> s[idx].base + size]
                 t == Resized(s, idx, size)
    <3>1. b \in Block /\ b.base = s[idx].base
          BY <2>1, <2>3, SizesNat DEF Block
    <3>2. /\ Len(t) = Len(s) /\ DOMAIN t = 1 .. Len(s)
          /\ \A k \in 1 .. Len(s) : t[k] = IF k = idx THEN b ELSE s[k]
      <4>   HIDE DEF b
      <4>1. t = [s EXCEPT ![idx] = b]
            BY DEF Resized, b
      <4>2. t \in Seq(Block) /\ Len(t) = Len(s)
            /\ \A k \in 1 .. Len(s) : t[k] = IF k = idx THEN b ELSE s[k]
            BY <4>1, <3>1, <2>1, <2>3, ExceptSeq
      <4>   QED BY <4>2, LenProperties
    <3>   HIDE DEF b, t
    <3>3. ASSUME NEW old \in Range(s) \ Range(t), NEW new \in Range(t) \ Range(s)
          PROVE  new.base <= old.base
      <4>1. PICK j \in 1 .. Len(s) : old = s[j]
            BY <2>3 DEF Range
      <4>2. j = idx
        <5>   SUFFICES ASSUME j # idx PROVE FALSE
              OBVIOUS
        <5>1. t[j] = old /\ j \in DOMAIN t
              BY <4>1, <3>2
        <5>   QED BY <5>1 DEF Range
      <4>3. PICK k \in 1 .. Len(s) : new = t[k]
            BY <3>2 DEF Range
      <4>4. k = idx
        <5>   SUFFICES ASSUME k # idx PROVE FALSE
              OBVIOUS
        <5>1. s[k] = new /\ k \in DOMAIN s
              BY <4>3, <3>2, <2>3
        <5>   QED BY <5>1 DEF Range
      <4>5. new = b /\ old = s[idx]
            BY <4>1, <4>2, <4>3, <4>4, <3>2
      <4>   QED BY <4>5, <3>1, <2>1, <2>3
    <3>   QED BY <3>3, <2>2, <2>4 DEF Clear, t
  <2>5. CASE ~GrowsInPlace(s, idx, size)
    <3>   DEFINE rest == RemoveAt(s, idx)
                 r    == Moved(s, idx, size)
    <3>0. size > 0
          BY <2>1, <2>5, MovesForMore
    <3>1. \/ r.ret = Null /\ r.table = s
          \/ r.ret = Null /\ Crosses(r.table)
          \/ /\ r.ret # Null
             /\ \E i \in Gaps(rest) :
                   r.table = InsertAt(rest, i, [base  |-> GapStart(rest, i),
                                                limit |-> GapStart(rest, i) + size])
          BY <2>1, <3>0, MovedHeap
    <3>   HIDE DEF r
    <3>2. CASE r.ret = Null
          BY <3>1, <3>2, <2>2, <2>5 DEF Clear, r
    <3>3. ASSUME r.ret # Null, NEW i \in Gaps(rest),
                 r.table = InsertAt(rest, i, [base  |-> GapStart(rest, i),
                                              limit |-> GapStart(rest, i) + size])
          PROVE  Clear(s, r.table)
      <4>   DEFINE b == [base |-> GapStart(rest, i), limit |-> GapStart(rest, i) + size]
      <4>1. /\ Range(rest) \subseteq Range(s)
            /\ Range(s) \subseteq Range(rest) \cup {s[idx]}
            BY <2>1, <2>3, RangeRemoveAt
      <4>2. Heap(rest) /\ rest \in Seq(Block) /\ i \in 1 .. Len(rest) + 1
            BY <2>1, RemoveAtHeap, HeapEntry, <3>3 DEF Gaps
      <4>3. GapStart(rest, i) <= s[idx].base \/ s[idx].limit <= GapStart(rest, i)
            BY <2>1, <3>3, MovedClear
      <4>   HIDE DEF rest
      <4>4. GapStart(rest, i) \in Nat
            BY <3>3, <4>2, Gap
      <4>5. b \in Block /\ b.base = GapStart(rest, i)
            BY <4>4, SizesNat DEF Block
      <4>   HIDE DEF b
      <4>6. /\ Range(rest) \subseteq Range(InsertAt(rest, i, b))
            /\ Range(InsertAt(rest, i, b)) \subseteq Range(rest) \cup {b}
            BY <4>2, <4>5, RangeInsertAt
      <4>7. r.table = InsertAt(rest, i, b)
            BY <3>3 DEF b
      <4>8. ASSUME NEW old \in Range(s) \ Range(r.table), NEW new \in Range(r.table) \ Range(s)
            PROVE  new.base <= old.base \/ old.limit <= new.base
        <5>1. old = s[idx] /\ new = b
              BY <4>1, <4>6, <4>7
        <5>   QED BY <5>1, <4>3, <4>5
      <4>   QED BY <4>8 DEF Clear
    <3>4. CASE r.ret # Null
      <4>1. Clear(s, r.table)
            BY <3>1, <3>3, <3>4
      <4>   QED BY <4>1, <2>2, <2>5, <3>4 DEF r
    <3>   QED BY <3>2, <3>4
  <2>   QED BY <2>4, <2>5
<1>   QED BY <1>1, <1>2

\* A table that only gains or only loses entries has moved none.
LEMMA GrowingClear ==
    ASSUME NEW s, NEW t, Range(s) \subseteq Range(t) \/ Range(t) \subseteq Range(s)
    PROVE  Clear(s, t)
BY DEF Clear

\* Every step leaves moved blocks clear of their old places, or has crossed two.
LEMMA StepClear ==
    ASSUME Heap(entries), [Next]_vars
    PROVE  crossed' \/ Clear(entries, entries')
<1>0. entries \in Seq(Block) /\ Table(entries)
      BY HeapEntry
<1>1. ASSUME NEW size \in Sizes, kmalloc(size) PROVE crossed' \/ Clear(entries, entries')
  <2>1. /\ entries' = Kmalloc(entries, size).table
        /\ Crosses(Kmalloc(entries, size).table) => crossed'
        BY <1>1 DEF kmalloc, Returns
  <2>2. \/ entries' = entries \/ crossed'
        \/ \E i \in Gaps(entries) :
              entries' = InsertAt(entries, i, [base  |-> GapStart(entries, i),
                                               limit |-> GapStart(entries, i) + size])
        BY <2>1, KmallocHeap
  <2>3. ASSUME NEW i \in Gaps(entries),
               entries' = InsertAt(entries, i, [base  |-> GapStart(entries, i),
                                                limit |-> GapStart(entries, i) + size])
        PROVE  Range(entries) \subseteq Range(entries')
    <3>   DEFINE b == [base |-> GapStart(entries, i), limit |-> GapStart(entries, i) + size]
    <3>1. b \in Block /\ i \in 1 .. Len(entries) + 1
          BY Gap, SizesNat DEF Block, Gaps
    <3>   HIDE DEF b
    <3>2. Range(entries) \subseteq Range(InsertAt(entries, i, b))
          BY <1>0, <3>1, RangeInsertAt
    <3>   QED BY <2>3, <3>2 DEF b
  <2>   QED BY <2>2, <2>3, GrowingClear
<1>2. ASSUME NEW size \in Sizes, kmalloc_pa(size) PROVE crossed' \/ Clear(entries, entries')
  <2>1. entries' = KmallocPA(entries, size).table
        BY <1>2 DEF kmalloc_pa, Returns
  <2>2. \/ entries' = entries
        \/ \E i \in Gaps(entries), b \in Block : entries' = InsertAt(entries, i, b)
        BY <2>1, KmallocPAHeap
  <2>3. ASSUME NEW i \in Gaps(entries), NEW b \in Block, entries' = InsertAt(entries, i, b)
        PROVE  Range(entries) \subseteq Range(entries')
    <3>1. i \in 1 .. Len(entries) + 1
          BY DEF Gaps
    <3>   QED BY <1>0, <2>3, <3>1, RangeInsertAt
  <2>   QED BY <2>2, <2>3, GrowingClear
<1>3. ASSUME NEW ptr \in Pointers, NEW size \in Sizes, krealloc(ptr, size)
      PROVE  crossed' \/ Clear(entries, entries')
  <2>1. ptr \in Nat
        BY <1>0, PointersNat
  <2>2. entries' = Krealloc(entries, ptr, size).table
        BY <1>3 DEF krealloc, Returns
  <2>3. Crosses(Krealloc(entries, ptr, size).table) => crossed'
        BY <1>3 DEF krealloc, Returns
  <2>   QED BY <2>1, <2>2, <2>3, KreallocClear
<1>4. ASSUME NEW ptr \in Pointers, kfree(ptr) PROVE crossed' \/ Clear(entries, entries')
  <2>1. entries' = RemoveEntry(entries, ptr)
        BY <1>4 DEF kfree, Returns
  <2>2. \/ entries' = entries
        \/ \E i \in 1 .. Len(entries) : entries' = RemoveAt(entries, i)
        BY <1>0, <2>1, RemoveEntryTable
  <2>   QED BY <1>0, <2>2, RangeRemoveAt, GrowingClear
<1>5. CASE UNCHANGED vars
      BY <1>5, GrowingClear DEF vars
<1>   QED BY <1>1, <1>2, <1>3, <1>4, <1>5 DEF Next

\* The memcpy of a moving krealloc never overwrites what it has yet to read.
THEOREM ContentsKept == Spec => ReallocKeepsContents
<1>1. IInv /\ [Next]_vars
         => [crossed' \/
             \A old \in Range(entries) \ Range(entries'), new \in Range(entries') \ Range(entries) :
                new.base <= old.base \/ old.limit <= new.base]_vars
  <2>   SUFFICES ASSUME IInv, Next, ~crossed' PROVE Clear(entries, entries')
        BY DEF Clear
  <2>1. Heap(entries)
        BY DEF IInv, Next, kmalloc, kmalloc_pa, krealloc, kfree, Returns
  <2>   QED BY <2>1, StepClear
<1>   QED BY <1>1, HeapInvariant, PTL DEF Spec, ReallocKeepsContents

\* A krealloc that fails on a live block leaves the whole table as it was, unless it
\* crosses two blocks.
THEOREM FailureRestores == Spec => FailedReallocRestores
<1>1. IInv /\ [Next]_vars
         => [call'.op = "krealloc" /\ call'.ptr # Null /\ call'.ret = Null
                => crossed' \/ entries' = entries]_vars
  <2>   SUFFICES ASSUME IInv, Next, call'.op = "krealloc", call'.ptr # Null, call'.ret = Null,
                        ~crossed'
                 PROVE  entries' = entries
        OBVIOUS
  <2>0. Heap(entries)
        BY DEF IInv, Next, kmalloc, kmalloc_pa, krealloc, kfree, Returns
  <2>1. ASSUME NEW ptr \in Pointers, NEW size \in Sizes, krealloc(ptr, size)
        PROVE  entries' = entries
    <3>1. ptr \in Nat
          BY <2>0, HeapEntry, PointersNat
    <3>2. /\ entries' = Krealloc(entries, ptr, size).table
          /\ ptr # Null /\ Krealloc(entries, ptr, size).ret = Null
          /\ ~Crosses(Krealloc(entries, ptr, size).table)
          BY <2>1 DEF krealloc, Returns
    <3>   QED BY <2>0, <3>1, <3>2, KreallocClear
  <2>2. ASSUME NEW size \in Sizes, kmalloc(size) \/ kmalloc_pa(size) PROVE FALSE
        BY <2>2 DEF kmalloc, kmalloc_pa, Returns
  <2>3. ASSUME NEW ptr \in Pointers, kfree(ptr) PROVE FALSE
        BY <2>3 DEF kfree, Returns
  <2>   QED BY <2>1, <2>2, <2>3 DEF Next
<1>   QED BY <1>1, HeapInvariant, PTL DEF Spec, FailedReallocRestores

-------------------------------------------------------------------------------
(* The promise: the table's range is an allocator's set of blocks. *)

\* The range of a table is what its entries are.
LEMMA HeapRange ==
    ASSUME NEW s, Table(s)
    PROVE  Range(s) = {s[k] : k \in 1 .. Len(s)}
BY TableEntry DEF Range

\* Putting a block in adds just that block.
LEMMA RangeWith ==
    ASSUME NEW s, Heap(s), NEW i \in Gaps(s), NEW b \in Block
    PROVE  /\ Range(InsertAt(s, i, b)) = Range(s) \cup {b}
           /\ Len(InsertAt(s, i, b)) = Len(s) + 1
<1>1. s \in Seq(Block) /\ Len(s) \in Nat /\ i \in 1 .. Len(s) + 1
      BY HeapEntry DEF Gaps
<1>   HIDE DEF Block
<1>2. Range(InsertAt(s, i, b)) \subseteq Range(s) \cup {b}
      BY <1>1, RangeInsertAt
<1>3. Range(s) \subseteq Range(InsertAt(s, i, b)) /\ b \in Range(InsertAt(s, i, b))
      BY <1>1, RangeInsertAt
<1>4. Len(InsertAt(s, i, b)) = Len(s) + 1
      BY <1>1, InsertAtProperties
<1>   QED BY <1>2, <1>3, <1>4

\* Taking one out removes just that one, and a hollow one may leave a twin.
LEMMA RangeWithout ==
    ASSUME NEW s, Heap(s), NEW i \in 1 .. Len(s)
    PROVE  /\ Len(RemoveAt(s, i)) = Len(s) - 1
           /\ \/ Range(RemoveAt(s, i)) = Range(s) \ {s[i]}
              \/ Hollow(s[i]) /\ Range(RemoveAt(s, i)) = Range(s)
<1>1. /\ s \in Seq(Block) /\ Len(s) \in Nat /\ Table(s)
      /\ \A k \in 1 .. Len(s) : /\ s[k].base \in Nat /\ s[k].limit \in Nat
                                /\ s[k].base <= s[k].limit
      BY HeapEntry
<1>   DEFINE t == RemoveAt(s, i)
<1>2. /\ Len(t) = Len(s) - 1
      /\ \A k \in 1 .. Len(s) - 1 : t[k] = IF k < i THEN s[k] ELSE s[k + 1]
      BY PlaceLeft
<1>3. Range(t) \subseteq Range(s) /\ Range(s) \subseteq Range(t) \cup {s[i]}
      BY <1>1, RangeRemoveAt
<1>4. Range(t) = {t[k] : k \in 1 .. Len(t)}
      BY PlaceLeft, HeapEntry, HeapRange
<1>   HIDE DEF t
<1>5. ~Hollow(s[i]) => s[i] \notin Range(t)
  <2>   SUFFICES ASSUME ~Hollow(s[i]), NEW k \in 1 .. Len(s) - 1 PROVE t[k] # s[i]
        BY <1>2, <1>4
  <2>1. s[i].base < s[i].limit
        BY <1>1 DEF Hollow
  <2>2. CASE k < i
    <3>1. t[k] = s[k] /\ k \in 1 .. Len(s) /\ k < i
          BY <1>1, <1>2, <2>2
    <3>2. s[k].limit <= s[i].base
          BY <3>1 DEF Heap
    <3>   QED BY <1>1, <2>1, <3>1, <3>2
  <2>3. CASE ~(k < i)
    <3>1. t[k] = s[k + 1] /\ k + 1 \in 1 .. Len(s) /\ i < k + 1
          BY <1>1, <1>2, <2>3
    <3>2. s[i].limit <= s[k + 1].base
          BY <3>1 DEF Heap
    <3>   QED BY <1>1, <2>1, <3>1, <3>2
  <2>   QED BY <2>2, <2>3
<1>6. Range(t) = Range(s) \ {s[i]} \/ (Hollow(s[i]) /\ Range(t) = Range(s))
  <2>1. CASE s[i] \in Range(t)
        BY <1>3, <1>5, <2>1
  <2>2. CASE s[i] \notin Range(t)
        BY <1>3, <2>2
  <2>   QED BY <2>1, <2>2
<1>   QED BY <1>2, <1>6 DEF t

\* A place is free exactly when it lies in a gap.
LEMMA GapIsFree ==
    ASSUME NEW s, Heap(s), NEW i \in Gaps(s), NEW a \in Nat, NEW n \in Nat,
           GapStart(s, i) <= a, a + n <= GapEnd(s, i)
    PROVE  a \in Promise!Room(n, Range(s))
<1>1. /\ GapStart(s, i) \in Nat /\ KHEAP_BASE <= GapStart(s, i)
      /\ GapEnd(s, i) \in Nat /\ GapEnd(s, i) <= KHEAP_LIMIT
      /\ \A j \in 1 .. Len(s) : j < i => s[j].limit <= GapStart(s, i)
      /\ \A j \in 1 .. Len(s) : i <= j => GapEnd(s, i) <= s[j].base
      BY Gap
<1>2. /\ Len(s) \in Nat /\ i \in Nat
      /\ \A j \in 1 .. Len(s) : s[j].base \in Nat /\ s[j].limit \in Nat
      BY HeapEntry DEF Gaps
<1>3. KHEAP_BASE <= a /\ a + n <= KHEAP_LIMIT /\ a \in KHEAP_BASE .. KHEAP_LIMIT
      BY <1>1, HeapAssumption
<1>4. \A j \in 1 .. Len(s) : a + n <= s[j].base \/ s[j].limit <= a
  <2>   SUFFICES ASSUME NEW j \in 1 .. Len(s) PROVE a + n <= s[j].base \/ s[j].limit <= a
        OBVIOUS
  <2>1. CASE j < i
        BY <1>1, <1>2, <2>1
  <2>2. CASE i <= j
        BY <1>1, <1>2, <2>2
  <2>   QED BY <1>2, <2>1, <2>2
<1>5. \A b \in Range(s) : a + n <= b.base \/ b.limit <= a
      BY <1>4, HeapEntry, HeapRange
<1>   QED BY <1>3, <1>5 DEF Promise!Room, Promise!Free

\* A block that overlaps no entry lies in a gap.
LEMMA FreeInGap ==
    ASSUME NEW s, Heap(s), NEW n \in Nat \ {0}, NEW a \in Promise!Room(n, Range(s))
    PROVE  /\ a \in Nat
           /\ \E i \in Gaps(s) : GapStart(s, i) <= a /\ a + n <= GapEnd(s, i)
<1>1. /\ KHEAP_BASE <= a /\ a + n <= KHEAP_LIMIT /\ a \in Nat
      /\ \A b \in Range(s) : a + n <= b.base \/ b.limit <= a
      BY HeapAssumption DEF Promise!Room, Promise!Free
<1>2. /\ Len(s) \in Nat
      /\ \A k \in 1 .. Len(s) : /\ s[k].base \in Nat /\ s[k].limit \in Nat
                                /\ s[k].base <= s[k].limit
      BY HeapEntry
<1>3. \A k \in 1 .. Len(s) : a + n <= s[k].base \/ s[k].limit <= a
      BY <1>1, HeapEntry, HeapRange
<1>   DEFINE above == {i \in Gaps(s) : i = Len(s) + 1 \/ s[i].base > a}
<1>4. Len(s) + 1 \in above /\ above \subseteq Nat
      BY <1>2 DEF Gaps
<1>5. PICK i \in above : \A k \in above : i <= k
      BY <1>4, LeastNat
<1>6. i \in Gaps(s) /\ i \in 1 .. Len(s) + 1
      BY <1>5 DEF Gaps
<1>7. GapStart(s, i) <= a
  <2>1. CASE i = 1
        BY <1>1, <2>1 DEF GapStart
  <2>2. CASE i # 1
    <3>1. i - 1 \in 1 .. Len(s) /\ i - 1 \in Gaps(s) /\ i - 1 # Len(s) + 1 /\ ~(i <= i - 1)
          BY <1>2, <1>6, <2>2 DEF Gaps
    <3>2. ~(s[i - 1].base > a)
          BY <1>5, <3>1
    <3>3. s[i - 1].limit <= a
          BY <1>1, <1>2, <1>3, <3>1, <3>2
    <3>   QED BY <2>2, <3>3 DEF GapStart
  <2>   QED BY <2>1, <2>2
<1>8. a + n <= GapEnd(s, i)
  <2>1. CASE i = Len(s) + 1
        BY <1>1, <2>1 DEF GapEnd
  <2>2. CASE i # Len(s) + 1
    <3>1. i \in 1 .. Len(s) /\ s[i].base > a
          BY <1>2, <1>5, <1>6, <2>2
    <3>2. a + n <= s[i].base
          BY <1>1, <1>2, <1>3, <3>1
    <3>   QED BY <2>2, <3>2 DEF GapEnd
  <2>   QED BY <2>1, <2>2
<1>   QED BY <1>1, <1>6, <1>7, <1>8

\* A multiple of the page size leaves no remainder.
LEMMA MultipleOfPage ==
    ASSUME NEW k \in Nat
    PROVE  (k * PageSize) % PageSize = 0
<1>1. PageSize \in Nat /\ PageSize > 0
      BY HeapAssumption
<1>   QED BY <1>1, Z3

\* RoundUp gives the least aligned address that is not lower.
LEMMA RoundUpLeast ==
    ASSUME NEW v \in Nat
    PROVE  /\ RoundUp(v) % PageSize = 0
           /\ \A a \in Nat : a % PageSize = 0 /\ v <= a => RoundUp(v) <= a
<1>   DEFINE q == v \div PageSize
             r == v % PageSize
<1>1. /\ PageSize \in Nat /\ PageSize > 0
      BY HeapAssumption
<1>2. /\ q \in Nat /\ r \in Nat /\ r < PageSize /\ v = q * PageSize + r
      BY <1>1, Z3
<1>3. RoundUp(v) = (q + (IF r = 0 THEN 0 ELSE 1)) * PageSize
      BY DEF RoundUp
<1>   HIDE DEF q, r
<1>4. RoundUp(v) % PageSize = 0
  <2>1. q + (IF r = 0 THEN 0 ELSE 1) \in Nat
        BY <1>2
  <2>   QED BY <1>3, <2>1, MultipleOfPage
<1>5. ASSUME NEW a \in Nat, a % PageSize = 0, v <= a PROVE RoundUp(v) <= a
  <2>   DEFINE k == a \div PageSize
  <2>1. k \in Nat /\ a = k * PageSize
        BY <1>1, <1>5, Z3
  <2>   HIDE DEF k
  <2>2. q * PageSize \in Nat /\ k * PageSize \in Nat
        BY <1>1, <1>2, <2>1
  <2>3. CASE r = 0
    <3>1. RoundUp(v) = q * PageSize
          BY <1>2, <1>3, <2>3
    <3>   QED BY <1>2, <1>5, <2>2, <2>3, <3>1
  <2>4. CASE r # 0
    <3>1. RoundUp(v) = (q + 1) * PageSize /\ q + 1 \in Nat
          BY <1>2, <1>3, <2>4
    <3>2. q * PageSize < k * PageSize
          BY <1>2, <1>5, <2>1, <2>2, <2>4
    <3>3. q < k
      <4>1. CASE k <= q
        <5>1. k * PageSize <= q * PageSize
              BY <1>1, <1>2, <2>1, <4>1, Z3
        <5>   QED BY <2>2, <3>2, <5>1
      <4>   QED BY <1>2, <2>1, <4>1
    <3>4. (q + 1) * PageSize <= k * PageSize
      <4>1. q + 1 <= k
            BY <1>2, <2>1, <3>3
      <4>   QED BY <1>1, <1>2, <2>1, <4>1, Z3
    <3>   QED BY <2>1, <3>1, <3>4
  <2>   QED BY <2>3, <2>4
<1>   QED BY <1>4, <1>5

\* A scan that finds no gap large enough has nowhere to put the block.
LEMMA NoFit ==
    ASSUME NEW s, Heap(s), NEW size \in Sizes
    PROVE  /\ FirstFit(s, size) = {} => size # 0 /\ Promise!Room(size, Range(s)) = {}
           /\ FirstFitPA(s, size) = {} => Promise!AlignedRoom(size, Range(s)) = {}
<1>1. size \in Nat
      BY HeapAssumption
<1>2. Gaps(s) \subseteq Nat /\ \A i \in Gaps(s) : \A j \in 1 .. i - 1 : j \in Gaps(s) /\ j < i
      BY HeapEntry DEF Gaps
<1>3. ASSUME NEW i \in Gaps(s), Fits(s, i, size) PROVE FirstFit(s, size) # {}
  <2>   DEFINE fits == {k \in Gaps(s) : Fits(s, k, size)}
  <2>1. PICK m \in fits : \A k \in fits : m <= k
        BY <1>2, <1>3, LeastNat
  <2>2. \A j \in 1 .. m - 1 : ~Fits(s, j, size)
        BY <1>2, <2>1
  <2>   QED BY <2>1, <2>2 DEF FirstFit
<1>4. ASSUME size # 0, NEW a \in Promise!Room(size, Range(s)) PROVE FirstFit(s, size) # {}
  <2>1. PICK i \in Gaps(s) : GapStart(s, i) <= a /\ a + size <= GapEnd(s, i)
        BY <1>1, <1>4, FreeInGap
  <2>2. /\ a \in Nat /\ GapStart(s, i) \in Nat /\ GapEnd(s, i) \in Nat
        /\ GapStart(s, i) <= GapEnd(s, i)
        BY <1>1, <1>4, FreeInGap, Gap
  <2>3. Sub(GapEnd(s, i), GapStart(s, i)) = GapEnd(s, i) - GapStart(s, i)
        BY <2>2, SubNoWrap
  <2>4. Fits(s, i, size)
        BY <1>1, <2>1, <2>2, <2>3 DEF Fits
  <2>   QED BY <1>3, <2>4
<1>5. size = 0 => FirstFit(s, size) # {}
  <2>1. 1 \in Gaps(s)
        BY HeapEntry DEF Gaps
  <2>2. /\ GapStart(s, 1) \in Nat /\ GapEnd(s, 1) \in Nat
        /\ GapStart(s, 1) <= GapEnd(s, 1)
        BY <2>1, Gap
  <2>3. size = 0 => Fits(s, 1, size)
        BY <2>2, SubNoWrap DEF Fits
  <2>   QED BY <1>3, <2>1, <2>3
<1>6. ASSUME NEW a \in Promise!AlignedRoom(size, Range(s)) PROVE FirstFitPA(s, size) # {}
  <2>   DEFINE fits == {i \in Gaps(s) : FitsPA(s, i, size)}
  <2>   DEFINE n == IF size = 0 THEN 1 ELSE size
  <2>0. n \in Nat \ {0} /\ n \in Nat /\ n >= size
        BY <1>1
  <2>1. a \in Promise!Room(n, Range(s)) /\ a % PageSize = 0
        BY <1>6 DEF Promise!AlignedRoom
  <2>   HIDE DEF n
  <2>2. PICK i \in Gaps(s) : GapStart(s, i) <= a /\ a + n <= GapEnd(s, i)
        BY <2>0, <2>1, FreeInGap
  <2>3. a \in Nat /\ GapStart(s, i) \in Nat /\ GapEnd(s, i) \in Nat
        BY <2>0, <2>1, FreeInGap, Gap
  <2>   DEFINE start == RoundUp(GapStart(s, i))
  <2>4. start \in Nat /\ start <= a
        BY <2>1, <2>2, <2>3, RoundUpProperties, RoundUpLeast
  <2>5. start < GapEnd(s, i) /\ GapEnd(s, i) - start >= size /\ start <= GapEnd(s, i)
    <3>   HIDE DEF start
    <3>   QED BY <1>1, <2>0, <2>2, <2>3, <2>4
  <2>6. Sub(GapEnd(s, i), start) = GapEnd(s, i) - start
        BY <2>3, <2>4, <2>5, SubNoWrap
  <2>7. i \in fits
        BY <2>5, <2>6 DEF FitsPA
  <2>8. PICK m \in fits : \A k \in fits : m <= k
        BY <1>2, <2>7, LeastNat
  <2>9. \A j \in 1 .. m - 1 : ~FitsPA(s, j, size)
        BY <1>2, <2>8
  <2>   QED BY <2>8, <2>9 DEF FirstFitPA
<1>7. Promise!AlignedRoom(size, Range(s)) = {} \/ \E a : a \in Promise!AlignedRoom(size, Range(s))
      OBVIOUS
<1>   QED BY <1>4, <1>5, <1>6, <1>7

\* What a request for size bytes leaves of the table s, and answers: a free place,
\* or a refusal because the table is full.
Grants(s, size, r) ==
    /\ r.ret # Null /\ Len(s) < MEM_ENTRIES /\ Len(r.table) = Len(s) + 1
    /\ r.ret \in Promise!Room(size, Range(s))
    /\ Range(r.table) = Range(s) \cup {Promise!Place(r.ret, size)}

Refuses(s, r) == r.ret = Null /\ r.table = s

\* A block entered in a gap that has room is granted.
LEMMA EnteredGrants ==
    ASSUME NEW s, Heap(s), ~Full(s), NEW i \in Gaps(s), NEW base \in Nat, NEW size \in Sizes,
           GapStart(s, i) <= base, base + size <= GapEnd(s, i),
           NEW r, r.ret = base,
           r.table = InsertAt(s, i, [base |-> base, limit |-> base + size])
    PROVE  Grants(s, size, r)
<1>1. /\ Len(s) \in Nat /\ Len(s) <= MEM_ENTRIES /\ MEM_ENTRIES \in Nat
      /\ size \in Nat /\ KHEAP_BASE \in Nat /\ KHEAP_BASE > 0
      BY HeapEntry, HeapAssumption
<1>2. GapStart(s, i) \in Nat /\ KHEAP_BASE <= GapStart(s, i)
      BY Gap
<1>3. r.table = InsertAt(s, i, Promise!Place(base, size)) /\ Promise!Place(base, size) \in Block
      BY <1>1 DEF Promise!Place, Block
<1>4. /\ Range(r.table) = Range(s) \cup {Promise!Place(base, size)}
      /\ Len(r.table) = Len(s) + 1
      BY <1>3, RangeWith
<1>5. base \in Promise!Room(size, Range(s))
      BY <1>1, GapIsFree
<1>6. Len(s) < MEM_ENTRIES /\ base # Null
      BY <1>1, <1>2 DEF Full, Null
<1>   QED BY <1>4, <1>5, <1>6 DEF Grants

\* A full table has no entry left.
LEMMA FullTable ==
    ASSUME NEW s, Heap(s), Full(s)
    PROVE  Len(s) = MEM_ENTRIES
BY HeapEntry, HeapAssumption DEF Full

\* kmalloc grants a free place, and refuses only when the table is full or no place is
\* free; or 0 bytes were asked for and a block begins where the heap does.
LEMMA KmallocAnswers ==
    ASSUME NEW s, Heap(s), NEW size \in Sizes
    PROVE  \/ Heap(Kmalloc(s, size).table) /\ Grants(s, size, Kmalloc(s, size))
           \/ /\ Refuses(s, Kmalloc(s, size))
              /\ Len(s) = MEM_ENTRIES \/ Promise!Room(size, Range(s)) = {}
           \/ size = 0 /\ BeginsAt(s, KHEAP_BASE) /\ Crosses(Kmalloc(s, size).table)
<1>   DEFINE r == Kmalloc(s, size)
<1>1. \/ r.ret = Null /\ r.table = s /\ (Full(s) \/ FirstFit(s, size) = {})
      \/ size = 0 /\ BeginsAt(s, KHEAP_BASE) /\ Crosses(r.table)
      \/ /\ Heap(r.table) /\ ~Full(s)
         /\ \E i \in Gaps(s) :
               /\ GapStart(s, i) + size <= GapEnd(s, i)
               /\ r.ret = GapStart(s, i)
               /\ r.table = InsertAt(s, i, [base  |-> GapStart(s, i),
                                            limit |-> GapStart(s, i) + size])
      BY KmallocHeap
<1>   HIDE DEF r
<1>2. CASE r.ret = Null /\ r.table = s /\ (Full(s) \/ FirstFit(s, size) = {})
      BY <1>2, FullTable, NoFit DEF Refuses, r
<1>3. CASE size = 0 /\ BeginsAt(s, KHEAP_BASE) /\ Crosses(r.table)
      BY <1>3 DEF r
<1>4. ASSUME Heap(r.table), ~Full(s), NEW i \in Gaps(s),
             GapStart(s, i) + size <= GapEnd(s, i), r.ret = GapStart(s, i),
             r.table = InsertAt(s, i, [base  |-> GapStart(s, i),
                                       limit |-> GapStart(s, i) + size])
      PROVE  Grants(s, size, r)
  <2>   DEFINE base == GapStart(s, i)
  <2>1. base \in Nat /\ GapStart(s, i) <= base
        BY <1>4, Gap
  <2>2. /\ base + size <= GapEnd(s, i) /\ r.ret = base
        /\ r.table = InsertAt(s, i, [base |-> base, limit |-> base + size])
        BY <1>4
  <2>   HIDE DEF base
  <2>   QED BY <1>4, <2>1, <2>2, EnteredGrants
<1>   QED BY <1>1, <1>2, <1>3, <1>4 DEF r

\* kmalloc_pa does so too, for places on page boundaries.
LEMMA KmallocPAAnswers ==
    ASSUME NEW s, Heap(s), NEW size \in Sizes
    PROVE  \/ /\ Grants(s, size, KmallocPA(s, size))
              /\ KmallocPA(s, size).ret \in Promise!AlignedRoom(size, Range(s))
           \/ /\ Refuses(s, KmallocPA(s, size))
              /\ Len(s) = MEM_ENTRIES \/ Promise!AlignedRoom(size, Range(s)) = {}
<1>1. CASE FirstFitPA(s, size) = {}
      BY <1>1, NoFit DEF KmallocPA, Refuses
<1>2. CASE FirstFitPA(s, size) # {}
  <2>   DEFINE i == CHOOSE i \in FirstFitPA(s, size) : TRUE
               base == RoundUp(GapStart(s, i))
  <2>1. i \in FirstFitPA(s, size)
        BY <1>2
  <2>2. KmallocPA(s, size) = Placed(s, base, size)
        BY <1>2 DEF KmallocPA
  <2>   HIDE DEF i
  <2>3. i \in Gaps(s) /\ base < GapEnd(s, i) /\ Sub(GapEnd(s, i), base) >= size
        BY <2>1 DEF FirstFitPA, FitsPA
  <2>4. GapStart(s, i) \in Nat /\ GapEnd(s, i) \in Nat
        BY <2>3, Gap
  <2>5. base \in Nat /\ GapStart(s, i) <= base
        BY <2>4, RoundUpProperties
  <2>6. base % PageSize = 0
        BY <2>4, RoundUpLeast
  <2>   HIDE DEF base
  <2>7. size \in Nat /\ 1 \in Nat
        BY HeapAssumption
  <2>8. /\ base < GapEnd(s, i) /\ GapEnd(s, i) - base >= size
        /\ base + size <= GapEnd(s, i) /\ base + 1 <= GapEnd(s, i)
        BY <2>3, <2>4, <2>5, <2>7, SubNoWrap
  <2>9. CASE Full(s)
        BY <2>2, <2>9, FullTable DEF Placed, Refuses
  <2>10. CASE ~Full(s)
    <3>   DEFINE r == Placed(s, base, size)
    <3>1. /\ r.ret = base
          /\ r.table = InsertAt(s, i, [base |-> base, limit |-> base + size])
          BY <2>3, <2>5, <2>8, <2>10, PlacedHeap DEF Placed
    <3>   HIDE DEF r
    <3>2. Grants(s, size, r)
          BY <2>3, <2>5, <2>8, <2>10, <3>1, EnteredGrants
    <3>3. base \in Promise!Room(IF size = 0 THEN 1 ELSE size, Range(s))
          BY <2>3, <2>5, <2>7, <2>8, GapIsFree
    <3>   QED BY <2>2, <2>6, <3>1, <3>2, <3>3 DEF Promise!AlignedRoom, r
  <2>   QED BY <2>9, <2>10
<1>   QED BY <1>1, <1>2

\* krealloc's test of the next block's base is right: a block grows where it stands
\* exactly when that place is free once its own block is put aside; a hollow block
\* with a twin is the exception.
LEMMA GrowsWhereFree ==
    ASSUME NEW s, Heap(s), NEW idx \in 1 .. Len(s), NEW size \in Sizes,
           \A j \in 1 .. idx - 1 : s[j].base # s[idx].base
    PROVE  LET rest == Range(RemoveAt(s, idx))
           IN  /\ GrowsInPlace(s, idx, size) => s[idx].base \in Promise!Room(size, rest)
               /\ s[idx].base \in Promise!Room(size, rest) /\ ~GrowsInPlace(s, idx, size)
                     => Hollow(s[idx])
               /\ Range(Resized(s, idx, size)) = rest \cup {Promise!Place(s[idx].base, size)}
<1>1. /\ s \in Seq(Block) /\ Len(s) \in Nat /\ DOMAIN s = 1 .. Len(s)
      /\ \A k \in 1 .. Len(s) :
            /\ s[k].base \in Nat /\ s[k].limit \in Nat
            /\ KHEAP_BASE <= s[k].base /\ s[k].limit <= KHEAP_LIMIT
            /\ s[k].base <= s[k].limit
      /\ \A j, k \in 1 .. Len(s) : j < k => s[j].limit <= s[k].base
      BY HeapEntry, TableEntry DEF Heap
<1>2. size \in Nat /\ KHEAP_LIMIT \in Nat
      BY HeapAssumption
<1>   DEFINE t    == RemoveAt(s, idx)
             lo   == s[idx].base
             next == GapEnd(s, idx + 1)
<1>3. Range(t) = {s[k] : k \in (1 .. Len(s)) \ {idx}}
  <2>1. /\ Len(t) = Len(s) - 1
        /\ \A k \in 1 .. Len(s) - 1 : t[k] = IF k < idx THEN s[k] ELSE s[k + 1]
        BY PlaceLeft
  <2>2. Range(t) = {t[k] : k \in 1 .. Len(t)}
        BY PlaceLeft, HeapEntry, HeapRange
  <2>   HIDE DEF t
  <2>3. ASSUME NEW k \in 1 .. Len(s) - 1
        PROVE  \E j \in (1 .. Len(s)) \ {idx} : t[k] = s[j]
    <3>1. CASE k < idx
          BY <1>1, <2>1, <3>1
    <3>2. CASE ~(k < idx)
          BY <1>1, <2>1, <3>2
    <3>   QED BY <3>1, <3>2
  <2>4. ASSUME NEW j \in (1 .. Len(s)) \ {idx}
        PROVE  \E k \in 1 .. Len(s) - 1 : t[k] = s[j]
    <3>1. CASE j < idx
      <4>1. j \in 1 .. Len(s) - 1
            BY <1>1, <3>1
      <4>   QED BY <2>1, <3>1, <4>1
    <3>2. CASE j > idx
      <4>1. j - 1 \in 1 .. Len(s) - 1 /\ ~(j - 1 < idx) /\ (j - 1) + 1 = j
            BY <1>1, <3>2
      <4>   QED BY <2>1, <4>1
    <3>3. j < idx \/ j > idx
      <4>1. j \in 1 .. Len(s) /\ j # idx /\ Len(s) \in Nat
            BY <1>1
      <4>   QED BY <4>1
    <3>   QED BY <3>1, <3>2, <3>3
  <2>5. Range(t) = {t[k] : k \in 1 .. Len(s) - 1}
        BY <2>1, <2>2
  <2>6. Range(t) \subseteq {s[k] : k \in (1 .. Len(s)) \ {idx}}
        BY <2>3, <2>5
  <2>7. {s[k] : k \in (1 .. Len(s)) \ {idx}} \subseteq Range(t)
        BY <2>4, <2>5
  <2>   QED BY <2>6, <2>7
<1>   HIDE DEF t
<1>4. /\ lo \in Nat /\ next \in Nat /\ lo <= next /\ next <= KHEAP_LIMIT
      /\ idx + 1 \in 1 .. Len(s) => next = s[idx + 1].base
      /\ idx + 1 \notin 1 .. Len(s) => next = KHEAP_LIMIT
  <2>1. CASE idx = Len(s)
        BY <1>1, <1>2, <2>1 DEF GapEnd
  <2>2. CASE idx # Len(s)
    <3>1. idx + 1 \in 1 .. Len(s) /\ idx < idx + 1 /\ idx + 1 # Len(s) + 1
      <4>1. Len(s) \in Nat
            BY <1>1
      <4>   QED BY <4>1, <2>2
    <3>2. s[idx].limit <= s[idx + 1].base
          BY <1>1, <3>1
    <3>   QED BY <1>1, <1>2, <3>1, <3>2 DEF GapEnd
  <2>   QED BY <2>1, <2>2
<1>5. GrowsInPlace(s, idx, size) <=> next - lo >= size
      BY <1>4, SubNoWrap DEF GrowsInPlace
<1>6. \A k \in 1 .. Len(s) : k # idx => s[k].limit <= lo \/ next <= s[k].base
  <2>   SUFFICES ASSUME NEW k \in 1 .. Len(s), k # idx
                 PROVE  s[k].limit <= lo \/ next <= s[k].base
        OBVIOUS
  <2>1. CASE k < idx
        BY <1>1, <2>1
  <2>2. CASE k = idx + 1
        BY <1>1, <1>4, <2>2
  <2>3. CASE k > idx + 1
    <3>1. idx + 1 \in 1 .. Len(s) /\ idx + 1 < k
          BY <1>1, <2>3
    <3>2. s[idx + 1].base <= s[idx + 1].limit /\ s[idx + 1].limit <= s[k].base
          BY <1>1, <3>1
    <3>   QED BY <1>1, <1>4, <3>1, <3>2
  <2>   QED BY <1>1, <2>1, <2>2, <2>3
<1>7. KHEAP_BASE <= lo
      BY <1>1
<1>8. s[idx].base = lo /\ lo <= s[idx].limit
      BY <1>1
<1>   HIDE DEF lo, next
<1>9. ASSUME next - lo >= size
      PROVE  lo \in Promise!Room(size, Range(t))
  <2>1. lo + size <= next /\ lo + size <= KHEAP_LIMIT /\ lo \in KHEAP_BASE .. KHEAP_LIMIT
        BY <1>2, <1>4, <1>7, <1>9, HeapAssumption
  <2>2. \A k \in 1 .. Len(s) : k # idx => lo + size <= s[k].base \/ s[k].limit <= lo
        BY <1>1, <1>2, <1>4, <1>6, <2>1
  <2>3. \A c \in Range(t) : lo + size <= c.base \/ c.limit <= lo
        BY <1>3, <2>2
  <2>   QED BY <1>7, <2>1, <2>3 DEF Promise!Room, Promise!Free
<1>10. ASSUME lo \in Promise!Room(size, Range(t)), ~(next - lo >= size)
       PROVE  Hollow(s[idx])
  <2>1. /\ lo + size <= KHEAP_LIMIT
        /\ \A k \in 1 .. Len(s) : k # idx => lo + size <= s[k].base \/ s[k].limit <= lo
        BY <1>3, <1>10 DEF Promise!Room, Promise!Free
  <2>2. CASE idx + 1 \in 1 .. Len(s)
    <3>1. idx + 1 # idx /\ idx < idx + 1
          BY <1>1
    <3>2. s[idx].limit <= s[idx + 1].base /\ s[idx + 1].base <= s[idx + 1].limit
          BY <1>1, <2>2, <3>1
    <3>3. lo + size <= s[idx + 1].base \/ s[idx + 1].limit <= lo
          BY <2>1, <2>2, <3>1
    <3>4. ~(lo + size <= s[idx + 1].base)
          BY <1>2, <1>4, <1>10, <2>2
    <3>   QED BY <1>1, <1>4, <1>8, <2>2, <3>2, <3>3, <3>4 DEF Hollow
  <2>3. CASE idx + 1 \notin 1 .. Len(s)
        BY <1>2, <1>4, <1>10, <2>1, <2>3
  <2>   QED BY <2>2, <2>3
<1>11. Range(Resized(s, idx, size)) = Range(t) \cup {Promise!Place(lo, size)}
  <2>   DEFINE x == Promise!Place(lo, size)
  <2>1. Resized(s, idx, size) = [s EXCEPT ![idx] = x]
        BY DEF Resized, Promise!Place, lo
  <2>   HIDE DEF x
  <2>2. Range([s EXCEPT ![idx] = x]) = {s[k] : k \in (1 .. Len(s)) \ {idx}} \cup {x}
        BY <1>1 DEF Range
  <2>   QED BY <1>3, <2>1, <2>2 DEF x
<1>   QED BY <1>5, <1>9, <1>10, <1>11 DEF lo, t

\* krealloc puts the block of its entry aside and finds it a place, its own one when it
\* fits there; or there is none; or a hollow block, put back, crosses another.
LEMMA KreallocAnswers ==
    ASSUME NEW s, Heap(s), NEW ptr, NEW idx \in 1 .. Len(s), NEW size \in Sizes,
           \A j \in 1 .. idx - 1 : s[j].base # s[idx].base,
           NEW r, r = IF GrowsInPlace(s, idx, size)
                      THEN [table |-> Resized(s, idx, size), ret |-> ptr]
                      ELSE Moved(s, idx, size)
    PROVE  LET b    == s[idx]
               rest == Range(RemoveAt(s, idx))
           IN  \/ /\ Heap(r.table) /\ Len(r.table) = Len(s)
                  /\ \E a \in Promise!Room(size, rest) :
                        /\ Range(r.table) = rest \cup {Promise!Place(a, size)}
                        /\ r.ret \in Promise!Moved(ptr, b, a)
               \/ Promise!Room(size, rest) = {} /\ r.table = s /\ r.ret = Null
               \/ /\ Crosses(r.table) /\ r.ret = Null
                  /\ Hollow(b) /\ BeginsAt(s, b.base)
<1>   DEFINE b    == s[idx]
             t    == RemoveAt(s, idx)
             room == Promise!Room(size, Range(t))
<1>1. /\ GrowsInPlace(s, idx, size) => b.base \in room
      /\ b.base \in room /\ ~GrowsInPlace(s, idx, size) => Hollow(b)
      /\ Range(Resized(s, idx, size)) = Range(t) \cup {Promise!Place(b.base, size)}
      BY GrowsWhereFree
<1>2. /\ Heap(t) /\ Len(t) = Len(s) - 1 /\ Len(s) \in Nat /\ s \in Seq(Block)
      BY PlaceLeft, HeapEntry
<1>3. CASE GrowsInPlace(s, idx, size)
  <2>1. r.table = Resized(s, idx, size) /\ r.ret = ptr
        BY <1>3
  <2>2. Heap(r.table) /\ Len(r.table) = Len(s)
    <3>1. Heap(r.table) /\ r.table \in Seq(Block)
          BY <1>3, <2>1, ResizedHeap, HeapEntry
    <3>2. DOMAIN r.table = DOMAIN s
          BY <2>1 DEF Resized
    <3>   QED BY <1>2, <3>1, <3>2, LenProperties
  <2>3. ptr \in Promise!Moved(ptr, b, b.base)
        BY DEF Promise!Moved
  <2>   HIDE DEF b, t
  <2>   QED BY <1>1, <1>3, <2>1, <2>2, <2>3 DEF b, t
<1>4. CASE ~GrowsInPlace(s, idx, size)
  <2>   DEFINE new == Kmalloc(t, size)
  <2>1. size > 0 /\ r = Moved(s, idx, size)
        BY <1>4, MovesForMore
  <2>2. \/ r.ret = Null /\ r.table = s /\ FirstFit(t, size) = {}
        \/ r.ret = Null /\ Hollow(b) /\ BeginsAt(s, b.base) /\ Crosses(r.table)
        \/ r.ret # Null /\ r = new /\ Heap(r.table)
        BY <2>1, MovedHeap
  <2>3. CASE r.ret = Null /\ r.table = s /\ FirstFit(t, size) = {}
        BY <1>2, <2>3, NoFit
  <2>4. CASE r.ret = Null /\ Hollow(b) /\ BeginsAt(s, b.base) /\ Crosses(r.table)
        BY <2>4
  <2>5. CASE r.ret # Null /\ r = new /\ Heap(r.table)
    <3>1. \/ Grants(t, size, new)
          \/ Refuses(t, new)
          \/ size = 0
          BY <1>2, KmallocAnswers
    <3>   HIDE DEF new, t, b
    <3>2. Grants(t, size, r)
          BY <2>1, <2>5, <3>1 DEF Refuses
    <3>3. /\ r.ret \in room /\ Range(r.table) = Range(t) \cup {Promise!Place(r.ret, size)}
          /\ Len(r.table) = Len(s)
          BY <1>2, <3>2 DEF Grants
    <3>4. r.ret \in Promise!Moved(ptr, b, r.ret)
      <4>1. CASE r.ret = b.base
        <5>1. Promise!Hollow(b)
              BY <1>1, <1>4, <3>3, <4>1 DEF Hollow, Promise!Hollow
        <5>   QED BY <4>1, <5>1 DEF Promise!Moved
      <4>2. CASE r.ret # b.base
            BY <4>2 DEF Promise!Moved
      <4>   QED BY <4>1, <4>2
    <3>   QED BY <2>5, <3>3, <3>4 DEF b, t
  <2>   QED BY <2>2, <2>3, <2>4, <2>5
<1>   QED BY <1>3, <1>4

\* A request, aligned or not, is an allocation of the promise.
LEMMA RequestAllocates ==
    ASSUME Heap(entries), NEW op, NEW size \in Sizes, NEW r, NEW room,
           Returns(op, Null, size, r),
           \/ Grants(entries, size, r) /\ r.ret \in room
           \/ Refuses(entries, r) /\ (Len(entries) = MEM_ENTRIES \/ room = {})
    PROVE  Promise!Allocate(op, size, room)
<1>1. /\ Range(entries)' = Range(r.table) /\ Len(entries)' = Len(r.table)
      /\ call' = [op |-> op, ptr |-> Null, size |-> size, ret |-> r.ret]
      BY DEF Returns
<1>2. CASE Grants(entries, size, r) /\ r.ret \in room
  <2>1. Len(entries) < MEM_ENTRIES /\ Len(entries)' = Len(entries) + 1
        BY <1>1, <1>2 DEF Grants
  <2>2. /\ Range(entries)' = Range(entries) \cup {Promise!Place(r.ret, size)}
        /\ call' = [op |-> op, ptr |-> 0, size |-> size, ret |-> r.ret]
        BY <1>1, <1>2 DEF Grants, Null
  <2>   QED BY <1>2, <2>1, <2>2 DEF Promise!Allocate, Promise!Answers
<1>3. CASE Refuses(entries, r) /\ (Len(entries) = MEM_ENTRIES \/ room = {})
  <2>1. Range(entries)' = Range(entries) /\ Len(entries)' = Len(entries)
        BY <1>1, <1>3 DEF Refuses
  <2>2. call' = [op |-> op, ptr |-> 0, size |-> size, ret |-> 0]
        BY <1>1, <1>3 DEF Refuses, Null
  <2>   QED BY <1>3, <2>1, <2>2 DEF Promise!Allocate, Promise!Answers
<1>   QED BY <1>2, <1>3

\* The first holder of a base is the block its pointer names: a hollow block comes
\* before any other that begins where it does.
LEMMA FirstIsNamed ==
    ASSUME Heap(entries), NEW idx \in 1 .. Len(entries),
           \A j \in 1 .. idx - 1 : entries[j].base # entries[idx].base
    PROVE  Promise!Named(entries[idx])
<1>1. /\ Len(entries) \in Nat /\ Range(entries) = {entries[k] : k \in 1 .. Len(entries)}
      /\ \A k \in 1 .. Len(entries) : /\ entries[k].base \in Nat /\ entries[k].limit \in Nat
                                      /\ entries[k].base <= entries[k].limit
      BY HeapEntry, HeapRange
<1>2. ASSUME NEW k \in 1 .. Len(entries), entries[k].base = entries[idx].base,
             Hollow(entries[k])
      PROVE  Hollow(entries[idx])
  <2>1. CASE k < idx
        BY <1>1, <1>2, <2>1
  <2>2. CASE k = idx
        BY <1>2, <2>2
  <2>3. CASE idx < k
    <3>1. entries[idx].limit <= entries[k].base
          BY <2>3 DEF Heap
    <3>2. /\ entries[idx].base \in Nat /\ entries[idx].limit \in Nat
          /\ entries[idx].base <= entries[idx].limit
          BY <1>1
    <3>3. entries[idx].base = entries[idx].limit
          BY <1>2, <3>1, <3>2
    <3>   QED BY <3>3 DEF Hollow
  <2>   QED BY <1>1, <2>1, <2>2, <2>3
<1>   QED BY <1>1, <1>2 DEF Promise!Named, Promise!Hollow, Hollow

\* What is left of the blocks when an entry goes is what the promise says.
LEMMA WithoutEntry ==
    ASSUME Heap(entries), NEW idx \in 1 .. Len(entries)
    PROVE  Range(RemoveAt(entries, idx)) \in Promise!Without(entries[idx])
BY RangeWithout DEF Promise!Without, Promise!Hollow, Hollow

\* krealloc resizes the block its pointer names, or the lowest one; or breaks the
\* promise.
LEMMA KreallocResizes ==
    ASSUME Heap(entries), NEW ptr \in Pointers, NEW size \in Sizes, krealloc(ptr, size)
    PROVE  \/ /\ Heap(entries')
              /\ \/ \E b \in Range(entries) : Promise!Resize(b.base, b, size)
                 \/ Promise!ResizeUnknown(size)
           \/ crossed' /\ Promise!Break
<1>   DEFINE r    == Krealloc(entries, ptr, size)
             idx  == EntryIndex(entries, ptr)
             b    == entries[idx]
             rest == Range(RemoveAt(entries, idx))
<1>1. /\ Table(entries) /\ entries \in Seq(Block)
      /\ Range(entries) = {entries[k] : k \in 1 .. Len(entries)}
      /\ Len(entries) \in Nat /\ DOMAIN entries = 1 .. Len(entries)
      /\ \A k \in 1 .. Len(entries) : /\ KHEAP_BASE <= entries[k].base
                                      /\ entries[k].base \in Nat
                                      /\ entries[k].limit \in Nat
                                      /\ entries[k].base <= entries[k].limit
      BY HeapEntry, HeapRange, LenProperties
<1>2. /\ Range(entries)' = Range(r.table) /\ entries' = r.table
      /\ Len(entries)' = Len(r.table)
      /\ crossed' = (crossed \/ Crosses(r.table))
      /\ call' = [op |-> "krealloc", ptr |-> ptr, size |-> size, ret |-> r.ret]
      BY DEF krealloc, Returns
<1>3. CASE entries = <<>>
  <2>1. r = [table |-> entries, ret |-> ptr]
        BY <1>3 DEF Krealloc
  <2>2. Range(entries) = {} /\ ptr = 0
    <3>1. Len(entries) = 0
          BY <1>3
    <3>2. Range(entries) = {}
          BY <1>1, <3>1
    <3>   QED BY <3>2 DEF Pointers, Null
  <2>   HIDE DEF r
  <2>3. Range(entries)' = Range(entries) /\ Len(entries)' = Len(entries)
        BY <1>2, <2>1
  <2>4. call' = [op |-> "krealloc", ptr |-> 0, size |-> size, ret |-> 0]
        BY <1>2, <2>1, <2>2
  <2>5. Heap(entries')
        BY <1>2, <2>1
  <2>   QED BY <2>2, <2>3, <2>4, <2>5 DEF Promise!ResizeUnknown, Promise!Answers
<1>4. CASE entries # <<>>
  <2>1. /\ idx \in 1 .. Len(entries) /\ b \in Range(entries)
        /\ \A j \in 1 .. idx - 1 : entries[j].base # b.base
    <3>1. /\ idx \in 1 .. Len(entries)
          /\ \A j \in 1 .. idx - 1 : entries[j].base # entries[idx].base
          BY <1>1, <1>4, FirstHolder
    <3>   QED BY <1>1, <3>1
  <2>9. Holders(entries, ptr) # {} => b.base = ptr
    <3>1. Holders(entries, ptr) # {} => idx \in Holders(entries, ptr)
          BY <1>1, <1>4, FirstHolder
    <3>   QED BY <3>1 DEF Holders
  <2>2. r = IF GrowsInPlace(entries, idx, size)
            THEN [table |-> Resized(entries, idx, size), ret |-> ptr]
            ELSE Moved(entries, idx, size)
        BY <1>4 DEF Krealloc
  <2>   HIDE DEF r, idx
  <2>3. \/ /\ Heap(r.table) /\ Len(r.table) = Len(entries)
           /\ \E a \in Promise!Room(size, rest) :
                 /\ Range(r.table) = rest \cup {Promise!Place(a, size)}
                 /\ r.ret \in Promise!Moved(ptr, b, a)
        \/ Promise!Room(size, rest) = {} /\ r.table = entries /\ r.ret = Null
        \/ Crosses(r.table) /\ r.ret = Null /\ Hollow(b) /\ BeginsAt(entries, b.base)
        BY <2>1, <2>2, KreallocAnswers
  <2>4. Promise!Named(b) /\ rest \in Promise!Without(b)
        BY <2>1, FirstIsNamed, WithoutEntry
  <2>   HIDE DEF rest
  <2>5. CASE Crosses(r.table) /\ r.ret = Null /\ Hollow(b) /\ BeginsAt(entries, b.base)
    <3>1. PICK k \in 1 .. Len(entries) : entries[k].base = b.base /\ ~Hollow(entries[k])
          BY <2>5 DEF BeginsAt
    <3>2. entries[k] \in Range(entries) /\ Promise!Hollow(b) /\ ~Promise!Hollow(entries[k])
          BY <1>1, <2>5, <3>1 DEF Promise!Hollow, Hollow
    <3>   HIDE DEF b
    <3>3. call'.op = "krealloc" /\ call'.ret = 0 /\ crossed'
          BY <1>2, <2>5 DEF Null
    <3>   QED BY <2>1, <3>1, <3>2, <3>3 DEF Promise!Break
  <2>6. CASE Heap(r.table) /\ Promise!Resize(ptr, b, size)
    <3>1. CASE \E c \in Range(entries) : c.base = ptr
      <4>1. PICK k \in 1 .. Len(entries) : entries[k].base = ptr
            BY <1>1, <3>1
      <4>2. b.base = ptr
        <5>1. k \in Holders(entries, ptr)
              BY <1>1, <4>1 DEF Holders
        <5>   QED BY <2>9, <5>1
      <4>   HIDE DEF b
      <4>   QED BY <1>2, <2>1, <2>6, <4>2
    <3>2. CASE ~\E c \in Range(entries) : c.base = ptr
      <4>1. ptr = 0
            BY <3>2 DEF Pointers, Null
      <4>2. Holders(entries, ptr) = {}
            BY <1>1, <3>2 DEF Holders
      <4>3. idx = 1
            BY <4>2 DEF EntryIndex, idx
      <4>4. \A c \in Range(entries) : b.base <= c.base
        <5>   SUFFICES ASSUME NEW k \in 1 .. Len(entries)
                       PROVE  entries[1].base <= entries[k].base
              BY <1>1, <4>3
        <5>1. CASE k = 1
              BY <1>1, <5>1
        <5>2. CASE k # 1
          <6>1. 1 \in 1 .. Len(entries) /\ 1 < k
                BY <5>2
          <6>2. entries[1].limit <= entries[k].base
                BY <1>1, <6>1 DEF Heap
          <6>   QED BY <1>1, <6>1, <6>2
        <5>   QED BY <5>1, <5>2
      <4>   HIDE DEF b
      <4>   QED BY <1>2, <2>1, <2>6, <4>1, <4>4 DEF Promise!ResizeUnknown
    <3>   QED BY <3>1, <3>2
  <2>   HIDE DEF b
  <2>7. ASSUME Heap(r.table), Len(r.table) = Len(entries), NEW a \in Promise!Room(size, rest),
               Range(r.table) = rest \cup {Promise!Place(a, size)},
               r.ret \in Promise!Moved(ptr, b, a)
        PROVE  Heap(r.table) /\ Promise!Resize(ptr, b, size)
        BY <1>2, <2>4, <2>7 DEF Promise!Resize, Promise!Answers
  <2>8. ASSUME Promise!Room(size, rest) = {}, r.table = entries, r.ret = Null
        PROVE  Heap(r.table) /\ Promise!Resize(ptr, b, size)
        BY <1>2, <2>4, <2>8 DEF Promise!Resize, Promise!Answers, Null
  <2>   QED BY <2>3, <2>5, <2>6, <2>7, <2>8
<1>   QED BY <1>3, <1>4

\* kfree gives back the block its pointer names, and nothing for a null pointer.
LEMMA KfreeReleases ==
    ASSUME Heap(entries), NEW ptr \in Pointers, kfree(ptr)
    PROVE  (\E b \in Range(entries) : Promise!Release(b)) \/ Promise!ReleaseUnknown
<1>   DEFINE idx == EntryIndex(entries, ptr)
<1>1. /\ Table(entries) /\ Range(entries) = {entries[k] : k \in 1 .. Len(entries)}
      /\ DOMAIN entries = 1 .. Len(entries) /\ Len(entries) \in Nat
      BY HeapEntry, HeapRange, TableEntry
<1>2. /\ entries' = RemoveEntry(entries, ptr)
      /\ call' = [op |-> "kfree", ptr |-> ptr, size |-> 0, ret |-> 0]
      BY DEF kfree, Returns, Null
<1>3. CASE \E c \in Range(entries) : c.base = ptr
  <2>1. PICK k \in 1 .. Len(entries) : entries[k].base = ptr
        BY <1>1, <1>3
  <2>2. Holders(entries, ptr) # {} /\ entries # <<>>
        BY <1>1, <2>1 DEF Holders
  <2>3. entries' = RemoveAt(entries, idx)
        BY <1>2, <2>2 DEF RemoveEntry
  <2>4. /\ idx \in 1 .. Len(entries) /\ entries[idx].base = ptr
        /\ \A j \in 1 .. idx - 1 : entries[j].base # entries[idx].base
    <3>1. /\ idx \in 1 .. Len(entries) /\ idx \in Holders(entries, ptr)
          /\ \A j \in 1 .. idx - 1 : entries[j].base # entries[idx].base
          BY <1>1, <2>2, FirstHolder
    <3>   QED BY <3>1 DEF Holders
  <2>   HIDE DEF idx
  <2>5. /\ Promise!Named(entries[idx])
        /\ Range(RemoveAt(entries, idx)) \in Promise!Without(entries[idx])
        /\ Len(RemoveAt(entries, idx)) = Len(entries) - 1
        BY <2>4, FirstIsNamed, WithoutEntry, RangeWithout
  <2>6. Range(entries)' = Range(entries') /\ Len(entries)' = Len(entries')
        BY DEF Range
  <2>7. entries[idx] \in Range(entries)
        BY <1>1, <2>4
  <2>   QED BY <1>2, <2>3, <2>4, <2>5, <2>6, <2>7 DEF Promise!Release, Promise!Answers
<1>4. CASE ~\E c \in Range(entries) : c.base = ptr
  <2>1. ptr = 0 /\ Holders(entries, ptr) = {}
        BY <1>1, <1>4 DEF Pointers, Null, Holders
  <2>2. entries' = entries
        BY <1>2, <2>1 DEF RemoveEntry
  <2>   QED BY <1>2, <2>1, <2>2 DEF Promise!ReleaseUnknown, Promise!Answers
<1>   QED BY <1>3, <1>4

\* A call on a well-formed table is one the promise serves, or one that may break it.
LEMMA CallKeepsPromise ==
    ASSUME Heap(entries), ~crossed, Next
    PROVE  (~crossed' /\ Promise!Serve) \/ (crossed' /\ Promise!Break)
<1>1. ASSUME NEW size \in Sizes, kmalloc(size)
      PROVE  (~crossed' /\ Promise!Serve) \/ (crossed' /\ Promise!Break)
  <2>   DEFINE r == Kmalloc(entries, size)
  <2>1. Returns("kmalloc", Null, size, r)
        BY <1>1 DEF kmalloc
  <2>2. \/ Heap(r.table) /\ Grants(entries, size, r)
        \/ /\ Refuses(entries, r)
           /\ Len(entries) = MEM_ENTRIES \/ Promise!Room(size, Range(entries)) = {}
        \/ size = 0 /\ BeginsAt(entries, KHEAP_BASE) /\ Crosses(r.table)
        BY KmallocAnswers
  <2>   HIDE DEF r
  <2>3. CASE Heap(r.table) /\ Grants(entries, size, r)
    <3>1. Promise!Allocate("kmalloc", size, Promise!Room(size, Range(entries)))
          BY <2>1, <2>3, RequestAllocates DEF Grants
    <3>2. ~crossed'
          BY <2>1, <2>3, HeapOrdered DEF Returns
    <3>   QED BY <3>1, <3>2 DEF Promise!Serve
  <2>4. CASE /\ Refuses(entries, r)
             /\ Len(entries) = MEM_ENTRIES \/ Promise!Room(size, Range(entries)) = {}
    <3>1. Promise!Allocate("kmalloc", size, Promise!Room(size, Range(entries)))
          BY <2>1, <2>4, RequestAllocates
    <3>2. ~crossed'
          BY <2>1, <2>4, HeapOrdered DEF Returns, Refuses
    <3>   QED BY <3>1, <3>2 DEF Promise!Serve
  <2>5. CASE size = 0 /\ BeginsAt(entries, KHEAP_BASE) /\ Crosses(r.table)
    <3>1. PICK k \in 1 .. Len(entries) : entries[k].base = KHEAP_BASE /\ ~Hollow(entries[k])
          BY <2>5 DEF BeginsAt
    <3>2. entries[k] \in Range(entries)
          BY HeapEntry, HeapRange
    <3>3. call'.op = "kmalloc" /\ call'.size = 0 /\ crossed'
          BY <2>1, <2>5 DEF Returns
    <3>   QED BY <3>1, <3>2, <3>3 DEF Promise!Break, Promise!Hollow, Hollow
  <2>   QED BY <2>2, <2>3, <2>4, <2>5
<1>2. ASSUME NEW size \in Sizes, kmalloc_pa(size) PROVE ~crossed' /\ Promise!Serve
  <2>1. Promise!Allocate("kmalloc_pa", size, Promise!AlignedRoom(size, Range(entries)))
        BY <1>2, KmallocPAAnswers, RequestAllocates DEF kmalloc_pa
  <2>2. ~crossed'
        BY <1>2, KmallocPAHeap, HeapOrdered DEF kmalloc_pa, Returns
  <2>   QED BY <2>1, <2>2 DEF Promise!Serve
<1>3. ASSUME NEW ptr \in Pointers, NEW size \in Sizes, krealloc(ptr, size)
      PROVE  (~crossed' /\ Promise!Serve) \/ (crossed' /\ Promise!Break)
  <2>1. \/ /\ Heap(entries')
           /\ \/ \E b \in Range(entries) : Promise!Resize(b.base, b, size)
              \/ Promise!ResizeUnknown(size)
        \/ crossed' /\ Promise!Break
        BY <1>3, KreallocResizes
  <2>2. ASSUME Heap(entries') PROVE ~crossed'
    <3>1. crossed' = (crossed \/ Crosses(entries'))
          BY <1>3 DEF krealloc, Returns
    <3>   QED BY <2>2, <3>1, HeapOrdered
  <2>   QED BY <2>1, <2>2 DEF Promise!Serve
<1>4. ASSUME NEW ptr \in Pointers, kfree(ptr) PROVE ~crossed' /\ Promise!Serve
  <2>1. Heap(RemoveEntry(entries, ptr))
        BY HeapEntry, RemoveEntryTable, RemoveAtHeap
  <2>2. ~crossed'
        BY <1>4, <2>1, HeapOrdered DEF kfree, Returns
  <2>   QED BY <1>4, <2>2, KfreeReleases DEF Promise!Serve
<1>   QED BY <1>1, <1>2, <1>3, <1>4 DEF Next

\* The heap is an allocator: whatever was freed, moved or refused before, it hands
\* out only free places, touches no other block, and refuses only for want of room,
\* until one of the two calls with a hollow block breaks that.
THEOREM HeapKeepsPromise == Spec => KeepsPromise
<1>1. Init => Promise!Init
  <2>1. Len(<<>>) = 0 /\ Range(<<>>) = {}
        BY DEF Range
  <2>   QED BY <2>1 DEF Init, Promise!Init, Null
<1>2. IInv /\ [Next]_vars
         => [Promise!Next]_Promise!vars
  <2>   SUFFICES ASSUME IInv, [Next]_vars
                 PROVE  [Promise!Next]_Promise!vars
        OBVIOUS
  <2>1. CASE UNCHANGED vars
        BY <2>1 DEF vars, Promise!vars
  <2>2. CASE Next /\ crossed
    <3>1. crossed'
          BY <2>2 DEF Next, kmalloc, kmalloc_pa, krealloc, kfree, Returns
    <3>   QED BY <2>2, <3>1 DEF Promise!Next
  <2>3. CASE Next /\ ~crossed
    <3>1. Heap(entries)
          BY <2>3 DEF IInv
    <3>2. (~crossed' /\ Promise!Serve) \/ (crossed' /\ Promise!Break)
          BY <2>3, <3>1, CallKeepsPromise
    <3>   QED BY <2>3, <3>2 DEF Promise!Next
  <2>   QED BY <2>1, <2>2, <2>3
<1>   QED BY <1>1, <1>2, HeapInvariant, PTL DEF Spec, KeepsPromise, Promise!Spec

-------------------------------------------------------------------------------
(* The kernel's arrays, which are blocks of the heap: krealloc keeps what fits of
   the block it is given, and that is what an array relies on when it grows. *)

\* What insertions and removals keep of an array, as long as no removal has
\* squeezed its block and memory is there: the code counts with no more than the
\* block has, and the elements in use are the list.
Sound ==
    /\ memory = "sound"
    /\ list \in Seq(Values) /\ count = Len(list) /\ count \in Nat
    /\ capacity \in Nat /\ count <= capacity /\ capacity <= Len(buffer)
    /\ buffer \in Seq(Values \cup {Unset})
    /\ \A k \in 1 .. count : buffer[k] = list[k]

ArrayInv == squeezed \/ memory \in {"null", "smashed"} \/ Sound

\* krealloc keeps what fits.
LEMMA ReallocKeeps ==
    ASSUME NEW S, Unset \in S, NEW b \in Seq(S), NEW n \in Nat
    PROVE  /\ Realloc(b, n) \in Seq(S) /\ Len(Realloc(b, n)) = n
           /\ \A k \in 1 .. n : k <= Len(b) => Realloc(b, n)[k] = b[k]
<1>1. Len(b) \in Nat /\ \A k \in 1 .. Len(b) : b[k] \in S
      BY LenProperties, ElementOfSeq
<1>2. \A k \in 1 .. n : (IF k <= Len(b) THEN b[k] ELSE Unset) \in S
      BY <1>1
<1>3. Realloc(b, n) \in [1 .. n -> S]
      BY <1>2 DEF Realloc
<1>4. Realloc(b, n) \in Seq(S)
      BY <1>3, SeqDef
<1>5. Len(Realloc(b, n)) = n
      BY <1>3, <1>4, LenProperties
<1>   QED BY <1>4, <1>5 DEF Realloc

\* The block push and insert go on with has room for one element more, and holds
\* the list.
Roomy(b) ==
    /\ b \in Seq(Values \cup {Unset}) /\ capacity' \in Nat
    /\ count < capacity' /\ capacity' <= Len(b)
    /\ \A k \in 1 .. count : b[k] = list[k]

\* A full array gets Step places more, another one keeps its block.
LEMMA GrowthMakesRoom ==
    ASSUME Sound, NEW b, IF IsFull THEN Grown(b) ELSE Kept(b)
    PROVE  Roomy(b)
<1>1. Step \in Nat /\ Step > 0
      BY ArrayAssumption
<1>2. Len(buffer) \in Nat
      BY LenProperties DEF Sound
<1>3. CASE count = capacity
  <2>1. capacity' = capacity + Step /\ b = Realloc(buffer, capacity + Step)
        BY <1>3 DEF IsFull, Grown
  <2>2. PICK n \in Nat : n = capacity + Step
        BY <1>1 DEF Sound
  <2>3. /\ Realloc(buffer, n) \in Seq(Values \cup {Unset}) /\ Len(Realloc(buffer, n)) = n
        /\ \A k \in 1 .. n : k <= Len(buffer) => Realloc(buffer, n)[k] = buffer[k]
        BY ReallocKeeps DEF Sound
  <2>   QED BY <1>1, <1>2, <1>3, <2>1, <2>2, <2>3 DEF Roomy, Sound
<1>4. CASE count # capacity
  <2>1. capacity' = capacity /\ b = buffer
        BY <1>4 DEF IsFull, Kept
  <2>   QED BY <1>4, <2>1 DEF Roomy, Sound
<1>   QED BY <1>3, <1>4

\* The new element goes behind the others.
LEMMA PushKeeps ==
    ASSUME Sound, NEW t \in Values, push(t)
    PROVE  ArrayInv'
<1>1. CASE Lost
      BY <1>1 DEF Lost, ArrayInv
<1>2. CASE \E b \in Blocks : /\ IF IsFull THEN Grown(b) ELSE Kept(b)
                             /\ Write(b, count, t)
  <2>1. PICK b : (IF IsFull THEN Grown(b) ELSE Kept(b)) /\ Write(b, count, t)
        BY <1>2
  <2>2. Roomy(b)
        BY <2>1, GrowthMakesRoom
  <2>3. Len(b) \in Nat /\ count < Len(b) /\ count \in Nat
        BY <2>2, LenProperties DEF Roomy, Sound
  <2>4. buffer' = [b EXCEPT ![count + 1] = t] /\ memory' = "sound"
        BY <2>1, <2>3 DEF Write
  <2>5. /\ buffer' \in Seq(Values \cup {Unset}) /\ Len(buffer') = Len(b)
        /\ \A k \in 1 .. Len(b) : buffer'[k] = IF k = count + 1 THEN t ELSE b[k]
    <3>1. b \in Seq(Values \cup {Unset}) /\ count + 1 \in 1 .. Len(b) /\ t \in Values \cup {Unset}
          BY <2>2, <2>3 DEF Roomy
    <3>   QED BY <2>4, <3>1
  <2>6. list' = Append(list, t) /\ count' = count + 1
        BY DEF push
  <2>7. /\ list' \in Seq(Values) /\ Len(list') = count + 1
        /\ \A k \in 1 .. count + 1 : list'[k] = IF k = count + 1 THEN t ELSE list[k]
        BY <2>6 DEF Sound
  <2>8. Sound'
        BY <2>2, <2>3, <2>4, <2>5, <2>6, <2>7 DEF Sound, Roomy
  <2>   QED BY <2>8 DEF ArrayInv
<1>   QED BY <1>1, <1>2 DEF push

\* The elements from idx on go up by one, and the new one into the gap; at 0 the
\* call does not come back.
LEMMA InsertKeeps ==
    ASSUME Sound, NEW t \in Values, NEW idx \in Nat, insert(t, idx)
    PROVE  ArrayInv'
<1>1. CASE Lost
      BY <1>1 DEF Lost, ArrayInv
<1>2. CASE \E b \in Blocks :
             /\ IF IsFull THEN Grown(b) ELSE Kept(b)
             /\ IF idx = 0 THEN memory' = "smashed" /\ buffer' = b
                ELSE IF count < Len(b)
                THEN buffer' = Shifted(b, idx, t) /\ memory' = "sound"
                ELSE memory' = "overrun" /\ buffer' = b
  <2>1. PICK b : /\ IF IsFull THEN Grown(b) ELSE Kept(b)
                 /\ IF idx = 0 THEN memory' = "smashed" /\ buffer' = b
                    ELSE IF count < Len(b)
                    THEN buffer' = Shifted(b, idx, t) /\ memory' = "sound"
                    ELSE memory' = "overrun" /\ buffer' = b
        BY <1>2
  <2>2. Roomy(b)
        BY <2>1, GrowthMakesRoom
  <2>3. Len(b) \in Nat /\ count < Len(b) /\ count \in Nat /\ idx <= count
        BY <2>2, LenProperties DEF Roomy, Sound, insert
  <2>4. CASE idx = 0
        BY <2>1, <2>4 DEF ArrayInv
  <2>5. CASE idx # 0
    <3>1. buffer' = Shifted(b, idx, t) /\ memory' = "sound"
          BY <2>1, <2>3, <2>5
    <3>2. /\ buffer' \in Seq(Values \cup {Unset}) /\ Len(buffer') = Len(b)
          /\ \A k \in 1 .. count + 1 :
                buffer'[k] = IF k = idx + 1 THEN t ELSE IF k > idx + 1 THEN b[k - 1] ELSE b[k]
      <4>1. b \in [1 .. Len(b) -> Values \cup {Unset}]
            BY <2>2, LenProperties, SeqDef DEF Roomy
      <4>2. buffer' \in [1 .. Len(b) -> Values \cup {Unset}]
            BY <2>3, <3>1, <4>1 DEF Shifted
      <4>3. buffer' \in Seq(Values \cup {Unset}) /\ Len(buffer') = Len(b)
            BY <2>3, <4>2, SeqDef, LenProperties
      <4>4. \A k \in 1 .. count + 1 :
               buffer'[k] = IF k = idx + 1 THEN t ELSE IF k > idx + 1 THEN b[k - 1] ELSE b[k]
            BY <2>3, <3>1, <4>1 DEF Shifted
      <4>   QED BY <4>3, <4>4
    <3>3. list' = InsertAt(list, idx + 1, t) /\ count' = count + 1
          BY DEF insert
    <3>4. PICK i \in 1 .. Len(list) + 1 : i = idx + 1
          BY <2>3 DEF Sound
    <3>5. list \in Seq(Values) /\ count = Len(list)
          BY DEF Sound
    <3>6. /\ InsertAt(list, i, t) \in Seq(Values) /\ Len(InsertAt(list, i, t)) = Len(list) + 1
          /\ \A k \in 1 .. Len(list) + 1 :
                InsertAt(list, i, t)[k] =
                   IF k < i THEN list[k] ELSE IF k = i THEN t ELSE list[k - 1]
      <4>   DEFINE S == Values
      <4>1. list \in Seq(S) /\ t \in S
            BY <3>5
      <4>   HIDE DEF S
      <4>2. InsertAt(list, i, t) \in Seq(S) /\ Len(InsertAt(list, i, t)) = Len(list) + 1
            BY <4>1, InsertAtProperties
      <4>3. ASSUME NEW k \in 1 .. Len(list) + 1
            PROVE  InsertAt(list, i, t)[k] =
                      IF k < i THEN list[k] ELSE IF k = i THEN t ELSE list[k - 1]
            BY <4>1, InsertAtProperties, SMTT(30)
      <4>   QED BY <4>2, <4>3 DEF S
    <3>7. ASSUME NEW k \in 1 .. count + 1 PROVE buffer'[k] = list'[k]
      <4>1. k \in 1 .. count \/ k = count + 1
            BY <2>3
      <4>2. CASE k < idx + 1
            BY <2>2, <2>3, <3>2, <3>3, <3>4, <3>5, <3>6, <4>2 DEF Roomy
      <4>3. CASE k = idx + 1
            BY <2>3, <3>2, <3>3, <3>4, <3>5, <3>6, <4>3
      <4>4. CASE k > idx + 1
        <5>1. k - 1 \in 1 .. count
              BY <2>3, <4>4
        <5>2. b[k - 1] = list[k - 1]
              BY <2>2, <5>1 DEF Roomy
        <5>   QED BY <2>3, <3>2, <3>3, <3>4, <3>5, <3>6, <4>4, <5>2
      <4>   QED BY <2>3, <4>2, <4>3, <4>4
    <3>8. Sound'
          BY <2>2, <2>3, <3>1, <3>2, <3>3, <3>4, <3>5, <3>6, <3>7 DEF Sound, Roomy
    <3>   QED BY <3>8 DEF ArrayInv
  <2>   QED BY <2>4, <2>5
<1>   QED BY <1>1, <1>2 DEF insert

\* The elements behind i go down by one; if the block then shrinks, it holds the
\* rest or is squeezed.
LEMMA RemoveKeeps ==
    ASSUME Sound, NEW i \in Nat, remove(i)
    PROVE  ArrayInv'
<1>   DEFINE moved == [k \in DOMAIN buffer |->
                       IF k \in i + 1 .. count - 1 /\ k < Len(buffer) THEN buffer[k + 1]
                       ELSE buffer[k]]
<1>1. /\ Len(buffer) \in Nat /\ buffer \in [1 .. Len(buffer) -> Values \cup {Unset}]
      /\ i < count /\ count \in Nat /\ count <= Len(buffer)
  <2>1. Len(buffer) \in Nat /\ buffer \in [1 .. Len(buffer) -> Values \cup {Unset}]
        BY LenProperties, SeqDef DEF Sound
  <2>   QED BY <2>1 DEF Sound, remove
<1>2. /\ moved \in Seq(Values \cup {Unset}) /\ Len(moved) = Len(buffer)
      /\ \A k \in 1 .. count - 1 : moved[k] = IF k > i THEN buffer[k + 1] ELSE buffer[k]
  <2>1. moved \in [1 .. Len(buffer) -> Values \cup {Unset}]
        BY <1>1
  <2>2. moved \in Seq(Values \cup {Unset}) /\ Len(moved) = Len(buffer)
        BY <1>1, <2>1, SeqDef, LenProperties
  <2>3. \A k \in 1 .. count - 1 : moved[k] = IF k > i THEN buffer[k + 1] ELSE buffer[k]
        BY <1>1
  <2>   QED BY <2>2, <2>3
<1>3. /\ memory = "sound" /\ count' = count - 1 /\ list' = RemoveAt(list, i + 1)
      /\ IF Shrinks
         THEN /\ capacity' = capacity - Step
              /\ \/ buffer' = Realloc(moved, capacity - Step) /\ memory' = memory
                 \/ Lost
              /\ squeezed' = (squeezed \/ capacity - Step < count - 1)
         ELSE buffer' = moved /\ capacity' = capacity /\ memory' = memory
      BY DEF remove
<1>4. list \in Seq(Values) /\ count = Len(list)
      BY DEF Sound
<1>5. /\ list' \in Seq(Values) /\ Len(list') = count - 1
      /\ \A k \in 1 .. count - 1 : list'[k] = IF k > i THEN list[k + 1] ELSE list[k]
  <2>1. PICK j \in 1 .. Len(list) : j = i + 1
        BY <1>1, <1>4
  <2>2. /\ RemoveAt(list, j) \in Seq(Values) /\ Len(RemoveAt(list, j)) = Len(list) - 1
        /\ \A k \in 1 .. Len(list) - 1 :
              RemoveAt(list, j)[k] = IF k < j THEN list[k] ELSE list[k + 1]
        BY <1>4, RemoveAtProperties
  <2>   QED BY <1>1, <1>3, <1>4, <2>1, <2>2
<1>   HIDE DEF moved
<1>6. \A k \in 1 .. count - 1 : moved[k] = list'[k]
  <2>1. ASSUME NEW k \in 1 .. count - 1 PROVE buffer[k] = list[k] /\ buffer[k + 1] = list[k + 1]
        BY <1>1 DEF Sound
  <2>2. ASSUME NEW k \in 1 .. count - 1 PROVE moved[k] = list'[k]
    <3>1. CASE k > i
          BY <1>1, <1>2, <1>5, <2>1, <3>1
    <3>2. CASE ~ (k > i)
          BY <1>1, <1>2, <1>5, <2>1, <3>2
    <3>   QED BY <3>1, <3>2
  <2>   QED BY <2>2
<1>7. CASE ~Shrinks
  <2>1. Sound'
        BY <1>1, <1>2, <1>3, <1>5, <1>6, <1>7 DEF Sound
  <2>   QED BY <2>1 DEF ArrayInv
<1>8. CASE Shrinks
  <2>1. CASE Lost
        BY <2>1 DEF Lost, ArrayInv
  <2>2. CASE capacity - Step < count - 1
        BY <1>3, <1>8, <2>2 DEF ArrayInv
  <2>3. CASE buffer' = Realloc(moved, capacity - Step) /\ memory' = memory
             /\ ~ (capacity - Step < count - 1)
    <3>1. PICK n \in Nat : n = capacity - Step /\ count - 1 <= n /\ n <= Len(moved)
          BY <1>1, <1>2, <2>3, ArrayAssumption DEF Sound
    <3>2. /\ Realloc(moved, n) \in Seq(Values \cup {Unset}) /\ Len(Realloc(moved, n)) = n
          /\ \A k \in 1 .. n : k <= Len(moved) => Realloc(moved, n)[k] = moved[k]
          BY <1>2, ReallocKeeps
    <3>3. Sound'
          BY <1>1, <1>2, <1>3, <1>5, <1>6, <1>8, <2>3, <3>1, <3>2 DEF Sound
    <3>   QED BY <3>3 DEF ArrayInv
  <2>   QED BY <1>3, <1>8, <2>1, <2>2, <2>3
<1>   QED BY <1>7, <1>8

\* The constructor asks for more than it needs: SizeOf times the capacity.
LEMMA ArrayInitInv == ArrayInit => ArrayInv
<1>   SUFFICES ASSUME ArrayInit PROVE Sound
      BY DEF ArrayInv
<1>1. PICK n \in Nat : n = Step * SizeOf /\ Step <= n /\ Step \in Nat
  <2>1. Step * SizeOf \in Nat /\ Step <= Step * SizeOf
        BY ArrayAssumption, Z3
  <2>   QED BY <2>1, ArrayAssumption
<1>2. buffer \in [1 .. n -> Values \cup {Unset}]
      BY <1>1 DEF ArrayInit
<1>3. buffer \in Seq(Values \cup {Unset}) /\ Len(buffer) = n
      BY <1>2, SeqDef, LenProperties
<1>4. list \in Seq(Values) /\ Len(list) = 0
      BY DEF ArrayInit
<1>   QED BY <1>1, <1>3, <1>4 DEF ArrayInit, Sound

\* An array holds what callers put there, in order and inside its block, whatever
\* they push, insert and remove, until a removal shrinks the block below what it
\* holds or memory is gone (utils.hpp:38, 47 and 60, push, insert and remove).
THEOREM ArraysKeepLists == ArraySpec => []KeepsList
<1>1. ArrayInv /\ [ArrayNext]_arrayVars => ArrayInv'
  <2>   SUFFICES ASSUME ArrayInv, [ArrayNext]_arrayVars PROVE ArrayInv'
        OBVIOUS
  <2>1. CASE UNCHANGED arrayVars
        BY <2>1 DEF arrayVars, ArrayInv, Sound
  <2>2. ASSUME ArrayNext, squeezed PROVE ArrayInv'
        BY <2>2 DEF ArrayNext, push, insert, remove, ArrayInv
  <2>3. ASSUME ArrayNext, Sound PROVE ArrayInv'
        BY <2>3, PushKeeps, InsertKeeps, RemoveKeeps DEF ArrayNext
  <2>4. ASSUME ArrayNext PROVE memory = "sound"
        BY <2>4 DEF ArrayNext, push, insert, remove
  <2>   QED BY <2>1, <2>2, <2>3, <2>4 DEF ArrayInv
<1>2. ArrayInv => KeepsList
  <2>   SUFFICES ASSUME Sound PROVE KeepsList
        BY DEF ArrayInv, KeepsList
  <2>1. count <= Len(buffer) /\ Len(buffer) \in Nat /\ count \in Nat
        BY LenProperties DEF Sound
  <2>2. /\ SubSeq(buffer, 1, count) \in Seq(Values \cup {Unset})
        /\ Len(SubSeq(buffer, 1, count)) = count
        /\ \A k \in 1 .. count : SubSeq(buffer, 1, count)[k] = buffer[k]
        BY <2>1 DEF Sound
  <2>3. SubSeq(buffer, 1, count) = list
        BY <2>1, <2>2 DEF Sound
  <2>   QED BY <2>1, <2>3 DEF Sound, KeepsList
<1>   QED BY <1>1, <1>2, ArrayInitInv, PTL DEF ArraySpec
===============================================================================
