------------------------------ MODULE MemoryProofs ------------------------------
(* Proofs about memory and the programs loaded into it, for any number of frames,
   pages and address spaces, any programs and page sizes.

   Frames and address spaces first: the inductive invariant joins exclusive frames
   with the bitmap, since a frame can be handed out only when its bit is clear, so
   that exclusivity holds only together with "mapped means marked".

   Then the loader: it uses memory as VirtualMemory describes, so that what is
   proved there holds here; the heap it announces is above the program; pages have
   the attribute the file asks for; and programs in memory stay what their files
   say. *)
EXTENDS ElfLoader, CommonLemmas, TLAPS

-------------------------------------------------------------------------------
(* Numbers *)

\* The kernel's frames are the lowest; a bit stands for a frame above them.
LEMMA Numbers ==
    /\ KernelPages \in Nat \ {0} /\ MemPages \in Nat /\ KernelPages <= MemPages
    /\ \A p \in KernelPage : p \in Page /\ p \in Nat /\ p < KernelPages
    /\ \A p \in Page : p \in Nat /\ (p \notin KernelPage => p >= KernelPages)
    /\ \A p \in UserPages : p \in Page /\ p \notin KernelPage
    /\ \A b \in Bits : /\ b \in Nat /\ FrameOf(b) \in Page
                       /\ FrameOf(b) >= KernelPages /\ FrameOf(b) - KernelPages = b
BY MemoryAssumption DEF KernelPage, Page, Bits, FrameOf

\* Later bytes are on later pages, and later pages in later tables.
LEMMA PageMonotone ==
    ASSUME NEW P \in Nat \ {0}, NEW a \in Nat, NEW b \in Nat, a <= b
    PROVE  a \div P <= b \div P
<1>   DEFINE q == a \div P
             r == b \div P
<1>1. /\ q \in Nat /\ a % P \in 0 .. P - 1 /\ a = P * q + (a % P)
      /\ r \in Nat /\ b % P \in 0 .. P - 1 /\ b = P * r + (b % P)
      BY Division
<1>   HIDE DEF q, r
<1>2. P * (r + 1) = P * r + P
      BY <1>1
<1>3. ~ r < q
      BY <1>1, <1>2, Multiples
<1>   QED BY <1>1, <1>3 DEF q, r

-------------------------------------------------------------------------------
(* Frames and address spaces *)

IInv == TypeOK /\ MappedIsUsed /\ FramesExclusive /\ KernelMapped

\* The kernel's part of address space v, of which the first tables may be all there is.
KernelPart(v) ==
    /\ v \in short \/ KernelPage \subseteq DOMAIN pages[v]
    /\ \A p \in KernelPage, q \in DOMAIN pages[v] \cap KernelPage :
          p <= q => p \in DOMAIN pages[v] /\ pages[v][p] = p

\* The kernel's part and the frames of the user pages make up KernelMapped.
LEMMA KernelParts ==
    KernelMapped <=>
       \A v \in Live : /\ KernelPart(v)
                       /\ \A p \in UserPagesOf(v) : pages[v][p] >= KernelPages
BY DEF KernelMapped, KernelPart

\* A space whose kernel pages a step leaves alone keeps the kernel's part.
LEMMA KernelPartKept ==
    ASSUME NEW v, KernelPart(v), v \in short => v \in short',
           DOMAIN pages'[v] \cap KernelPage = DOMAIN pages[v] \cap KernelPage,
           \A p \in DOMAIN pages[v] \cap KernelPage : pages'[v][p] = pages[v][p]
    PROVE  KernelPart(v)'
<1>1. v \in short' \/ KernelPage \subseteq DOMAIN pages'[v]
      BY DEF KernelPart
<1>2. ASSUME NEW p \in KernelPage, NEW q \in DOMAIN pages'[v] \cap KernelPage, p <= q
      PROVE  p \in DOMAIN pages'[v] /\ pages'[v][p] = p
  <2>1. p \in DOMAIN pages[v] /\ pages[v][p] = p
        BY <1>2 DEF KernelPart
  <2>   QED BY <2>1
<1>3. KernelPage' = KernelPage
      BY DEF KernelPage
<1>   QED BY <1>1, <1>2, <1>3 DEF KernelPart

\* The invariant, from what a step does to the pages it leaves mapped: each is
\* the page it was, or the one new page v0, p0 whose frame was free.
LEMMA InvOneMapping ==
    ASSUME IInv, Live' = Live, bitmap \subseteq bitmap', bitmap' \subseteq Bits,
           cleared' = cleared, halted' = halted, short' = short,
           reset' \subseteq reset, DOMAIN tables' = Live,
           \A v \in Live : tables'[v] \subseteq TableNumber,
           NEW v0 \in Live, NEW p0 \in UserPages, NEW b0 \in Bits \ bitmap, b0 \in bitmap',
           \A v \in Live : v # v0 => pages'[v] = pages[v],
           pages'[v0] = Map(pages[v0], p0, FrameOf(b0))
    PROVE  IInv'
<1>   DEFINE f0 == FrameOf(b0)
<1>1. /\ DOMAIN pages'[v0] = DOMAIN pages[v0] \cup {p0} /\ pages'[v0][p0] = f0
      /\ \A q \in DOMAIN pages[v0] : q # p0 => pages'[v0][q] = pages[v0][q]
  <2>   DEFINE new == Map(pages[v0], p0, f0)
  <2>1. /\ DOMAIN new = DOMAIN pages[v0] \cup {p0} /\ new[p0] = f0
        /\ \A q \in DOMAIN pages[v0] : q # p0 => new[q] = pages[v0][q]
        BY DEF Map
  <2>2. pages'[v0] = new
        OBVIOUS
  <2>   HIDE DEF new, f0
  <2>   QED BY <2>1, <2>2
<1>2. /\ f0 \in Page /\ f0 >= KernelPages /\ f0 - KernelPages = b0
      /\ p0 \in Page /\ p0 \notin KernelPage
      BY Numbers
<1>   HIDE DEF f0
<1>3. ASSUME NEW v \in Live, NEW p \in DOMAIN pages'[v]
      PROVE  \/ v = v0 /\ p = p0 /\ pages'[v][p] = f0
             \/ p \in DOMAIN pages[v] /\ pages'[v][p] = pages[v][p]
      BY <1>1
<1>4. ASSUME NEW v \in Live
      PROVE  /\ \A p \in DOMAIN pages[v] : p \in Page /\ pages[v][p] \in Page
             /\ KernelPart(v)
             /\ \A p \in DOMAIN pages[v] \ KernelPage : pages[v][p] >= KernelPages
      BY KernelParts DEF IInv, TypeOK, UserPagesOf
<1>5. TypeOK'
  <2>1. \A v \in Live : /\ DOMAIN pages'[v] \subseteq Page
                        /\ \A p \in DOMAIN pages'[v] : pages'[v][p] \in Page
        BY <1>2, <1>3, <1>4
  <2>   QED BY <2>1 DEF IInv, TypeOK
<1>6. MappedIsUsed'
  <2>   SUFFICES ASSUME NEW v \in Live, NEW p \in DOMAIN pages'[v] \ KernelPage
                 PROVE  pages'[v][p] - KernelPages \in bitmap' \/ pages'[v][p] \in cleared
        BY DEF MappedIsUsed, UserPagesOf
  <2>1. CASE v = v0 /\ p = p0 /\ pages'[v][p] = f0
        BY <2>1, <1>2
  <2>2. CASE p \in DOMAIN pages[v] /\ pages'[v][p] = pages[v][p]
        BY <2>2 DEF IInv, MappedIsUsed, UserPagesOf
  <2>   QED BY <2>1, <2>2, <1>3
<1>7. \A v \in Live : \A p \in DOMAIN pages[v] \ KernelPage :
         pages[v][p] = f0 => f0 \in cleared
      BY <1>2 DEF IInv, MappedIsUsed, UserPagesOf
<1>8. FramesExclusive'
  <2>   SUFFICES ASSUME NEW v \in Live, NEW w \in Live,
                        NEW p \in DOMAIN pages'[v] \ KernelPage,
                        NEW q \in DOMAIN pages'[w] \ KernelPage,
                        pages'[v][p] = pages'[w][q]
                 PROVE  (v = w /\ p = q) \/ pages'[v][p] \in cleared
        BY DEF FramesExclusive, UserPagesOf
  <2>1. \/ v = v0 /\ p = p0 /\ pages'[v][p] = f0
        \/ p \in DOMAIN pages[v] /\ pages'[v][p] = pages[v][p]
        BY <1>3
  <2>2. \/ w = v0 /\ q = p0 /\ pages'[w][q] = f0
        \/ q \in DOMAIN pages[w] /\ pages'[w][q] = pages[w][q]
        BY <1>3
  <2>3. CASE /\ p \in DOMAIN pages[v] /\ pages'[v][p] = pages[v][p]
             /\ q \in DOMAIN pages[w] /\ pages'[w][q] = pages[w][q]
        BY <2>3 DEF IInv, FramesExclusive, UserPagesOf
  <2>   QED BY <2>1, <2>2, <2>3, <1>7
<1>9. KernelMapped'
  <2>   SUFFICES ASSUME NEW v \in Live
                 PROVE  /\ KernelPart(v)'
                        /\ \A p \in DOMAIN pages'[v] \ KernelPage : pages'[v][p] >= KernelPages
        BY DEF KernelMapped, KernelPart, UserPagesOf
  <2>1. /\ DOMAIN pages'[v] \cap KernelPage = DOMAIN pages[v] \cap KernelPage
        /\ \A p \in DOMAIN pages[v] \cap KernelPage : pages'[v][p] = pages[v][p]
        BY <1>1, <1>2
  <2>2. KernelPart(v)'
        BY <2>1, <1>4, KernelPartKept
  <2>3. \A p \in DOMAIN pages'[v] \ KernelPage : pages'[v][p] >= KernelPages
        BY <1>2, <1>3, <1>4
  <2>   QED BY <2>2, <2>3
<1>   QED BY <1>5, <1>6, <1>8, <1>9 DEF IInv

\* The same for a step that only takes pages away, none of the kernel's: of those it
\* leaves, each is still marked used, or its bit has been cleared by its number.
LEMMA InvFewerMappings ==
    ASSUME IInv, Live' \subseteq Live, bitmap' \subseteq Bits, halted' \in BOOLEAN,
           cleared' \subseteq Page, reset' \subseteq Spaces \X Page,
           short' = short \cap Live', DOMAIN tables' = Live',
           \A v \in Live' : tables'[v] \subseteq TableNumber,
           \A v \in Live' :
              /\ DOMAIN pages'[v] \subseteq DOMAIN pages[v]
              /\ DOMAIN pages[v] \cap KernelPage \subseteq DOMAIN pages'[v]
              /\ \A p \in DOMAIN pages'[v] : pages'[v][p] = pages[v][p],
           \A v \in Live' : \A p \in DOMAIN pages'[v] \ KernelPage :
              /\ pages[v][p] - KernelPages \in bitmap' \/ pages[v][p] \in cleared'
              /\ pages[v][p] \in cleared => pages[v][p] \in cleared'
    PROVE  IInv'
<1>1. TypeOK'
      BY DEF IInv, TypeOK
<1>2. MappedIsUsed'
      BY DEF IInv, MappedIsUsed, UserPagesOf
<1>3. FramesExclusive'
  <2>   SUFFICES ASSUME NEW v \in Live', NEW w \in Live',
                        NEW p \in DOMAIN pages'[v] \ KernelPage,
                        NEW q \in DOMAIN pages'[w] \ KernelPage,
                        pages'[v][p] = pages'[w][q]
                 PROVE  (v = w /\ p = q) \/ pages'[v][p] \in cleared'
        BY DEF FramesExclusive, UserPagesOf
  <2>1. /\ v \in Live /\ p \in DOMAIN pages[v] \ KernelPage /\ pages'[v][p] = pages[v][p]
        /\ w \in Live /\ q \in DOMAIN pages[w] \ KernelPage /\ pages'[w][q] = pages[w][q]
        OBVIOUS
  <2>   QED BY <2>1 DEF IInv, FramesExclusive, UserPagesOf
<1>4. KernelMapped'
  <2>   SUFFICES ASSUME NEW v \in Live'
                 PROVE  /\ KernelPart(v)'
                        /\ \A p \in DOMAIN pages'[v] \ KernelPage : pages'[v][p] >= KernelPages
        BY DEF KernelMapped, KernelPart, UserPagesOf
  <2>1. /\ DOMAIN pages'[v] \cap KernelPage = DOMAIN pages[v] \cap KernelPage
        /\ \A p \in DOMAIN pages[v] \cap KernelPage : pages'[v][p] = pages[v][p]
        OBVIOUS
  <2>2. v \in Live /\ KernelPart(v)
        BY KernelParts DEF IInv
  <2>3. KernelPart(v)'
        BY <2>1, <2>2, KernelPartKept
  <2>4. \A p \in DOMAIN pages'[v] \ KernelPage : pages'[v][p] >= KernelPages
        BY <2>2, KernelParts DEF IInv, UserPagesOf
  <2>   QED BY <2>3, <2>4
<1>   QED BY <1>1, <1>2, <1>3, <1>4 DEF IInv

\* Before any address space exists there is nothing to disagree about.
LEMMA MemoryInitInv == MemoryInit => IInv
<1>   SUFFICES ASSUME MemoryInit PROVE IInv
      OBVIOUS
<1>1. Live = {} /\ DOMAIN tables = {}
      BY DEF MemoryInit, Live
<1>2. TypeOK
      BY <1>1 DEF MemoryInit, TypeOK
<1>3. MappedIsUsed /\ FramesExclusive /\ KernelMapped
      BY <1>1 DEF MappedIsUsed, FramesExclusive, KernelMapped
<1>   QED BY <1>2, <1>3 DEF IInv

\* The tables a clone gets map the kernel's pages up to some page.
LEMMA FirstPages ==
    ASSUME NEW got \in FirstTables
    PROVE  /\ got \subseteq KernelTable
           /\ got = KernelTable => DOMAIN CloneTables(got) = KernelPage
           /\ DOMAIN CloneTables(got) \subseteq KernelPage
           /\ \A p \in DOMAIN CloneTables(got) : CloneTables(got)[p] = p
           /\ \A p \in KernelPage, q \in DOMAIN CloneTables(got) :
                 p <= q => p \in DOMAIN CloneTables(got)
<1>   DEFINE on == {q \in KernelPage : TableOf(q) \in got}
<1>1. /\ DOMAIN CloneTables(got) = on
      /\ \A p \in on : CloneTables(got)[p] = p
      BY DEF CloneTables
<1>2. PICK n \in 0 .. KernelPages \div TablePages : got = {t \in KernelTable : t < n}
      BY DEF FirstTables
<1>3. n \in Nat
  <2>1. KernelPages \div TablePages \in Nat
        BY MemoryAssumption, Division
  <2>   QED BY <1>2, <2>1
<1>4. \A p \in KernelPage : TableOf(p) \in KernelTable
      BY DEF KernelTable
<1>5. ASSUME NEW p \in KernelPage, NEW q \in on, p <= q
      PROVE  p \in on
  <2>1. p \in Nat /\ q \in Nat
        BY Numbers
  <2>2. TableOf(p) <= TableOf(q) /\ TableOf(p) \in Nat /\ TableOf(q) \in Nat
        BY <2>1, <1>5, MemoryAssumption, PageMonotone, Division DEF TableOf
  <2>3. TableOf(q) < n
        BY <1>2
  <2>   QED BY <1>2, <1>3, <1>4, <2>2, <2>3
<1>6. got = KernelTable => on = KernelPage
      BY <1>4
<1>   QED BY <1>1, <1>2, <1>5, <1>6

\* What a clone changes.
LEMMA CloneIs ==
    ASSUME TypeOK, NEW v0 \in Spaces, vmem_cloneKernelMemory(v0)
    PROVE  \E got \in FirstTables :
              /\ Live' = Live \cup {v0} /\ v0 \notin Live /\ DOMAIN tables' = Live'
              /\ pages'[v0] = CloneTables(got) /\ tables'[v0] = got
              /\ \A v \in Live : pages'[v] = pages[v] /\ tables'[v] = tables[v]
              /\ short' = IF got = KernelTable THEN short ELSE short \cup {v0}
BY DEF TypeOK, vmem_cloneKernelMemory, WithSpace, Live

\* A new address space starts with kernel pages and tables alone.
LEMMA CloneInv ==
    ASSUME IInv, NEW v0 \in Spaces, vmem_cloneKernelMemory(v0)
    PROVE  IInv'
<1>1. PICK got \in FirstTables :
         /\ Live' = Live \cup {v0} /\ v0 \notin Live /\ DOMAIN tables' = Live'
         /\ pages'[v0] = CloneTables(got) /\ tables'[v0] = got
         /\ \A v \in Live : pages'[v] = pages[v] /\ tables'[v] = tables[v]
         /\ short' = IF got = KernelTable THEN short ELSE short \cup {v0}
      BY CloneIs DEF IInv
<1>2. bitmap' = bitmap /\ halted' = halted /\ cleared' = cleared /\ reset' = reset
      BY DEF vmem_cloneKernelMemory
<1>3. /\ got \subseteq KernelTable /\ DOMAIN pages'[v0] \subseteq KernelPage
      /\ got = KernelTable => DOMAIN pages'[v0] = KernelPage
      /\ \A p \in DOMAIN pages'[v0] : pages'[v0][p] = p
      /\ \A p \in KernelPage, q \in DOMAIN pages'[v0] : p <= q => p \in DOMAIN pages'[v0]
      BY <1>1, FirstPages
<1>4. TypeOK'
  <2>1. got \subseteq TableNumber
        BY <1>3, Numbers DEF KernelTable, TableNumber
  <2>2. \A p \in KernelPage : p \in Page
        BY Numbers
  <2>3. short' \subseteq Live'
        BY <1>1 DEF IInv, TypeOK
  <2>   QED BY <1>1, <1>2, <1>3, <2>1, <2>2, <2>3 DEF IInv, TypeOK
<1>5. \A v \in Live' : v # v0 => v \in Live
      BY <1>1
<1>6. DOMAIN pages'[v0] \ KernelPage = {}
      BY <1>3
<1>7. MappedIsUsed'
  <2>   SUFFICES ASSUME NEW v \in Live', NEW p \in DOMAIN pages'[v] \ KernelPage
                 PROVE  pages'[v][p] - KernelPages \in bitmap' \/ pages'[v][p] \in cleared'
        BY DEF MappedIsUsed, UserPagesOf
  <2>1. v \in Live /\ pages'[v] = pages[v]
        BY <1>1, <1>5, <1>6
  <2>   QED BY <2>1, <1>2 DEF IInv, MappedIsUsed, UserPagesOf
<1>8. FramesExclusive'
  <2>   SUFFICES ASSUME NEW v \in Live', NEW w \in Live',
                        NEW p \in DOMAIN pages'[v] \ KernelPage,
                        NEW q \in DOMAIN pages'[w] \ KernelPage,
                        pages'[v][p] = pages'[w][q]
                 PROVE  (v = w /\ p = q) \/ pages'[v][p] \in cleared'
        BY DEF FramesExclusive, UserPagesOf
  <2>1. /\ v \in Live /\ pages'[v] = pages[v]
        /\ w \in Live /\ pages'[w] = pages[w]
        BY <1>1, <1>5, <1>6
  <2>   QED BY <2>1, <1>2 DEF IInv, FramesExclusive, UserPagesOf
<1>9. KernelMapped'
  <2>   SUFFICES ASSUME NEW v \in Live'
                 PROVE  /\ KernelPart(v)'
                        /\ \A p \in DOMAIN pages'[v] \ KernelPage : pages'[v][p] >= KernelPages
        BY DEF KernelMapped, KernelPart, UserPagesOf
  <2>1. CASE v = v0
    <3>1. v0 \in short' \/ DOMAIN pages'[v0] = KernelPage
          BY <1>1, <1>3
    <3>2. KernelPart(v0)'
          BY <1>3, <3>1 DEF KernelPart, KernelPage
    <3>   QED BY <1>6, <2>1, <3>2
  <2>2. CASE v # v0
    <3>1. v \in Live /\ pages'[v] = pages[v]
          BY <1>1, <1>5, <2>2
    <3>2. /\ KernelPart(v)
          /\ \A p \in DOMAIN pages[v] \ KernelPage : pages[v][p] >= KernelPages
          BY <3>1, KernelParts DEF IInv, UserPagesOf
    <3>3. v \in short => v \in short'
          BY <1>1
    <3>4. KernelPart(v)'
          BY <3>1, <3>2, <3>3, KernelPartKept
    <3>   QED BY <3>1, <3>2, <3>4
  <2>   QED BY <2>1, <2>2
<1>   QED BY <1>4, <1>7, <1>8, <1>9 DEF IInv

\* A clone without a directory changes no address space.
LEMMA NowhereInv == IInv /\ CloneNowhere => IInv'
<1>   SUFFICES ASSUME IInv, CloneNowhere PROVE IInv'
      OBVIOUS
<1>1. halted' = TRUE /\ UNCHANGED <<bitmap, tables, pages, reset, short, cleared>>
      BY DEF CloneNowhere
<1>2. TypeOK'
      BY <1>1 DEF IInv, TypeOK, Live
<1>   QED BY <1>1, <1>2 DEF IInv, MappedIsUsed, FramesExclusive, KernelMapped,
                            UserPagesOf, Live

\* A page is given the frame of the bit that was clear, and its table if it had none.
LEMMA GainInv ==
    ASSUME IInv, NEW v0 \in Spaces, NEW p0 \in UserPages, GainsPage(v0, p0)
    PROVE  IInv'
<1>1. /\ v0 \in Live /\ halted' = halted /\ cleared' = cleared /\ short' = short
      /\ reset' \subseteq reset
      BY DEF GainsPage
<1>2. PICK b0 \in NextBit :
         /\ bitmap' = bitmap \cup {b0}
         /\ pages' = [pages EXCEPT ![v0] = Map(@, p0, FrameOf(b0))]
      BY DEF GainsPage
<1>3. b0 \in Bits \ bitmap
      BY DEF NextBit, FreeBits
<1>4. bitmap \subseteq bitmap' /\ bitmap' \subseteq Bits /\ b0 \in bitmap'
      BY <1>2, <1>3 DEF IInv, TypeOK
<1>5. tables' = [tables EXCEPT ![v0] = @ \cup {TableOf(p0)}]
      BY DEF GainsPage
<1>6. /\ Live' = Live /\ DOMAIN tables' = Live
      /\ \A v \in Live : v # v0 => pages'[v] = pages[v] /\ tables'[v] = tables[v]
      /\ pages'[v0] = Map(pages[v0], p0, FrameOf(b0))
      /\ tables'[v0] = tables[v0] \cup {TableOf(p0)}
      BY <1>1, <1>2, <1>5 DEF IInv, TypeOK, Live
<1>7. TableOf(p0) \in TableNumber
      BY Numbers DEF TableNumber
<1>8. \A v \in Live : tables'[v] \subseteq TableNumber
      BY <1>1, <1>6, <1>7 DEF IInv, TypeOK
<1>   QED BY <1>1, <1>3, <1>4, <1>6, <1>8, InvOneMapping

\* A frame that is lost is marked, and no page changes.
LEMMA LoseInv ==
    ASSUME IInv, NEW v0, NEW p0, LosesFrame(v0, p0)
    PROVE  IInv'
<1>1. UNCHANGED <<tables, pages, reset, short, halted, cleared>>
      BY DEF LosesFrame
<1>2. bitmap \subseteq bitmap' /\ bitmap' \subseteq Bits
      BY DEF LosesFrame, NextBit, FreeBits, IInv, TypeOK
<1>3. Live' = Live
      BY <1>1 DEF Live
<1>4. TypeOK' /\ KernelMapped' /\ FramesExclusive'
      BY <1>1, <1>2, <1>3
         DEF IInv, TypeOK, KernelMapped, FramesExclusive, UserPagesOf, Live
<1>5. MappedIsUsed'
      BY <1>1, <1>2, <1>3 DEF IInv, MappedIsUsed, UserPagesOf, Live
<1>   QED BY <1>4, <1>5 DEF IInv

\* Taking a page back clears the bit of the frame its entry names.  If that frame is
\* behind another page, it is one of those cleared by their number alone from now on.
LEMMA FreePageInv ==
    ASSUME IInv, NEW v0 \in Spaces, NEW p0 \in UserPages, vmem_freePage(v0, p0)
    PROVE  IInv'
<1>1. v0 \in Live /\ short' = short
      BY DEF vmem_freePage
<1>2. PICK f \in EntryFrame(v0, p0) :
         \/ /\ halted' = TRUE
            /\ UNCHANGED <<bitmap, tables, pages, reset, cleared>>
         \/ /\ f \notin KernelPage
            /\ bitmap' = bitmap \ {f - KernelPages}
            /\ tables' = [tables EXCEPT ![v0] = TablesLeft(v0, p0)]
            /\ pages' = [pages EXCEPT ![v0] = Unmap(@, p0)]
            /\ reset' = {e \in reset \cup {<<v0, p0>>} :
                            e[1] = v0 => TableOf(e[2]) \in TablesLeft(v0, p0)}
            /\ cleared' = MappedFrames' \cap
                  (IF p0 \in DOMAIN pages[v0] THEN cleared ELSE cleared \cup {f})
            /\ UNCHANGED halted
      BY DEF vmem_freePage
<1>3. CASE halted' = TRUE /\ UNCHANGED <<bitmap, tables, pages, reset, cleared>>
  <2>1. TypeOK'
        BY <1>1, <1>3 DEF IInv, TypeOK, Live
  <2>   QED BY <1>1, <1>3, <2>1 DEF IInv, MappedIsUsed, FramesExclusive, KernelMapped,
                                    UserPagesOf, Live
<1>4. CASE /\ f \notin KernelPage
           /\ bitmap' = bitmap \ {f - KernelPages}
           /\ tables' = [tables EXCEPT ![v0] = TablesLeft(v0, p0)]
           /\ pages' = [pages EXCEPT ![v0] = Unmap(@, p0)]
           /\ reset' = {e \in reset \cup {<<v0, p0>>} :
                           e[1] = v0 => TableOf(e[2]) \in TablesLeft(v0, p0)}
           /\ cleared' = MappedFrames' \cap
                 (IF p0 \in DOMAIN pages[v0] THEN cleared ELSE cleared \cup {f})
           /\ UNCHANGED halted
  <2>1. /\ p0 \notin KernelPage /\ p0 \in Page
        /\ p0 \in DOMAIN pages[v0] => f = pages[v0][p0]
        /\ f \in Page
    <3>1. p0 \notin KernelPage /\ p0 \in Page /\ 0 \in Page
          BY Numbers DEF Page
    <3>   QED BY <1>1, <3>1 DEF EntryFrame, IInv, TypeOK
  <2>2. /\ Live' = Live /\ DOMAIN tables' = Live'
        /\ \A v \in Live : v # v0 => pages'[v] = pages[v] /\ tables'[v] = tables[v]
        /\ pages'[v0] = Unmap(pages[v0], p0)
        /\ tables'[v0] = TablesLeft(v0, p0)
        BY <1>1, <1>4 DEF IInv, TypeOK, Live
  <2>3. /\ DOMAIN pages'[v0] = DOMAIN pages[v0] \ {p0}
        /\ \A q \in DOMAIN pages[v0] \ {p0} : pages'[v0][q] = pages[v0][q]
    <3>   DEFINE new == Unmap(pages[v0], p0)
    <3>1. /\ DOMAIN new = DOMAIN pages[v0] \ {p0}
          /\ \A q \in DOMAIN pages[v0] \ {p0} : new[q] = pages[v0][q]
          BY DEF Unmap
    <3>2. pages'[v0] = new
          BY <2>2
    <3>   HIDE DEF new
    <3>   QED BY <3>1, <3>2
  <2>4. \A v \in Live' :
           /\ DOMAIN pages'[v] \subseteq DOMAIN pages[v]
           /\ DOMAIN pages[v] \cap KernelPage \subseteq DOMAIN pages'[v]
           /\ \A p \in DOMAIN pages'[v] : pages'[v][p] = pages[v][p]
        BY <2>1, <2>2, <2>3
  <2>5. ASSUME NEW v \in Live', NEW p \in DOMAIN pages'[v] \ KernelPage
        PROVE  /\ pages[v][p] - KernelPages \in bitmap' \/ pages[v][p] \in cleared'
               /\ pages[v][p] \in cleared => pages[v][p] \in cleared'
    <3>1. /\ v \in Live /\ p \in DOMAIN pages[v] \ KernelPage
          /\ pages[v][p] \in Page /\ ~ (v = v0 /\ p = p0)
          BY <1>1, <2>2, <2>3, <2>4 DEF IInv, TypeOK
    <3>2. pages[v][p] - KernelPages \in bitmap \/ pages[v][p] \in cleared
          BY <3>1 DEF IInv, MappedIsUsed, UserPagesOf
    <3>3. pages[v][p] \in MappedFrames'
      <4>1. pages'[v][p] \in MappedFrames'
            BY DEF MappedFrames, UserPagesOf
      <4>   QED BY <2>4, <4>1
    <3>4. pages[v][p] \in cleared => pages[v][p] \in cleared'
          BY <1>4, <3>3
    <3>5. pages[v][p] = f => pages[v][p] \in cleared'
      <4>1. CASE p0 \in DOMAIN pages[v0]
        <5>1. pages[v][p] = f => pages[v][p] \in cleared
              BY <1>1, <2>1, <3>1, <4>1 DEF IInv, FramesExclusive, UserPagesOf
        <5>   QED BY <3>4, <5>1
      <4>2. CASE p0 \notin DOMAIN pages[v0]
            BY <1>4, <3>3, <4>2
      <4>   QED BY <4>1, <4>2
    <3>6. pages[v][p] - KernelPages = f - KernelPages => pages[v][p] = f
          BY <2>1, <3>1, Numbers
    <3>   QED BY <1>4, <3>2, <3>4, <3>5, <3>6
  <2>6. \A v \in Live' : tables'[v] \subseteq TableNumber
        BY <1>1, <2>2 DEF IInv, TypeOK, TablesLeft
  <2>7. bitmap' \subseteq Bits /\ halted' \in BOOLEAN /\ cleared' \subseteq Page
        BY <1>4, <2>1 DEF IInv, TypeOK
  <2>8. reset' \subseteq Spaces \X Page /\ short' = short \cap Live'
        BY <1>1, <1>4, <2>1, <2>2 DEF IInv, TypeOK
  <2>   QED BY <2>2, <2>4, <2>5, <2>6, <2>7, <2>8, InvFewerMappings
<1>   QED BY <1>2, <1>3, <1>4

\* Freeing an address space clears bits by the numbers of its pages, and the frames of
\* those numbers may be behind pages of other spaces.
LEMMA FreeMemoryInv ==
    ASSUME IInv, NEW v0 \in Spaces, vmem_freeMemory(v0)
    PROVE  IInv'
<1>1. /\ v0 \in Live /\ halted' = halted /\ bitmap' = bitmap \ ClearedBits(v0)
      /\ reset' \subseteq reset /\ short' = short \ {v0}
      /\ cleared' = MappedFrames' \cap (cleared \cup {FrameOf(bit) : bit \in ClearedBits(v0)})
      BY DEF vmem_freeMemory
<1>2. /\ Live' = Live \ {v0} /\ DOMAIN tables' = Live'
      /\ \A v \in Live' : pages'[v] = pages[v] /\ tables'[v] = tables[v]
      BY DEF vmem_freeMemory, WithoutSpace, IInv, TypeOK, Live
<1>3. ClearedBits(v0) \subseteq Bits
  <2>1. Visited(v0) \subseteq Page
        BY <1>1 DEF Visited, IInv, TypeOK
  <2>2. \A p \in Page \ KernelPage : p - KernelPages \in Bits
        BY MemoryAssumption DEF Page, KernelPage, Bits
  <2>   QED BY <2>1, <2>2 DEF ClearedBits
<1>4. cleared' \subseteq Page
      BY <1>1, <1>3, Numbers DEF IInv, TypeOK
<1>5. ASSUME NEW v \in Live', NEW p \in DOMAIN pages'[v] \ KernelPage
      PROVE  /\ pages[v][p] - KernelPages \in bitmap' \/ pages[v][p] \in cleared'
             /\ pages[v][p] \in cleared => pages[v][p] \in cleared'
  <2>1. /\ v \in Live /\ p \in DOMAIN pages[v] \ KernelPage /\ pages[v][p] \in Page
        BY <1>2 DEF IInv, TypeOK
  <2>2. pages[v][p] - KernelPages \in bitmap \/ pages[v][p] \in cleared
        BY <2>1 DEF IInv, MappedIsUsed, UserPagesOf
  <2>3. pages[v][p] \in MappedFrames'
    <3>1. pages'[v][p] \in MappedFrames'
          BY DEF MappedFrames, UserPagesOf
    <3>   QED BY <1>2, <3>1
  <2>4. FrameOf(pages[v][p] - KernelPages) = pages[v][p]
        BY <2>1, Numbers DEF FrameOf
  <2>5. pages[v][p] - KernelPages \in ClearedBits(v0) => pages[v][p] \in cleared'
        BY <1>1, <2>3, <2>4
  <2>   QED BY <1>1, <2>2, <2>3, <2>5
<1>6. \A v \in Live' : /\ DOMAIN pages'[v] \subseteq DOMAIN pages[v]
                       /\ DOMAIN pages[v] \cap KernelPage \subseteq DOMAIN pages'[v]
                       /\ \A p \in DOMAIN pages'[v] : pages'[v][p] = pages[v][p]
      BY <1>2
<1>7. /\ Live' \subseteq Live /\ bitmap' \subseteq Bits /\ halted' \in BOOLEAN
      /\ \A v \in Live' : tables'[v] \subseteq TableNumber
      /\ reset' \subseteq Spaces \X Page /\ short' = short \cap Live'
      BY <1>1, <1>2 DEF IInv, TypeOK
<1>   QED BY <1>2, <1>4, <1>5, <1>6, <1>7, InvFewerMappings

\* The inductive invariant holds in every state.
THEOREM MemoryInvariant == MemorySpec => []IInv
<1>1. IInv /\ [MemoryNext]_memory => IInv'
  <2>   SUFFICES ASSUME IInv, [MemoryNext]_memory PROVE IInv'
        OBVIOUS
  <2>1. CASE UNCHANGED memory
    <3>1. TypeOK'
          BY <2>1 DEF memory, IInv, TypeOK, Live
    <3>   QED BY <2>1, <3>1 DEF memory, IInv, MappedIsUsed, FramesExclusive, KernelMapped,
                                UserPagesOf, Live
  <2>   QED BY <2>1, CloneInv, NowhereInv, GainInv, LoseInv, FreePageInv, FreeMemoryInv
            DEF MemoryNext, vmem_allocPage
<1>   QED BY <1>1, MemoryInitInv, PTL DEF MemorySpec

\* No frame is behind two pages, also where tables and directories run out, unless its
\* bit has been cleared by its number: by vmem_freeMemory (vmem.c:236-241), or by
\* vmem_freePage from an entry that was never written (vmem.c:102).
THEOREM Exclusive == MemorySpec => []FramesExclusive
<1>1. IInv => FramesExclusive
      BY DEF IInv
<1>   QED BY <1>1, MemoryInvariant, PTL

\* Every mapped frame is marked used, with the same exception.
THEOREM UsedMarked == MemorySpec => []MappedIsUsed
<1>1. IInv => MappedIsUsed
      BY DEF IInv
<1>   QED BY <1>1, MemoryInvariant, PTL

\* The kernel is mapped one to one in every address space, all of it unless tables ran
\* out when the space was made, else its first tables; user pages never reach it.
THEOREM KernelAlwaysMapped == MemorySpec => []KernelMapped
<1>1. IInv => KernelMapped
      BY DEF IInv
<1>   QED BY <1>1, MemoryInvariant, PTL

\* The bitmap, the tables and the page maps keep their types.
THEOREM MemoryTyped == MemorySpec => []TypeOK
<1>1. IInv => TypeOK
      BY DEF IInv
<1>   QED BY <1>1, MemoryInvariant, PTL

-------------------------------------------------------------------------------
(* Tables and pages.  TablesInUse is inductive next to TypeOK: an address space
   is empty of user tables when it is cloned, and later its tables and pages
   change together. *)

\* The tables of a map with one page more, or one less.
LEMMA TablesOf ==
    ASSUME NEW m, NEW p, NEW f
    PROVE  /\ {TableOf(q) : q \in DOMAIN Map(m, p, f)}
                 = {TableOf(q) : q \in DOMAIN m} \cup {TableOf(p)}
           /\ {TableOf(q) : q \in DOMAIN Unmap(m, p)}
                 = {TableOf(q) : q \in DOMAIN m \ {p}}
BY DEF Map, Unmap

\* Every step keeps a table for exactly those parts of a space that hold a page.
LEMMA StepTables == TypeOK /\ TablesInUse /\ [MemoryNext]_memory => TablesInUse'
<1>   SUFFICES ASSUME TypeOK, TablesInUse, [MemoryNext]_memory PROVE TablesInUse'
      OBVIOUS
<1>0. /\ DOMAIN tables = Live
      /\ \A v \in Live : tables[v] = {TableOf(p) : p \in DOMAIN pages[v]}
      BY DEF TypeOK, TablesInUse
<1>1. ASSUME NEW v0 \in Spaces, vmem_cloneKernelMemory(v0)
      PROVE  TablesInUse'
  <2>1. PICK got \in FirstTables :
           /\ Live' = Live \cup {v0} /\ v0 \notin Live
           /\ pages'[v0] = CloneTables(got) /\ tables'[v0] = got
           /\ \A v \in Live : pages'[v] = pages[v] /\ tables'[v] = tables[v]
        BY <1>1, CloneIs
  <2>2. got = {TableOf(p) : p \in DOMAIN CloneTables(got)}
        BY FirstPages DEF CloneTables, KernelTable
  <2>3. tables'[v0] = {TableOf(p) : p \in DOMAIN pages'[v0]}
        BY <2>1, <2>2
  <2>   QED BY <1>0, <2>1, <2>3 DEF TablesInUse
<1>2. ASSUME NEW v0 \in Spaces, NEW p0 \in UserPages, GainsPage(v0, p0)
      PROVE  TablesInUse'
  <2>1. v0 \in Live
        BY <1>2 DEF GainsPage
  <2>3. ASSUME NEW b, tables' = [tables EXCEPT ![v0] = @ \cup {TableOf(p0)}],
               pages' = [pages EXCEPT ![v0] = Map(@, p0, FrameOf(b))]
        PROVE  TablesInUse'
    <3>1. /\ Live' = Live
          /\ \A v \in Live : v # v0 => pages'[v] = pages[v] /\ tables'[v] = tables[v]
          /\ pages'[v0] = Map(pages[v0], p0, FrameOf(b))
          /\ tables'[v0] = tables[v0] \cup {TableOf(p0)}
          BY <1>0, <2>1, <2>3 DEF Live
    <3>2. {TableOf(q) : q \in DOMAIN pages'[v0]} = tables[v0] \cup {TableOf(p0)}
      <4>   DEFINE m == pages[v0]
                   new == Map(m, p0, FrameOf(b))
      <4>1. {TableOf(q) : q \in DOMAIN new} = {TableOf(q) : q \in DOMAIN m} \cup {TableOf(p0)}
            BY TablesOf
      <4>2. pages'[v0] = new
            BY <3>1
      <4>   HIDE DEF new
      <4>   QED BY <4>1, <4>2, <1>0, <2>1
    <3>   QED BY <1>0, <3>1, <3>2 DEF TablesInUse
  <2>   QED BY <1>2, <2>3 DEF GainsPage
<1>3. ASSUME NEW v0 \in Spaces, NEW p0 \in UserPages, vmem_freePage(v0, p0)
      PROVE  TablesInUse'
  <2>1. v0 \in Live
        BY <1>3 DEF vmem_freePage
  <2>2. CASE UNCHANGED <<bitmap, tables, pages, reset, cleared>>
        BY <1>0, <2>2 DEF TablesInUse, Live
  <2>3. CASE /\ tables' = [tables EXCEPT ![v0] = TablesLeft(v0, p0)]
             /\ pages' = [pages EXCEPT ![v0] = Unmap(@, p0)]
    <3>1. /\ Live' = Live
          /\ \A v \in Live : v # v0 => pages'[v] = pages[v] /\ tables'[v] = tables[v]
          /\ pages'[v0] = Unmap(pages[v0], p0)
          /\ tables'[v0] = TablesLeft(v0, p0)
          BY <1>0, <2>1, <2>3 DEF Live
    <3>2. {TableOf(q) : q \in DOMAIN pages'[v0]} = {TableOf(q) : q \in DOMAIN pages[v0] \ {p0}}
      <4>   DEFINE m == pages[v0]
                   new == Unmap(m, p0)
      <4>1. {TableOf(q) : q \in DOMAIN new} = {TableOf(q) : q \in DOMAIN m \ {p0}}
            BY TablesOf
      <4>2. pages'[v0] = new
            BY <3>1
      <4>   HIDE DEF new
      <4>   QED BY <4>1, <4>2
    <3>3. TablesLeft(v0, p0) = {TableOf(q) : q \in DOMAIN pages[v0] \ {p0}}
      <4>1. CASE \E q \in DOMAIN pages[v0] \ {p0} : TableOf(q) = TableOf(p0)
            BY <1>0, <2>1, <4>1 DEF TablesLeft
      <4>2. CASE ~ \E q \in DOMAIN pages[v0] \ {p0} : TableOf(q) = TableOf(p0)
            BY <1>0, <2>1, <4>2 DEF TablesLeft
      <4>   QED BY <4>1, <4>2
    <3>   QED BY <1>0, <3>1, <3>2, <3>3 DEF TablesInUse
  <2>   QED BY <1>3, <2>2, <2>3 DEF vmem_freePage
<1>4. ASSUME NEW v0 \in Spaces, vmem_freeMemory(v0)
      PROVE  TablesInUse'
  <2>1. /\ Live' = Live \ {v0}
        /\ \A v \in Live' : pages'[v] = pages[v] /\ tables'[v] = tables[v]
        BY <1>0, <1>4 DEF vmem_freeMemory, WithoutSpace, Live
  <2>   QED BY <1>0, <2>1 DEF TablesInUse
<1>5. CASE UNCHANGED <<tables, pages>>
      BY <1>0, <1>5 DEF TablesInUse, Live
<1>   QED BY <1>1, <1>2, <1>3, <1>4, <1>5
          DEF MemoryNext, vmem_allocPage, LosesFrame, CloneNowhere, memory

\* A table is present just when a page of it is.
THEOREM TablesMatchPages == MemorySpec => []TablesInUse
<1>1. MemoryInit => TablesInUse
      BY DEF MemoryInit, TablesInUse, Live
<1>   QED BY <1>1, StepTables, MemoryTyped, PTL DEF MemorySpec

-------------------------------------------------------------------------------
(* The loader: pages of a section *)

\* A byte below an end is on a page below the pages that reach to that end.
LEMMA PageBelow ==
    ASSUME NEW P \in Nat \ {0}, NEW a \in Nat, NEW b \in Nat, a < b
    PROVE  /\ a \div P \in Nat /\ CeilDiv(b, P) \in Nat
           /\ a \div P < CeilDiv(b, P)
<1>   DEFINE q == a \div P
             c == b \div P
<1>1. /\ q \in Nat /\ a % P \in 0 .. P - 1 /\ a = P * q + (a % P)
      /\ c \in Nat /\ b % P \in 0 .. P - 1 /\ b = P * c + (b % P)
      BY Division
<1>   HIDE DEF q, c
<1>2. CASE b % P = 0
  <2>1. q < c
        BY <1>1, <1>2, Multiples
  <2>   QED BY <1>1, <1>2, <2>1 DEF CeilDiv, q, c
<1>3. CASE b % P # 0
  <2>1. P * (c + 1) = P * c + P
        BY <1>1
  <2>2. q < c + 1
        BY <1>1, <2>1, Multiples
  <2>   QED BY <1>1, <1>3, <2>2 DEF CeilDiv, q, c
<1>   QED BY <1>1, <1>2, <1>3

-------------------------------------------------------------------------------
(* The invariant of a call in progress *)

Active    == {"section", "page", "fill", "stack"}
LoadState == [stage : Active \cup {"refused", "faulted"}, mem : Spaces,
              program : Programs, i : Nat, j : Nat, heap_address : Nat]

\* Every address space but the short ones has the kernel's pages, so that a page
\* the loader asks for there, because it is not mapped, is never one of them.
KernelIn == \A v \in DOMAIN pages : v \in short \/ KernelPage \subseteq DOMAIN pages[v]

LInv ==
    /\ load \in [stage : {"idle", "faulted"}] \cup LoadState
    /\ KernelIn
    /\ load.stage \in Active => load.mem \in DOMAIN pages
    /\ load.stage \in {"section", "page", "fill"} => load.i \in DOMAIN Image[load.program]
    /\ load.stage = "page" => load.j < PageLimit(Header)

\* The fields of a section header.
LEMMA Headers ==
    ASSUME NEW x \in Programs, NEW i \in DOMAIN Image[x]
    PROVE  /\ i \in Nat /\ i \in 1 .. Len(Image[x]) /\ Len(Image[x]) \in Nat
           /\ Image[x][i].addr \in Nat /\ Image[x][i].size \in Nat
           /\ PageLimit(Image[x][i]) <= MemPages
<1>   DEFINE H == [addr : Nat, size : Nat, alloc : BOOLEAN,
                   write : BOOLEAN, nobits : BOOLEAN]
<1>1. Image[x] \in Seq(H)
      BY LoaderAssumption
<1>2. Image[x][i] \in H
  <2>   HIDE DEF H
  <2>   QED BY <1>1
<1>3. PageLimit(Image[x][i]) <= MemPages
      BY ImageAssumption
<1>4. i \in Nat /\ i \in 1 .. Len(Image[x]) /\ Len(Image[x]) \in Nat
      BY <1>1
<1>   QED BY <1>2, <1>3, <1>4

\* A section that occupies memory has at least one page.
LEMMA FirstPageBelow ==
    ASSUME NEW x \in Programs, NEW i \in DOMAIN Image[x], Occupies(Image[x][i])
    PROVE  /\ FirstPage(Image[x][i]) \in Nat
           /\ FirstPage(Image[x][i]) < PageLimit(Image[x][i])
<1>1. /\ Image[x][i].addr \in Nat /\ Image[x][i].size \in Nat /\ Image[x][i].size > 0
      /\ PageBytes \in Nat \ {0}
      BY Headers, LoaderAssumption DEF Occupies
<1>2. Image[x][i].addr < Image[x][i].addr + Image[x][i].size
      BY <1>1
<1>   QED BY <1>1, <1>2, PageBelow DEF FirstPage, PageLimit

\* What the three operations the loader calls leave of the kernel's pages.
LEMMA CloneKernelIn ==
    ASSUME KernelIn, NEW v \in Spaces, vmem_cloneKernelMemory(v)
    PROVE  KernelIn' /\ DOMAIN pages' = DOMAIN pages \cup {v}
<1>1. PICK got \in FirstTables :
         /\ pages' = WithSpace(pages, v, CloneTables(got))
         /\ short' = IF got = KernelTable THEN short ELSE short \cup {v}
      BY DEF vmem_cloneKernelMemory
<1>2. /\ DOMAIN pages' = DOMAIN pages \cup {v} /\ pages'[v] = CloneTables(got)
      /\ \A u \in DOMAIN pages : u # v => pages'[u] = pages[u]
      BY <1>1 DEF WithSpace
<1>3. v \in short' \/ DOMAIN pages'[v] = KernelPage
      BY <1>1, <1>2, FirstPages
<1>4. short \subseteq short'
      BY <1>1
<1>5. KernelPage' = KernelPage
      BY DEF KernelPage
<1>   QED BY <1>2, <1>3, <1>4, <1>5 DEF KernelIn

\* Allocating a page changes no other space and leaves the kernel's pages in.
LEMMA AllocKernelIn ==
    ASSUME KernelIn, NEW v \in Spaces, NEW p \in UserPages,
           vmem_allocPage(v, p)
    PROVE  KernelIn' /\ DOMAIN pages' = DOMAIN pages
<1>1. PICK bit : \/ pages' = [pages EXCEPT ![v] = Map(@, p, FrameOf(bit))]
                 \/ UNCHANGED pages
      BY DEF vmem_allocPage, GainsPage, LosesFrame
<1>2. \A u \in DOMAIN pages : DOMAIN pages[u] \subseteq DOMAIN pages'[u]
      BY <1>1 DEF Map
<1>3. DOMAIN pages' = DOMAIN pages /\ short' = short
      BY <1>1 DEF vmem_allocPage, GainsPage, LosesFrame
<1>   QED BY <1>2, <1>3 DEF KernelIn, KernelPage

\* Freeing a space takes it away and leaves the others alone.
LEMMA FreeKernelIn ==
    ASSUME KernelIn, NEW v \in Spaces, vmem_freeMemory(v)
    PROVE  KernelIn' /\ DOMAIN pages' = DOMAIN pages \ {v}
BY DEF KernelIn, vmem_freeMemory, WithoutSpace, KernelPage

-------------------------------------------------------------------------------
(* Each action keeps the invariant and is a step of VirtualMemory, or none *)

Allowed == MemoryNext \/ UNCHANGED memory

\* The fields of a call in progress.
LEMMA Fields ==
    ASSUME LInv, load.stage \in Active
    PROVE  /\ load \in LoadState
           /\ load.mem \in Spaces /\ load.mem \in DOMAIN pages
           /\ load.program \in Programs /\ load.i \in Nat /\ load.j \in Nat
           /\ load.heap_address \in Nat
<1>1. load \notin [stage : {"idle", "faulted"}]
      BY DEF Active
<1>   QED BY <1>1 DEF LInv, LoadState

\* The section in hand is one of the file's.
LEMMA CurrentHeader ==
    ASSUME LInv, load.stage \in {"section", "page", "fill"}
    PROVE  /\ load.program \in Programs /\ load.i \in DOMAIN Image[load.program]
           /\ load.i \in 1 .. Len(Image[load.program])
           /\ Len(Image[load.program]) \in Nat
           /\ Header.addr \in Nat /\ Header.size \in Nat
           /\ PageLimit(Header) <= MemPages
<1>1. load.program \in Programs /\ load.i \in DOMAIN Image[load.program]
      BY Fields DEF LInv, Active
<1>   QED BY <1>1, Headers DEF Header

\* Loading begins with a clone of the kernel's memory.
LEMMA BeginStep ==
    ASSUME LInv, NEW v \in Spaces, NEW x \in Programs, Begin(v, x)
    PROVE  LInv' /\ Allowed
<1>1. KernelIn' /\ v \in DOMAIN pages'
      BY CloneKernelIn DEF LInv, Begin
<1>2. /\ load' \in LoadState /\ load'.mem = v /\ load'.stage \in {"section", "stack"}
      /\ load'.program = x /\ load'.i = 1
      BY DEF Begin, LoadState, Active
<1>3. load'.stage = "section" => 1 \in DOMAIN Image[x]
  <2>1. load'.stage = "section" => Image[x] # <<>>
        BY DEF Begin
  <2>   DEFINE H == [addr : Nat, size : Nat, alloc : BOOLEAN,
                     write : BOOLEAN, nobits : BOOLEAN]
  <2>2. Image[x] \in Seq(H)
        BY LoaderAssumption
  <2>   HIDE DEF H
  <2>   QED BY <2>1, <2>2
<1>4. MemoryNext
      BY DEF Begin, MemoryNext
<1>   QED BY <1>1, <1>2, <1>3, <1>4 DEF LInv, Allowed

\* The next section, or the stack.
LEMMA AdvanceFields ==
    ASSUME LInv, load.stage \in {"section", "fill"}, Advance
    PROVE  /\ load' \in LoadState /\ load'.mem = load.mem /\ load'.program = load.program
           /\ load'.i = load.i + 1 /\ load'.heap_address = load.heap_address
           /\ load'.stage = IF load.i < Len(Image[load.program])
                            THEN "section" ELSE "stack"
<1>1. load \in LoadState /\ load.i \in Nat
      BY Fields DEF Active
<1>   DEFINE stage == IF load.i < Len(Image[load.program]) THEN "section" ELSE "stack"
<1>2. PICK s \in Active, i \in Nat, j \in Nat : s = stage /\ i = load.i + 1 /\ j = 0
      BY <1>1 DEF Active
<1>3. load' = [load EXCEPT !.i = i, !.stage = s, !.j = j]
      BY <1>2, Zenon DEF Advance, Step
<1>4. /\ load' \in LoadState /\ load'.mem = load.mem /\ load'.program = load.program
      /\ load'.i = i /\ load'.heap_address = load.heap_address /\ load'.stage = s
      BY <1>1, <1>3 DEF LoadState
<1>   QED BY <1>2, <1>4

\* Without a directory there is no call.
LEMMA NowhereStep ==
    ASSUME LInv, NoDirectory
    PROVE  LInv' /\ Allowed
<1>1. /\ load' = [stage |-> "faulted"] /\ UNCHANGED <<pages, short>> /\ CloneNowhere
      BY DEF NoDirectory, CloneNowhere
<1>2. load' \in [stage : {"idle", "faulted"}] /\ load'.stage = "faulted"
      BY <1>1
<1>   QED BY <1>1, <1>2 DEF LInv, KernelIn, Active, Allowed, MemoryNext

\* Going on to the next section, or to the stack, touches no memory.
LEMMA AdvanceStep ==
    ASSUME LInv, load.stage \in {"section", "fill"}, Advance, UNCHANGED memory
    PROVE  LInv' /\ Allowed
<1>1. /\ load.i \in DOMAIN Image[load.program] /\ load.i \in 1 .. Len(Image[load.program])
      /\ Len(Image[load.program]) \in Nat /\ load.program \in Programs
      BY CurrentHeader
<1>2. load.mem \in DOMAIN pages
      BY Fields DEF Active
<1>3. load'.stage = "section" => load'.i \in DOMAIN Image[load'.program]
  <2>   DEFINE H == [addr : Nat, size : Nat, alloc : BOOLEAN,
                     write : BOOLEAN, nobits : BOOLEAN]
  <2>1. Image[load.program] \in Seq(H)
        BY LoaderAssumption, <1>1
  <2>   HIDE DEF H
  <2>   QED BY <2>1, <1>1, AdvanceFields
<1>4. KernelIn' /\ load'.mem \in DOMAIN pages'
      BY <1>2, AdvanceFields DEF LInv, KernelIn, memory
<1>   QED BY <1>3, <1>4, AdvanceFields DEF LInv, Allowed

\* Entering a section touches no memory.
LEMMA EnterStep ==
    ASSUME LInv, EnterSection
    PROVE  LInv' /\ Allowed
<1>1. load.stage = "section" /\ Occupies(Header) /\ UNCHANGED memory
      BY DEF EnterSection
<1>2. /\ load.program \in Programs /\ load.i \in DOMAIN Image[load.program]
      /\ Header.addr \in Nat /\ Header.size \in Nat
      BY <1>1, CurrentHeader
<1>3. load \in LoadState /\ load.mem \in DOMAIN pages /\ load.heap_address \in Nat
      BY <1>1, Fields DEF Active
<1>4. FirstPage(Header) \in Nat /\ FirstPage(Header) < PageLimit(Header)
      BY <1>1, <1>2, FirstPageBelow DEF Header
<1>5. HeapAddress(load.heap_address, Header) \in Nat
      BY <1>2, <1>3 DEF HeapAddress
<1>6. load' = [load EXCEPT !.stage = "page", !.j = FirstPage(Header),
                           !.heap_address = HeapAddress(@, Header)]
      BY DEF EnterSection, Step
<1>7. /\ load' \in LoadState /\ load'.mem = load.mem /\ load'.program = load.program
      /\ load'.i = load.i /\ load'.stage = "page" /\ load'.j = FirstPage(Header)
      BY <1>3, <1>4, <1>5, <1>6 DEF LoadState, Active
<1>8. KernelIn' /\ load'.mem \in DOMAIN pages'
      BY <1>1, <1>3, <1>7 DEF LInv, KernelIn, memory
<1>   QED BY <1>1, <1>2, <1>4, <1>7, <1>8 DEF LInv, Allowed, Header

\* The next page of the section, or its bytes.
LEMMA NextPageFields ==
    ASSUME LInv, load.stage = "page", NextPage
    PROVE  /\ load' \in LoadState /\ load'.mem = load.mem /\ load'.program = load.program
           /\ load'.i = load.i /\ load'.heap_address = load.heap_address
           /\ load'.j = load.j + 1
           /\ load'.stage = IF load.j + 1 < PageLimit(Header) THEN "page" ELSE "fill"
<1>1. load \in LoadState /\ load.j \in Nat
      BY Fields DEF Active
<1>   DEFINE stage == IF load.j + 1 < PageLimit(Header) THEN "page" ELSE "fill"
<1>2. PICK s \in Active, j \in Nat : s = stage /\ j = load.j + 1
      BY <1>1 DEF Active
<1>3. load' = [load EXCEPT !.j = j, !.stage = s]
      BY <1>2, Zenon DEF NextPage, Step
<1>4. /\ load' \in LoadState /\ load'.mem = load.mem /\ load'.program = load.program
      /\ load'.i = load.i /\ load'.heap_address = load.heap_address
      /\ load'.j = j /\ load'.stage = s
      BY <1>1, <1>3 DEF LoadState
<1>   QED BY <1>2, <1>4

\* The loop over a section's pages, once memory is as it should be.
LEMMA NextPageStep ==
    ASSUME LInv, load.stage = "page", NextPage, KernelIn', load.mem \in DOMAIN pages'
    PROVE  LInv'
<1>1. load.i \in DOMAIN Image[load.program]
      BY CurrentHeader
<1>   QED BY <1>1, NextPageFields DEF LInv, Header

\* A page that is mapped already is shared.
LEMMA ShareStep ==
    ASSUME LInv, SharePage
    PROVE  LInv' /\ Allowed
<1>1. load.stage = "page" /\ NextPage /\ UNCHANGED memory
      BY DEF SharePage
<1>2. KernelIn' /\ load.mem \in DOMAIN pages'
      BY <1>1, Fields DEF LInv, KernelIn, memory, Active
<1>   QED BY <1>1, <1>2, NextPageStep DEF Allowed

\* A page asked for outside the kernel, or where the kernel's is missing.
LEMMA AllocStep ==
    ASSUME LInv, load.stage \in Active, NEW p, NEW w, AllocPage(p, w),
           p \in UserPages \/ (load.mem \in short /\ p \in KernelPage)
    PROVE  KernelIn' /\ load.mem \in DOMAIN pages' /\ Allowed
<1>1. load.mem \in Spaces /\ load.mem \in DOMAIN pages /\ KernelIn
      BY Fields DEF LInv
<1>2. CASE load.mem \notin short /\ vmem_allocPage(load.mem, p)
      BY <1>1, <1>2, AllocKernelIn DEF Allowed, MemoryNext
<1>3. CASE load.mem \in short /\ LosesFrame(load.mem, p)
  <2>1. UNCHANGED <<pages, short>>
        BY <1>3 DEF LosesFrame
  <2>2. MemoryNext
        BY <1>1, <1>3 DEF MemoryNext, vmem_allocPage
  <2>   QED BY <1>1, <2>1, <2>2 DEF Allowed, KernelIn
<1>4. CASE UNCHANGED memory
      BY <1>1, <1>4 DEF Allowed, KernelIn, memory
<1>   QED BY <1>2, <1>3, <1>4 DEF AllocPage

\* A page of a section that is not mapped yet is allocated.
LEMMA NewPageStep ==
    ASSUME LInv, NewPage
    PROVE  LInv' /\ Allowed
<1>1. /\ load.stage = "page" /\ NextPage /\ load.j \notin DOMAIN pages[load.mem]
      /\ AllocPage(load.j, Header.write)
      BY DEF NewPage, Mapped
<1>2. load.j \in UserPages \/ (load.mem \in short /\ load.j \in KernelPage)
  <2>1. load.j \in Nat /\ load.mem \in DOMAIN pages
        BY <1>1, Fields DEF Active
  <2>2. load.j \in KernelPage => load.mem \in short
        BY <1>1, <2>1 DEF LInv, KernelIn
  <2>3. load.j \notin KernelPage => load.j >= KernelPages
        BY <2>1, MemoryAssumption DEF KernelPage
  <2>4. load.j < PageLimit(Header) /\ PageLimit(Header) <= MemPages
        BY <1>1, CurrentHeader DEF LInv
  <2>5. PageLimit(Header) \in Nat
    <3>1. Header.addr \in Nat /\ Header.size \in Nat
          BY <1>1, CurrentHeader
    <3>2. Header.addr + Header.size \in Nat /\ PageBytes \in Nat \ {0}
          BY <3>1, LoaderAssumption
    <3>3. (Header.addr + Header.size) \div PageBytes \in Nat
          BY <3>2, Division
    <3>   QED BY <3>3 DEF PageLimit, CeilDiv
  <2>   QED BY <2>1, <2>2, <2>3, <2>4, <2>5, MemoryAssumption, LoaderAssumption
<1>3. KernelIn' /\ load.mem \in DOMAIN pages' /\ Allowed
      BY <1>1, <1>2, AllocStep DEF Active
<1>   QED BY <1>1, <1>3, NextPageStep

\* A refused program's memory is freed.
LEMMA RefuseStep ==
    ASSUME LInv, Refuse
    PROVE  LInv' /\ Allowed
<1>1. /\ load.stage = "page" /\ vmem_freeMemory(load.mem)
      /\ load' = [load EXCEPT !.stage = "refused"]
      BY DEF Refuse
<1>2. load \in LoadState /\ load.mem \in Spaces
      BY <1>1, Fields DEF Active
<1>3. load' \in LoadState /\ load'.stage = "refused"
      BY <1>1, <1>2 DEF LoadState
<1>4. KernelIn' /\ MemoryNext
      BY <1>1, <1>2, FreeKernelIn DEF LInv, MemoryNext
<1>   QED BY <1>3, <1>4 DEF LInv, Allowed, Active

\* A fault touches no memory.
LEMMA FaultStep ==
    ASSUME LInv, FillFaults \/ KernelMissing
    PROVE  LInv' /\ Allowed
<1>1. /\ load.stage \in Active /\ UNCHANGED memory
      /\ load' = [load EXCEPT !.stage = "faulted"]
      BY DEF FillFaults, KernelMissing, Step, Active
<1>2. load \in LoadState
      BY <1>1, Fields DEF Active
<1>3. load' \in LoadState /\ load'.stage = "faulted"
      BY <1>1, <1>2 DEF LoadState
<1>   QED BY <1>1, <1>3 DEF LInv, Allowed, Active, KernelIn, memory

\* A page of the stack is allocated.
LEMMA StackStep ==
    ASSUME LInv, StackPage
    PROVE  LInv' /\ Allowed
<1>1. /\ load.stage = "stack" /\ load.j < StackPages /\ AllocPage(StackAt(load.j), TRUE)
      /\ load' = [load EXCEPT !.j = @ + 1]
      BY DEF StackPage, Step
<1>2. load \in LoadState /\ load.mem \in DOMAIN pages /\ load.j \in Nat
      BY <1>1, Fields DEF Active
<1>3. StackAt(load.j) \in UserPages
      BY <1>1, <1>2, MemoryAssumption, LoaderAssumption DEF StackAt
<1>4. KernelIn' /\ load.mem \in DOMAIN pages' /\ Allowed
      BY <1>1, <1>3, AllocStep DEF Active
<1>5. load' \in LoadState /\ load'.stage = "stack" /\ load'.mem = load.mem
      BY <1>1, <1>2 DEF LoadState
<1>   QED BY <1>4, <1>5 DEF LInv

\* The end of loading touches no memory.
LEMMA FinishStep ==
    ASSUME LInv, Finish
    PROVE  LInv' /\ Allowed
BY DEF LInv, Finish, Allowed, Idle, Active, KernelIn, memory

\* A program that exits frees its memory.
LEMMA ExitStep ==
    ASSUME LInv, NEW v \in Spaces, Exit(v)
    PROVE  LInv' /\ Allowed
<1>1. KernelIn' /\ MemoryNext
      BY FreeKernelIn DEF LInv, Exit, MemoryNext
<1>2. load.stage = "idle" /\ load' = load
      BY DEF Exit
<1>   QED BY <1>1, <1>2 DEF LInv, Allowed, Active

\* Every step keeps the invariant and uses memory as VirtualMemory describes.
LEMMA StepAllowed ==
    ASSUME LInv, [Next]_vars
    PROVE  LInv' /\ Allowed
<1>1. CASE \E v \in Spaces, x \in Programs : Begin(v, x)
      BY <1>1, BeginStep
<1>2. CASE SkipSection
      BY <1>2, AdvanceStep DEF SkipSection
<1>3. CASE EnterSection
      BY <1>3, EnterStep
<1>4. CASE SharePage
      BY <1>4, ShareStep
<1>5. CASE NewPage
      BY <1>5, NewPageStep
<1>6. CASE Refuse
      BY <1>6, RefuseStep
<1>7. CASE Fill
      BY <1>7, AdvanceStep DEF Fill
<1>8. CASE FillFaults \/ KernelMissing
      BY <1>8, FaultStep
<1>9. CASE StackPage
      BY <1>9, StackStep
<1>10. CASE Finish
      BY <1>10, FinishStep
<1>11. CASE \E v \in Spaces : Exit(v)
      BY <1>11, ExitStep
<1>12. CASE NoDirectory
      BY <1>12, NowhereStep
<1>13. CASE UNCHANGED vars
      BY <1>13 DEF LInv, KernelIn, Allowed, vars, memory, Header
<1>   QED BY <1>1, <1>2, <1>3, <1>4, <1>5, <1>6, <1>7, <1>8, <1>9, <1>10, <1>11, <1>12,
             <1>13 DEF Next

\* The invariant holds at first.
LEMMA InitInv == Init => LInv
BY DEF Init, LInv, Idle, Active, KernelIn, MemoryInit

\* A call in progress has its address space and its place among the sections,
\* and every address space whose tables could be had has the kernel's pages.
THEOREM LoaderInvariant == Spec => []LInv
<1>1. LInv /\ [Next]_vars => LInv'
      BY StepAllowed
<1>   QED BY <1>1, InitInv, PTL DEF Spec

\* The loader implements VirtualMemory's specification: it makes an address space
\* only where there is none, asks only for pages outside the kernel (elf32.cpp:124
\* and the place of the stack) or for pages of the kernel that are missing, and gives
\* back only address spaces it made.
THEOREM UsesMemoryAsDescribed == Spec => MemoryProtocol
<1>1. Init => MemoryInit
      BY DEF Init
<1>2. LInv /\ [Next]_vars => [MemoryNext]_memory
      BY StepAllowed DEF Allowed, memory
<1>   QED BY <1>1, <1>2, LoaderInvariant, PTL DEF Spec, MemoryProtocol, MemorySpec

\* The steps after which the machine does not go on.
Faults == FillFaults \/ KernelMissing \/ NoDirectory

\* They change no page, and no program is being loaded any more.
LEMMA FaultIs ==
    ASSUME LInv, Faults
    PROVE  /\ UNCHANGED <<pages, cleared, writable, contents, loaded>>
           /\ load'.stage = "faulted"
<1>1. CASE FillFaults \/ KernelMissing
  <2>1. load.stage \in Active /\ load' = [load EXCEPT !.stage = "faulted"]
        BY <1>1 DEF FillFaults, KernelMissing, Step, Active
  <2>2. load'.stage = "faulted"
        BY <2>1, Fields DEF LoadState
  <2>   QED BY <1>1, <2>2 DEF FillFaults, KernelMissing, Step, memory
<1>2. CASE NoDirectory
      BY <1>2 DEF NoDirectory, CloneNowhere
<1>   QED BY <1>1, <1>2 DEF Faults

-------------------------------------------------------------------------------
(* Where the heap starts *)

\* The sections of x before the n-th one end at or before top.
Covered(x, n, top) ==
    \A k \in Occupying(x) : k < n => Image[x][k].addr + Image[x][k].size <= top

\* heap_address has been raised to the section in hand once its pages are dealt with.
Entered == IF load.stage \in {"page", "fill"} THEN load.i + 1 ELSE load.i

HeapInv ==
    /\ load.stage \in Active => Covered(load.program, Entered, load.heap_address)
    /\ load.stage = "stack" => load.i > Len(Image[load.program])
    /\ \A v \in DOMAIN loaded :
          /\ loaded[v].program \in Programs
          /\ \E top \in Nat :
                /\ loaded[v].heap = CeilDiv(top, PageBytes)
                /\ \A n \in Nat : Covered(loaded[v].program, n, top)

\* A section skipped or copied does not raise the heap.
LEMMA AdvanceHeap ==
    ASSUME LInv, HeapInv, load.stage \in {"section", "fill"}, Advance,
           load.stage = "section" => ~ Occupies(Header)
    PROVE  HeapInv'
<1>1. /\ load.i \in 1 .. Len(Image[load.program]) /\ Len(Image[load.program]) \in Nat
      BY CurrentHeader
<1>2. Covered(load.program, load.i + 1, load.heap_address)
  <2>1. CASE load.stage = "fill"
        BY <2>1 DEF HeapInv, Entered, Active
  <2>2. CASE load.stage = "section"
    <3>1. Covered(load.program, load.i, load.heap_address)
          BY <2>2 DEF HeapInv, Entered, Active
    <3>2. \A k \in Occupying(load.program) : k # load.i
          BY <2>2 DEF Occupying, Header
    <3>3. Occupying(load.program) \subseteq Nat
          BY Headers, CurrentHeader DEF Occupying
    <3>   QED BY <1>1, <3>1, <3>2, <3>3 DEF Covered
  <2>   QED BY <2>1, <2>2
<1>3. /\ load'.stage \in {"section", "stack"} /\ load'.program = load.program
      /\ load'.i = load.i + 1 /\ load'.heap_address = load.heap_address
      /\ load'.stage = "stack" => ~ load.i < Len(Image[load.program])
      BY AdvanceFields
<1>4. Covered(load'.program, load'.i, load'.heap_address)
      BY <1>2, <1>3
<1>5. load'.stage = "stack" => load'.i > Len(Image[load'.program])
      BY <1>1, <1>3
<1>   QED BY <1>3, <1>4, <1>5 DEF HeapInv, Entered, Active, Advance, Step

\* A section entered raises the heap to its end, if it is above.
LEMMA EnterHeap ==
    ASSUME LInv, HeapInv, EnterSection
    PROVE  HeapInv'
<1>1. /\ load.stage = "section" /\ loaded' = loaded
      /\ load' = [load EXCEPT !.stage = "page", !.j = FirstPage(Header),
                              !.heap_address = HeapAddress(@, Header)]
      BY DEF EnterSection, Step
<1>2. load \in LoadState /\ load.heap_address \in Nat /\ load.program \in Programs
      BY <1>1, Fields DEF Active
<1>3. /\ load'.stage = "page" /\ load'.program = load.program /\ load'.i = load.i
      /\ load'.heap_address = HeapAddress(load.heap_address, Header)
      BY <1>1, <1>2 DEF LoadState
<1>4. /\ Header.addr + Header.size \in Nat /\ load.i \in Nat
      BY <1>1, CurrentHeader
<1>5. /\ HeapAddress(load.heap_address, Header) \in Nat
      /\ load.heap_address <= HeapAddress(load.heap_address, Header)
      /\ Header.addr + Header.size <= HeapAddress(load.heap_address, Header)
      BY <1>2, <1>4 DEF HeapAddress
<1>6. Covered(load.program, load.i, load.heap_address)
      BY <1>1 DEF HeapInv, Entered, Active
<1>7. Covered(load.program, load.i + 1, HeapAddress(load.heap_address, Header))
  <2>   SUFFICES ASSUME NEW k \in Occupying(load.program), k < load.i + 1
                 PROVE  Image[load.program][k].addr + Image[load.program][k].size
                        <= HeapAddress(load.heap_address, Header)
        BY DEF Covered
  <2>1. /\ k \in Nat /\ Image[load.program][k].addr + Image[load.program][k].size \in Nat
        BY <1>2, Headers DEF Occupying
  <2>2. CASE k = load.i
        BY <1>5, <2>2 DEF Header
  <2>3. CASE k < load.i
        BY <1>2, <1>5, <1>6, <2>1, <2>3 DEF Covered
  <2>   QED BY <1>4, <2>1, <2>2, <2>3
<1>   QED BY <1>1, <1>3, <1>7 DEF HeapInv, Entered, Active

\* The pages of a section do not raise it further.
LEMMA NextPageHeap ==
    ASSUME LInv, HeapInv, load.stage = "page", NextPage
    PROVE  HeapInv'
<1>1. /\ load'.program = load.program /\ load'.i = load.i
      /\ load'.heap_address = load.heap_address /\ load'.stage \in {"page", "fill"}
      BY NextPageFields
<1>2. Covered(load.program, load.i + 1, load.heap_address)
      BY DEF HeapInv, Entered, Active
<1>   QED BY <1>1, <1>2 DEF HeapInv, Entered, Active, NextPage, Step

\* Nor do the stack's.
LEMMA StackHeap ==
    ASSUME LInv, HeapInv, StackPage
    PROVE  HeapInv'
<1>1. load.stage = "stack" /\ loaded' = loaded /\ load' = [load EXCEPT !.j = @ + 1]
      BY DEF StackPage, Step
<1>2. /\ load'.stage = "stack" /\ load'.program = load.program /\ load'.i = load.i
      /\ load'.heap_address = load.heap_address
      BY <1>1, Fields DEF LoadState, Active
<1>   QED BY <1>1, <1>2 DEF HeapInv, Entered, Active

\* When the call ends, no section is above the heap.
LEMMA FinishHeap ==
    ASSUME LInv, HeapInv, Finish
    PROVE  HeapInv'
<1>   DEFINE x == load.program
             top == load.heap_address
<1>1. load.stage = "stack" /\ x \in Programs /\ top \in Nat /\ load.i \in Nat
      BY Fields DEF Finish, Active
<1>2. \A n \in Nat : Covered(x, n, top)
  <2>1. Covered(x, load.i, top) /\ load.i > Len(Image[x])
        BY <1>1 DEF HeapInv, Entered, Active
  <2>2. \A k \in Occupying(x) : k \in Nat /\ Len(Image[x]) \in Nat /\ k <= Len(Image[x])
        BY <1>1, Headers DEF Occupying
  <2>3. \A k \in Occupying(x) : k < load.i
        BY <1>1, <2>1, <2>2
  <2>   QED BY <2>1, <2>3 DEF Covered
<1>3. /\ DOMAIN loaded' = DOMAIN loaded \cup {load.mem}
      /\ \A v \in DOMAIN loaded' :
            loaded'[v] = IF v = load.mem
                         THEN [program |-> x, heap |-> CeilDiv(top, PageBytes)]
                         ELSE loaded[v]
      BY DEF Finish, WithSpace
<1>4. ASSUME NEW v \in DOMAIN loaded'
      PROVE  /\ loaded'[v].program \in Programs
             /\ \E t \in Nat : /\ loaded'[v].heap = CeilDiv(t, PageBytes)
                               /\ \A n \in Nat : Covered(loaded'[v].program, n, t)
  <2>1. CASE v = load.mem
        BY <1>1, <1>2, <1>3, <2>1
  <2>2. CASE v # load.mem
    <3>1. v \in DOMAIN loaded /\ loaded'[v] = loaded[v]
          BY <1>3, <2>2
    <3>   QED BY <3>1 DEF HeapInv
  <2>   QED BY <2>1, <2>2
<1>5. load'.stage = "idle"
      BY DEF Finish, Idle
<1>   QED BY <1>4, <1>5 DEF HeapInv, Active

\* The actions that end a call without a program in memory, or take one out.
LEMMA StopHeap ==
    ASSUME LInv, HeapInv, Refuse \/ Faults \/ \E v \in Spaces : Exit(v)
    PROVE  HeapInv'
<1>1. CASE Refuse \/ Faults
  <2>1. loaded' = loaded /\ load'.stage \in {"refused", "faulted"}
    <3>1. CASE Refuse
          BY <3>1, Fields DEF Refuse, Active, LoadState
    <3>   QED BY <1>1, <3>1, FaultIs
  <2>   QED BY <2>1 DEF HeapInv, Active
<1>2. CASE \E v \in Spaces : Exit(v)
  <2>1. PICK v \in Spaces : Exit(v)
        BY <1>2
  <2>2. /\ load.stage = "idle" /\ load' = load
        /\ DOMAIN loaded' \subseteq DOMAIN loaded
        /\ \A u \in DOMAIN loaded' : loaded'[u] = loaded[u]
        BY <2>1 DEF Exit, WithoutSpace
  <2>   QED BY <2>2 DEF HeapInv, Active
<1>   QED BY <1>1, <1>2

\* Every step keeps the heap above the sections entered.
LEMMA HeapStep ==
    ASSUME LInv, HeapInv, [Next]_vars
    PROVE  HeapInv'
<1>1. CASE \E v \in Spaces, x \in Programs : Begin(v, x)
  <2>1. PICK v \in Spaces, x \in Programs : Begin(v, x)
        BY <1>1
  <2>2. /\ loaded' = loaded /\ load'.stage \in {"section", "stack"} /\ load'.program = x
        /\ load'.i = 1
        /\ load'.stage = "stack" => Image[x] = <<>>
        BY <2>1 DEF Begin
  <2>3. Covered(x, 1, load'.heap_address)
    <3>1. \A k \in Occupying(x) : k \in Nat /\ k >= 1
          BY Headers DEF Occupying
    <3>   QED BY <3>1 DEF Covered
  <2>4. load'.stage = "stack" => Len(Image[x]) = 0
        BY <2>2
  <2>5. Covered(load'.program, Entered', load'.heap_address)
        BY <2>2, <2>3 DEF Entered
  <2>6. load'.stage = "stack" => load'.i > Len(Image[load'.program])
        BY <2>2, <2>4
  <2>   QED BY <2>2, <2>5, <2>6 DEF HeapInv
<1>2. CASE SkipSection \/ Fill
      BY <1>2, AdvanceHeap DEF SkipSection, Fill
<1>3. CASE EnterSection
      BY <1>3, EnterHeap
<1>4. CASE SharePage \/ NewPage
      BY <1>4, NextPageHeap DEF SharePage, NewPage
<1>5. CASE StackPage
      BY <1>5, StackHeap
<1>6. CASE Finish
      BY <1>6, FinishHeap
<1>7. CASE Refuse \/ Faults \/ \E v \in Spaces : Exit(v)
      BY <1>7, StopHeap
<1>8. CASE UNCHANGED vars
      BY <1>8 DEF vars, HeapInv, Entered
<1>   QED BY <1>1, <1>2, <1>3, <1>4, <1>5, <1>6, <1>7, <1>8 DEF Next, Faults

\* Above the sections' ends is above the pages of their bytes.
LEMMA HeapInvAbove == HeapInv => HeapAbove
<1>   SUFFICES ASSUME HeapInv, NEW v \in DOMAIN loaded,
                      NEW i \in Occupying(loaded[v].program),
                      NEW b \in Bytes(Image[loaded[v].program][i])
               PROVE  PageOf(b) < loaded[v].heap
      BY DEF HeapAbove
<1>   DEFINE s == Image[loaded[v].program][i]
<1>1. PICK top \in Nat : /\ loaded[v].heap = CeilDiv(top, PageBytes)
                         /\ \A n \in Nat : Covered(loaded[v].program, n, top)
      BY DEF HeapInv
<1>2. i \in Nat /\ s.addr \in Nat /\ s.size \in Nat
      BY Headers DEF HeapInv, Occupying
<1>3. i + 1 \in Nat /\ i < i + 1
      BY <1>2
<1>4. s.addr + s.size <= top
      BY <1>1, <1>3 DEF Covered
<1>5. b \in Nat /\ b < top
      BY <1>2, <1>4 DEF Bytes
<1>6. PageBytes \in Nat \ {0}
      BY LoaderAssumption
<1>   QED BY <1>1, <1>5, <1>6, PageBelow DEF PageOf

\* The heap's invariant, on every behaviour.
LEMMA HeapInvariant == Spec => []HeapInv
<1>1. Init => HeapInv
      BY DEF Init, HeapInv, Idle, Active
<1>2. LInv /\ HeapInv /\ [Next]_vars => HeapInv'
      BY HeapStep
<1>   QED BY <1>1, <1>2, LoaderInvariant, PTL DEF Spec

\* The heap of a loaded program starts on a page above every byte of its sections,
\* in whatever order the file lists them (elf32.cpp:117 and 160).
THEOREM HeapAboveProgram == Spec => []HeapAbove
BY HeapInvariant, HeapInvAbove, PTL

-------------------------------------------------------------------------------
(* What is proved of the memory holds here *)

Frames == TypeOK /\ FramesExclusive /\ KernelMapped

\* Frames are handed out and shared as they are without the loader, also when it is
\* the loader that asks for them.
LEMMA FramesKept == Spec => []Frames
<1>1. IInv => Frames
      BY DEF IInv, Frames
<1>   QED BY <1>1, MemoryInvariant, UsesMemoryAsDescribed, PTL DEF MemoryProtocol

-------------------------------------------------------------------------------
(* The pages of a section *)

\* A page below the pages that reach to an end begins below that end.
LEMMA StartBelow ==
    ASSUME NEW P \in Nat \ {0}, NEW q \in Nat, NEW b \in Nat, q < CeilDiv(b, P)
    PROVE  P * q < b
<1>   DEFINE c == b \div P
<1>1. c \in Nat /\ b % P \in 0 .. P - 1 /\ b = P * c + (b % P)
      BY Division
<1>   HIDE DEF c
<1>2. P * (q + 1) = P * q + P
      BY <1>1
<1>3. CASE b % P = 0
      BY <1>1, <1>2, <1>3, Multiples DEF CeilDiv, c
<1>4. CASE b % P # 0
      BY <1>1, <1>4, Multiples DEF CeilDiv, c
<1>   QED BY <1>1, <1>3, <1>4

\* The loop over a section's pages visits the pages of its bytes.
LEMMA TouchedPages ==
    ASSUME NEW x \in Programs, NEW i \in DOMAIN Image[x], Occupies(Image[x][i])
    PROVE  /\ FirstPage(Image[x][i]) \in Nat /\ PageLimit(Image[x][i]) \in Nat
           /\ \A p \in Nat : p \in Touched(Image[x][i])
                 <=> FirstPage(Image[x][i]) <= p /\ p < PageLimit(Image[x][i])
           /\ \A b \in Bytes(Image[x][i]) :
                 b \in Nat /\ PageOf(b) \in Nat /\ PageOf(b) \in Touched(Image[x][i])
           /\ Touched(Image[x][i]) \subseteq Nat
<1>1. PICK a \in Nat, n \in Nat :
         /\ a = Image[x][i].addr /\ n = Image[x][i].addr + Image[x][i].size /\ a < n
         /\ Bytes(Image[x][i]) = a .. n - 1
  <2>1. Image[x][i].addr \in Nat /\ Image[x][i].size \in Nat /\ Image[x][i].size > 0
        BY Headers DEF Occupies
  <2>2. /\ Image[x][i].addr + Image[x][i].size \in Nat
        /\ Image[x][i].addr < Image[x][i].addr + Image[x][i].size
        BY <2>1
  <2>3. Bytes(Image[x][i]) = Image[x][i].addr .. Image[x][i].addr + Image[x][i].size - 1
        BY DEF Bytes
  <2>4. PICK a \in Nat : a = Image[x][i].addr
        BY <2>1
  <2>5. PICK n \in Nat : n = Image[x][i].addr + Image[x][i].size
        BY <2>2
  <2>6. a < n
        BY <2>2, <2>4, <2>5
  <2>7. Bytes(Image[x][i]) = a .. n - 1
        BY <2>1, <2>3, <2>4, <2>5
  <2>   QED BY <2>4, <2>5, <2>6, <2>7
<1>2. PageBytes \in Nat \ {0}
      BY LoaderAssumption
<1>3. /\ FirstPage(Image[x][i]) = a \div PageBytes
      /\ PageLimit(Image[x][i]) = CeilDiv(n, PageBytes)
      /\ a \div PageBytes \in Nat /\ CeilDiv(n, PageBytes) \in Nat
      BY <1>1, <1>2, PageBelow DEF FirstPage, PageLimit
<1>4. ASSUME NEW b \in Bytes(Image[x][i])
      PROVE  /\ b \in Nat /\ PageOf(b) \in Nat
             /\ a \div PageBytes <= PageOf(b) /\ PageOf(b) < CeilDiv(n, PageBytes)
  <2>1. b \in Nat /\ a <= b /\ b < n
        BY <1>1
  <2>   QED BY <1>1, <1>2, <2>1, PageBelow, PageMonotone DEF PageOf
<1>5. ASSUME NEW p \in Nat, a \div PageBytes <= p, p < CeilDiv(n, PageBytes)
      PROVE  \E b \in Bytes(Image[x][i]) : PageOf(b) = p
  <2>1. PageBytes * p \in Nat /\ PageBytes * p < n
        BY <1>1, <1>2, <1>5, StartBelow
  <2>2. CASE a <= PageBytes * p
    <3>1. (PageBytes * p) \div PageBytes = p
          BY <1>2, <2>1, Quotient
    <3>   QED BY <1>1, <2>1, <2>2, <3>1 DEF PageOf
  <2>3. CASE PageBytes * p < a
    <3>1. p <= a \div PageBytes
      <4>1. (PageBytes * p) \div PageBytes = p
            BY <1>2, <2>1, Quotient
      <4>2. PICK start \in Nat : start = PageBytes * p
            BY <2>1
      <4>3. start \div PageBytes <= a \div PageBytes
            BY <1>2, <2>3, <4>2, PageMonotone
      <4>   QED BY <4>1, <4>2, <4>3
    <3>2. a \div PageBytes = p
          BY <1>3, <1>5, <3>1
    <3>   QED BY <1>1, <3>2 DEF PageOf
  <2>   QED BY <1>1, <2>1, <2>2, <2>3
<1>6. Touched(Image[x][i]) = {PageOf(b) : b \in Bytes(Image[x][i])}
      BY DEF Touched
<1>   QED BY <1>3, <1>4, <1>5, <1>6

\* Two bytes at the same place of the same page are one.
LEMMA SameByte ==
    ASSUME NEW a \in Nat, NEW b \in Nat,
           PageOf(a) = PageOf(b), a % PageBytes = b % PageBytes
    PROVE  a = b
<1>1. PageBytes \in Nat \ {0}
      BY LoaderAssumption
<1>2. /\ a = PageBytes * (a \div PageBytes) + (a % PageBytes)
      /\ b = PageBytes * (b \div PageBytes) + (b % PageBytes)
      BY <1>1, Division
<1>   QED BY <1>2 DEF PageOf

-------------------------------------------------------------------------------
(* What a program in memory and a call in progress own *)

\* A call works in its own address space, which no program has yet.
OwnInv ==
    /\ DOMAIN writable = DOMAIN pages
    /\ DOMAIN loaded \subseteq DOMAIN pages
    /\ load.stage \in Active => load.mem \notin DOMAIN loaded /\ current_vmem = load.mem

\* The pages of the section in hand that the loop has passed: none is a mapped page
\* of the kernel.
SectionInv ==
    /\ load.stage \in {"page", "fill"} =>
          /\ Occupies(Header)
          /\ \A p \in Touched(Header) : p < load.j => p \notin Foreign
    /\ load.stage = "page" => FirstPage(Header) <= load.j
    /\ load.stage = "fill" => load.j = PageLimit(Header)

On(x, p) == {i \in Occupying(x) : p \in Touched(Image[x][i])}

\* Section k has given page p its attribute.
Done(k, p) ==
    \/ k < load.i
    \/ k = load.i /\ p < load.j /\ load.stage \in {"page", "fill"}

DoneOn(p) == {i \in On(load.program, p) : Done(i, p)}

Asked(x, on) == on = {} \/ \E i \in on : Image[x][i].write

\* A page has the attribute the sections dealt with ask for; before the stack,
\* every user page is some section's.
AttributeInv ==
    /\ \A v \in DOMAIN pages : writable[v] \subseteq DOMAIN pages[v]
    /\ WritableAsLinked
    /\ load.stage \in Active =>
          \A p \in DOMAIN pages[load.mem] \ KernelPage :
             /\ p \in writable[load.mem] <=> Asked(load.program, DoneOn(p))
             /\ load.stage # "stack" => DoneOn(p) # {}

Holds(v, b, x) ==
    \/ contents[<<pages[v][PageOf(b)], b % PageBytes>>] = x
    \/ pages[v][PageOf(b)] \in cleared

\* No section between the i-th and the n-th covers b.
Uncovered(x, i, n, b) ==
    \A k \in Occupying(x) : i < k /\ k < n => b \notin Bytes(Image[x][k])

\* The sections of x before the n-th are in place in v.
Filled(v, x, n) ==
    \A i \in Occupying(x) : i < n =>
       \A b \in Bytes(Image[x][i]) :
          /\ PageOf(b) \in DOMAIN pages[v] \ KernelPage
          /\ Uncovered(x, i, n, b) => Holds(v, b, FileByte(x, i, b))

FillInv ==
    /\ DOMAIN contents = Page \X Offset
    /\ \A v \in DOMAIN loaded :
          Filled(v, loaded[v].program, Len(Image[loaded[v].program]) + 1)
    /\ load.stage \in Active => Filled(load.mem, load.program, load.i)

PlaceInv == OwnInv /\ SectionInv /\ AttributeInv /\ FillInv

-------------------------------------------------------------------------------
(* What a step leaves of the address spaces *)

Kept ==
    \A u \in DOMAIN pages \cap DOMAIN pages' :
       /\ DOMAIN pages[u] \subseteq DOMAIN pages'[u]
       /\ \A p \in DOMAIN pages[u] : pages'[u][p] = pages[u][p]
       /\ \A p \in UserPagesOf(u) : pages[u][p] \in cleared => pages[u][p] \in cleared'

\* A new address space has kernel pages; the others stay.
LEMMA CloneKept ==
    ASSUME NEW v \in Spaces, vmem_cloneKernelMemory(v)
    PROVE  /\ Kept /\ v \notin DOMAIN pages /\ DOMAIN pages' = DOMAIN pages \cup {v}
           /\ DOMAIN pages'[v] \subseteq KernelPage
           /\ \A u \in DOMAIN pages : pages'[u] = pages[u]
<1>1. PICK got \in FirstTables : pages' = WithSpace(pages, v, CloneTables(got))
      BY DEF vmem_cloneKernelMemory
<1>2. v \notin DOMAIN pages /\ cleared' = cleared
      BY DEF vmem_cloneKernelMemory, Live
<1>3. /\ DOMAIN pages' = DOMAIN pages \cup {v} /\ pages'[v] = CloneTables(got)
      /\ \A u \in DOMAIN pages : pages'[u] = pages[u]
      BY <1>1, <1>2 DEF WithSpace
<1>4. DOMAIN pages'[v] \subseteq KernelPage
      BY <1>3, FirstPages
<1>   QED BY <1>2, <1>3, <1>4 DEF Kept

\* An address space given back leaves the others as they are.
LEMMA FreeKept ==
    ASSUME NEW v \in Spaces, vmem_freeMemory(v)
    PROVE  /\ Kept /\ DOMAIN pages' = DOMAIN pages \ {v}
           /\ \A u \in DOMAIN pages' : pages'[u] = pages[u]
<1>1. /\ DOMAIN pages' = DOMAIN pages \ {v}
      /\ \A u \in DOMAIN pages' : pages'[u] = pages[u]
      BY DEF vmem_freeMemory, WithoutSpace
<1>2. ASSUME NEW u \in DOMAIN pages', NEW p \in UserPagesOf(u), pages[u][p] \in cleared
      PROVE  pages[u][p] \in cleared'
  <2>1. p \in UserPagesOf(u)' /\ pages'[u][p] = pages[u][p]
        BY <1>1 DEF UserPagesOf, KernelPage
  <2>2. pages[u][p] \in MappedFrames'
        BY <2>1 DEF MappedFrames, Live
  <2>   QED BY <1>2, <2>2 DEF vmem_freeMemory
<1>   QED BY <1>1, <1>2 DEF Kept

\* A page asked for is new in its address space, or nothing changes there.
LEMMA AllocKept ==
    ASSUME NEW v \in DOMAIN pages, NEW p, vmem_allocPage(v, p)
    PROVE  /\ Kept /\ DOMAIN pages' = DOMAIN pages
           /\ \A u \in DOMAIN pages : u # v => pages'[u] = pages[u]
           /\ \/ pages' = pages
              \/ p \notin DOMAIN pages[v] /\ DOMAIN pages'[v] = DOMAIN pages[v] \cup {p}
<1>1. cleared' = cleared
      BY DEF vmem_allocPage, GainsPage, LosesFrame
<1>2. \/ pages' = pages
      \/ \E f : /\ p \notin DOMAIN pages[v]
                /\ pages' = [pages EXCEPT ![v] = Map(@, p, f)]
      BY DEF vmem_allocPage, GainsPage, LosesFrame
<1>3. CASE pages' = pages
      BY <1>1, <1>3 DEF Kept
<1>4. ASSUME NEW f, p \notin DOMAIN pages[v],
             pages' = [pages EXCEPT ![v] = Map(@, p, f)]
      PROVE  /\ Kept /\ DOMAIN pages' = DOMAIN pages
             /\ \A u \in DOMAIN pages : u # v => pages'[u] = pages[u]
             /\ DOMAIN pages'[v] = DOMAIN pages[v] \cup {p}
  <2>1. /\ DOMAIN pages' = DOMAIN pages /\ pages'[v] = Map(pages[v], p, f)
        /\ \A u \in DOMAIN pages : u # v => pages'[u] = pages[u]
        BY <1>4
  <2>2. /\ DOMAIN pages'[v] = DOMAIN pages[v] \cup {p}
        /\ \A q \in DOMAIN pages[v] : pages'[v][q] = pages[v][q]
    <3>1. /\ DOMAIN Map(pages[v], p, f) = DOMAIN pages[v] \cup {p}
          /\ \A q \in DOMAIN pages[v] : Map(pages[v], p, f)[q] = pages[v][q]
          BY <1>4 DEF Map
    <3>   QED BY <2>1, <3>1, Zenon
  <2>   QED BY <1>1, <2>1, <2>2 DEF Kept
<1>   QED BY <1>2, <1>3, <1>4

\* What giving a page its attribute changes.
LEMMA AttributeIs ==
    ASSUME NEW v \in DOMAIN writable, NEW p, NEW w \in BOOLEAN,
           writable' = Attribute(v, p, w)
    PROVE  /\ DOMAIN writable' = DOMAIN writable
           /\ \A u \in DOMAIN writable : u # v => writable'[u] = writable[u]
           /\ writable'[v] = IF w THEN writable[v] \cup {p} ELSE writable[v]
BY DEF Attribute

\* A page asked for with its attribute.  A page of the kernel is never had.
LEMMA AllocPageIs ==
    ASSUME LInv, OwnInv, load.stage \in Active, NEW p, NEW w \in BOOLEAN, AllocPage(p, w)
    PROVE  /\ Kept /\ DOMAIN pages' = DOMAIN pages /\ DOMAIN writable' = DOMAIN writable
           /\ \A u \in DOMAIN pages : u # load.mem =>
                 pages'[u] = pages[u] /\ writable'[u] = writable[u]
           /\ \/ pages' = pages /\ writable' = writable
              \/ /\ p \notin Mapped \cup KernelPage
                 /\ DOMAIN pages'[load.mem] = Mapped \cup {p}
                 /\ writable'[load.mem] = IF w THEN writable[load.mem] \cup {p}
                                          ELSE writable[load.mem]
<1>1. load.mem \in DOMAIN pages /\ load.mem \in DOMAIN writable
      BY Fields DEF OwnInv
<1>2. /\ Kept /\ DOMAIN pages' = DOMAIN pages
      /\ \A u \in DOMAIN pages : u # load.mem => pages'[u] = pages[u]
      /\ \/ pages' = pages
         \/ /\ p \notin Mapped \cup KernelPage
            /\ DOMAIN pages'[load.mem] = Mapped \cup {p}
  <2>1. CASE load.mem \notin short /\ vmem_allocPage(load.mem, p)
    <3>1. KernelPage \subseteq Mapped
          BY <1>1, <2>1 DEF LInv, KernelIn, Mapped
    <3>   QED BY <1>1, <2>1, <3>1, AllocKept DEF Mapped
  <2>2. CASE LosesFrame(load.mem, p) \/ UNCHANGED memory
        BY <2>2 DEF LosesFrame, memory, Kept
  <2>   QED BY <2>1, <2>2 DEF AllocPage
<1>3. writable' = IF p \notin Mapped /\ p \in DOMAIN pages'[load.mem]
                  THEN Attribute(load.mem, p, w) ELSE writable
      BY DEF AllocPage
<1>4. CASE pages' = pages
      BY <1>2, <1>3, <1>4 DEF OwnInv, Mapped
<1>5. CASE /\ p \notin Mapped \cup KernelPage
           /\ DOMAIN pages'[load.mem] = Mapped \cup {p}
  <2>1. writable' = Attribute(load.mem, p, w)
        BY <1>3, <1>5
  <2>   QED BY <1>1, <1>2, <1>5, <2>1, AttributeIs DEF OwnInv
<1>   QED BY <1>2, <1>4, <1>5

\* The flags of a section header.
LEMMA WriteBoolean ==
    ASSUME NEW x \in Programs, NEW i \in DOMAIN Image[x]
    PROVE  Image[x][i].write \in BOOLEAN /\ Image[x][i].alloc \in BOOLEAN
<1>   DEFINE H == [addr : Nat, size : Nat, alloc : BOOLEAN,
                   write : BOOLEAN, nobits : BOOLEAN]
<1>1. Image[x] \in Seq(H)
      BY LoaderAssumption
<1>2. Image[x][i] \in H
  <2>   HIDE DEF H
  <2>   QED BY <1>1
<1>   QED BY <1>2

\* The address space and place of a call whose stage is Active stay put, but for
\* Begin; the call's own actions leave loaded alone.
LEMMA CallFields ==
    ASSUME LInv, \/ SkipSection \/ EnterSection \/ SharePage \/ NewPage
                 \/ Fill \/ StackPage
    PROVE  /\ load.stage \in Active /\ load' \in LoadState /\ load'.stage \in Active
           /\ load'.mem = load.mem /\ load'.program = load.program
           /\ current_vmem' = current_vmem /\ loaded' = loaded
<1>1. CASE SkipSection \/ Fill
  <2>1. load.stage \in {"section", "fill"} /\ Advance
        BY <1>1 DEF SkipSection, Fill
  <2>   QED BY <2>1, AdvanceFields DEF Advance, Step, Active
<1>2. CASE EnterSection
  <2>1. /\ load.stage = "section" /\ load \in LoadState
        /\ load' = [load EXCEPT !.stage = "page", !.j = FirstPage(Header),
                                !.heap_address = HeapAddress(@, Header)]
        /\ current_vmem' = current_vmem /\ loaded' = loaded
        BY <1>2, Fields DEF EnterSection, Step, Active
  <2>2. load'.stage = "page" /\ load'.mem = load.mem /\ load'.program = load.program
        BY <2>1 DEF LoadState
  <2>3. LInv'
        BY <1>2, EnterStep
  <2>4. load' # Idle
        BY <2>2 DEF Idle
  <2>   QED BY <2>1, <2>2, <2>3, <2>4 DEF LInv, Active
<1>3. CASE SharePage \/ NewPage
  <2>1. load.stage = "page" /\ NextPage
        BY <1>3 DEF SharePage, NewPage
  <2>   QED BY <2>1, NextPageFields DEF NextPage, Step, Active
<1>4. CASE StackPage
  <2>1. /\ load.stage = "stack" /\ load \in LoadState /\ load.j \in Nat
        /\ load' = [load EXCEPT !.j = @ + 1]
        /\ current_vmem' = current_vmem /\ loaded' = loaded
        BY <1>4, Fields DEF StackPage, Step, Active
  <2>   QED BY <2>1 DEF LoadState, Active
<1>   QED BY <1>1, <1>2, <1>3, <1>4

\* The actions of a call that goes on.
Going == SkipSection \/ EnterSection \/ SharePage \/ NewPage \/ Fill \/ StackPage

\* Such an action touches no address space but the call's own.
LEMMA CallMemory ==
    ASSUME LInv, OwnInv, Going
    PROVE  /\ Kept /\ DOMAIN pages' = DOMAIN pages /\ DOMAIN writable' = DOMAIN writable
           /\ \A u \in DOMAIN pages : u # load.mem =>
                 pages'[u] = pages[u] /\ writable'[u] = writable[u]
<1>1. CASE SkipSection \/ EnterSection \/ Fill
      BY <1>1 DEF SkipSection, EnterSection, Fill, memory, Kept
<1>2. CASE SharePage
  <2>1. load.stage = "page" /\ UNCHANGED memory
        /\ writable' = Attribute(load.mem, load.j, Header.write)
        BY <1>2 DEF SharePage
  <2>2. load.mem \in DOMAIN writable /\ Header.write \in BOOLEAN
        BY <2>1, Fields, CurrentHeader, WriteBoolean DEF OwnInv, Active, Header
  <2>   QED BY <2>1, <2>2, AttributeIs DEF memory, Kept, OwnInv
<1>3. CASE NewPage
  <2>1. load.stage = "page" /\ AllocPage(load.j, Header.write)
        BY <1>3 DEF NewPage
  <2>2. Header.write \in BOOLEAN
        BY <2>1, CurrentHeader, WriteBoolean DEF Header
  <2>   QED BY <2>1, <2>2, AllocPageIs DEF Active
<1>4. CASE StackPage
  <2>1. load.stage = "stack" /\ AllocPage(StackAt(load.j), TRUE)
        BY <1>4 DEF StackPage
  <2>   QED BY <2>1, AllocPageIs DEF Active
<1>   QED BY <1>1, <1>2, <1>3, <1>4 DEF Going

\* Every step keeps the call in its own address space.
LEMMA OwnStep ==
    ASSUME LInv, OwnInv, [Next]_vars
    PROVE  OwnInv'
<1>1. CASE \E v \in Spaces, x \in Programs : Begin(v, x)
  <2>1. PICK v \in Spaces, x \in Programs : Begin(v, x)
        BY <1>1
  <2>2. /\ writable' = WithSpace(writable, v, {}) /\ current_vmem' = v
        /\ load'.mem = v /\ loaded' = loaded
        BY <2>1 DEF Begin, vmem_switchMemory
  <2>3. v \notin DOMAIN pages /\ DOMAIN pages' = DOMAIN pages \cup {v}
        BY <2>1, CloneKept DEF Begin
  <2>4. DOMAIN writable' = DOMAIN writable \cup {v}
        BY <2>2 DEF WithSpace
  <2>   QED BY <2>2, <2>3, <2>4 DEF OwnInv
<1>2. CASE Going
      BY <1>2, CallMemory, CallFields DEF OwnInv, Going
<1>3. CASE Refuse
  <2>1. /\ load.stage = "page" /\ load.mem \in Spaces /\ vmem_freeMemory(load.mem)
        /\ writable' = WithoutSpace(writable, load.mem) /\ loaded' = loaded
        BY <1>3, Fields DEF Refuse, Active
  <2>2. load'.stage = "refused"
        BY <1>3, Fields DEF Refuse, Active, LoadState
  <2>3. DOMAIN pages' = DOMAIN pages \ {load.mem}
        BY <2>1, FreeKept
  <2>4. DOMAIN writable' = DOMAIN writable \ {load.mem}
        BY <2>1 DEF WithoutSpace
  <2>   QED BY <2>1, <2>2, <2>3, <2>4 DEF OwnInv, Active
<1>4. CASE Faults
      BY <1>4, FaultIs DEF OwnInv, Active
<1>5. CASE Finish
  <2>1. /\ load.mem \in DOMAIN pages /\ load'.stage = "idle"
        /\ UNCHANGED <<memory, writable>>
        BY <1>5, Fields DEF Finish, Active, Idle
  <2>2. DOMAIN loaded' = DOMAIN loaded \cup {load.mem}
        BY <1>5 DEF Finish, WithSpace
  <2>   QED BY <2>1, <2>2 DEF OwnInv, Active, memory
<1>6. CASE \E v \in Spaces : Exit(v)
  <2>1. PICK v \in Spaces : Exit(v)
        BY <1>6
  <2>2. DOMAIN pages' = DOMAIN pages \ {v}
        BY <2>1, FreeKept DEF Exit
  <2>3. DOMAIN writable' = DOMAIN writable \ {v} /\ DOMAIN loaded' = DOMAIN loaded \ {v}
        BY <2>1 DEF Exit, WithoutSpace
  <2>   QED BY <2>1, <2>2, <2>3 DEF OwnInv, Exit, Active
<1>7. CASE UNCHANGED vars
      BY <1>7 DEF vars, memory, OwnInv
<1>   QED BY <1>1, <1>2, <1>3, <1>4, <1>5, <1>6, <1>7 DEF Next, Going, Faults

\* A page of the kernel ends the call, so that the loop passes none.
LEMMA SectionStep ==
    ASSUME LInv, OwnInv, SectionInv, [Next]_vars
    PROVE  SectionInv'
<1>1. CASE EnterSection
  <2>1. /\ load.stage = "section" /\ Occupies(Header) /\ load \in LoadState
        /\ load' = [load EXCEPT !.stage = "page", !.j = FirstPage(Header),
                                !.heap_address = HeapAddress(@, Header)]
        BY <1>1, Fields DEF EnterSection, Step, Active
  <2>2. /\ load'.stage = "page" /\ load'.i = load.i /\ load'.program = load.program
        /\ load'.j = FirstPage(Header)
        BY <2>1 DEF LoadState
  <2>3. Header' = Header
        BY <2>2 DEF Header
  <2>4. \A p \in Touched(Header) : FirstPage(Header) <= p /\ p \in Nat
        BY <2>1, CurrentHeader, TouchedPages DEF Header
  <2>5. FirstPage(Header) \in Nat
        BY <2>1, CurrentHeader, TouchedPages DEF Header
  <2>   QED BY <2>1, <2>2, <2>3, <2>4, <2>5 DEF SectionInv
<1>2. CASE SharePage \/ NewPage
  <2>1. /\ load.stage = "page" /\ NextPage /\ load.j \notin Foreign
        BY <1>2 DEF SharePage, NewPage, Foreign
  <2>2. /\ load'.i = load.i /\ load'.program = load.program /\ load'.j = load.j + 1
        /\ load'.stage = IF load.j + 1 < PageLimit(Header) THEN "page" ELSE "fill"
        BY <2>1, NextPageFields
  <2>3. Header' = Header
        BY <2>2 DEF Header
  <2>4. load.j \in Nat
        BY <2>1, Fields DEF Active
  <2>5. Foreign' = Foreign
    <3>1. load'.mem = load.mem
          BY <2>1, NextPageFields
    <3>2. CASE SharePage
          BY <3>1, <3>2 DEF SharePage, memory, Foreign, Mapped, KernelPage
    <3>3. CASE NewPage
      <4>1. AllocPage(load.j, Header.write) /\ Header.write \in BOOLEAN
            BY <2>1, <3>3, CurrentHeader, WriteBoolean DEF NewPage, Header
      <4>2. \/ pages' = pages
            \/ /\ load.j \notin KernelPage
               /\ DOMAIN pages'[load.mem] = Mapped \cup {load.j}
            BY <2>1, <4>1, AllocPageIs DEF Active
      <4>   QED BY <3>1, <4>2 DEF Foreign, Mapped, KernelPage
    <3>   QED BY <1>2, <3>2, <3>3
  <2>6. /\ PageLimit(Header) \in Nat /\ FirstPage(Header) \in Nat
        /\ \A p \in Touched(Header) : p \in Nat
        BY <2>1, CurrentHeader, TouchedPages DEF SectionInv, Header
  <2>7. /\ Occupies(Header) /\ FirstPage(Header) <= load.j /\ load.j < PageLimit(Header)
        /\ \A p \in Touched(Header) : p < load.j => p \notin Foreign
        BY <2>1 DEF SectionInv, LInv
  <2>8. \A p \in Touched(Header) : p < load.j + 1 => p \notin Foreign'
        BY <2>1, <2>4, <2>5, <2>6, <2>7
  <2>9. load'.stage = "fill" => load'.j = PageLimit(Header)
        BY <2>2, <2>4, <2>6, <2>7
  <2>10. FirstPage(Header) <= load'.j /\ load'.stage \in {"page", "fill"}
        BY <2>2, <2>4, <2>6, <2>7
  <2>11. \A p \in Touched(Header) : p < load'.j => p \notin Foreign'
        BY <2>2, <2>8
  <2>   QED BY <2>3, <2>7, <2>9, <2>10, <2>11 DEF SectionInv
<1>3. CASE \/ \E v \in Spaces, x \in Programs : Begin(v, x)
           \/ SkipSection \/ Fill \/ StackPage
           \/ Refuse \/ Faults \/ Finish \/ \E v \in Spaces : Exit(v)
  <2>1. load'.stage \notin {"page", "fill"}
    <3>1. CASE \E v \in Spaces, x \in Programs : Begin(v, x)
          BY <3>1 DEF Begin
    <3>2. CASE SkipSection \/ Fill
          BY <3>2, AdvanceFields DEF SkipSection, Fill
    <3>3. CASE StackPage
          BY <3>3, Fields DEF StackPage, Step, LoadState, Active
    <3>4. CASE Refuse \/ Faults
      <4>1. CASE Refuse
            BY <4>1, Fields DEF Refuse, LoadState, Active
      <4>   QED BY <3>4, <4>1, FaultIs
    <3>5. CASE Finish \/ \E v \in Spaces : Exit(v)
          BY <3>5 DEF Finish, Exit, Idle
    <3>   QED BY <1>3, <3>1, <3>2, <3>3, <3>4, <3>5
  <2>   QED BY <2>1 DEF SectionInv
<1>4. CASE UNCHANGED vars
      BY <1>4 DEF vars, memory, SectionInv, Header, Foreign, Mapped, KernelPage
<1>   QED BY <1>1, <1>2, <1>3, <1>4 DEF Next, Faults

-------------------------------------------------------------------------------
(* The attributes of the pages *)

\* Entering a section, skipping one and leaving one give no page an attribute.
LEMMA DoneKept ==
    ASSUME LInv, SectionInv, SkipSection \/ EnterSection \/ Fill, NEW p \in Nat
    PROVE  DoneOn(p)' = DoneOn(p)
<1>   DEFINE x == load.program
<1>1. x \in Programs /\ load.i \in Nat /\ load.i \in DOMAIN Image[x] /\ load'.program = x
      BY CurrentHeader, CallFields DEF SkipSection, EnterSection, Fill
<1>2. \A i \in On(x, p) :
         /\ i \in Nat /\ i \in DOMAIN Image[x] /\ Occupies(Image[x][i])
         /\ FirstPage(Image[x][i]) <= p /\ p < PageLimit(Image[x][i])
         /\ FirstPage(Image[x][i]) \in Nat /\ PageLimit(Image[x][i]) \in Nat
  <2>   TAKE i \in On(x, p)
  <2>1. i \in DOMAIN Image[x] /\ Occupies(Image[x][i]) /\ p \in Touched(Image[x][i])
        BY DEF On, Occupying
  <2>   QED BY <1>1, <2>1, Headers, TouchedPages
<1>3. CASE SkipSection \/ Fill
  <2>1. load.stage \in {"section", "fill"} /\ Advance
        BY <1>3 DEF SkipSection, Fill
  <2>2. load'.i = load.i + 1 /\ load'.stage \notin {"page", "fill"}
        BY <2>1, AdvanceFields
  <2>3. \A i \in On(x, p) : Done(i, p)' <=> Done(i, p)
    <3>   TAKE i \in On(x, p)
    <3>1. Done(i, p)' <=> i < load.i + 1
          BY <2>2 DEF Done
    <3>2. CASE SkipSection
      <4>1. i # load.i
            BY <1>2, <3>2 DEF SkipSection, Header
      <4>   QED BY <1>1, <1>2, <3>1, <3>2, <4>1 DEF Done, SkipSection
    <3>3. CASE Fill
      <4>1. i = load.i => p < load.j
            BY <1>2, <3>3 DEF Fill, SectionInv, Header
      <4>   QED BY <1>1, <1>2, <3>1, <3>3, <4>1 DEF Done, Fill
    <3>   QED BY <1>3, <3>2, <3>3
  <2>   QED BY <1>1, <2>3 DEF DoneOn
<1>4. CASE EnterSection
  <2>1. /\ load.stage = "section" /\ load \in LoadState
        /\ load' = [load EXCEPT !.stage = "page", !.j = FirstPage(Header),
                                !.heap_address = HeapAddress(@, Header)]
        BY <1>4, Fields DEF EnterSection, Step, Active
  <2>2. load'.i = load.i /\ load'.j = FirstPage(Header) /\ load'.stage = "page"
        BY <2>1 DEF LoadState
  <2>3. \A i \in On(x, p) : Done(i, p)' <=> Done(i, p)
    <3>   TAKE i \in On(x, p)
    <3>1. i = load.i => ~ p < FirstPage(Header)
          BY <1>2 DEF Header
    <3>   QED BY <1>1, <1>2, <2>1, <2>2, <3>1 DEF Done
  <2>   QED BY <1>1, <2>3 DEF DoneOn
<1>   QED BY <1>3, <1>4

\* The loop gives the section's attribute to one page, and goes on.
LEMMA DoneNext ==
    ASSUME LInv, SectionInv, load.stage = "page", NextPage, NEW p \in Nat
    PROVE  DoneOn(p)' = IF p = load.j THEN DoneOn(p) \cup {load.i} ELSE DoneOn(p)
<1>   DEFINE x == load.program
<1>1. /\ x \in Programs /\ load.i \in Nat /\ load.i \in DOMAIN Image[x] /\ load.j \in Nat
      /\ Occupies(Header) /\ FirstPage(Header) <= load.j /\ load.j < PageLimit(Header)
      BY CurrentHeader, Fields DEF SectionInv, Active, LInv
<1>2. load.i \in On(x, load.j)
      BY <1>1, TouchedPages DEF On, Occupying, Header
<1>3. /\ load'.program = x /\ load'.i = load.i /\ load'.j = load.j + 1
      /\ load'.stage \in {"page", "fill"}
      BY NextPageFields
<1>4. \A i \in On(x, p) : Done(i, p)' <=> Done(i, p) \/ (i = load.i /\ p = load.j)
      BY <1>1, <1>3 DEF Done
<1>   QED BY <1>2, <1>3, <1>4 DEF DoneOn

\* A page some section has dealt with is mapped.
LEMMA DoneMapped ==
    ASSUME LInv, FillInv, load.stage \in Active, NEW p \in Nat, p \notin Mapped,
           load.stage = "page" => p = load.j, load.stage # "fill"
    PROVE  DoneOn(p) = {}
<1>   SUFFICES ASSUME NEW i \in DoneOn(p) PROVE FALSE
      OBVIOUS
<1>1. /\ i \in Occupying(load.program) /\ p \in Touched(Image[load.program][i]) /\ Done(i, p)
      BY DEF DoneOn, On
<1>2. PICK b \in Bytes(Image[load.program][i]) : PageOf(b) = p
      BY <1>1 DEF Touched
<1>3. load.j \in Nat
      BY Fields
<1>4. i < load.i
      BY <1>1, <1>3 DEF Done
<1>   QED BY <1>1, <1>2, <1>4 DEF FillInv, Filled, Mapped

\* A step of a call leaves the programs in memory, and their attributes, alone.
LEMMA LinkedOthers ==
    ASSUME LInv, OwnInv, WritableAsLinked, Going
    PROVE  WritableAsLinked'
<1>1. /\ loaded' = loaded /\ DOMAIN loaded \subseteq DOMAIN pages
      /\ load.mem \notin DOMAIN loaded
      BY CallFields DEF Going, OwnInv
<1>2. \A u \in DOMAIN loaded : pages'[u] = pages[u] /\ writable'[u] = writable[u]
      BY <1>1, CallMemory
<1>   QED BY <1>1, <1>2 DEF WritableAsLinked, KernelPage

\* What is left to show for a step of a call.
LEMMA AttributeGoing ==
    ASSUME LInv, OwnInv, AttributeInv, Going,
           writable'[load.mem] \subseteq DOMAIN pages'[load.mem],
           \A p \in DOMAIN pages'[load.mem] \ KernelPage :
              /\ p \in writable'[load.mem] <=> Asked(load.program, DoneOn(p)')
              /\ load'.stage # "stack" => DoneOn(p)' # {}
    PROVE  AttributeInv'
<1>1. load'.mem = load.mem /\ load'.program = load.program
      BY CallFields DEF Going
<1>2. DOMAIN pages' = DOMAIN pages
      BY CallMemory
<1>3. \A v \in DOMAIN pages' : writable'[v] \subseteq DOMAIN pages'[v]
      BY <1>2, CallMemory DEF AttributeInv
<1>4. WritableAsLinked'
      BY LinkedOthers DEF AttributeInv
<1>   QED BY <1>1, <1>3, <1>4 DEF AttributeInv, KernelPage, Asked

\* Pages and the frames behind them are numbers within memory.
LEMMA PagesNat ==
    ASSUME Frames, NEW v \in DOMAIN pages, NEW p \in DOMAIN pages[v]
    PROVE  p \in Nat /\ pages[v][p] \in Page
BY LoaderAssumption DEF Frames, TypeOK, Live, Page

\* Steps between sections leave the attributes as they should be.
LEMMA StillAttribute ==
    ASSUME LInv, Frames, OwnInv, SectionInv, AttributeInv,
           SkipSection \/ EnterSection \/ Fill
    PROVE  AttributeInv'
<1>1. /\ UNCHANGED <<pages, writable>> /\ Going
      /\ load.stage \in Active /\ load.stage # "stack" /\ load.mem \in DOMAIN pages
      BY Fields DEF SkipSection, EnterSection, Fill, memory, Going, Active
<1>2. \A p \in DOMAIN pages[load.mem] \ KernelPage :
         /\ p \in writable[load.mem] <=> Asked(load.program, DoneOn(p))
         /\ DoneOn(p) # {} /\ DoneOn(p)' = DoneOn(p)
  <2>   TAKE p \in DOMAIN pages[load.mem] \ KernelPage
  <2>1. p \in Nat
        BY <1>1, PagesNat
  <2>2. DoneOn(p)' = DoneOn(p)
        BY <2>1, DoneKept
  <2>   QED BY <1>1, <2>2 DEF AttributeInv
<1>3. writable[load.mem] \subseteq DOMAIN pages[load.mem]
      BY <1>1 DEF AttributeInv
<1>4. \A p \in DOMAIN pages'[load.mem] \ KernelPage :
         /\ p \in writable'[load.mem] <=> Asked(load.program, DoneOn(p)')
         /\ load'.stage # "stack" => DoneOn(p)' # {}
      BY <1>1, <1>2, Zenon
<1>   QED BY <1>1, <1>3, <1>4, AttributeGoing, Zenon

\* A page shared with an earlier section becomes writable if either asks for it.
LEMMA ShareAttribute ==
    ASSUME LInv, Frames, OwnInv, SectionInv, AttributeInv, SharePage
    PROVE  AttributeInv'
<1>1. /\ load.stage = "page" /\ NextPage /\ pages' = pages /\ Going
      /\ load.j \in Mapped \ Foreign
      /\ writable' = Attribute(load.mem, load.j, Header.write)
      BY DEF SharePage, Going, memory
<1>2. /\ load.mem \in DOMAIN pages /\ load.mem \in DOMAIN writable
      /\ load.j \in Nat /\ load.stage \in Active
      BY <1>1, Fields DEF OwnInv, Active
<1>3. Header.write \in BOOLEAN
      BY <1>1, CurrentHeader, WriteBoolean DEF Header
<1>4. writable'[load.mem] = IF Header.write THEN writable[load.mem] \cup {load.j}
                            ELSE writable[load.mem]
      BY <1>1, <1>2, <1>3, AttributeIs
<1>5. writable'[load.mem] \subseteq DOMAIN pages'[load.mem]
      BY <1>1, <1>2, <1>4 DEF AttributeInv, Mapped
<1>6. ASSUME NEW p \in DOMAIN pages'[load.mem] \ KernelPage
      PROVE  /\ p \in writable'[load.mem] <=> Asked(load.program, DoneOn(p)')
             /\ load'.stage # "stack" => DoneOn(p)' # {}
  <2>1. p \in Nat /\ p \in DOMAIN pages[load.mem] \ KernelPage
        BY <1>1, <1>2, PagesNat
  <2>2. /\ p \in writable[load.mem] <=> Asked(load.program, DoneOn(p))
        /\ DoneOn(p) # {}
        BY <1>1, <1>2, <2>1 DEF AttributeInv
  <2>3. DoneOn(p)' = IF p = load.j THEN DoneOn(p) \cup {load.i} ELSE DoneOn(p)
        BY <1>1, <2>1, DoneNext
  <2>4. DoneOn(p)' # {}
        BY <2>2, <2>3
  <2>5. CASE p = load.j
    <3>1. Asked(load.program, DoneOn(p) \cup {load.i})
             <=> Asked(load.program, DoneOn(p)) \/ Header.write
          BY <2>2 DEF Asked, Header
    <3>   QED BY <1>4, <2>2, <2>3, <2>4, <2>5, <3>1
  <2>6. CASE p # load.j
        BY <1>4, <2>2, <2>3, <2>4, <2>6
  <2>   QED BY <2>5, <2>6
<1>   QED BY <1>1, <1>5, <1>6, AttributeGoing

\* A new page has the attribute of the first section on it.
LEMMA NewAttribute ==
    ASSUME LInv, Frames, Frames', OwnInv, SectionInv, AttributeInv, FillInv, NewPage
    PROVE  AttributeInv'
<1>1. /\ load.stage = "page" /\ NextPage /\ Going /\ load.j \notin Mapped
      /\ AllocPage(load.j, Header.write)
      BY DEF NewPage, Going
<1>2. /\ load.mem \in DOMAIN pages /\ load.j \in Nat /\ load.stage \in Active
      BY <1>1, Fields DEF Active
<1>3. Header.write \in BOOLEAN
      BY <1>1, CurrentHeader, WriteBoolean DEF Header
<1>4. /\ DOMAIN pages' = DOMAIN pages
      /\ \/ pages' = pages /\ writable' = writable
         \/ /\ DOMAIN pages'[load.mem] = Mapped \cup {load.j}
            /\ writable'[load.mem] = IF Header.write THEN writable[load.mem] \cup {load.j}
                                     ELSE writable[load.mem]
      BY <1>1, <1>2, <1>3, AllocPageIs
<1>5. writable[load.mem] \subseteq Mapped
      BY <1>2 DEF AttributeInv, Mapped
<1>6. writable'[load.mem] \subseteq DOMAIN pages'[load.mem]
      BY <1>4, <1>5 DEF Mapped
<1>7. ASSUME NEW p \in DOMAIN pages'[load.mem] \ KernelPage
      PROVE  /\ p \in writable'[load.mem] <=> Asked(load.program, DoneOn(p)')
             /\ load'.stage # "stack" => DoneOn(p)' # {}
  <2>1. p \in Nat
        BY <1>2, <1>4, LoaderAssumption
        DEF Frames, TypeOK, Live, Page
  <2>2. DoneOn(p)' = IF p = load.j THEN DoneOn(p) \cup {load.i} ELSE DoneOn(p)
        BY <1>1, <2>1, DoneNext
  <2>3. CASE p \in Mapped
    <3>1. /\ p \in writable[load.mem] <=> Asked(load.program, DoneOn(p))
          /\ DoneOn(p) # {}
          BY <1>1, <1>2, <2>3 DEF AttributeInv, Mapped
    <3>   QED BY <1>1, <1>4, <2>2, <2>3, <3>1
  <2>4. CASE p \notin Mapped
    <3>1. /\ p = load.j
          /\ p \in writable'[load.mem] <=> Header.write
          BY <1>4, <1>5, <2>4 DEF Mapped
    <3>2. DoneOn(p) = {}
          BY <1>1, <1>2, <2>1, <2>4, <3>1, DoneMapped
    <3>3. Asked(load.program, {load.i}) <=> Header.write
          BY DEF Asked, Header
    <3>4. DoneOn(p)' = {load.i}
          BY <2>2, <3>1, <3>2
    <3>   QED BY <3>1, <3>3, <3>4
  <2>   QED BY <2>3, <2>4
<1>   QED BY <1>1, <1>6, <1>7, AttributeGoing

\* A stack page is writable, unless a section had its page first.
LEMMA StackAttribute ==
    ASSUME LInv, Frames, Frames', OwnInv, SectionInv, AttributeInv, FillInv, StackPage
    PROVE  AttributeInv'
<1>   DEFINE q == StackAt(load.j)
<1>1. /\ load.stage = "stack" /\ Going /\ AllocPage(q, TRUE)
      /\ load' = [load EXCEPT !.j = @ + 1]
      BY DEF StackPage, Going, Step
<1>2. /\ load.mem \in DOMAIN pages /\ load.j \in Nat /\ load.stage \in Active
      /\ load \in LoadState
      BY <1>1, Fields DEF Active
<1>3. /\ DOMAIN pages' = DOMAIN pages
      /\ \/ pages' = pages /\ writable' = writable
         \/ /\ DOMAIN pages'[load.mem] = Mapped \cup {q}
            /\ writable'[load.mem] = writable[load.mem] \cup {q}
      BY <1>1, <1>2, AllocPageIs
<1>4. writable[load.mem] \subseteq Mapped
      BY <1>2 DEF AttributeInv, Mapped
<1>5. writable'[load.mem] \subseteq DOMAIN pages'[load.mem]
      BY <1>3, <1>4 DEF Mapped
<1>6. load'.stage = "stack" /\ load'.i = load.i /\ load'.program = load.program
      BY <1>1, <1>2 DEF LoadState
<1>7. ASSUME NEW p \in DOMAIN pages'[load.mem] \ KernelPage
      PROVE  p \in writable'[load.mem] <=> Asked(load.program, DoneOn(p)')
  <2>1. p \in Nat
        BY <1>2, <1>3, LoaderAssumption
        DEF Frames, TypeOK, Live, Page
  <2>2. DoneOn(p)' = DoneOn(p)
        BY <1>1, <1>6 DEF DoneOn, Done
  <2>3. CASE p \in Mapped
    <3>1. p \in writable[load.mem] <=> Asked(load.program, DoneOn(p))
          BY <1>2, <2>3 DEF AttributeInv, Mapped
    <3>2. p \in writable'[load.mem] <=> p \in writable[load.mem] \/ (p = q /\ q \notin Mapped)
          BY <1>1, <1>2, <2>3, AllocPageIs
    <3>   QED BY <2>2, <2>3, <3>1, <3>2
  <2>4. CASE p \notin Mapped
    <3>1. p \in writable'[load.mem]
          BY <1>3, <2>4 DEF Mapped
    <3>2. DoneOn(p) = {}
          BY <1>1, <1>2, <2>1, <2>4, DoneMapped
    <3>   QED BY <2>2, <3>1, <3>2 DEF Asked
  <2>   QED BY <2>3, <2>4
<1>   QED BY <1>1, <1>5, <1>6, <1>7, AttributeGoing

\* When the call ends every section has given its pages their attribute.
LEMMA FinishAttribute ==
    ASSUME LInv, HeapInv, OwnInv, AttributeInv, Finish
    PROVE  AttributeInv'
<1>   DEFINE x == load.program
<1>1. /\ load.stage = "stack" /\ load.stage \in Active /\ UNCHANGED <<memory, writable>>
      /\ load'.stage = "idle" /\ x \in Programs /\ load.i \in Nat
      /\ load.mem \in DOMAIN pages
      BY Fields DEF Finish, Active, Idle
<1>2. \A p : DoneOn(p) = On(x, p)
  <2>1. \A k \in Occupying(x) : k < load.i
        BY <1>1, Headers DEF HeapInv, Occupying
  <2>   QED BY <2>1 DEF DoneOn, Done, On
<1>3. /\ DOMAIN loaded' = DOMAIN loaded \cup {load.mem}
      /\ loaded'[load.mem].program = x
      /\ \A v \in DOMAIN loaded : v # load.mem => loaded'[v] = loaded[v]
      BY DEF Finish, WithSpace
<1>4. WritableAsLinked'
  <2>   SUFFICES ASSUME NEW v \in DOMAIN loaded',
                        NEW p \in DOMAIN pages[v] \ KernelPage
                 PROVE  p \in writable[v] <=> Asked(loaded'[v].program, On(loaded'[v].program, p))
        BY <1>1 DEF WritableAsLinked, memory, Asked, On, KernelPage
  <2>1. CASE v = load.mem
        BY <1>1, <1>2, <1>3, <2>1 DEF AttributeInv
  <2>2. CASE v # load.mem
        BY <1>3, <2>2 DEF AttributeInv, WritableAsLinked, Asked, On
  <2>   QED BY <2>1, <2>2
<1>5. \A v \in DOMAIN pages' : writable'[v] \subseteq DOMAIN pages'[v]
      BY <1>1 DEF AttributeInv, memory
<1>   QED BY <1>1, <1>4, <1>5 DEF AttributeInv, Active

\* An address space given back takes no other's attributes along.
LEMMA RemovedAttribute ==
    ASSUME AttributeInv, OwnInv, NEW v \in Spaces, vmem_freeMemory(v),
           writable' = WithoutSpace(writable, v),
           DOMAIN loaded' = DOMAIN loaded \ {v},
           \A u \in DOMAIN loaded' : loaded'[u] = loaded[u],
           load'.stage \notin Active
    PROVE  AttributeInv'
<1>1. DOMAIN pages' = DOMAIN pages \ {v} /\ \A u \in DOMAIN pages' : pages'[u] = pages[u]
      BY FreeKept
<1>2. \A u \in DOMAIN pages' : writable'[u] = writable[u]
      BY <1>1 DEF OwnInv, WithoutSpace
<1>3. \A u \in DOMAIN pages' : writable'[u] \subseteq DOMAIN pages'[u]
      BY <1>1, <1>2 DEF AttributeInv
<1>4. \A u \in DOMAIN loaded' : /\ u \in DOMAIN loaded /\ loaded'[u] = loaded[u]
                                /\ pages'[u] = pages[u] /\ writable'[u] = writable[u]
      BY <1>1, <1>2 DEF OwnInv
<1>5. WritableAsLinked'
      BY <1>4 DEF AttributeInv, WritableAsLinked, KernelPage
<1>   QED BY <1>3, <1>5 DEF AttributeInv

\* Every step keeps the attributes those the sections dealt with ask for.
LEMMA AttributeStep ==
    ASSUME LInv, HeapInv, Frames, Frames', OwnInv, SectionInv, AttributeInv, FillInv,
           [Next]_vars
    PROVE  AttributeInv'
<1>1. CASE \E v \in Spaces, x \in Programs : Begin(v, x)
  <2>1. PICK v \in Spaces, x \in Programs : Begin(v, x)
        BY <1>1
  <2>2. /\ writable' = WithSpace(writable, v, {}) /\ load'.mem = v /\ loaded' = loaded
        BY <2>1 DEF Begin
  <2>3. /\ v \notin DOMAIN pages /\ DOMAIN pages' = DOMAIN pages \cup {v}
        /\ DOMAIN pages'[v] \subseteq KernelPage
        /\ \A u \in DOMAIN pages : pages'[u] = pages[u]
        BY <2>1, CloneKept DEF Begin
  <2>4. /\ writable'[v] = {} /\ \A u \in DOMAIN pages : writable'[u] = writable[u]
        BY <2>2, <2>3 DEF WithSpace, OwnInv
  <2>5. \A u \in DOMAIN pages' : writable'[u] \subseteq DOMAIN pages'[u]
        BY <2>3, <2>4 DEF AttributeInv
  <2>6. \A u \in DOMAIN loaded : pages'[u] = pages[u] /\ writable'[u] = writable[u]
        BY <2>3, <2>4 DEF OwnInv
  <2>7. WritableAsLinked'
        BY <2>2, <2>6 DEF AttributeInv, WritableAsLinked, KernelPage
  <2>8. DOMAIN pages'[load'.mem] \ KernelPage = {}
        BY <2>2, <2>3
  <2>   QED BY <2>5, <2>7, <2>8 DEF AttributeInv, KernelPage
<1>2. CASE SkipSection \/ EnterSection \/ Fill
      BY <1>2, StillAttribute
<1>3. CASE SharePage
      BY <1>3, ShareAttribute
<1>4. CASE NewPage
      BY <1>4, NewAttribute
<1>5. CASE StackPage
      BY <1>5, StackAttribute
<1>6. CASE Finish
      BY <1>6, FinishAttribute
<1>7. CASE Refuse
  <2>1. /\ load.mem \in Spaces /\ vmem_freeMemory(load.mem)
        /\ writable' = WithoutSpace(writable, load.mem)
        /\ loaded' = loaded /\ load.mem \notin DOMAIN loaded /\ load'.stage = "refused"
        BY <1>7, Fields DEF Refuse, OwnInv, Active, LoadState
  <2>   QED BY <2>1, RemovedAttribute DEF Active
<1>8. CASE \E v \in Spaces : Exit(v)
  <2>1. PICK v \in Spaces : Exit(v)
        BY <1>8
  <2>2. /\ DOMAIN loaded' = DOMAIN loaded \ {v} /\ load'.stage = "idle"
        /\ \A u \in DOMAIN loaded' : loaded'[u] = loaded[u]
        BY <2>1 DEF Exit, WithoutSpace
  <2>   QED BY <2>1, <2>2, RemovedAttribute DEF Exit, Active
<1>9. CASE Faults
  <2>1. UNCHANGED <<pages, writable, loaded>> /\ load'.stage = "faulted"
        BY <1>9, FaultIs
  <2>   QED BY <2>1 DEF AttributeInv, WritableAsLinked, Active, KernelPage
<1>10. CASE UNCHANGED vars
      BY <1>10 DEF vars, memory, AttributeInv, WritableAsLinked, DoneOn, Done, On,
         KernelPage
<1>   QED BY <1>1, <1>2, <1>3, <1>4, <1>5, <1>6, <1>7, <1>8, <1>9, <1>10 DEF Next, Faults

-------------------------------------------------------------------------------
(* What the sections' bytes hold *)

\* A byte that holds x goes on doing so while its frame is not written.
LEMMA FilledKept ==
    ASSUME Kept, contents' = contents, NEW v \in DOMAIN pages \cap DOMAIN pages',
           NEW x, NEW n, Filled(v, x, n)
    PROVE  Filled(v, x, n)'
<1>   SUFFICES ASSUME NEW i \in Occupying(x), i < n, NEW b \in Bytes(Image[x][i])
               PROVE  /\ PageOf(b) \in DOMAIN pages'[v] \ KernelPage
                      /\ Uncovered(x, i, n, b) => Holds(v, b, FileByte(x, i, b))'
      BY DEF Filled, KernelPage, Uncovered
<1>1. /\ PageOf(b) \in DOMAIN pages[v] \ KernelPage
      /\ Uncovered(x, i, n, b) => Holds(v, b, FileByte(x, i, b))
      BY DEF Filled
<1>2. /\ pages'[v][PageOf(b)] = pages[v][PageOf(b)] /\ PageOf(b) \in DOMAIN pages'[v]
      /\ pages[v][PageOf(b)] \in cleared => pages[v][PageOf(b)] \in cleared'
      BY <1>1 DEF Kept, UserPagesOf
<1>   QED BY <1>1, <1>2 DEF Holds

\* Two bytes of user pages lie at the same place of the same frame only if they
\* are one byte, or the frame was given out twice.
LEMMA PlacesApart ==
    ASSUME Frames, NEW v \in DOMAIN pages, NEW u \in DOMAIN pages,
           NEW a \in Nat, PageOf(a) \in DOMAIN pages[v] \ KernelPage,
           NEW b \in Nat, PageOf(b) \in DOMAIN pages[u] \ KernelPage,
           pages[v][PageOf(a)] = pages[u][PageOf(b)], a % PageBytes = b % PageBytes
    PROVE  (v = u /\ a = b) \/ pages[v][PageOf(a)] \in cleared
<1>1. \/ v = u /\ PageOf(a) = PageOf(b)
      \/ pages[v][PageOf(a)] \in cleared
      BY DEF Frames, FramesExclusive, Live, UserPagesOf
<1>   QED BY <1>1, SameByte

\* The bytes of the section in hand.
LEMMA HeaderBytes ==
    ASSUME LInv, OwnInv, SectionInv, Fill
    PROVE  /\ load.program \in Programs /\ load.i \in Nat
           /\ load.i \in Occupying(load.program)
           /\ current_vmem = load.mem /\ load.mem \in DOMAIN pages
           /\ \A b \in Bytes(Header) :
                 b \in Nat /\ PageOf(b) \in DOMAIN pages[load.mem] \ KernelPage
<1>1. /\ load.stage = "fill" /\ load.program \in Programs /\ load.i \in Nat
      /\ load.i \in DOMAIN Image[load.program] /\ Occupies(Header)
      /\ current_vmem = load.mem /\ load.mem \in DOMAIN pages
      BY CurrentHeader, Fields DEF Fill, SectionInv, OwnInv, Active
<1>2. \A b \in Bytes(Header) : /\ b \in Nat /\ PageOf(b) \in Touched(Header)
                               /\ PageOf(b) < PageLimit(Header)
      BY <1>1, TouchedPages DEF Header
<1>3. \A b \in Bytes(Header) : PageOf(b) \in DOMAIN pages[load.mem] \ KernelPage
      BY <1>1, <1>2 DEF Fill, SectionInv, Foreign, Mapped
<1>   QED BY <1>1, <1>2, <1>3 DEF Occupying, Header

Place(v, b) == <<pages[v][PageOf(b)], b % PageBytes>>

\* What the copy leaves in a place: the section's byte, or what was there.
LEMMA FillContents ==
    ASSUME LInv, OwnInv, SectionInv, Fill
    PROVE  /\ \A c \in DOMAIN contents :
                 (\A b \in Bytes(Header) : c # Place(load.mem, b)) => contents'[c] = contents[c]
           /\ \A c \in DOMAIN contents, b \in Bytes(Header) : c = Place(load.mem, b) =>
                 \E a \in Bytes(Header) :
                    /\ c = Place(load.mem, a)
                    /\ contents'[c] = FileByte(load.program, load.i, a)
<1>   DEFINE new(c) ==
             IF \E b \in Bytes(Header) : c = Place(current_vmem, b)
             THEN FileByte(load.program, load.i,
                           CHOOSE b \in Bytes(Header) : c = Place(current_vmem, b))
             ELSE IF \E b \in Erased(Header) : PageOf(b) \in DOMAIN pages[current_vmem]
                                               /\ c = Place(current_vmem, b)
                  THEN Zero ELSE contents[c]
<1>1. contents' = [c \in DOMAIN contents |-> new(c)]
      BY DEF Fill, Place
<1>2. current_vmem = load.mem /\ Erased(Header) = Bytes(Header)
      BY HeaderBytes DEF Erased
<1>3. \A c \in DOMAIN contents : contents'[c] = new(c)
      BY <1>1
<1>4. ASSUME NEW c \in DOMAIN contents, \A b \in Bytes(Header) : c # Place(load.mem, b)
      PROVE  contents'[c] = contents[c]
      BY <1>2, <1>3, <1>4
<1>5. ASSUME NEW c \in DOMAIN contents, NEW b \in Bytes(Header), c = Place(load.mem, b)
      PROVE  \E a \in Bytes(Header) :
                /\ c = Place(load.mem, a)
                /\ contents'[c] = FileByte(load.program, load.i, a)
  <2>1. contents'[c] = FileByte(load.program, load.i,
                                CHOOSE a \in Bytes(Header) : c = Place(load.mem, a))
        BY <1>2, <1>3, <1>5
  <2>   QED BY <1>5, <2>1
<1>   QED BY <1>4, <1>5

\* A section's number and its bytes are numbers.
LEMMA SectionByte ==
    ASSUME NEW x \in Programs, NEW i \in Occupying(x), NEW b \in Bytes(Image[x][i])
    PROVE  i \in Nat /\ i <= Len(Image[x]) /\ Len(Image[x]) \in Nat /\ b \in Nat
<1>1. i \in DOMAIN Image[x] /\ Occupies(Image[x][i])
      BY DEF Occupying
<1>2. i \in Nat /\ i \in 1 .. Len(Image[x]) /\ Len(Image[x]) \in Nat
      BY <1>1, Headers
<1>3. b \in Nat
      BY <1>1, TouchedPages
<1>   QED BY <1>2, <1>3

\* The place of a mapped byte is in memory.
LEMMA PlaceIn ==
    ASSUME Frames, FillInv, NEW v \in DOMAIN pages, NEW b \in Nat, PageOf(b) \in DOMAIN pages[v]
    PROVE  Place(v, b) \in DOMAIN contents
<1>1. b % PageBytes \in Offset
      BY LoaderAssumption, Division DEF Offset
<1>   QED BY <1>1, PagesNat DEF FillInv, Place

\* The copy overwrites no byte of another program, nor of this one outside the
\* section, unless its frame was given out twice.
LEMMA ByteKept ==
    ASSUME LInv, Frames, OwnInv, SectionInv, FillInv, Fill,
           NEW v \in DOMAIN pages, NEW y, NEW b \in Nat,
           PageOf(b) \in DOMAIN pages[v] \ KernelPage,
           Holds(v, b, y), v # load.mem \/ b \notin Bytes(Header)
    PROVE  Holds(v, b, y)'
<1>1. UNCHANGED <<pages, cleared>>
      BY DEF Fill, memory
<1>2. CASE pages[v][PageOf(b)] \in cleared
      BY <1>1, <1>2 DEF Holds
<1>3. CASE pages[v][PageOf(b)] \notin cleared
  <2>1. contents[Place(v, b)] = y
        BY <1>3 DEF Holds, Place
  <2>2. \A a \in Bytes(Header) : Place(v, b) # Place(load.mem, a)
    <3>   SUFFICES ASSUME NEW a \in Bytes(Header), Place(v, b) = Place(load.mem, a)
                   PROVE  FALSE
          OBVIOUS
    <3>1. /\ load.mem \in DOMAIN pages /\ a \in Nat
          /\ PageOf(a) \in DOMAIN pages[load.mem] \ KernelPage
          BY HeaderBytes
    <3>2. /\ pages[v][PageOf(b)] = pages[load.mem][PageOf(a)]
          /\ b % PageBytes = a % PageBytes
          BY DEF Place
    <3>3. v = load.mem /\ b = a
          BY <1>3, <3>1, <3>2, PlacesApart
    <3>   QED BY <3>3
  <2>3. Place(v, b) \in DOMAIN contents
        BY PlaceIn
  <2>4. contents'[Place(v, b)] = y
        BY <2>1, <2>2, <2>3, FillContents
  <2>   QED BY <1>1, <2>4 DEF Holds, Place
<1>   QED BY <1>2, <1>3

\* The copy puts the section in place.
LEMMA ByteFilled ==
    ASSUME LInv, Frames, OwnInv, SectionInv, FillInv, Fill, NEW b \in Bytes(Header),
           NEW y, y = FileByte(load.program, load.i, b), NEW v, v = load.mem
    PROVE  Holds(v, b, y)'
<1>1. UNCHANGED <<pages, cleared>>
      BY DEF Fill, memory
<1>2. /\ load.mem \in DOMAIN pages /\ b \in Nat
      /\ PageOf(b) \in DOMAIN pages[load.mem] \ KernelPage
      BY HeaderBytes
<1>3. Place(load.mem, b) \in DOMAIN contents
      BY <1>2, PlaceIn
<1>4. PICK a \in Bytes(Header) :
         /\ Place(load.mem, b) = Place(load.mem, a)
         /\ contents'[Place(load.mem, b)] = FileByte(load.program, load.i, a)
      BY <1>3, FillContents
<1>5. a \in Nat /\ PageOf(a) \in DOMAIN pages[load.mem] \ KernelPage
      BY HeaderBytes
<1>6. a = b \/ pages[load.mem][PageOf(b)] \in cleared
  <2>1. /\ pages[load.mem][PageOf(b)] = pages[load.mem][PageOf(a)]
        /\ b % PageBytes = a % PageBytes
        BY <1>4 DEF Place
  <2>   QED BY <1>2, <1>5, <2>1, PlacesApart
<1>   QED BY <1>1, <1>4, <1>6 DEF Holds, Place

\* The copy keeps in place what was there and adds its section.
LEMMA FillFill ==
    ASSUME LInv, HeapInv, Frames, OwnInv, SectionInv, FillInv, Fill
    PROVE  FillInv'
<1>1. /\ UNCHANGED <<pages, cleared, loaded>> /\ load'.mem = load.mem
      /\ load'.program = load.program /\ load'.i = load.i + 1
      BY CallFields, AdvanceFields DEF Fill, memory
<1>2. DOMAIN contents' = DOMAIN contents
      BY DEF Fill
<1>3. ASSUME NEW v \in DOMAIN loaded
      PROVE  Filled(v, loaded[v].program, Len(Image[loaded[v].program]) + 1)'
  <2>1. PICK x \in Programs : x = loaded[v].program
        BY DEF HeapInv
  <2>2. v \in DOMAIN pages /\ v # load.mem
        BY DEF OwnInv, Fill, Active
  <2>3. Filled(v, x, Len(Image[x]) + 1)
        BY <2>1 DEF FillInv
  <2>4. Filled(v, x, Len(Image[x]) + 1)'
    <3>   SUFFICES ASSUME NEW i \in Occupying(x), i < Len(Image[x]) + 1,
                          NEW b \in Bytes(Image[x][i])
                   PROVE  /\ PageOf(b) \in DOMAIN pages[v] \ KernelPage
                          /\ Uncovered(x, i, Len(Image[x]) + 1, b)
                                => Holds(v, b, FileByte(x, i, b))'
          BY <1>1 DEF Filled, KernelPage, Uncovered
    <3>1. /\ PageOf(b) \in DOMAIN pages[v] \ KernelPage
          /\ Uncovered(x, i, Len(Image[x]) + 1, b) => Holds(v, b, FileByte(x, i, b))
          BY <2>3 DEF Filled
    <3>   QED BY <2>2, <3>1, SectionByte, ByteKept
  <2>   QED BY <1>1, <2>1, <2>4
<1>4. Filled(load.mem, load.program, load.i)'
  <2>1. PICK v \in DOMAIN pages, x \in Programs, n \in Nat :
           v = load.mem /\ x = load.program /\ n = load.i
        BY HeaderBytes
  <2>2. Filled(v, x, n)
        BY <2>1 DEF FillInv, Fill, Active
  <2>3. Filled(v, x, n + 1)'
    <3>   SUFFICES ASSUME NEW i \in Occupying(x), i < n + 1, NEW b \in Bytes(Image[x][i])
                   PROVE  /\ PageOf(b) \in DOMAIN pages[v] \ KernelPage
                          /\ Uncovered(x, i, n + 1, b) => Holds(v, b, FileByte(x, i, b))'
          BY <1>1 DEF Filled, KernelPage, Uncovered
    <3>1. i \in Nat /\ b \in Nat
          BY SectionByte
    <3>2. CASE i = n
          BY <2>1, <3>2, HeaderBytes, ByteFilled DEF Header
    <3>3. CASE i < n
      <4>1. /\ PageOf(b) \in DOMAIN pages[v] \ KernelPage
            /\ Uncovered(x, i, n, b) => Holds(v, b, FileByte(x, i, b))
            BY <2>2, <3>3 DEF Filled
      <4>2. ASSUME Uncovered(x, i, n + 1, b)
            PROVE  Uncovered(x, i, n, b) /\ b \notin Bytes(Header)
        <5>1. n \in Occupying(x)
              BY <2>1, HeaderBytes
        <5>2. b \notin Bytes(Image[x][n])
              BY <4>2, <5>1, <3>3 DEF Uncovered
        <5>3. \A k \in Occupying(x) : k \in Nat
              BY Headers DEF Occupying
        <5>   QED BY <2>1, <4>2, <5>2, <5>3 DEF Uncovered, Header
      <4>   QED BY <3>1, <4>1, <4>2, ByteKept
    <3>   QED BY <3>1, <3>2, <3>3
  <2>   QED BY <1>1, <2>1, <2>3
<1>   QED BY <1>1, <1>2, <1>3, <1>4 DEF FillInv, Page

\* Every step keeps the sections copied so far in place.
LEMMA FillStep ==
    ASSUME LInv, HeapInv, Frames, OwnInv, SectionInv, FillInv, [Next]_vars
    PROVE  FillInv'
\* The programs in memory that a step leaves there stay as they are.
<1>1. ASSUME Kept, contents' = contents, OwnInv', NEW v \in DOMAIN loaded \cap DOMAIN loaded',
             loaded'[v] = loaded[v]
      PROVE  Filled(v, loaded[v].program, Len(Image[loaded[v].program]) + 1)'
  <2>1. v \in DOMAIN pages \cap DOMAIN pages'
        BY <1>1 DEF OwnInv
  <2>2. PICK x, n : x = loaded[v].program /\ n = Len(Image[loaded[v].program]) + 1
        OBVIOUS
  <2>3. Filled(v, x, n)'
        BY <1>1, <2>1, <2>2, FilledKept DEF FillInv
  <2>   QED BY <1>1, <2>2, <2>3
<1>2. CASE \E v \in Spaces, x \in Programs : Begin(v, x)
  <2>1. PICK v \in Spaces, x \in Programs : Begin(v, x)
        BY <1>2
  <2>2. /\ Kept /\ contents' = contents /\ loaded' = loaded
        /\ load'.i = 1 /\ load'.program = x
        BY <2>1, CloneKept DEF Begin
  <2>3. \A i \in Occupying(x) : ~ i < 1
        BY Headers DEF Occupying
  <2>4. Filled(load.mem, load.program, load.i)'
        BY <2>2, <2>3 DEF Filled
  <2>5. \A u \in DOMAIN loaded' :
           Filled(u, loaded[u].program, Len(Image[loaded[u].program]) + 1)'
        BY <1>1, <2>2, OwnStep
  <2>   QED BY <2>2, <2>4, <2>5 DEF FillInv, Page
<1>3. CASE Fill
      BY <1>3, FillFill
<1>4. CASE Going /\ ~ Fill
  <2>1. /\ Kept /\ DOMAIN pages' = DOMAIN pages
        /\ load.stage \in Active /\ load.mem \in DOMAIN pages
        /\ load'.mem = load.mem /\ load'.program = load.program /\ loaded' = loaded
        BY <1>4, CallMemory, CallFields, Fields DEF Going
  <2>2. contents' = contents
        BY <1>4 DEF Going, SkipSection, EnterSection, SharePage, NewPage, StackPage
  <2>3. PICK v, x, n : v = load.mem /\ x = load.program /\ n = load.i
        OBVIOUS
  <2>4. Filled(v, x, n)'
        BY <2>1, <2>2, <2>3, FilledKept DEF FillInv
  <2>5. Filled(load.mem, load.program, load.i)'
    <3>1. CASE load'.i = load.i
          BY <2>1, <2>3, <2>4, <3>1
    <3>2. CASE SkipSection
      <4>1. /\ load.stage = "section" /\ ~ Occupies(Header) /\ load'.i = load.i + 1
            /\ load.i \in Nat /\ load.program \in Programs
            BY <3>2, AdvanceFields, Fields DEF SkipSection, Active
      <4>2. \A i \in Occupying(x) : i \in Nat /\ i # n
            BY <2>3, <4>1, Headers DEF Occupying, Header
      <4>3. \A i \in Occupying(x) : i < n + 1 <=> i < n
            BY <2>3, <4>1, <4>2
      <4>4. Filled(v, x, n + 1)'
            BY <2>4, <4>3 DEF Filled, Uncovered
      <4>   QED BY <2>1, <2>3, <4>1, <4>4
    <3>3. CASE EnterSection
          BY <3>1, <3>3, Fields DEF EnterSection, Step, LoadState, Active
    <3>4. CASE SharePage \/ NewPage
          BY <3>1, <3>4, NextPageFields DEF SharePage, NewPage
    <3>5. CASE StackPage
          BY <3>1, <3>5, Fields DEF StackPage, Step, LoadState, Active
    <3>   QED BY <1>4, <3>2, <3>3, <3>4, <3>5 DEF Going
  <2>6. \A u \in DOMAIN loaded' :
           Filled(u, loaded[u].program, Len(Image[loaded[u].program]) + 1)'
        BY <1>1, <2>1, <2>2, OwnStep
  <2>   QED BY <2>1, <2>2, <2>5, <2>6 DEF FillInv, Page
<1>5. CASE Finish
  <2>1. /\ load.stage = "stack" /\ load.stage \in Active /\ load.mem \in DOMAIN pages
        /\ Kept /\ contents' = contents /\ pages' = pages /\ load'.stage = "idle"
        /\ load.program \in Programs /\ load.i \in Nat
        BY <1>5, Fields DEF Finish, Active, Idle, memory, Kept
  <2>2. /\ DOMAIN loaded' = DOMAIN loaded \cup {load.mem}
        /\ loaded'[load.mem].program = load.program
        /\ \A v \in DOMAIN loaded : v # load.mem => loaded'[v] = loaded[v]
        BY <1>5 DEF Finish, WithSpace
  <2>3. ASSUME NEW v \in DOMAIN loaded'
        PROVE  Filled(v, loaded[v].program, Len(Image[loaded[v].program]) + 1)'
    <3>1. CASE v = load.mem
      <4>1. PICK x \in Programs, n \in Nat : x = load.program /\ n = load.i
            BY <2>1
      <4>2. Filled(v, x, n)
            BY <2>1, <3>1, <4>1 DEF FillInv
      <4>3. \A i \in Occupying(x) : i < n /\ i < Len(Image[x]) + 1
        <5>1. n > Len(Image[x])
              BY <2>1, <4>1 DEF HeapInv
        <5>2. \A i \in Occupying(x) : i \in Nat /\ i <= Len(Image[x]) /\ Len(Image[x]) \in Nat
              BY Headers DEF Occupying
        <5>   QED BY <4>1, <5>1, <5>2
      <4>4. Filled(v, x, Len(Image[x]) + 1)
            BY <4>2, <4>3 DEF Filled, Uncovered
      <4>5. Filled(v, x, Len(Image[x]) + 1)'
            BY <2>1, <3>1, <4>4, FilledKept
      <4>   QED BY <2>2, <3>1, <4>1, <4>5
    <3>2. CASE v # load.mem
          BY <1>1, <2>1, <2>2, <3>2, OwnStep
    <3>   QED BY <3>1, <3>2
  <2>   QED BY <2>1, <2>3 DEF FillInv, Active, Page
<1>6. CASE Refuse \/ Faults
  <2>1. /\ loaded' = loaded /\ contents' = contents
        /\ load'.stage \in {"refused", "faulted"}
    <3>1. CASE Refuse
          BY <3>1, Fields DEF Refuse, Active, LoadState
    <3>   QED BY <1>6, <3>1, FaultIs
  <2>2. Kept
    <3>1. CASE Refuse
          BY <3>1, Fields, FreeKept DEF Refuse, Active
    <3>   QED BY <1>6, <3>1, FaultIs DEF Kept
  <2>   QED BY <1>1, <2>1, <2>2, OwnStep DEF FillInv, Active, Page
<1>7. CASE \E v \in Spaces : Exit(v)
  <2>1. PICK v \in Spaces : Exit(v)
        BY <1>7
  <2>2. /\ Kept /\ contents' = contents /\ load'.stage = "idle"
        /\ DOMAIN loaded' \subseteq DOMAIN loaded
        /\ \A u \in DOMAIN loaded' : loaded'[u] = loaded[u]
        BY <2>1, FreeKept DEF Exit, WithoutSpace
  <2>   QED BY <1>1, <2>2, OwnStep DEF FillInv, Active, Page
<1>8. CASE UNCHANGED vars
      BY <1>8 DEF vars, memory, FillInv, Filled, Uncovered, Holds, Page,
         KernelPage
<1>   QED BY <1>2, <1>3, <1>4, <1>5, <1>6, <1>7, <1>8 DEF Next, Going, Faults

\* The invariant holds at first: nothing is loaded.
LEMMA PlaceInit == Init => PlaceInv
<1>1. Init => OwnInv /\ SectionInv /\ FillInv
      BY DEF Init, Idle, Active, OwnInv, SectionInv, FillInv, MemoryInit
<1>2. Init => AttributeInv
      BY DEF Init, Idle, Active, AttributeInv, WritableAsLinked, MemoryInit
<1>   QED BY <1>1, <1>2 DEF PlaceInv

\* The whole invariant of the loader, on every behaviour.
LEMMA PlacesKept == Spec => [](PlaceInv /\ LInv /\ HeapInv /\ Frames)
<1>1. /\ LInv /\ HeapInv /\ Frames /\ Frames' /\ PlaceInv /\ [Next]_vars
      => PlaceInv'
      BY OwnStep, SectionStep, AttributeStep, FillStep DEF PlaceInv
<1>   QED BY <1>1, PlaceInit, LoaderInvariant, HeapInvariant, FramesKept, PTL DEF Spec

\* The last section that covers a byte, of those that do.
LEMMA LastCovers ==
    ASSUME NEW x \in Programs, NEW i \in Occupying(x), NEW b \in Bytes(Image[x][i])
    PROVE  /\ LastAt(x, b) \in Occupying(x) /\ b \in Bytes(Image[x][LastAt(x, b)])
           /\ \A k \in Occupying(x) : k > LastAt(x, b) => b \notin Bytes(Image[x][k])
<1>   DEFINE n == Len(Image[x])
             C == {k \in Occupying(x) : b \in Bytes(Image[x][k])}
             T == {n - k : k \in C}
<1>1. \A k \in Occupying(x) : k \in Nat /\ k <= n /\ n \in Nat
      BY Headers DEF Occupying
<1>2. T \in SUBSET Nat /\ T # {}
  <2>1. i \in C
        OBVIOUS
  <2>   QED BY <1>1, <2>1
<1>3. PICK m \in T : \A t \in T : m <= t
      BY <1>2, LeastNat
<1>4. PICK last \in C : m = n - last
      OBVIOUS
<1>5. \A k \in C : k <= last
  <2>   TAKE k \in C
  <2>1. n - last <= n - k
        BY <1>3, <1>4
  <2>   QED BY <1>1, <2>1
<1>6. \E k \in Occupying(x) : /\ b \in Bytes(Image[x][k])
                              /\ \A l \in Occupying(x) : l > k => b \notin Bytes(Image[x][l])
      BY <1>1, <1>5
<1>   QED BY <1>6 DEF LastAt

\* A page of a loaded program is writable just when a section on it asks for
\* that, or when it is the stack's alone, in whatever order the sections come
\* (elf32.cpp:123).
THEOREM AttributesAsLinked == Spec => []WritableAsLinked
<1>1. PlaceInv => WritableAsLinked
      BY DEF PlaceInv, AttributeInv
<1>   QED BY <1>1, PlacesKept, PTL

\* Every byte of every section of a loaded program is mapped and holds what the
\* file says, whatever was loaded, shared or deleted since (elf32.cpp:146), but for
\* frames whose bits were cleared by their number and that were given out again.
THEOREM ProgramsStayInPlace == Spec => []ImageInPlace
<1>1. PlaceInv /\ HeapInv => ImageInPlace
  <2>   SUFFICES ASSUME PlaceInv, HeapInv, NEW v \in DOMAIN loaded,
                        NEW i \in Occupying(loaded[v].program),
                        NEW b \in Bytes(Image[loaded[v].program][i])
                 PROVE  /\ PageOf(b) \in DOMAIN pages[v]
                        /\ Holds(v, b, FileByte(loaded[v].program,
                                                LastAt(loaded[v].program, b), b))
        BY DEF ImageInPlace, Holds
  <2>1. PICK x \in Programs : x = loaded[v].program
        BY DEF HeapInv
  <2>2. Filled(v, x, Len(Image[x]) + 1)
        BY <2>1 DEF PlaceInv, FillInv
  <2>3. PICK last \in Occupying(x) :
           /\ last = LastAt(x, b) /\ b \in Bytes(Image[x][last])
           /\ \A k \in Occupying(x) : k > last => b \notin Bytes(Image[x][k])
        BY <2>1, LastCovers
  <2>4. last \in Nat /\ last < Len(Image[x]) + 1
        BY <2>3, SectionByte
  <2>5. \A k \in Occupying(x) : k \in Nat
        BY Headers DEF Occupying
  <2>6. Uncovered(x, last, Len(Image[x]) + 1, b)
        BY <2>3, <2>4, <2>5 DEF Uncovered
  <2>7. PageOf(b) \in DOMAIN pages[v] /\ Holds(v, b, FileByte(x, last, b))
        BY <2>2, <2>3, <2>4, <2>6 DEF Filled
  <2>   QED BY <2>1, <2>3, <2>7
<1>   QED BY <1>1, PlacesKept, PTL
===============================================================================
