----------------------------- MODULE TerminalProofs ----------------------------
(* Proofs about the terminal, for every size of screen and of words, and for any
   sequence of characters: the cursor stays on the screen and where the screen
   shows it, and what reaches the display's memory is what the terminal meant,
   until a scroll takes more rows than there are above the cursor; and what a
   cursor that has left the screen can then do. *)
EXTENDS Terminal, CommonLemmas, TLAPS

-------------------------------------------------------------------------------
(* Numbers *)

Num == 0 .. Word - 1

\* The sizes, and how they compare: a screen is far smaller than a word.
LEMMA Numbers ==
    /\ Width \in Nat \ {0} /\ Height \in Nat \ {0} /\ Size \in Nat \ {0}
    /\ Word \in Nat \ {0} /\ Byte \in Nat \ {0} /\ TabStop \in Nat \ {0}
    /\ Short \in Nat \ {0} /\ CsiSize \in Nat
    /\ Width <= Byte /\ Height <= Byte /\ Width <= Size /\ Height <= Size
    /\ 4 * Size < Word
<1>1. /\ Width \in Nat \ {0} /\ Height \in Nat \ {0} /\ Width <= Byte /\ Height <= Byte
      /\ TabStop \in Nat \ {0} /\ Short \in Nat \ {0} /\ CsiSize \in Nat
      /\ Word \in Nat \ {0} /\ Byte \in Nat \ {0}
      BY TerminalAssumption, WordAssumption
<1>2. Size \in Nat \ {0} /\ Width <= Size /\ Height <= Size
  <2>1. Size \in Nat /\ Size > 0
        BY <1>1, Products DEF Size
  <2>2. Width * 1 <= Width * Height /\ Width * 1 = Width
        BY <1>1, Multiples
  <2>3. Height * 1 <= Height * Width /\ Height * 1 = Height
        /\ Height * Width = Width * Height
        BY <1>1, Multiples
  <2>   QED BY <2>1, <2>2, <2>3 DEF Size
<1>3. 4 * Size < Word
  <2>1. 4 * Width * Height < Word
        BY TerminalAssumption
  <2>2. 4 * Width * Height = 4 * (Width * Height)
        BY <1>1, Z3
  <2>   QED BY <2>1, <2>2 DEF Size
<1>   QED BY <1>1, <1>2, <1>3

\* A word, and numbers that fit in one.
LEMMA Wraps32 ==
    /\ \A n \in Int : Wrap(n) \in Num
    /\ \A n \in Num : Wrap(n) = n
<1>1. Word \in Nat \ {0}
      BY Numbers
<1>2. \A n \in Int : n % Word \in 0 .. Word - 1
      BY <1>1
<1>3. \A n \in 0 .. Word - 1 : n % Word = n
      BY <1>1
<1>   QED BY <1>2, <1>3 DEF Wrap, Num

\* clamp's result lies between its bounds, whatever has overflowed before.
LEMMA Clamped ==
    ASSUME NEW n \in Num, NEW max \in Nat
    PROVE  clamp(n, max) \in 0 .. max
<1>1. Signed(n) \in Int
      BY Numbers DEF Signed, Num
<1>   QED BY <1>1 DEF clamp

-------------------------------------------------------------------------------
(* The numbers of a control sequence *)

Parse == [prm : Seq(Num), num : Num, valid : BOOLEAN]

\* One byte more leaves words: numbers of many digits wrap.
LEMMA TakenTyped ==
    ASSUME NEW text, NEW p \in Parse, NEW k
    PROVE  Taken(text, p, k) \in Parse
<1>1. p.prm \in Seq(Num) /\ p.num \in Num /\ p.valid \in BOOLEAN /\ 0 \in Num
      BY Numbers DEF Parse, Num
<1>2. Append(p.prm, p.num) \in Seq(Num)
      BY <1>1
<1>3. ASSUME text[k] \in Digits
      PROVE  Wrap(10 * p.num + Value(text[k])) \in Num
  <2>1. \E n \in 0 .. 9 : Numerals[n + 1] = text[k]
    <3>1. PICK i \in DOMAIN Numerals : text[k] = Numerals[i]
          BY <1>3 DEF Digits, ToSet
    <3>2. DOMAIN Numerals = 1 .. 10
          BY DEF Numerals
    <3>3. i - 1 \in 0 .. 9 /\ (i - 1) + 1 = i
          BY <3>1, <3>2
    <3>   QED BY <3>1, <3>3
  <2>2. Value(text[k]) \in 0 .. 9
        BY <2>1 DEF Value
  <2>3. 10 * p.num + Value(text[k]) \in Int
        BY <1>1, <2>2 DEF Num
  <2>   QED BY <2>3, Wraps32
<1>   QED BY <1>1, <1>2, <1>3 DEF Taken, Parse

\* So a sequence's numbers are words, whatever its bytes.
LEMMA ParsedTyped ==
    ASSUME NEW text, Len(text) \in Nat
    PROVE  Parsed(text).prm \in Seq(Num)
<1>   DEFINE n == Len(text)
             start == [prm |-> <<>>, num |-> 0, valid |-> TRUE]
             R == [k \in 1 .. n |-> [p \in Parse |-> Taken(text, p, k)]]
             Is(t) == t = [k \in 0 .. n |->
                              IF k = 0 THEN start ELSE Taken(text, t[k - 1], k)]
<1>1. start \in Parse
      BY Numbers DEF Parse, Num
<1>2. R \in [1 .. n -> [Parse -> Parse]]
      BY TakenTyped
<1>3. \E f : Is(f)
  <2>1. PICK f \in [0 .. n -> Parse] :
           f[0] = start /\ \A k \in 1 .. n : f[k] = R[k][f[k - 1]]
    <3>   HIDE DEF R, start
    <3>1. Computes(Parse, n, start, R)
          BY <1>1, <1>2, Recursion
    <3>   QED BY <3>1 DEF Computes
  <2>2. ASSUME NEW k \in 1 .. n
        PROVE  f[k] = Taken(text, f[k - 1], k)
    <3>1. f[k - 1] \in Parse
          OBVIOUS
    <3>   QED BY <2>1, <3>1
  <2>3. f = [k \in 0 .. n |-> f[k]]
        OBVIOUS
  <2>4. \A k \in 0 .. n : k = 0 \/ k \in 1 .. n
        OBVIOUS
  <2>5. \A k \in 0 .. n : f[k] = IF k = 0 THEN start ELSE Taken(text, f[k - 1], k)
        BY <2>1, <2>2, <2>4
  <2>   QED BY <2>3, <2>5, Zenon
<1>4. PICK t : t = Progress(text) /\ Is(t)
  <2>1. Progress(text) = CHOOSE f : Is(f)
        BY DEF Progress
  <2>   QED BY <1>3, <2>1
<1>   DEFINE T == {k \in 0 .. n : t[k] \notin Parse}
<1>5. T = {}
  <2>   SUFFICES ASSUME T # {} PROVE FALSE
        OBVIOUS
  <2>1. PICK m \in T : \A k \in T : m <= k
    <3>1. T \in SUBSET Nat
          OBVIOUS
    <3>   HIDE DEF T
    <3>   QED BY <3>1, LeastNat
  <2>2. m \in 0 .. n /\ t[m] \notin Parse
        BY <2>1
  <2>3. m # 0
        BY <1>1, <1>4, <2>2
  <2>4. m - 1 \in 0 .. n /\ ~ m <= m - 1
        BY <2>2, <2>3
  <2>5. t[m - 1] \in Parse
        BY <2>1, <2>4
  <2>6. t[m] = Taken(text, t[m - 1], m)
        BY <1>4, <2>2, <2>3
  <2>   QED BY <2>2, <2>5, <2>6, TakenTyped
<1>6. t[n] \in Parse
      BY <1>5
<1>7. t[n].prm \in Seq(Num) /\ t[n].num \in Num
      BY <1>6 DEF Parse
<1>8. Append(t[n].prm, t[n].num) \in Seq(Num)
      BY <1>7
<1>   QED BY <1>4, <1>6, <1>7, <1>8 DEF Parsed, Parse

-------------------------------------------------------------------------------
(* Drawing *)

Buffer == [size : {2 * Size}, cursor : Nat]
Places == Nat \X Nat
Step   == [x : Num, y : Num, f : Buffer, d : Places, m : Places, w : BOOLEAN]

\* A seek from the start goes to its place, or nowhere if that is not in the buffer.
LEMMA SeekIs ==
    ASSUME NEW f \in Buffer, NEW place \in Nat
    PROVE  /\ fd_seek(f, place, SEEK_SET) \in Buffer
           /\ f.cursor <= 2 * Size => fd_seek(f, place, SEEK_SET).cursor <= 2 * Size
           /\ place < 2 * Size => fd_seek(f, place, SEEK_SET).cursor = place
<1>1. PICK q \in 0 .. Word - 1 : q = place % Word
      BY Numbers, Division
<1>2. place < 2 * Size => q = place
      BY <1>1, Numbers
<1>3. fd_seek(f, place, SEEK_SET) = IF q >= f.size THEN f ELSE [f EXCEPT !.cursor = q]
  <2>1. Base(f, SEEK_SET) = 0 /\ 0 + place = place
        BY DEF Base, SEEK_SET, SEEK_CUR, SEEK_END
  <2>   QED BY <1>1, <2>1 DEF fd_seek, Refused
<1>4. f.size = 2 * Size /\ f.cursor \in Nat
      BY DEF Buffer
<1>   QED BY <1>1, <1>2, <1>3, <1>4, Numbers DEF Buffer

\* A write of n bytes, as does a read, moves on by n if they fit, and stops at the
\* end if they do not: the sum wraps only for sizes no screen has, or not at all.
LEMMA WriteIs ==
    ASSUME NEW f \in Buffer, f.cursor <= 2 * Size, NEW n \in Num
    PROVE  /\ fd_write(f, n) \in Buffer
           /\ f.cursor + n <= 2 * Size => fd_write(f, n).cursor = f.cursor + n
           /\ n <= 2 * Size \/ f.cursor = 0 => fd_write(f, n).cursor <= 2 * Size
<1>1. PICK c \in Nat : c = f.cursor /\ c <= 2 * Size
      BY DEF Buffer
<1>2. PICK r \in 0 .. Word - 1 : r = (c + n) % Word
      BY <1>1, Numbers DEF Num
<1>3. c + n < Word => r = c + n
  <2>1. ASSUME c + n < Word PROVE c + n \in Num
        BY <1>1, <2>1, Numbers DEF Num
  <2>   QED BY <1>2, <2>1, Wraps32 DEF Wrap
<1>4. f.size = 2 * Size
      BY DEF Buffer
<1>5. PICK amount \in Nat : /\ amount = IF r >= 2 * Size THEN 2 * Size - c ELSE n
                            /\ fd_write(f, n) = [f EXCEPT !.cursor = c + amount]
  <2>1. n \in Nat /\ 2 * Size - c \in Nat
        BY <1>1, Numbers DEF Num
  <2>2. PICK amount \in Nat : amount = IF r >= 2 * Size THEN 2 * Size - c ELSE n
        BY <2>1
  <2>3. Amount(f, n) = amount
        BY <1>1, <1>2, <1>4, <2>2 DEF Amount
  <2>4. fd_write(f, n) = [f EXCEPT !.cursor = f.cursor + Amount(f, n)]
        BY DEF fd_write
  <2>   QED BY <1>1, <2>2, <2>3, <2>4
<1>6. fd_write(f, n) \in Buffer /\ fd_write(f, n).cursor = c + amount
      BY <1>1, <1>5 DEF Buffer
<1>7. c + n <= 2 * Size => amount = n
      BY <1>1, <1>3, <1>5, Numbers DEF Num
<1>8. n <= 2 * Size \/ c = 0 => c + amount <= 2 * Size
      BY <1>1, <1>3, <1>5, Numbers DEF Num
<1>   QED BY <1>1, <1>6, <1>7, <1>8

\* What drawing changes: the descriptor, and the record of what was drawn.
LEMMA DrawnIs ==
    ASSUME NEW s \in Step, s.f.cursor <= 2 * Size, NEW from \in Nat, NEW to \in Nat
    PROVE  /\ Drawn(s, from, to) \in Step
           /\ Drawn(s, from, to).x = s.x /\ Drawn(s, from, to).y = s.y
           /\ Drawn(s, from, to).w = s.w
           /\ Drawn(s, from, to).m = <<2 * from, 2 * to>>
           /\ Drawn(s, from, to).d[2] = Drawn(s, from, to).f.cursor
           /\ Wrap(2 * (to - from)) <= 2 * Size \/ from = 0 =>
                 Drawn(s, from, to).f.cursor <= 2 * Size
           /\ from <= to /\ from < Size /\ to <= Size =>
                 /\ Drawn(s, from, to).f.cursor = 2 * to
                 /\ Drawn(s, from, to).d = <<2 * from, 2 * to>>
<1>   DEFINE t == Drawn(s, from, to)
<1>1. PICK f \in Buffer : /\ f = fd_seek(s.f, 2 * from, SEEK_SET)
                          /\ f.cursor <= 2 * Size
                          /\ from < Size => f.cursor = 2 * from
  <2>1. PICK place \in Nat : place = 2 * from
        OBVIOUS
  <2>2. s.f \in Buffer
        BY DEF Step
  <2>3. fd_seek(s.f, place, SEEK_SET) \in Buffer
        /\ fd_seek(s.f, place, SEEK_SET).cursor <= 2 * Size
        /\ (place < 2 * Size => fd_seek(s.f, place, SEEK_SET).cursor = place)
        BY <2>2, SeekIs
  <2>   QED BY <2>1, <2>3, Numbers
<1>2. PICK n \in Num : n = Wrap(2 * (to - from))
      BY Wraps32
<1>3. PICK g \in Buffer : /\ g = fd_write(f, n)
                          /\ f.cursor + n <= 2 * Size => g.cursor = f.cursor + n
                          /\ n <= 2 * Size \/ f.cursor = 0 => g.cursor <= 2 * Size
      BY <1>1, WriteIs
<1>4. t = [s EXCEPT !.f = g, !.d = <<f.cursor, g.cursor>>, !.m = <<2 * from, 2 * to>>]
      BY <1>1, <1>2, <1>3 DEF Drawn, fd_tell
<1>5. <<f.cursor, g.cursor>> \in Places /\ <<2 * from, 2 * to>> \in Places
      BY DEF Buffer, Places
<1>6. /\ t \in Step /\ t.x = s.x /\ t.y = s.y /\ t.w = s.w /\ t.f = g
      /\ t.m = <<2 * from, 2 * to>> /\ t.d = <<f.cursor, g.cursor>>
      BY <1>4, <1>5 DEF Step
<1>7. from = 0 => f.cursor = 0
      BY <1>1, Numbers
<1>8. from <= to /\ from < Size /\ to <= Size => g.cursor = 2 * to /\ f.cursor = 2 * from
  <2>   SUFFICES ASSUME from <= to, from < Size, to <= Size
                 PROVE  g.cursor = 2 * to /\ f.cursor = 2 * from
        OBVIOUS
  <2>1. 2 * (to - from) \in Num
        BY Numbers DEF Num
  <2>2. n = 2 * (to - from)
        BY <1>2, <2>1, Wraps32
  <2>   QED BY <1>1, <1>3, <2>2, Numbers
<1>   QED BY <1>2, <1>3, <1>6, <1>7, <1>8

\* A scroll draws the whole screen, and moves the cursor by its rows.
LEMMA ScrollIs ==
    ASSUME NEW s \in Step, s.f.cursor <= 2 * Size, NEW lines \in Nat
    PROVE  /\ term_scroll(s, lines) \in Step
           /\ term_scroll(s, lines).x = s.x
           /\ term_scroll(s, lines).y = Wrap(s.y - lines)
           /\ term_scroll(s, lines).w = (s.w \/ lines > s.y)
           /\ term_scroll(s, lines).f.cursor = 2 * Size
           /\ term_scroll(s, lines).d = <<0, 2 * Size>>
           /\ term_scroll(s, lines).m = <<0, 2 * Size>>
<1>1. PICK e \in Buffer : e = fd_seek(s.f, 0, SEEK_SET) /\ e.cursor = 0
      BY SeekIs, Numbers DEF Step
<1>2. 2 * Size \in Num /\ 2 * Size \in Nat
      BY Numbers DEF Num
<1>3. PICK f \in Buffer : f = fd_read(e, 2 * Size) /\ f.cursor <= 2 * Size
  <2>1. fd_read(e, 2 * Size) = fd_write(e, 2 * Size)
        BY DEF fd_read, fd_write
  <2>   QED BY <1>1, <1>2, <2>1, WriteIs
<1>4. PICK r : r = [s EXCEPT !.f = f]
      OBVIOUS
<1>5. r \in Step /\ r.f = f /\ r.x = s.x /\ r.y = s.y /\ r.w = s.w
      BY <1>4 DEF Step
<1>6. PICK t \in Step : /\ t = Drawn(r, 0, Size) /\ t.x = s.x /\ t.y = s.y /\ t.w = s.w
                        /\ t.m = <<0, 2 * Size>> /\ t.d = <<0, 2 * Size>>
                        /\ t.f.cursor = 2 * Size
  <2>1. PICK from \in Nat, to \in Nat :
           from = 0 /\ to = Size /\ from <= to /\ from < Size /\ to <= Size
        BY Numbers
  <2>2. r.f.cursor <= 2 * Size
        BY <1>3, <1>5
  <2>3. /\ Drawn(r, from, to) \in Step
        /\ Drawn(r, from, to).x = r.x /\ Drawn(r, from, to).y = r.y
        /\ Drawn(r, from, to).w = r.w
        /\ Drawn(r, from, to).m = <<2 * from, 2 * to>>
        /\ Drawn(r, from, to).f.cursor = 2 * to
        /\ Drawn(r, from, to).d = <<2 * from, 2 * to>>
        BY <1>5, <2>1, <2>2, DrawnIs
  <2>   QED BY <1>5, <2>1, <2>3
<1>7. term_scroll(s, lines) = [t EXCEPT !.y = Wrap(s.y - lines), !.w = s.w \/ lines > s.y]
      BY <1>1, <1>3, <1>4, <1>6 DEF term_scroll
<1>8. Wrap(s.y - lines) \in Num /\ (s.w \/ lines > s.y) \in BOOLEAN
      BY Wraps32 DEF Step, Num
<1>   QED BY <1>6, <1>7, <1>8 DEF Step

-------------------------------------------------------------------------------
(* The invariant *)

TypeOK ==
    /\ cursor_x \in Num /\ cursor_y \in Num
    /\ fb \in Buffer
    /\ status \in {"ready", "waiting", "overrun"} /\ wrapped \in BOOLEAN
    /\ csi_buf \in Seq(CsiBytes)

\* Between two characters the descriptor is inside the display's memory, and the
\* cursor on the screen and where it is shown.
ReadyInv ==
    status = "ready" =>
       /\ fb.cursor <= 2 * Size
       /\ cursor_x < Width /\ (wrapped \/ cursor_y < Height)
       /\ shown = <<cursor_x, cursor_y % Byte>>

IInv == TypeOK /\ ReadyInv /\ DrawsAsMeant

Exact(d, m) == d = m /\ 0 <= d[1] /\ d[1] <= d[2] /\ d[2] <= 2 * Size

\* What the step has drawn, if it went past the display's memory.
Harm(d, m) == d[2] > 2 * Size => wrapped /\ m[1] > m[2]

\* A step before the cursor is updated: at most one place too far, and what it has
\* drawn is what it meant, or runs past the memory as OverrunByErasure allows.
Sound(s) ==
    /\ s \in Step
    /\ s.w \/ s.y < Height \/ (s.y = Height /\ s.x < Width)
    /\ s.w \/ Exact(s.d, s.m)
    /\ Harm(s.d, s.m)
    /\ s.d[2] <= 2 * Size => s.f.cursor <= 2 * Size

\* What holds of a step's effects.
After ==
    /\ cursor_x' \in Num /\ cursor_y' \in Num /\ fb' \in Buffer
    /\ status' \in {"ready", "waiting", "overrun"} /\ wrapped' \in BOOLEAN
    /\ ReadyInv' /\ DrawsAsMeant' /\ Harm(drawn', meant')

\* The effects of a step that does not come back to the next character.
LEMMA GivenUp ==
    ASSUME NEW s \in Step, s.w \/ Exact(s.d, s.m), Harm(s.d, s.m), Done(s),
           status' \in {"waiting", "overrun"}
    PROVE  After
<1>1. /\ s.x \in Num /\ s.y \in Num /\ s.f \in Buffer /\ s.w \in BOOLEAN
      BY DEF Step
<1>2. /\ cursor_x' = s.x /\ cursor_y' = s.y /\ fb' = s.f /\ wrapped' = s.w
      /\ drawn' = s.d /\ meant' = s.m
      BY DEF Done
<1>3. DrawsAsMeant'
      BY <1>2 DEF DrawsAsMeant, Exact
<1>4. Harm(drawn', meant')
      BY <1>2
<1>5. ReadyInv'
      BY DEF ReadyInv
<1>   QED BY <1>1, <1>2, <1>3, <1>4, <1>5 DEF After

\* The effects of one that does.
LEMMA CursorSet ==
    ASSUME NEW s \in Step, s.w \/ Exact(s.d, s.m), Harm(s.d, s.m), status = "ready",
           s.f.cursor <= 2 * Size, s.x < Width, s.w \/ s.y < Height, term_setCursor(s)
    PROVE  After
<1>1. /\ s.x \in Num /\ s.y \in Num /\ s.f \in Buffer /\ s.w \in BOOLEAN
      BY DEF Step
<1>2. /\ cursor_x' = s.x /\ cursor_y' = s.y /\ fb' = s.f /\ wrapped' = s.w
      /\ drawn' = s.d /\ meant' = s.m /\ shown' = <<s.x % Byte, s.y % Byte>>
      /\ status' = "ready"
      BY DEF term_setCursor, Done, video_set
<1>3. DrawsAsMeant'
      BY <1>2 DEF DrawsAsMeant, Exact
<1>4. Harm(drawn', meant')
      BY <1>2
<1>5. s.x % Byte = s.x
      BY <1>1, Numbers DEF Num
<1>6. ReadyInv'
      BY <1>2, <1>5 DEF ReadyInv
<1>   QED BY <1>1, <1>2, <1>3, <1>4, <1>6 DEF After

\* Updating the cursor brings it back to the screen: to the next row from behind
\* the last column, and up one row from below the last.
LEMMA UpdateStep ==
    ASSUME NEW s, Sound(s), status = "ready", term_updateCursor(s)
    PROVE  After
<1>1. s \in Step /\ s.x \in Num /\ s.y \in Num /\ s.w \in BOOLEAN
      BY DEF Sound, Step
<1>2. PICK t : t = Wrapped(s)
      OBVIOUS
<1>3. /\ t \in Step /\ t.f = s.f /\ t.d = s.d /\ t.m = s.m /\ t.w = s.w
      /\ t.x < Width /\ (t.w \/ t.y <= Height)
  <2>1. CASE s.x >= Width
    <3>1. t = [s EXCEPT !.x = 0, !.y = Wrap(s.y + 1)]
          BY <1>2, <2>1 DEF Wrapped, Wraps
    <3>2. Wrap(s.y + 1) \in Num /\ 0 \in Num
          BY <1>1, Wraps32, Numbers DEF Num
    <3>3. s.y < Height => Wrap(s.y + 1) = s.y + 1
      <4>1. ASSUME s.y < Height PROVE s.y + 1 \in Num
            BY <1>1, <4>1, Numbers DEF Num
      <4>   QED BY <4>1, Wraps32
    <3>4. /\ t \in Step /\ t.f = s.f /\ t.d = s.d /\ t.m = s.m /\ t.w = s.w
          /\ t.x = 0 /\ t.y = Wrap(s.y + 1)
          BY <1>1, <3>1, <3>2 DEF Step
    <3>5. s.w \/ s.y < Height
          BY <1>1, <2>1, Numbers DEF Sound, Num
    <3>   QED BY <1>1, <3>3, <3>4, <3>5, Numbers DEF Num
  <2>2. CASE ~ s.x >= Width
    <3>1. t = s
          BY <1>2, <2>2 DEF Wrapped, Wraps
    <3>   QED BY <1>1, <2>2, <3>1, Numbers DEF Sound, Num
  <2>   QED BY <2>1, <2>2
<1>4. /\ s.w \/ Exact(s.d, s.m)
      /\ t.w \/ Exact(t.d, t.m)
      /\ Harm(s.d, s.m) /\ Harm(t.d, t.m)
      BY <1>3 DEF Sound
<1>5. s.d[2] \in Nat /\ t.x \in Num /\ t.y \in Num
  <2>1. s.d \in Places
        BY <1>1 DEF Step
  <2>   QED BY <1>3, <2>1 DEF Step, Places
<1>6. CASE Overruns(s)
  <2>1. Done(s) /\ status' = "overrun"
        BY <1>6 DEF term_updateCursor, Overrun
  <2>   QED BY <1>1, <1>4, <2>1, GivenUp
<1>7. CASE ~ Overruns(s)
  <2>1. t.f.cursor <= 2 * Size
        BY <1>3, <1>5, <1>7, Numbers DEF Overruns, Sound
  <2>2. CASE t.y >= Height /\ Stuck(t)
    <3>1. Done(t) /\ status' = "waiting"
          BY <2>2 DEF Stuck
    <3>   QED BY <1>3, <1>4, <3>1, GivenUp
  <2>3. CASE t.y >= Height /\ term_setCursor(term_scroll(t, 1))
    <3>1. PICK u : u = term_scroll(t, 1)
          OBVIOUS
    <3>2. /\ u \in Step /\ u.x = t.x /\ u.y = Wrap(t.y - 1)
          /\ u.w = (t.w \/ 1 > t.y) /\ u.f.cursor = 2 * Size
          /\ u.d = <<0, 2 * Size>> /\ u.m = <<0, 2 * Size>>
      <4>1. PICK lines \in Nat : lines = 1
            OBVIOUS
      <4>   QED BY <1>3, <2>1, <3>1, <4>1, ScrollIs
    <3>3. t.y - 1 \in Num /\ ~ 1 > t.y
          BY <1>5, <2>3, Numbers DEF Num
    <3>4. u.w = t.w /\ u.y = t.y - 1
          BY <1>3, <3>2, <3>3, Wraps32 DEF Step
    <3>5. Exact(u.d, u.m) /\ Harm(u.d, u.m)
          BY <3>2, Numbers DEF Exact, Harm
    <3>6. u.x < Width /\ (u.w \/ u.y < Height) /\ u.f.cursor <= 2 * Size
          BY <1>3, <1>5, <3>2, <3>4, Numbers DEF Num
    <3>   QED BY <2>3, <3>1, <3>2, <3>5, <3>6, CursorSet
  <2>4. CASE ~ t.y >= Height /\ term_setCursor(t)
    <3>1. t.y < Height
          BY <1>5, <2>4, Numbers DEF Num
    <3>   QED BY <1>3, <1>4, <2>1, <2>4, <3>1, CursorSet
  <2>   QED BY <1>2, <1>7, <2>2, <2>3, <2>4 DEF term_updateCursor
<1>   QED BY <1>6, <1>7

-------------------------------------------------------------------------------
(* The characters *)

\* Between two characters, the step that changes nothing.
LEMMA HereIs ==
    ASSUME IInv, status = "ready"
    PROVE  /\ Here \in Step /\ Here.x = cursor_x /\ Here.y = cursor_y /\ Here.f = fb
           /\ Here.d = <<0, 0>> /\ Here.m = <<0, 0>> /\ Here.w = wrapped
           /\ Sound(Here)
<1>1. <<0, 0>> \in Places
      BY DEF Places
<1>2. /\ Here \in Step /\ Here.x = cursor_x /\ Here.y = cursor_y /\ Here.f = fb
      /\ Here.d = <<0, 0>> /\ Here.m = <<0, 0>> /\ Here.w = wrapped
      BY <1>1 DEF IInv, TypeOK, Here, Nowhere, Step
<1>3. Exact(<<0, 0>>, <<0, 0>>) /\ Harm(<<0, 0>>, <<0, 0>>)
      BY Numbers DEF Exact, Harm
<1>   QED BY <1>2, <1>3 DEF Sound, IInv, ReadyInv

\* Moving the cursor within these bounds is sound.
LEMMA MoveSound ==
    ASSUME IInv, status = "ready", NEW x \in Num, NEW y \in Num,
           wrapped \/ y < Height \/ (y = Height /\ x < Width)
    PROVE  Sound([Here EXCEPT !.x = x, !.y = y])
<1>1. PICK t : t = [Here EXCEPT !.x = x, !.y = y]
      OBVIOUS
<1>2. /\ t \in Step /\ t.x = x /\ t.y = y /\ t.f = Here.f /\ t.d = Here.d
      /\ t.m = Here.m /\ t.w = wrapped
      BY <1>1, HereIs DEF Step
<1>   QED BY <1>1, <1>2, HereIs DEF Sound

\* A control sequence moves the cursor within the screen.
LEMMA MovedSound ==
    ASSUME IInv, status = "ready", NEW n \in Num,
           NEW cr \in {"A", "B", "C", "D", "E", "F", "G"}
    PROVE  Sound(Moved(cr, n))
<1>1. /\ cursor_x \in Num /\ cursor_y \in Num /\ 0 \in Num
      BY Numbers DEF IInv, TypeOK, Num
<1>2. /\ Wrap(cursor_y - n) \in Num /\ Wrap(cursor_y + n) \in Num
      /\ Wrap(cursor_x - n) \in Num /\ Wrap(cursor_x + n) \in Num /\ Wrap(n - 1) \in Num
      BY <1>1, Wraps32 DEF Num
<1>3. \E a \in Num, b \in Num :
         Moved(cr, n) = [Here EXCEPT !.x = clamp(a, Width - 1), !.y = clamp(b, Height - 1)]
  <2>1. CASE cr = "A"
        BY <1>1, <1>2, <2>1 DEF Moved
  <2>2. CASE cr = "B"
        BY <1>1, <1>2, <2>2 DEF Moved
  <2>3. CASE cr = "C"
        BY <1>1, <1>2, <2>3 DEF Moved
  <2>4. CASE cr = "D"
        BY <1>1, <1>2, <2>4 DEF Moved
  <2>5. CASE cr = "E"
        BY <1>1, <1>2, <2>5 DEF Moved
  <2>6. CASE cr = "F"
        BY <1>1, <1>2, <2>6 DEF Moved
  <2>7. CASE cr = "G"
        BY <1>1, <1>2, <2>7 DEF Moved
  <2>   QED BY <2>1, <2>2, <2>3, <2>4, <2>5, <2>6, <2>7
<1>4. \A a \in Num : /\ clamp(a, Width - 1) \in 0 .. Width - 1
                     /\ clamp(a, Height - 1) \in 0 .. Height - 1
  <2>1. Width - 1 \in Nat /\ Height - 1 \in Nat
        BY Numbers
  <2>   QED BY <2>1, Clamped
<1>5. PICK a \in Num, b \in Num :
         Moved(cr, n) = [Here EXCEPT !.x = clamp(a, Width - 1), !.y = clamp(b, Height - 1)]
      BY <1>3
<1>6. PICK x \in Num, y \in Num :
         x = clamp(a, Width - 1) /\ y = clamp(b, Height - 1) /\ y < Height
      BY <1>4, Numbers DEF Num
<1>7. Moved(cr, n) = [Here EXCEPT !.x = x, !.y = y]
      BY <1>5, <1>6
<1>   QED BY <1>6, <1>7, MoveSound

\* So does a sequence that sets it.
LEMMA PositionSound ==
    ASSUME IInv, status = "ready", NEW n \in Num, NEW m \in Num
    PROVE  Sound(Position(n, m))
<1>1. Wrap(m - 1) \in Num /\ Wrap(n - 1) \in Num
      BY Wraps32 DEF Num
<1>2. Width - 1 \in Nat /\ Height - 1 \in Nat
      BY Numbers
<1>3. PICK x \in Num, y \in Num :
         x = clamp(Wrap(m - 1), Width - 1) /\ y = clamp(Wrap(n - 1), Height - 1) /\ y < Height
  <2>1. /\ clamp(Wrap(m - 1), Width - 1) \in 0 .. Width - 1
        /\ clamp(Wrap(n - 1), Height - 1) \in 0 .. Height - 1
        BY <1>1, <1>2, Clamped
  <2>   QED BY <2>1, Numbers DEF Num
<1>4. Position(n, m) = [Here EXCEPT !.x = x, !.y = y]
      BY <1>3 DEF Position
<1>   QED BY <1>3, <1>4, MoveSound

\* Where the cursor and its row are, as numbers of characters: on the screen, if the
\* cursor is, and otherwise anywhere, the cursor perhaps past the end of a word.
LEMMA Places32 ==
    ASSUME IInv, status = "ready"
    PROVE  /\ Cursor \in Num /\ Row \in Num /\ LineEnd = Row + Width
           /\ Cursor = Row + cursor_x \/ Cursor = Row + cursor_x - Word
           /\ ~ wrapped => Cursor = Row + cursor_x /\ Row + Width <= Size
<1>1. PICK x \in Num, y \in Nat : x = cursor_x /\ y = cursor_y /\ x < Width
                                 /\ (wrapped \/ y < Height)
      BY DEF IInv, TypeOK, ReadyInv, Num
<1>2. PICK a \in Nat : a = y * Width
      BY Numbers, Products
<1>3. PICK r \in Num : r = a % Word /\ r = Row
  <2>1. Row = a % Word
        BY <1>1, <1>2 DEF Row, Wrap
  <2>   QED BY <2>1, Numbers, Division DEF Num
<1>4. Cursor = (a + x) % Word
      BY <1>1, <1>2 DEF Cursor, Wrap
<1>5. (a + x) % Word = IF r + x < Word THEN r + x ELSE r + x - Word
  <2>1. x \in 0 .. Word - 1 /\ Word \in Nat \ {0}
        BY Numbers DEF Num
  <2>   QED BY <1>3, <2>1, SumRemainder
<1>6. Cursor \in Num
      BY <1>4, <1>5, Numbers DEF Num
<1>7. ASSUME ~ wrapped PROVE r + Width <= Size
  <2>1. y + 1 <= Height /\ y + 1 \in Nat
        BY <1>1, <1>7, Numbers
  <2>2. Width * (y + 1) <= Width * Height
        BY <2>1, Numbers, Multiples
  <2>3. Width * (y + 1) = a + Width
        BY <1>2, Numbers
  <2>4. a + Width <= Size
        BY <2>2, <2>3 DEF Size
  <2>5. a \in Num
        BY <2>4, Numbers DEF Num
  <2>6. r = a
        BY <1>3, <2>5, Wraps32 DEF Wrap
  <2>   QED BY <2>4, <2>6
<1>8. ASSUME ~ wrapped PROVE r + x < Word
      BY <1>1, <1>7, <1>8, Numbers DEF Num
<1>   QED BY <1>1, <1>3, <1>4, <1>5, <1>6, <1>7, <1>8 DEF LineEnd

\* What an erasure covers lies on the screen, if the cursor does; if it does not, the
\* erasure still fits in the display's memory unless it ends before it begins.
LEMMA ErasedIs ==
    ASSUME IInv, status = "ready", NEW cr, NEW n, NEW area \in Erased(cr, n)
    PROVE  \E from \in Nat, to \in Nat :
              /\ area = <<from, to>>
              /\ ~ wrapped => from <= to /\ from < Size /\ to <= Size
              /\ from <= to => from = 0 \/ Wrap(2 * (to - from)) <= 2 * Size
<1>1. PICK c \in Nat, r \in Nat, e \in Nat, x \in Nat :
         /\ c = Cursor /\ r = Row /\ e = LineEnd /\ x = cursor_x /\ x < Width
         /\ e = r + Width /\ (c = r + x \/ c = r + x - Word)
         /\ ~ wrapped => c = r + x /\ r + Width <= Size
      BY Places32, Numbers DEF IInv, TypeOK, ReadyInv, Num
<1>2. ASSUME NEW k \in Nat, k <= 2 * Size PROVE Wrap(k) = k
  <2>1. k \in Num
        BY <1>2, Numbers DEF Num
  <2>   QED BY <2>1, Wraps32
<1>3. CASE area = <<c, Size>>
  <2>1. c <= Size => 2 * (Size - c) \in Nat /\ 2 * (Size - c) <= 2 * Size
        BY Numbers
  <2>   QED BY <1>1, <1>2, <1>3, <2>1, Numbers
<1>4. CASE area = <<0, c>>
      BY <1>1, <1>4, Numbers
<1>5. CASE area = <<0, Size>>
      BY <1>5, Numbers
<1>6. CASE area = <<c, e>>
  <2>1. Wrap(2 * (e - c)) <= 2 * Size
    <3>1. PICK k \in Nat : k = 2 * (Width - x) /\ k <= 2 * Size
          BY <1>1, Numbers
    <3>2. CASE c = r + x
      <4>1. 2 * (e - c) = k
            BY <1>1, <3>1, <3>2, Numbers
      <4>   QED BY <1>2, <3>1, <4>1
    <3>3. CASE c = r + x - Word
      <4>1. 2 * (e - c) = 2 * Word + k
            BY <1>1, <3>1, <3>3, Numbers
      <4>2. k \in 0 .. Word - 1
            BY <3>1, Numbers
      <4>3. (2 * Word + k) % Word = k
            BY <4>2, Numbers, WholeTurns
      <4>   QED BY <3>1, <4>1, <4>3 DEF Wrap
    <3>   QED BY <1>1, <3>2, <3>3
  <2>2. ~ wrapped => c <= e /\ c < Size /\ e <= Size
        BY <1>1, Numbers
  <2>   QED BY <1>6, <2>1, <2>2
<1>7. CASE area = <<r, c>>
  <2>1. r <= c => c = r + x
        BY <1>1, Numbers
  <2>2. 2 * x \in Nat /\ 2 * x <= 2 * Size
        BY <1>1, Numbers
  <2>3. r <= c => 2 * (c - r) = 2 * x
        BY <2>1
  <2>4. r <= c => Wrap(2 * (c - r)) <= 2 * Size
        BY <1>2, <2>2, <2>3
  <2>5. ~ wrapped => r <= c /\ r < Size /\ c <= Size
        BY <1>1, Numbers
  <2>   QED BY <1>7, <2>4, <2>5
<1>8. CASE area = <<r, e>>
  <2>1. 2 * (e - r) = 2 * Width /\ 2 * Width \in Nat /\ 2 * Width <= 2 * Size
        BY <1>1, Numbers
  <2>2. Wrap(2 * (e - r)) <= 2 * Size
        BY <1>2, <2>1
  <2>3. ~ wrapped => r <= e /\ r < Size /\ e <= Size
        BY <1>1, Numbers
  <2>   QED BY <1>8, <2>2, <2>3
<1>9. area \in {<<c, Size>>, <<0, c>>, <<0, Size>>, <<c, e>>, <<r, c>>, <<r, e>>}
  <2>1. CASE cr = "J"
    <3>1. CASE n = 0
          BY <1>1, <2>1, <3>1 DEF Erased
    <3>2. CASE n = 1
          BY <1>1, <2>1, <3>2 DEF Erased
    <3>3. CASE n \in {2, 3}
          BY <1>1, <2>1, <3>3 DEF Erased
    <3>4. CASE n \notin {0, 1, 2, 3}
          BY <2>1, <3>4 DEF Erased
    <3>   QED BY <3>1, <3>2, <3>3, <3>4
  <2>2. CASE cr = "K"
    <3>1. CASE n = 0
          BY <1>1, <2>2, <3>1 DEF Erased
    <3>2. CASE n = 1
          BY <1>1, <2>2, <3>2 DEF Erased
    <3>3. CASE n = 2
          BY <1>1, <2>2, <3>3 DEF Erased
    <3>4. CASE n \notin {0, 1, 2}
          BY <2>2, <3>4 DEF Erased
    <3>   QED BY <3>1, <3>2, <3>3, <3>4
  <2>3. CASE cr \notin {"J", "K"}
        BY <2>3 DEF Erased
  <2>   QED BY <2>1, <2>2, <2>3
<1>   QED BY <1>3, <1>4, <1>5, <1>6, <1>7, <1>8, <1>9

\* Drawing there is sound.
LEMMA DrawnSound ==
    ASSUME IInv, status = "ready", NEW from \in Nat, NEW to \in Nat,
           ~ wrapped => from <= to /\ from < Size /\ to <= Size,
           from <= to => from = 0 \/ Wrap(2 * (to - from)) <= 2 * Size
    PROVE  Sound(Drawn(Here, from, to))
<1>1. Here \in Step /\ Here.f.cursor <= 2 * Size
      BY HereIs DEF IInv, ReadyInv
<1>2. PICK t : t = Drawn(Here, from, to)
      OBVIOUS
<1>3. /\ t \in Step /\ t.x = cursor_x /\ t.y = cursor_y /\ t.w = wrapped
      /\ t.m = <<2 * from, 2 * to>> /\ t.d[2] = t.f.cursor
      /\ Wrap(2 * (to - from)) <= 2 * Size \/ from = 0 => t.f.cursor <= 2 * Size
      /\ from <= to /\ from < Size /\ to <= Size => t.d = <<2 * from, 2 * to>>
      BY <1>1, <1>2, HereIs, DrawnIs
<1>4. ~ wrapped => Exact(t.d, t.m)
      BY <1>3, Numbers DEF Exact
<1>5. Harm(t.d, t.m)
  <2>   SUFFICES ASSUME t.d[2] > 2 * Size PROVE wrapped /\ t.m[1] > t.m[2]
        BY DEF Harm
  <2>1. t.f.cursor \in Nat
        BY <1>3 DEF Step, Buffer
  <2>2. ~ from <= to
        BY <1>3, <2>1, Numbers
  <2>   QED BY <1>3, <2>2
<1>   QED BY <1>2, <1>3, <1>4, <1>5, HereIs DEF Sound, IInv, ReadyInv, TypeOK

\* A character is drawn at the cursor, which moves on by one; the others move it.
LEMMA WrittenSound ==
    ASSUME IInv, status = "ready", NEW c
    PROVE  Sound(Written(c))
<1>1. PICK x \in Num, y \in Num : x = cursor_x /\ y = cursor_y /\ x < Width
                                 /\ (wrapped \/ y < Height)
      BY DEF IInv, TypeOK, ReadyInv
<1>2. 0 \in Num /\ x \in Nat /\ y \in Nat
      BY Numbers DEF Num
<1>3. Here.x = x /\ Here.y = y /\ Here \in Step
      BY <1>1, HereIs
<1>4. CASE c = "BEL"
      BY <1>4, HereIs DEF Written
<1>5. CASE c = "BS"
  <2>1. PICK z \in Num : z = IF x > 0 THEN x - 1 ELSE x
        BY <1>2, Numbers DEF Num
  <2>2. Written(c) = [Here EXCEPT !.x = z, !.y = y]
        BY <1>3, <1>5, <2>1 DEF Written, Step
  <2>   QED BY <1>1, <2>2, MoveSound
<1>6. CASE c = "TAB"
  <2>1. x % TabStop \in Nat
        BY <1>2, Numbers, Division
  <2>2. PICK z \in Num : z = Wrap(x + TabStop - (x % TabStop))
    <3>1. x + TabStop - (x % TabStop) \in Int
          BY <1>2, <2>1, Numbers
    <3>   QED BY <3>1, Wraps32
  <2>3. Written(c) = [Here EXCEPT !.x = z, !.y = y]
        BY <1>3, <1>6, <2>2 DEF Written, Step
  <2>   QED BY <1>1, <2>3, MoveSound
<1>7. CASE c = "LF"
  <2>1. PICK z \in Num : z = Wrap(y + 1)
    <3>1. y + 1 \in Int
          BY <1>2
    <3>   QED BY <3>1, Wraps32
  <2>2. ASSUME y < Height PROVE z = y + 1
    <3>1. y + 1 \in Num
          BY <1>2, <2>2, Numbers DEF Num
    <3>   QED BY <2>1, <3>1, Wraps32
  <2>3. wrapped \/ z < Height \/ (z = Height /\ 0 < Width)
        BY <1>1, <1>2, <2>2, Numbers
  <2>4. Written(c) = [Here EXCEPT !.x = 0, !.y = z]
        BY <1>3, <1>7, <2>1 DEF Written
  <2>   QED BY <1>2, <2>3, <2>4, MoveSound
<1>8. CASE c = "CR"
  <2>1. Written(c) = [Here EXCEPT !.x = 0, !.y = y]
        BY <1>3, <1>8 DEF Written, Step
  <2>   QED BY <1>1, <1>2, <2>1, MoveSound
<1>9. CASE c \notin {"BEL", "BS", "TAB", "LF", "CR"}
  <2>1. PICK from \in Nat, to \in Nat : from = Cursor /\ to = from + 1
        BY Places32 DEF Num
  <2>2. ASSUME ~ wrapped PROVE from <= to /\ from < Size /\ to <= Size
    <3>1. PICK r \in Nat : r = Row
          BY Places32 DEF Num
    <3>2. from = r + x /\ r + Width <= Size
          BY <1>1, <2>1, <2>2, <3>1, Places32
    <3>   QED BY <1>1, <1>2, <2>1, <3>2, Numbers
  <2>3. Wrap(2 * (to - from)) <= 2 * Size
    <3>1. 2 * (to - from) = 2 /\ 2 \in Num
          BY <2>1, Numbers DEF Num
    <3>2. Wrap(2) = 2
          BY <3>1, Wraps32
    <3>   QED BY <3>1, <3>2, Numbers
  <2>4. PICK t : t = Drawn(Here, from, to)
        OBVIOUS
  <2>5. Sound(t)
        BY <2>2, <2>3, <2>4, DrawnSound
  <2>6. t.x = x /\ t.y = y /\ t \in Step /\ t.w = wrapped
        BY <1>3, <2>4, HereIs, DrawnIs DEF IInv, ReadyInv
  <2>7. PICK z \in Num : z = Wrap(x + 1)
    <3>1. x + 1 \in Int
          BY <1>2
    <3>   QED BY <3>1, Wraps32
  <2>8. PICK u : u = [t EXCEPT !.x = z]
        OBVIOUS
  <2>9. u = Written(c)
        BY <1>9, <2>1, <2>4, <2>6, <2>7, <2>8 DEF Written
  <2>10. /\ u \in Step /\ u.y = t.y /\ u.f = t.f /\ u.d = t.d /\ u.m = t.m /\ u.w = t.w
         BY <2>6, <2>8 DEF Step
  <2>11. Sound(u)
         BY <1>1, <2>5, <2>6, <2>10 DEF Sound
  <2>   QED BY <2>9, <2>11
<1>   QED BY <1>4, <1>5, <1>6, <1>7, <1>8, <1>9

\* Scrolling by the rows of a sequence, of which 16 bits are looked at.
LEMMA ScrollSound ==
    ASSUME IInv, status = "ready", NEW n \in Num
    PROVE  Sound(term_scroll(Here, n % Short))
<1>1. PICK lines \in Nat : lines = n % Short
      BY Numbers, Division DEF Num
<1>2. PICK t : t = term_scroll(Here, lines)
      OBVIOUS
<1>3. PICK x \in Num, y \in Num : x = cursor_x /\ y = cursor_y /\ x < Width
                                 /\ (wrapped \/ y < Height)
      BY DEF IInv, TypeOK, ReadyInv
<1>4. /\ t \in Step /\ t.x = x /\ t.y = Wrap(y - lines) /\ t.w = (wrapped \/ lines > y)
      /\ t.f.cursor = 2 * Size /\ t.d = <<0, 2 * Size>> /\ t.m = <<0, 2 * Size>>
      BY <1>2, <1>3, HereIs, ScrollIs DEF IInv, ReadyInv
<1>5. ASSUME ~ wrapped, ~ lines > y PROVE t.y < Height
  <2>1. y - lines \in Num
        BY <1>5, Numbers DEF Num
  <2>2. t.y = y - lines
        BY <1>4, <2>1, Wraps32
  <2>   QED BY <1>3, <1>5, <2>2, Numbers DEF Num
<1>6. t.w \/ t.y < Height
      BY <1>4, <1>5
<1>7. Exact(t.d, t.m) /\ Harm(t.d, t.m)
      BY <1>4, Numbers DEF Exact, Harm
<1>   QED BY <1>1, <1>2, <1>4, <1>6, <1>7, Numbers DEF Sound

\* What a sequence that is complete can do.
LEMMA ExecutedIs ==
    ASSUME NEW cr, NEW prm \in Seq(Num), Executed(cr, prm)
    PROVE  \/ /\ cr \in {"A", "B", "C", "D", "E", "F", "G"}
              /\ \E n \in Num : term_updateCursor(Moved(cr, n))
           \/ \E n \in Num, m \in Num : term_updateCursor(Position(n, m))
           \/ \E n \in Num : \E d \in Erased(cr, n) :
                 term_updateCursor(Drawn(Here, d[1], d[2]))
           \/ Stuck(Here)
           \/ \E n \in Num : term_updateCursor(term_scroll(Here, n % Short))
           \/ term_updateCursor(Here)
<1>1. PICK p \in Num, q \in Num : /\ p = IF Len(prm) >= 1 THEN prm[1] ELSE 1
                                 /\ q = IF Len(prm) >= 2 THEN prm[2] ELSE 1
  <2>1. 1 \in Num
        BY Numbers DEF Num
  <2>2. Len(prm) >= 1 => prm[1] \in Num
        OBVIOUS
  <2>3. Len(prm) >= 2 => prm[2] \in Num
        OBVIOUS
  <2>   QED BY <2>1, <2>2, <2>3
<1>2. CASE cr \in {"A", "B", "C", "D", "E", "F", "G"}
      BY <1>1, <1>2 DEF Executed
<1>3. CASE cr = "H"
      BY <1>1, <1>3 DEF Executed
<1>4. CASE cr \in {"J", "K"}
      BY <1>1, <1>4 DEF Executed
<1>5. CASE cr = "S"
      BY <1>1, <1>5 DEF Executed
<1>6. CASE cr \notin {"A", "B", "C", "D", "E", "F", "G", "H", "J", "K", "S"}
      BY <1>6 DEF Executed
<1>   QED BY <1>2, <1>3, <1>4, <1>5, <1>6

\* A byte that ends a control sequence.
LEMMA FinalStep ==
    ASSUME IInv, NEW c, Final(c)
    PROVE  IInv' /\ Harm(drawn', meant')
<1>1. status = "ready" /\ csi_buf \in Seq(CsiBytes) /\ csi_buf' = <<>>
      BY DEF Final, IInv, TypeOK
<1>2. PICK text : text = Body(csi_buf) /\ Len(text) \in Nat
  <2>1. Len(csi_buf) \in Nat /\ (csi_buf # <<>> => Len(Tail(csi_buf)) \in Nat)
        BY <1>1
  <2>   QED BY <2>1 DEF Body
<1>3. Parsed(text).prm \in Seq(Num)
      BY <1>2, ParsedTyped
<1>4. Here \in Step /\ Sound(Here)
      BY <1>1, HereIs
<1>5. After
  <2>1. \/ Overrun(Here)
        \/ Executed(c, Parsed(text).prm)
        \/ term_updateCursor(Here)
        BY <1>2 DEF Final, term_parseCSI
  <2>2. CASE Overrun(Here)
    <3>1. Done(Here) /\ status' = "overrun"
          BY <2>2 DEF Overrun
    <3>   QED BY <1>4, <3>1, GivenUp DEF Sound
  <2>3. CASE term_updateCursor(Here)
        BY <1>1, <1>4, <2>3, UpdateStep
  <2>4. CASE Executed(c, Parsed(text).prm)
    <3>1. PICK prm \in Seq(Num) : Executed(c, prm)
          BY <1>3, <2>4
    <3>2. CASE /\ c \in {"A", "B", "C", "D", "E", "F", "G"}
               /\ \E n \in Num : term_updateCursor(Moved(c, n))
          BY <1>1, <3>2, MovedSound, UpdateStep
    <3>3. CASE \E n \in Num, m \in Num : term_updateCursor(Position(n, m))
          BY <1>1, <3>3, PositionSound, UpdateStep
    <3>4. CASE \E n \in Num : \E d \in Erased(c, n) :
                  term_updateCursor(Drawn(Here, d[1], d[2]))
      <4>1. PICK n \in Num : \E d \in Erased(c, n) :
               term_updateCursor(Drawn(Here, d[1], d[2]))
            BY <3>4
      <4>2. PICK d \in Erased(c, n) : term_updateCursor(Drawn(Here, d[1], d[2]))
            BY <4>1
      <4>3. PICK from \in Nat, to \in Nat :
               /\ d = <<from, to>>
               /\ ~ wrapped => from <= to /\ from < Size /\ to <= Size
               /\ from <= to => from = 0 \/ Wrap(2 * (to - from)) <= 2 * Size
            BY <1>1, ErasedIs
      <4>4. Sound(Drawn(Here, from, to))
            BY <1>1, <4>3, DrawnSound
      <4>5. term_updateCursor(Drawn(Here, from, to))
            BY <4>2, <4>3
      <4>   QED BY <1>1, <4>4, <4>5, UpdateStep
    <3>5. CASE Stuck(Here)
      <4>1. Done(Here) /\ status' = "waiting"
            BY <3>5 DEF Stuck
      <4>   QED BY <1>4, <4>1, GivenUp DEF Sound
    <3>6. CASE \E n \in Num : term_updateCursor(term_scroll(Here, n % Short))
          BY <1>1, <3>6, ScrollSound, UpdateStep
    <3>7. CASE term_updateCursor(Here)
          BY <1>1, <1>4, <3>7, UpdateStep
    <3>   QED BY <3>1, <3>2, <3>3, <3>4, <3>5, <3>6, <3>7, ExecutedIs
  <2>   QED BY <2>1, <2>2, <2>3, <2>4
<1>6. csi_buf' \in Seq(CsiBytes)
      BY <1>1
<1>   QED BY <1>5, <1>6 DEF After, IInv, TypeOK

\* Every step keeps the invariant, and overruns the display's memory only from a
\* cursor that has left the screen, in an erasure that ends before it begins.
LEMMA StepInv ==
    ASSUME IInv, Next
    PROVE  IInv' /\ Harm(drawn', meant')
<1>1. ASSUME NEW c \in Chars, Escape(c) \/ Collect(c) \/ Overlong(c)
      PROVE  IInv' /\ Harm(drawn', meant')
  <2>1. /\ status = "ready" /\ Done(Here) /\ UNCHANGED <<shown, status>>
        BY <1>1 DEF Escape, Collect, Overlong
  <2>2. /\ cursor_x' = cursor_x /\ cursor_y' = cursor_y /\ fb' = fb
        /\ wrapped' = wrapped /\ drawn' = <<0, 0>> /\ meant' = <<0, 0>>
        BY <2>1 DEF Done, Here, Nowhere
  <2>3. csi_buf' \in Seq(CsiBytes)
    <3>1. csi_buf \in Seq(CsiBytes)
          BY DEF IInv, TypeOK
    <3>2. CASE Escape(c)
      <4>1. csi_buf' = <<>> \/ csi_buf' = csi_buf
            BY <3>2 DEF Escape
      <4>2. CASE csi_buf' = <<>>
            BY <4>2
      <4>3. CASE csi_buf' = csi_buf
            BY <3>1, <4>3
      <4>   QED BY <4>1, <4>2, <4>3
    <3>3. CASE Collect(c)
          BY <3>1, <3>3 DEF Collect
    <3>4. CASE Overlong(c)
          BY <3>4 DEF Overlong
    <3>   QED BY <1>1, <3>2, <3>3, <3>4
  <2>4. DrawsAsMeant' /\ Harm(drawn', meant')
        BY <2>2, Numbers DEF DrawsAsMeant, Harm
  <2>   QED BY <2>1, <2>2, <2>3, <2>4 DEF IInv, TypeOK, ReadyInv
<1>2. ASSUME NEW c \in Chars, Final(c)
      PROVE  IInv' /\ Harm(drawn', meant')
      BY <1>2, FinalStep
<1>3. ASSUME NEW c \in Chars, Control(c) \/ Plain(c)
      PROVE  IInv' /\ Harm(drawn', meant')
  <2>1. status = "ready" /\ csi_buf' = csi_buf
        BY <1>3 DEF Control, Plain
  <2>2. PICK s : Sound(s) /\ term_updateCursor(s)
        BY <1>3, <2>1, HereIs, WrittenSound DEF Control, Plain
  <2>3. After
        BY <2>1, <2>2, UpdateStep
  <2>   QED BY <2>1, <2>3 DEF After, IInv, TypeOK
<1>   QED BY <1>1, <1>2, <1>3 DEF Next

\* At the start the screen is empty and the cursor in its corner.
LEMMA InitInv == Init => IInv
<1>   SUFFICES ASSUME Init PROVE IInv
      OBVIOUS
<1>1. fb \in Buffer /\ fb.cursor = 0
      BY Numbers DEF Init, fd_createBuffer, Buffer
<1>2. 0 \in Num /\ 0 % Byte = 0
      BY Numbers DEF Num
<1>3. TypeOK
  <2>1. csi_buf \in Seq(CsiBytes)
        BY DEF Init
  <2>2. cursor_x \in Num /\ cursor_y \in Num
        BY <1>2 DEF Init
  <2>3. status \in {"ready", "waiting", "overrun"} /\ wrapped \in BOOLEAN
        BY DEF Init
  <2>   QED BY <1>1, <2>1, <2>2, <2>3 DEF TypeOK
<1>4. ReadyInv
      BY <1>1, <1>2, Numbers DEF Init, ReadyInv
<1>5. DrawsAsMeant
      BY Numbers DEF Init, DrawsAsMeant, Nowhere
<1>   QED BY <1>3, <1>4, <1>5 DEF IInv

\* Whatever is written, the invariant holds after every character.
THEOREM TerminalInvariant == Spec => []IInv
<1>1. IInv /\ [Next]_vars => IInv'
  <2>   SUFFICES ASSUME IInv, [Next]_vars PROVE IInv'
        OBVIOUS
  <2>1. CASE Next
        BY <2>1, StepInv
  <2>2. CASE UNCHANGED vars
        BY <2>2 DEF vars, IInv, TypeOK, ReadyInv, DrawsAsMeant
  <2>   QED BY <2>1, <2>2
<1>   QED BY <1>1, InitInv, PTL DEF Spec

\* Between two characters the cursor is on the screen and where the screen shows it,
\* however numbers overflow, unless a scroll has taken more rows than there were
\* above it (terminal.c:121 and 286, term_parseCSI and term_updateCursor).
THEOREM CursorStaysOnScreen == Spec => []CursorOnScreen
<1>1. IInv => CursorOnScreen
      BY DEF IInv, ReadyInv, CursorOnScreen
<1>   QED BY <1>1, TerminalInvariant, PTL

\* What reaches the display's memory is what the terminal meant, with the same
\* exception: the descriptor refuses no seek and cuts no write short (terminal.c:178
\* and 251, fd.c).
THEOREM DisplayDrawnAsMeant == Spec => []DrawsAsMeant
<1>1. IInv => DrawsAsMeant
      BY DEF IInv
<1>   QED BY <1>1, TerminalInvariant, PTL

\* And what a cursor that has left the screen can do: a write past the display's
\* memory is an erasure that ends before it begins (terminal.c:179, fd.c:106).
THEOREM OverrunsByErasure == Spec => OverrunByErasure
<1>1. IInv /\ [Next]_vars =>
         [drawn'[2] > 2 * Size => wrapped /\ meant'[1] > meant'[2]]_vars
  <2>   SUFFICES ASSUME IInv, Next, drawn'[2] > 2 * Size
                 PROVE  wrapped /\ meant'[1] > meant'[2]
        OBVIOUS
  <2>   QED BY StepInv DEF Harm
<1>   QED BY <1>1, TerminalInvariant, PTL DEF Spec, OverrunByErasure
===============================================================================
