-------------------------------- MODULE Terminal -------------------------------
(* The terminal program, src/apps/terminal: the cursor, the escape sequence
   machine and the places of the screen it draws, one action per character that
   a child writes.  It draws through a descriptor of the display's memory
   (Framebuffer) and moves the hardware's cursor with video_set.  The screen's
   contents and colours are left out. *)
EXTENDS Framebuffer, SequencesExt

CONSTANTS
    Width, Height,  \* of the screen, in characters
    TabStop,        \* 8
    CsiSize,        \* sizeof(csi_buf): 32
    Short,          \* 2^16, what term_scroll takes
    Byte,           \* 2^8, what the screen driver keeps of a cursor
    Chars           \* the characters that children write

ASSUME TerminalAssumption ==
    /\ Width \in Nat \ {0} /\ Height \in Nat \ {0} /\ TabStop \in Nat \ {0}
    /\ CsiSize \in Nat \ {0}
    /\ Short \in Nat \ {0} /\ Word % Short = 0
    /\ Byte \in Nat /\ Width <= Byte /\ Height <= Byte
    /\ 4 * Width * Height < Word

VARIABLES
    cursor_x, cursor_y,  \* unsigned words
    escape_state,        \* "NONE", "ESCAPE", "C1"
    csi_buf,             \* the bytes collected since the last '['
    fb,                  \* the descriptor of the display's memory
    shown,               \* the cursor the screen driver was last told
    drawn,               \* the bytes <<from, to>> of the display written last in
                         \* this step
    meant,               \* the bytes the terminal meant by it (history)
    status,              \* "ready", "waiting" (in a malloc that does not come
                         \* back) or "overrun" (a write past csi_prm, or past
                         \* the display's memory)
    wrapped              \* a scroll has taken more rows than the cursor had (history)

vars == <<cursor_x, cursor_y, escape_state, csi_buf, fb, shown, drawn, meant, status,
          wrapped>>

Numerals == <<"0", "1", "2", "3", "4", "5", "6", "7", "8", "9">>
Value(c) == CHOOSE n \in 0 .. 9 : Numerals[n + 1] = c
Digits   == ToSet(Numerals)
CsiBytes == Digits \cup {";", "?", "csi"}  \* "csi": any other byte of the set
Size     == Width * Height
Nowhere  == <<0, 0>>

Wrap(n)   == n % Word
Signed(n) == IF 2 * n >= Word THEN n - Word ELSE n

clamp(n, max) ==
    IF Signed(n) < 0 THEN 0 ELSE IF Signed(n) > max THEN max ELSE Signed(n)

-------------------------------------------------------------------------------
(* Drawing and the cursor.  A step is described by the cursor it works on, the
   framebuffer f, what it draws last, d, what it means to, m, and whether it has
   scrolled the cursor past row 0, w. *)

Here == [x |-> cursor_x, y |-> cursor_y, f |-> fb, d |-> Nowhere, m |-> Nowhere,
         w |-> wrapped]

\* A seek and a write of the characters from .. to - 1, two bytes each.
Drawn(s, from, to) ==
    LET f == fd_seek(s.f, 2 * from, SEEK_SET)
        g == fd_write(f, Wrap(2 * (to - from)))
    IN  [s EXCEPT !.f = g, !.d = <<fd_tell(f), fd_tell(g)>>, !.m = <<2 * from, 2 * to>>]

\* The test for a row below 0 is on an unsigned number: the row wraps instead.
term_scroll(s, lines) ==
    LET f == fd_read(fd_seek(s.f, 0, SEEK_SET), 2 * Size)
    IN  [Drawn([s EXCEPT !.f = f], 0, Size) EXCEPT
           !.y = Wrap(s.y - lines), !.w = s.w \/ lines > s.y]

\* The step's effects, up to the last call that can fail.
Done(s) ==
    /\ cursor_x' = s.x /\ cursor_y' = s.y
    /\ fb' = s.f /\ drawn' = s.d /\ meant' = s.m /\ wrapped' = s.w

\* The two calls of video_set: the screen driver keeps a byte of each.
video_set(x, y) == <<x % Byte, y % Byte>>

term_setCursor(s) ==
    /\ Done(s)
    /\ shown' = video_set(s.x, s.y)
    /\ UNCHANGED status

\* A write that runs on past the display's memory destroys what comes after it.
Overruns(s) == s.d[2] > 2 * Size

Overrun(s) ==
    /\ Done(s)
    /\ status' = "overrun"
    /\ UNCHANGED shown

\* malloc is the kernel's (Task::malloc): it may never come back.
Stuck(s) ==
    /\ Done(s)
    /\ status' = "waiting"
    /\ UNCHANGED shown

\* Variant of Wraps: a cursor behind the last column stays there.
WrapsLate(s) == s.x > Width

Wraps(s) == s.x >= Width

Wrapped(s) ==
    IF Wraps(s) THEN [s EXCEPT !.x = 0, !.y = Wrap(s.y + 1)] ELSE s

term_updateCursor(s) ==
    LET t == Wrapped(s)
    IN  IF Overruns(s) THEN Overrun(s)
        ELSE IF t.y >= Height THEN term_setCursor(term_scroll(t, 1)) \/ Stuck(t)
        ELSE term_setCursor(t)

-------------------------------------------------------------------------------
(* Control sequences *)

\* The byte at place k: a digit goes into the number, a ';' ends it, but one at
\* the very start is skipped.  "valid" ends with a byte that is neither; the
\* numbers collected so far stay.
Taken(text, p, k) ==
    IF ~p.valid THEN p
    ELSE IF text[k] \in Digits THEN [p EXCEPT !.num = Wrap(10 * @ + Value(text[k]))]
    ELSE IF text[k] # ";" THEN [p EXCEPT !.valid = FALSE]
    ELSE IF k = 1 THEN p
    ELSE [p EXCEPT !.prm = Append(@, p.num), !.num = 0]

\* What has been read after each of the bytes.
Progress(text) ==
    LET after[k \in 0 .. Len(text)] ==
            IF k = 0 THEN [prm |-> <<>>, num |-> 0, valid |-> TRUE]
            ELSE Taken(text, after[k - 1], k)
    IN  after

\* The numbers of a sequence.
Parsed(text) ==
    LET p == Progress(text)[Len(text)]
    IN  IF p.valid /\ text # <<>> THEN [p EXCEPT !.prm = Append(@, p.num)] ELSE p

Body(text) == IF text # <<>> /\ text[1] = "?" THEN Tail(text) ELSE text

Moved(cr, n) ==
    LET c == CASE cr = "A" -> <<cursor_x, Wrap(cursor_y - n)>>
               [] cr = "B" -> <<cursor_x, Wrap(cursor_y + n)>>
               [] cr = "C" -> <<Wrap(cursor_x + n), cursor_y>>
               [] cr = "D" -> <<Wrap(cursor_x - n), cursor_y>>
               [] cr = "E" -> <<0, Wrap(cursor_y + n)>>
               [] cr = "F" -> <<0, Wrap(cursor_y - n)>>
               [] cr = "G" -> <<Wrap(n - 1), cursor_y>>
    IN  [Here EXCEPT !.x = clamp(c[1], Width - 1), !.y = clamp(c[2], Height - 1)]

Position(n, m) ==
    [Here EXCEPT !.x = clamp(Wrap(m - 1), Width - 1), !.y = clamp(Wrap(n - 1), Height - 1)]

Cursor == Wrap(cursor_y * Width + cursor_x)
Row    == Wrap(cursor_y * Width)

LineEnd == Row + Width

\* What J and K erase, none for another number.
Erased(cr, n) ==
    CASE cr = "J" /\ n = 0        -> {<<Cursor, Size>>}
      [] cr = "J" /\ n = 1        -> {<<0, Cursor>>}
      [] cr = "J" /\ n \in {2, 3} -> {<<0, Size>>}
      [] cr = "K" /\ n = 0        -> {<<Cursor, LineEnd>>}
      [] cr = "K" /\ n = 1        -> {<<Row, Cursor>>}
      [] cr = "K" /\ n = 2        -> {<<Row, LineEnd>>}
      [] OTHER                    -> {}

Executed(cr, prm) ==
    LET prm1 == IF Len(prm) >= 1 THEN prm[1] ELSE 1
        prm2 == IF Len(prm) >= 2 THEN prm[2] ELSE 1
        area == IF prm = <<>> THEN {} ELSE Erased(cr, prm1)
    IN  CASE cr \in {"A", "B", "C", "D", "E", "F", "G"} ->
               term_updateCursor(Moved(cr, prm1))
          [] cr = "H" -> term_updateCursor(Position(prm1, prm2))
          [] cr \in {"J", "K"} /\ area # {} ->
               \/ \E d \in area : term_updateCursor(Drawn(Here, d[1], d[2]))
               \/ Stuck(Here)
          [] cr = "S" -> \/ term_updateCursor(term_scroll(Here, prm1 % Short))
                         \/ Stuck(Here)
          [] OTHER -> term_updateCursor(Here)

term_parseCSI(cr) ==
    LET p == Parsed(Body(csi_buf))
    IN  IF Len(p.prm) > 2
        THEN Overrun(Here)
        ELSE IF p.valid THEN Executed(cr, p.prm) ELSE term_updateCursor(Here)

-------------------------------------------------------------------------------

Init ==
    /\ cursor_x = 0 /\ cursor_y = 0 /\ shown = <<0, 0>>
    /\ escape_state = "NONE" /\ csi_buf = <<>>
    /\ fb = fd_createBuffer(2 * Size)
    /\ drawn = Nowhere /\ meant = Nowhere /\ status = "ready" /\ wrapped = FALSE

\* After ESC: whatever is not '[' is swallowed, and the state stays.
Escape(c) ==
    /\ status = "ready" /\ escape_state = "ESCAPE"
    /\ IF c = "[" THEN escape_state' = "C1" /\ csi_buf' = <<>>
       ELSE UNCHANGED <<escape_state, csi_buf>>
    /\ Done(Here) /\ UNCHANGED <<shown, status>>

Collect(c) ==
    /\ status = "ready" /\ escape_state = "C1"
    /\ Len(csi_buf) < CsiSize /\ c \in CsiBytes
    /\ csi_buf' = Append(csi_buf, c)
    /\ Done(Here) /\ UNCHANGED <<escape_state, shown, status>>

\* The byte that finds the buffer full is dropped with the sequence.
Overlong(c) ==
    /\ status = "ready" /\ escape_state = "C1" /\ Len(csi_buf) = CsiSize
    /\ escape_state' = "NONE" /\ csi_buf' = <<>>
    /\ Done(Here) /\ UNCHANGED <<shown, status>>

Final(c) ==
    /\ status = "ready" /\ escape_state = "C1"
    /\ Len(csi_buf) < CsiSize /\ c \notin CsiBytes
    /\ term_parseCSI(c)
    /\ escape_state' = "NONE" /\ csi_buf' = <<>>

Control(c) ==
    /\ status = "ready" /\ escape_state = "NONE" /\ c = "ESC"
    /\ escape_state' = "ESCAPE"
    /\ term_updateCursor(Here)
    /\ UNCHANGED csi_buf

Written(c) ==
    CASE c = "BEL" -> Here
      [] c = "BS"  -> [Here EXCEPT !.x = IF @ > 0 THEN @ - 1 ELSE @]
      [] c = "TAB" -> [Here EXCEPT !.x = Wrap(@ + TabStop - (@ % TabStop))]
      [] c = "LF"  -> [Here EXCEPT !.x = 0, !.y = Wrap(@ + 1)]
      [] c = "CR"  -> [Here EXCEPT !.x = 0]
      [] OTHER     -> [Drawn(Here, Cursor, Cursor + 1) EXCEPT !.x = Wrap(@ + 1)]

Plain(c) ==
    /\ status = "ready" /\ escape_state = "NONE" /\ c # "ESC"
    /\ term_updateCursor(Written(c))
    /\ UNCHANGED <<escape_state, csi_buf>>

Next == \E c \in Chars : Escape(c) \/ Collect(c) \/ Overlong(c) \/ Final(c)
                            \/ Control(c) \/ Plain(c)

Spec == Init /\ [][Next]_vars

-------------------------------------------------------------------------------
(* Properties *)

\* Between two characters the cursor is where the screen shows it, and on the
\* screen, whatever sequence of characters was written and however numbers
\* overflow, unless a scroll has taken more rows than there were above it.
CursorOnScreen ==
    status = "ready" =>
        /\ shown = <<cursor_x, cursor_y % Byte>>
        /\ cursor_x < Width
        /\ cursor_y < Height \/ wrapped

\* What reaches the display is what the terminal meant, and on the screen, with
\* the same exception: no seek is refused, which would leave the write to the
\* place of an earlier one, and no write is cut short.
DrawsAsMeant ==
    wrapped \/ (drawn = meant /\ 0 <= drawn[1] /\ drawn[1] <= drawn[2] /\ drawn[2] <= 2 * Size)

\* A cursor that has left the screen can only do harm in one way: a write goes to
\* a wrong place of the display, but past its memory only in an erasure from the
\* cursor on, whose size is then negative.
OverrunByErasure ==
    [][ drawn'[2] > 2 * Size => wrapped /\ meant'[1] > meant'[2] ]_vars
===============================================================================
