---------------------------------- MODULE Vga ----------------------------------
(* Text output of the screen driver, src/src/kernel/vga.cpp, as operators on a
   screen: its characters by position, row after row, and the cursor, which the
   hardware shows at the position y * Width + x.  Colours are left out. *)
EXTENDS Integers, Sequences

CONSTANTS
    Width, Height,  \* of the screen, in characters: 80 and 25
    Byte,           \* 2^8: the cursor is kept in bytes
    Glyphs          \* what a place on the screen can show

NewLine == "\n"
Space   == " "

\* vga_scroll walks Width rows, the last ones without effect.
ASSUME ScreenAssumption ==
    /\ Width \in Nat \ {0} /\ Height \in Nat \ {0} /\ Byte \in Nat
    /\ Height <= Width /\ Width < Byte
    /\ Space \in Glyphs /\ NewLine \notin Glyphs

Size == Width * Height

\* Where the hardware shows the cursor.
Shown(s) == s.y * Width + s.x

vga_setCursor(s, x, y) == [s EXCEPT !.x = x % Byte, !.y = y % Byte]

\* Nothing is written outside the screen.
vga_setChar(s, c) ==
    IF s.x >= Width \/ s.y >= Height THEN s ELSE [s EXCEPT !.cells[Shown(s)] = c]

\* The rows go up by count, blank ones come from below, and the cursor with them.
vga_scroll(s, count) ==
    [s EXCEPT !.y = (@ - count) % Byte,
              !.cells = [p \in DOMAIN @ |->
                 IF p + count * Width < Size THEN @[p + count * Width] ELSE Space]]

NextLine(s) ==
    LET t == [s EXCEPT !.x = 0, !.y = (@ + 1) % Byte]
    IN  IF t.y >= Height THEN vga_scroll(t, 1) ELSE t

vga_writeChar(s, c) ==
    LET t == [(IF c = NewLine THEN s ELSE vga_setChar(s, c)) EXCEPT !.x = (@ + 1) % Byte]
    IN  IF t.x >= Width \/ c = NewLine THEN NextLine(t) ELSE t

vga_writeText(s, text) ==
    LET after[n \in 0 .. Len(text)] ==
          IF n = 0 THEN s ELSE vga_writeChar(after[n - 1], text[n])
    IN  after[Len(text)]

\* vga_init and vga_clear, as kernel_main calls them.
vga_init == [x |-> 0, y |-> 0, cells |-> [p \in 0 .. Size - 1 |-> Space]]
===============================================================================
