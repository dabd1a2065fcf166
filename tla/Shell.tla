--------------------------------- MODULE Shell ---------------------------------
(* The kernel's own shell, src/src/kernel/shell/shell.cpp: a line of input that
   is edited in place on the screen, split into words on Enter, and handed to a
   command.  shell_init, which sets its handlers, is commented out in
   kernel_main; the module describes the shell from there on.

   What commands print is one text or another: the module is about the line.
   is_reading is not kept: it is 0 only inside run_command, which runs in the
   keyboard's interrupt and lets no other in. *)
EXTENDS Vga, Splitting

CONSTANTS
    max_input,  \* 127
    Chars,      \* the characters that can be typed, with Space among them
    Outputs     \* what commands print, in whole lines

Nul    == "Nul"
Prompt == <<">", Space>>

ASSUME ShellAssumption ==
    /\ max_input \in Nat \ {0} /\ max_input + Width < Byte /\ 2 < Width
    /\ Chars # {} /\ Nul \notin Chars /\ Chars \subseteq Glyphs
    /\ Prompt \in Seq(Glyphs)
    /\ Outputs \subseteq Seq(Glyphs \cup {NewLine})

VARIABLES
    input_buffer,      \* max_input + 1 characters
    cursor,            \* the place in it where the next one goes
    input_x, input_y,  \* where the line starts on the screen
    screen,
    words,             \* of the line entered last, as the command gets them
    status,            \* "ready" or "overrun": the line has lost its terminator
    moved              \* the line has moved up with a scroll (history)

shellVars ==
    <<input_buffer, cursor, input_x, input_y, screen, words, status, moved>>

Place == 0 .. max_input

-------------------------------------------------------------------------------
(* The line *)

\* get_input_length: the characters before the first zero.
Length(b) == CHOOSE n \in Place : b[n] = Nul /\ \A i \in 0 .. n - 1 : b[i] # Nul

\* The characters from place i to the next zero.
CString(b, i) ==
    LET end == CHOOSE n \in Place : n >= i /\ b[n] = Nul /\ \A k \in i .. n - 1 : b[k] # Nul
    IN  [k \in 1 .. end - i |-> b[i + k - 1]]

Text(b) == CString(b, 0)

\* Variant of Inserted: the loop goes up, and copies one character along.
InsertedUp(b, at, c) ==
    [i \in Place |-> IF i = at THEN c ELSE IF i \in at + 1 .. max_input - 1 THEN b[at] ELSE b[i]]

\* char_callback's loop, from the end down: the last character is pushed out.
Inserted(b, at, c) ==
    [i \in Place |-> IF i = at THEN c
                     ELSE IF i \in at + 1 .. max_input - 1 THEN b[i - 1]
                     ELSE b[i]]

\* The loop of KEY_BACKSPACE, which takes the terminator along.
Deleted(b, at) == [i \in Place |-> IF i \in at - 1 .. max_input - 1 THEN b[i + 1] ELSE b[i]]

\* Variant of shell_text: the place after the text keeps what was there.
shell_textBare(b) == Text(b)

\* What render_input writes: the blank hides a character that has gone.
shell_text(b) == Append(Text(b), Space)

\* Writing it runs over the end of the last row.
Scrolls(b, x, y) == y * Width + x + Len(shell_text(b)) >= Size

render_input(s, b, at, x, y) ==
    vga_setCursor(vga_writeText(vga_setCursor(s, x, y), shell_text(b)), x + at, y)

\* The line starts where the prompt ends.  The last place is not cleared.
shell_start(s) ==
    LET t == vga_writeText(s, Prompt)
    IN  /\ screen' = t
        /\ cursor' = 0 /\ input_x' = t.x /\ input_y' = t.y
        /\ input_buffer' = [i \in Place |-> IF i < max_input THEN Nul ELSE input_buffer[i]]
        /\ moved' = FALSE

-------------------------------------------------------------------------------
(* Commands *)

Blank(c) == c \in {Space, Nul}

\* parse_command's first pass: the blank after each word becomes a zero.
WordEnds(b) == {i \in 1 .. Length(b) - 1 : b[i] = Space /\ b[i - 1] # Space}

argc(b) ==
    Cardinality(WordEnds(b)) + IF Length(b) > 0 /\ b[Length(b) - 1] # Space THEN 1 ELSE 0

Split(b) == [i \in Place |-> IF i \in WordEnds(b) THEN Nul ELSE b[i]]

\* The second pass, over what the first one has left of the line.
WordStarts(b) ==
    {i \in 0 .. Length(b) - 1 : ~Blank(Split(b)[i]) /\ (i = 0 \/ Blank(Split(b)[i - 1]))}

\* argv, of which kmalloc has given argc places.
argv(b) ==
    [n \in 1 .. argc(b) |-> CString(Split(b), Nth(WordStarts(b), n))]

\* A command that is not known is named in the answer.
Answers(command) == Outputs \cup {Append(command, NewLine)}

run_command ==
    LET line == vga_writeChar(screen, NewLine)
        args == argv(input_buffer)
    IN  /\ words' = args
        /\ IF args = <<>> THEN shell_start(line)
           ELSE \E text \in Answers(args[1]) : shell_start(vga_writeText(line, text))
        /\ UNCHANGED status

-------------------------------------------------------------------------------
(* The handlers *)

Render(b, at) ==
    /\ input_buffer' = b /\ cursor' = at
    /\ screen' = render_input(screen, b, at, input_x, input_y)
    /\ moved' = (moved \/ Scrolls(b, input_x, input_y))
    /\ UNCHANGED <<input_x, input_y, words, status>>

MoveTo(at) ==
    /\ cursor' = at
    /\ screen' = vga_setCursor(screen, input_x + at, input_y)
    /\ UNCHANGED <<input_buffer, input_x, input_y, words, status, moved>>

\* Behind the last character of a full line the new one takes the terminator's
\* place, and what is shown from then on is whatever comes after the buffer.
char_callback(c) ==
    /\ status = "ready"
    /\ IF cursor < max_input
       THEN Render(Inserted(input_buffer, cursor, c),
                   IF cursor + 1 >= max_input THEN max_input - 1 ELSE cursor + 1)
       ELSE /\ status' = "overrun"
            /\ UNCHANGED <<input_buffer, cursor, input_x, input_y, screen, words, moved>>

KEY_LEFT == status = "ready" /\ MoveTo(IF cursor > 0 THEN cursor - 1 ELSE 0)

KEY_RIGHT ==
    /\ status = "ready"
    /\ MoveTo(IF cursor < Length(input_buffer) THEN cursor + 1 ELSE Length(input_buffer))

KEY_BACKSPACE ==
    /\ status = "ready"
    /\ IF cursor = 0 THEN UNCHANGED shellVars
       ELSE Render(Deleted(input_buffer, cursor), cursor - 1)

KEY_ENTER == status = "ready" /\ run_command

\* shell_init on the screen that kernel_main has cleared.
Init ==
    LET s == vga_writeText(vga_init, Prompt)
        b == [i \in Place |-> Nul]
    IN  /\ input_buffer = b /\ cursor = 0 /\ input_x = s.x /\ input_y = s.y
        /\ screen = render_input(s, b, 0, s.x, s.y)
        /\ words = <<>> /\ status = "ready" /\ moved = FALSE

-------------------------------------------------------------------------------
(* Properties *)

Editor == INSTANCE LineEditor WITH line <- Text(input_buffer), pos <- cursor,
                                   Limit <- max_input

\* The shell is a line editor: the characters shifted in the buffer, its zeros
\* and the two passes over it come to inserting, deleting and splitting a line.
EditsLine == Editor!Spec

\* The screen shows the line with a blank behind it, and the hardware's cursor at
\* the place of the next character, also when the line goes on in the next row,
\* until a scroll moves it away from where the shell takes it to be.
LineShown ==
    status = "ready" /\ ~moved =>
        LET start == input_y * Width + input_x
            line == Text(input_buffer)
        IN  /\ \A i \in 1 .. Len(line) : screen.cells[start + i - 1] = line[i]
            /\ line # <<>> => screen.cells[start + Len(line)] = Space
            /\ Shown(screen) = start + cursor
===============================================================================
