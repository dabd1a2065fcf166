------------------------------- MODULE LineEditor ------------------------------
(* What a one-line editor promises: a line of at most Limit characters with a
   position in it, and on Enter the words of the line for the command. *)
EXTENDS Splitting, SequencesExt

CONSTANTS
    Chars,  \* the characters that can be typed
    Space,  \* the one between words
    Limit   \* the length of the longest line

VARIABLES
    line,   \* the characters typed so far
    pos,    \* how many of them are before the position
    words   \* those of the line entered last

vars == <<line, pos, words>>

\* The runs of characters other than Space, in order.
Words(l) == Runs(l, Space)

Init == line = <<>> /\ pos = 0 /\ words = <<>>

\* In a full line the last character makes room, and the position stays before
\* the last place.
Insert(c) ==
    /\ pos < Limit
    /\ line' = SubSeq(InsertAt(line, pos + 1, c), 1,
                      IF Len(line) < Limit THEN Len(line) + 1 ELSE Limit)
    /\ pos' = IF pos + 1 < Limit THEN pos + 1 ELSE Limit - 1
    /\ UNCHANGED words

Backspace ==
    /\ pos > 0
    /\ line' = RemoveAt(line, pos)
    /\ pos' = pos - 1
    /\ UNCHANGED words

Left  == pos > 0 /\ pos' = pos - 1 /\ UNCHANGED <<line, words>>
Right == pos < Len(line) /\ pos' = pos + 1 /\ UNCHANGED <<line, words>>

Enter == line' = <<>> /\ pos' = 0 /\ words' = Words(line)

Next == (\E c \in Chars : Insert(c)) \/ Backspace \/ Left \/ Right \/ Enter

Spec == Init /\ [][Next]_vars
===============================================================================
