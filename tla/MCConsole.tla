------------------------------- MODULE MCConsole -------------------------------
(* A screen of 5 by 2, a line of 3 characters, a key with a character in each
   table, the space bar, one modifier of each kind. *)
EXTENDS Console, TLC

KEY_A     == 30
KEY_SPACE == 57

MCKeys == {KEY_A, KEY_SPACE, KEY_LSHIFT, KEY_LCTRL, KEY_RCTRL, KEY_CAPSLOCK,
           KEY_BACKSPACE_CODE, KEY_ENTER_CODE, KEY_LEFT_CODE, KEY_RIGHT_CODE}

MCPlain   == (KEY_A :> "q") @@ (KEY_SPACE :> " ")
MCShifted == (KEY_A :> "Q") @@ (KEY_SPACE :> " ")
MCChars   == {"q", "Q", " "}
MCGlyphs  == MCChars \cup {">", "x"}
MCOutputs == {<<>>, <<"x", NewLine>>}
===============================================================================
