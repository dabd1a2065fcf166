--------------------------------- MODULE Console -------------------------------
(* The keyboard and the kernel's shell together: each interrupt of the keyboard
   runs the driver, the layout, and the handlers that shell_init has set, one
   after the other. *)
EXTENDS Keyboard, Shell

KEY_BACKSPACE_CODE == 14
KEY_ENTER_CODE     == 28
KEY_LEFT_CODE      == E0 + 75
KEY_RIGHT_CODE     == E0 + 77

CommandKeys == {KEY_BACKSPACE_CODE, KEY_ENTER_CODE, KEY_LEFT_CODE, KEY_RIGHT_CODE}

\* Every character of the layout can be typed, and no key has both a character and
\* a meaning for keydown_callback.
ASSUME ConsoleAssumption ==
    /\ CommandKeys \cap (DOMAIN Plain \cup DOMAIN Shifted) = {}
    /\ \A k \in DOMAIN Plain : Plain[k] \in Chars
    /\ \A k \in DOMAIN Shifted : Shifted[k] \in Chars

vars == <<keyboardVars, shellVars>>

\* send_keydown: the layout's character first.
send_keydown(b) ==
    CASE CharSent(b) # NoChar           -> char_callback(CharSent(b))
      [] KeySent(b) = KEY_LEFT_CODE      -> KEY_LEFT
      [] KeySent(b) = KEY_RIGHT_CODE     -> KEY_RIGHT
      [] KeySent(b) = KEY_BACKSPACE_CODE -> KEY_BACKSPACE
      [] KeySent(b) = KEY_ENTER_CODE     -> KEY_ENTER
      [] OTHER                           -> UNCHANGED shellVars

Interrupt == status = "ready" /\ keyboard_callback /\ send_keydown(Head(wire))

ConsoleInit == KeyboardInit /\ Init

Next == Interrupt \/ (Device /\ UNCHANGED shellVars)

Spec == ConsoleInit /\ [][Next]_vars
===============================================================================
