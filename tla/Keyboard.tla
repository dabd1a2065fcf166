-------------------------------- MODULE Keyboard -------------------------------
(* The keyboard: scan codes arriving one byte per interrupt,
   src/src/kernel/drv/keyboard.c, and the layout that turns keys into characters,
   src/src/kernel/drv/kb_layout/nl_be_qemu.c.  A key is its code in keys.h.

   The keyboard itself is modelled as the driver meets it: a key sends a make code
   when it goes down, again when it repeats, and a break code when it comes up,
   with a prefix for some; Pause sends both at once and then nothing.  It has
   delivered a key's bytes before it sends the next key's. *)
EXTENDS Integers, Sequences

CONSTANTS
    Keys,     \* the keys of the keyboard that send characters or commands
    Plain,    \* their characters without shift, and with it: functions from
    Shifted   \* keys, of which the others send nothing

E0 == 57344  \* 0xE000, added to the code of a key with a prefix
E1 == 225    \* the byte Pause begins with

KEY_LCTRL    == 29
KEY_RCTRL    == E0 + 29
KEY_LSHIFT   == 42
KEY_RSHIFT   == 54
KEY_LALT     == 56
KEY_RALT     == E0 + 56
KEY_CAPSLOCK == 58

Modifiers == {KEY_LSHIFT, KEY_RSHIFT, KEY_LALT, KEY_RALT, KEY_LCTRL, KEY_RCTRL}

\* A key of code 96 would come up with the prefix's byte: there is none.
ASSUME LayoutAssumption ==
    /\ Keys \subseteq (1 .. 95) \cup {E0 + k : k \in 1 .. 95}
    /\ DOMAIN Plain \cup DOMAIN Shifted \subseteq Keys \ (Modifiers \cup {KEY_CAPSLOCK})

VARIABLES
    escape_e0,  \* the byte before was the prefix
    state,      \* lshift .. rctrl: which modifiers are down
    caps,
    error,      \* the keyboard has reported an error, and the kernel has stopped
                \* (what it writes on the screen then is left out)
    held,       \* the modifiers that are held down
    wire,       \* bytes on their way
    forgotten   \* the modifiers whose make code was followed by a Pause (history)

driverVars   == <<escape_e0, state, caps, error>>
keyboardVars == <<escape_e0, state, caps, error, held, wire, forgotten>>

NoKey  == 0
NoChar == "none"

-------------------------------------------------------------------------------
(* The keyboard *)

Coded(k, up) ==
    LET byte == (k % E0) + IF up THEN 128 ELSE 0
    IN  IF k >= E0 THEN <<224, byte>> ELSE <<byte>>

Make(k)  == Coded(k, FALSE)
Break(k) == Coded(k, TRUE)

\* Pause's bytes are those of left ctrl and num lock behind a prefix of their own.
PauseBytes == <<E1, 29, 69, E1, 29 + 128, 69 + 128>>

\* Print screen: with a shift that nobody presses.
PrintBytes == <<224, 42, 224, 55>>
PrintUp    == <<224, 55 + 128, 224, 42 + 128>>

Send(bytes) == wire = <<>> /\ ~error /\ wire' = bytes /\ UNCHANGED driverVars

Press(m) ==
    /\ Send(Make(m))
    /\ held' = held \cup {m} /\ forgotten' = forgotten \ {m}

Release(m) ==
    /\ m \in held
    /\ Send(Break(m))
    /\ held' = held \ {m} /\ forgotten' = forgotten \ {m}

\* Any other key: it is pressed, repeats, or comes up.
Key(k) ==
    /\ \/ Send(Make(k))
       \/ Send(Break(k))
    /\ UNCHANGED <<held, forgotten>>

PrintScreen == (Send(PrintBytes) \/ Send(PrintUp)) /\ UNCHANGED <<held, forgotten>>

Pause ==
    /\ Send(PauseBytes)
    /\ forgotten' = forgotten \cup (held \cap {KEY_LCTRL})
    /\ UNCHANGED held

\* The keyboard's buffer was full, or it has found a fault.
Fault ==
    /\ \E byte \in {0, 255} : Send(<<byte>>)
    /\ UNCHANGED <<held, forgotten>>

-------------------------------------------------------------------------------
(* The driver *)

\* Variant of Prefixed: the prefix of a key that comes up is not looked at.
PrefixedDown(b) == escape_e0 /\ b < 128

Prefixed(b) == escape_e0

Code(b) == (b % 128) + IF Prefixed(b) THEN E0 ELSE 0
Up(b)   == b >= 128

\* set_key_state
set_key_state(key, down) ==
    /\ state' = IF key \in Modifiers THEN [state EXCEPT ![key] = down] ELSE state
    /\ caps' = IF key = KEY_CAPSLOCK /\ down THEN ~caps ELSE caps

shift_down == state[KEY_LSHIFT] \/ state[KEY_RSHIFT]
alt_down   == state[KEY_LALT] \/ state[KEY_RALT]
ctrl_down  == state[KEY_LCTRL] \/ state[KEY_RCTRL]

\* nl_be_qemu_keydown's two tables.
Table ==
    IF ~shift_down /\ ~alt_down /\ ~ctrl_down /\ ~caps THEN Plain
    ELSE IF (shift_down /\ ~alt_down /\ ~ctrl_down) \/ (~shift_down /\ caps) THEN Shifted
    ELSE <<>>

BeginsPrefix(b) == ~escape_e0 /\ b = 224

\* handle_scancode, as far as the driver's own state goes.
handle_scancode(b) ==
    IF b \in {0, 255} THEN error' = TRUE /\ UNCHANGED <<escape_e0, state, caps>>
    ELSE /\ escape_e0' = BeginsPrefix(b)
         /\ IF BeginsPrefix(b) THEN UNCHANGED <<state, caps>>
            ELSE set_key_state(Code(b), ~Up(b))
         /\ UNCHANGED error

\* The key that goes to keydown_handler, and the character that has gone to
\* char_handler before it.
KeySent(b) == IF b \in {0, 255} \/ BeginsPrefix(b) \/ Up(b) THEN NoKey ELSE Code(b)

CharSent(b) ==
    IF KeySent(b) \in DOMAIN Table THEN Table[KeySent(b)] ELSE NoChar

\* keyboard_callback, but for the handlers: the byte at the port is taken.
keyboard_callback ==
    /\ wire # <<>> /\ ~error
    /\ wire' = Tail(wire)
    /\ handle_scancode(Head(wire))
    /\ UNCHANGED <<held, forgotten>>

KeyboardInit ==
    /\ escape_e0 = FALSE /\ state = [m \in Modifiers |-> FALSE] /\ caps = FALSE
    /\ error = FALSE
    /\ held = {} /\ wire = <<>> /\ forgotten = {}

Device ==
    \/ \E m \in Modifiers \cap Keys : Press(m) \/ Release(m)
    \/ \E k \in Keys \ Modifiers : Key(k)
    \/ PrintScreen \/ Pause \/ Fault

-------------------------------------------------------------------------------
(* Properties *)

\* Once every byte has been taken, the driver takes for held exactly the modifiers
\* that are, whatever keys with prefixes came in between, but for a left ctrl that
\* Pause has made it forget; and no prefix is left over for the next key.
ModifiersHeld ==
    wire = <<>> /\ ~error =>
       /\ \A m \in Modifiers : state[m] = (m \in held \ forgotten)
       /\ ~escape_e0
===============================================================================
