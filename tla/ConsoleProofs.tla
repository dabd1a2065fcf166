----------------------------- MODULE ConsoleProofs -----------------------------
(* Proofs about the keyboard, for any keys and layout and whatever the handlers that
   its interrupts run do; and about the shell, for any line, screen and commands:
   that it implements the line editor, and what the screen shows. *)
EXTENDS Console, CommonLemmas, TLAPS

-------------------------------------------------------------------------------
(* The keyboard.  The invariant says what is on the wire between two keys' ends:
   the rest of what one key sends, and how the driver's modifiers differ from
   those held until it has been taken. *)

KeyboardTypes ==
    /\ escape_e0 \in BOOLEAN /\ error \in BOOLEAN
    /\ state \in [Modifiers -> BOOLEAN] /\ held \subseteq Modifiers

Down == held \ forgotten

\* The driver is right about the modifiers other than those in S.
Agree(S) == \A m \in Modifiers \ S : state[m] <=> m \in Down

Quiet == wire = <<>> /\ ~escape_e0 /\ Agree({})

\* The bytes of a key, or what follows its prefix.
Coming(k, bytes) ==
    \/ ~escape_e0 /\ wire = bytes
    \/ escape_e0 /\ k >= E0 /\ wire = Tail(bytes)

KeyComing ==
    \E k \in Keys :
       /\ Agree({k})
       /\ \/ Coming(k, Make(k)) /\ (k \in Modifiers => k \in Down)
          \/ Coming(k, Break(k)) /\ (k \in Modifiers => k \notin Down)

\* Pause turns left ctrl on and off again.
PauseComing ==
    /\ ~escape_e0
    /\ \/ /\ wire \in {PauseBytes, <<29, 69, 225, 157, 197>>, <<69, 225, 157, 197>>,
                       <<225, 157, 197>>, <<157, 197>>}
          /\ Agree({KEY_LCTRL}) /\ KEY_LCTRL \notin Down
       \/ wire = <<197>> /\ Agree({})

PrintComing ==
    /\ Agree({})
    /\ \/ ~escape_e0 /\ wire \in {PrintBytes, <<224, 55>>, PrintUp, <<224, 170>>}
       \/ escape_e0 /\ wire \in {<<42, 224, 55>>, <<55>>, <<183, 224, 170>>, <<170>>}

FaultComing == wire \in {<<0>>, <<255>>}

Expected == Quiet \/ KeyComing \/ PauseComing \/ PrintComing \/ FaultComing

KeyboardInv == KeyboardTypes /\ (error \/ Expected)

\* The bytes of a key without a prefix.
LEMMA PlainCodes ==
    ASSUME NEW k \in 1 .. 95 PROVE Make(k) = <<k>> /\ Break(k) = <<k + 128>>
<1>1. k % E0 = k /\ k < E0
      BY DEF E0
<1>2. (k % E0) + 128 = k + 128 /\ (k % E0) + 0 = k /\ ~(k >= E0)
      BY <1>1 DEF E0
<1>   QED BY <1>2, Zenon DEF Make, Break, Coded

\* The bytes of a key with a prefix.
LEMMA PrefixedCodes ==
    ASSUME NEW c \in 1 .. 95, NEW k, k = E0 + c
    PROVE  Make(k) = <<224, c>> /\ Break(k) = <<224, c + 128>>
<1>1. k % E0 = c /\ k >= E0 /\ k \in Nat
      BY DEF E0
<1>2. (k % E0) + 128 = c + 128 /\ (k % E0) + 0 = c
      BY <1>1 DEF E0
<1>   QED BY <1>1, <1>2, Zenon DEF Make, Break, Coded

\* set_key_state on the modifiers.
SetTo(k, down) ==
    state' = IF k \in Modifiers THEN [state EXCEPT ![k] = down] ELSE state

\* The key's bit is set when the byte is a make code, cleared when it is a break code.
SetBy(k, b) == /\ b < 128 => SetTo(k, TRUE)
               /\ b >= 128 => SetTo(k, FALSE)

\* What a byte that is not a fault leaves on the wire, and of the other variables.
Passed(rest) == /\ wire' = rest /\ error' = error
                /\ held' = held /\ forgotten' = forgotten
                /\ escape_e0' \in BOOLEAN

\* What the driver does with a byte that is not a fault.
LEMMA ByteTaken ==
    ASSUME KeyboardTypes, keyboard_callback, NEW b \in 1 .. 254, Head(wire) = b
    PROVE  /\ Passed(Tail(wire))
           /\ escape_e0' <=> ~escape_e0 /\ b = 224
           /\ ~escape_e0 /\ b = 224 => state' = state
           /\ ~escape_e0 /\ b # 224 => SetBy(b % 128, b)
           /\ escape_e0 => SetBy((b % 128) + E0, b)
<1>1. wire' = Tail(wire) /\ held' = held /\ forgotten' = forgotten /\ handle_scancode(b)
      BY DEF keyboard_callback
<1>2. b \notin {0, 255} /\ (Up(b) <=> b >= 128)
      BY DEF Up
<1>3. /\ error' = error /\ escape_e0' = BeginsPrefix(b)
      /\ BeginsPrefix(b) => state' = state
      /\ ~ BeginsPrefix(b) => set_key_state(Code(b), ~Up(b))
      BY <1>1, <1>2, Zenon DEF handle_scancode
<1>4. BeginsPrefix(b) \in BOOLEAN /\ (BeginsPrefix(b) <=> ~escape_e0 /\ b = 224)
      BY DEF BeginsPrefix
<1>5. /\ ~escape_e0 => Code(b) = b % 128
      /\ escape_e0 => Code(b) = (b % 128) + E0
      BY DEF Code, Prefixed
<1>6. ASSUME NEW k, set_key_state(k, ~Up(b)) PROVE SetBy(k, b)
  <2>1. CASE ~Up(b)
    <3>1. (~Up(b)) = TRUE
          BY <2>1, Zenon
    <3>2. SetTo(k, TRUE)
          BY <1>6, <3>1, Zenon DEF set_key_state, SetTo
    <3>3. ~(b >= 128)
          BY <1>2, <2>1, Zenon
    <3>   QED BY <3>2, <3>3, Zenon DEF SetBy
  <2>2. CASE Up(b)
    <3>1. (~Up(b)) = FALSE
          BY <2>2, Zenon
    <3>2. SetTo(k, FALSE)
          BY <1>6, <3>1, Zenon DEF set_key_state, SetTo
    <3>3. b >= 128
          BY <1>2, <2>2, Zenon
    <3>4. ~(b < 128)
          BY <3>3
    <3>   QED BY <3>2, <3>4, Zenon DEF SetBy
  <2>   QED BY <2>1, <2>2
<1>7. escape_e0' \in BOOLEAN /\ (escape_e0' <=> ~escape_e0 /\ b = 224)
      BY <1>3, <1>4, Zenon
<1>8. /\ ~escape_e0 /\ b # 224 => SetBy(b % 128, b)
      /\ escape_e0 => SetBy((b % 128) + E0, b)
      BY <1>3, <1>4, <1>5, <1>6, Zenon
<1>9. ~escape_e0 /\ b = 224 => state' = state
      BY <1>3, <1>4, Zenon
<1>10. Passed(Tail(wire))
      BY <1>1, <1>3, <1>7, Zenon DEF Passed
<1>   QED BY <1>7, <1>8, <1>9, <1>10, Zenon

\* A prefix.
LEMMA PrefixTaken ==
    ASSUME KeyboardTypes, keyboard_callback, Head(wire) = 224, ~escape_e0
    PROVE  Passed(Tail(wire)) /\ escape_e0' /\ state' = state
BY ByteTaken

\* A make code without a prefix.
LEMMA MakeTaken ==
    ASSUME KeyboardTypes, keyboard_callback, NEW c \in 1 .. 127, Head(wire) = c, ~escape_e0
    PROVE  Passed(Tail(wire)) /\ ~escape_e0' /\ SetTo(c, TRUE)
<1>1. c \in 1 .. 254 /\ c % 128 = c /\ c # 224 /\ c < 128
      OBVIOUS
<1>2. Passed(Tail(wire)) /\ ~escape_e0' /\ SetBy(c % 128, c)
      BY <1>1, ByteTaken
<1>   QED BY <1>1, <1>2 DEF SetBy

\* A break code without a prefix; that of code 96 would be the prefix itself.
LEMMA BreakTaken ==
    ASSUME KeyboardTypes, keyboard_callback, NEW c \in 1 .. 126, c # 96,
           NEW b, b = c + 128, Head(wire) = b, ~escape_e0
    PROVE  Passed(Tail(wire)) /\ ~escape_e0' /\ SetTo(c, FALSE)
<1>1. b \in 1 .. 254 /\ b % 128 = c /\ b # 224 /\ b >= 128
      OBVIOUS
<1>2. Passed(Tail(wire)) /\ ~escape_e0' /\ SetBy(b % 128, b)
      BY <1>1, ByteTaken
<1>   QED BY <1>1, <1>2 DEF SetBy

\* The same behind a prefix.
LEMMA PrefixedTaken ==
    ASSUME KeyboardTypes, keyboard_callback, escape_e0, NEW c \in 1 .. 126, NEW k, k = E0 + c
    PROVE  /\ Head(wire) = c => Passed(Tail(wire)) /\ ~escape_e0' /\ SetTo(k, TRUE)
           /\ Head(wire) = c + 128 => Passed(Tail(wire)) /\ ~escape_e0' /\ SetTo(k, FALSE)
<1>1. CASE Head(wire) = c
  <2>1. c \in 1 .. 254 /\ (c % 128) + E0 = k /\ c < 128 /\ c # c + 128
        BY DEF E0
  <2>2. Passed(Tail(wire)) /\ ~escape_e0' /\ SetBy((c % 128) + E0, c)
        BY <1>1, <2>1, ByteTaken
  <2>   QED BY <1>1, <2>1, <2>2 DEF SetBy
<1>2. CASE Head(wire) = c + 128
  <2>1. PICK b \in 1 .. 254 : b = c + 128
        OBVIOUS
  <2>2. (b % 128) + E0 = k /\ b >= 128 /\ c # b
        BY <2>1 DEF E0
  <2>3. Passed(Tail(wire)) /\ ~escape_e0' /\ SetBy((b % 128) + E0, b)
        BY <1>2, <2>1, ByteTaken
  <2>   QED BY <1>2, <2>1, <2>2, <2>3 DEF SetBy
<1>   QED BY <1>1, <1>2

\* A byte that sets no modifier, or sets one to what is held.
LEMMA Settled ==
    ASSUME KeyboardTypes, NEW rest, Passed(rest), NEW k, NEW S,
           \/ SetTo(k, TRUE) /\ (k \in Modifiers => k \in Down)
           \/ SetTo(k, FALSE) /\ (k \in Modifiers => k \notin Down)
    PROVE  KeyboardTypes' /\ Down' = Down /\ (Agree(S) => Agree(S \ {k})')
<1>1. KeyboardTypes'
      BY DEF KeyboardTypes, Passed, SetTo
<1>2. Down' = Down
      BY DEF Passed, Down
<1>3. ASSUME Agree(S), NEW m \in Modifiers \ (S \ {k}) PROVE state'[m] <=> m \in Down
  <2>1. CASE m = k
        BY <2>1 DEF SetTo, KeyboardTypes
  <2>2. CASE m # k
    <3>1. state'[m] = state[m]
          BY <2>2 DEF SetTo, KeyboardTypes
    <3>   QED BY <1>3, <2>2, <3>1 DEF Agree
  <2>   QED BY <2>1, <2>2
<1>4. Agree(S) => Agree(S \ {k})'
      BY <1>2, <1>3 DEF Agree
<1>   QED BY <1>1, <1>2, <1>4

\* A byte that changes no modifier.
LEMMA Unsettled ==
    ASSUME KeyboardTypes, NEW rest, Passed(rest), state' = state
    PROVE  KeyboardTypes' /\ Down' = Down /\ \A S : Agree(S) => Agree(S)'
BY DEF KeyboardTypes, Passed, Down, Agree

\* What is left of a key's bytes is still a key's, or the driver is up to date.
LEMMA KeyTaken ==
    ASSUME KeyboardTypes, keyboard_callback, KeyComing
    PROVE  KeyboardTypes' /\ Expected'
<1>1. PICK k \in Keys :
         /\ Agree({k})
         /\ \/ Coming(k, Make(k)) /\ (k \in Modifiers => k \in Down)
            \/ Coming(k, Break(k)) /\ (k \in Modifiers => k \notin Down)
      BY DEF KeyComing
<1>2. ASSUME wire' = <<>>, ~escape_e0', Passed(<<>>),
             \/ SetTo(k, TRUE) /\ (k \in Modifiers => k \in Down)
             \/ SetTo(k, FALSE) /\ (k \in Modifiers => k \notin Down)
      PROVE  KeyboardTypes' /\ Expected'
  <2>1. KeyboardTypes' /\ Agree({k} \ {k})'
        BY <1>1, <1>2, Settled
  <2>2. Agree({})'
        BY <2>1 DEF Agree
  <2>   QED BY <1>2, <2>1, <2>2 DEF Expected, Quiet
<1>3. CASE k \in 1 .. 95
  <2>1. Make(k) = <<k>> /\ Break(k) = <<k + 128>> /\ ~(k >= E0) /\ k \in 1 .. 127
        BY <1>3, PlainCodes DEF E0
  <2>2. ~escape_e0
        BY <1>1, <2>1 DEF Coming
  <2>3. CASE wire = <<k>> /\ (k \in Modifiers => k \in Down)
    <3>1. Head(wire) = k /\ Tail(wire) = <<>>
          BY <2>3
    <3>2. Passed(<<>>) /\ ~escape_e0' /\ SetTo(k, TRUE)
          BY <2>1, <2>2, <3>1, MakeTaken
    <3>3. wire' = <<>>
          BY <3>2 DEF Passed
    <3>   QED BY <1>2, <2>3, <3>2, <3>3
  <2>4. CASE wire = <<k + 128>> /\ (k \in Modifiers => k \notin Down)
    <3>1. PICK b : b = k + 128
          OBVIOUS
    <3>2. Head(wire) = b /\ Tail(wire) = <<>> /\ k \in 1 .. 126 /\ k # 96
          BY <1>3, <2>4, <3>1
    <3>3. Passed(<<>>) /\ ~escape_e0' /\ SetTo(k, FALSE)
          BY <2>2, <3>1, <3>2, BreakTaken
    <3>4. wire' = <<>>
          BY <3>3 DEF Passed
    <3>   QED BY <1>2, <2>4, <3>3, <3>4
  <2>   QED BY <1>1, <2>1, <2>2, <2>3, <2>4 DEF Coming
<1>4. CASE \E c \in 1 .. 95 : k = E0 + c
  <2>1. PICK c \in 1 .. 95 : k = E0 + c
        BY <1>4
  <2>2. PICK d : d = c + 128
        OBVIOUS
  <2>3. /\ Make(k) = <<224, c>> /\ Break(k) = <<224, d>>
        /\ k >= E0 /\ c \in 1 .. 126
        BY <2>1, <2>2, PrefixedCodes DEF E0
  <2>4. CASE ~escape_e0
    <3>1. PICK e : /\ wire = <<224, e>>
                   /\ \/ e = c /\ (k \in Modifiers => k \in Down)
                      \/ e = d /\ (k \in Modifiers => k \notin Down)
          BY <1>1, <2>3, <2>4 DEF Coming
    <3>2. Head(wire) = 224 /\ Tail(wire) = <<e>>
          BY <3>1
    <3>3. Passed(<<e>>) /\ escape_e0' /\ state' = state
          BY <2>4, <3>2, PrefixTaken
    <3>4. KeyboardTypes' /\ Down' = Down /\ Agree({k})'
          BY <1>1, <3>3, Unsettled
    <3>5. Tail(<<224, e>>) = <<e>> /\ wire' = <<e>>
          BY <3>3 DEF Passed
    <3>6. CASE e = c /\ (k \in Modifiers => k \in Down)
      <4>1. Coming(k, Make(k))'
            BY <2>3, <3>3, <3>5, <3>6 DEF Coming
      <4>2. KeyComing'
            BY <3>4, <3>6, <4>1 DEF KeyComing
      <4>   QED BY <3>4, <4>2 DEF Expected
    <3>7. CASE e = d /\ (k \in Modifiers => k \notin Down)
      <4>1. Coming(k, Break(k))'
            BY <2>3, <3>3, <3>5, <3>7 DEF Coming
      <4>2. KeyComing'
            BY <3>4, <3>7, <4>1 DEF KeyComing
      <4>   QED BY <3>4, <4>2 DEF Expected
    <3>   QED BY <3>1, <3>6, <3>7
  <2>5. CASE escape_e0
    <3>1. PICK e : /\ wire = <<e>>
                   /\ \/ e = c /\ (k \in Modifiers => k \in Down)
                      \/ e = d /\ (k \in Modifiers => k \notin Down)
          BY <1>1, <2>3, <2>5 DEF Coming
    <3>2. Head(wire) = e /\ Tail(wire) = <<>>
          BY <3>1
    <3>3. /\ e = c => Passed(<<>>) /\ ~escape_e0' /\ SetTo(k, TRUE)
          /\ e = d => Passed(<<>>) /\ ~escape_e0' /\ SetTo(k, FALSE)
          BY <2>1, <2>2, <2>3, <2>5, <3>2, PrefixedTaken
    <3>4. wire' = <<>>
          BY <3>1, <3>3 DEF Passed
    <3>   QED BY <1>2, <3>1, <3>3, <3>4
  <2>   QED BY <2>4, <2>5
<1>5. k \in 1 .. 95 \/ \E c \in 1 .. 95 : k = E0 + c
      BY LayoutAssumption
<1>   QED BY <1>3, <1>4, <1>5

\* Bytes whose codes are no modifiers.
LEMMA NoModifiers ==
    /\ 97 \notin Modifiers /\ 69 \notin Modifiers /\ KEY_LCTRL = 29
    /\ \A c \in {42, 55} : E0 + c \notin Modifiers
BY DEF Modifiers, KEY_LSHIFT, KEY_RSHIFT, KEY_LALT, KEY_RALT, KEY_LCTRL, KEY_RCTRL, E0

\* Pause: left ctrl goes on and comes off again, and is then as it should be.
LEMMA PauseTaken ==
    ASSUME KeyboardTypes, keyboard_callback, PauseComing
    PROVE  KeyboardTypes' /\ Expected'
<1>0. ~escape_e0
      BY DEF PauseComing
<1>1. ASSUME NEW rest, NEW c \in 1 .. 127,
             rest \in {<<29, 69, 225, 157, 197>>, <<69, 225, 157, 197>>,
                       <<225, 157, 197>>, <<157, 197>>},
             Passed(rest), ~escape_e0', c = 29 \/ c \notin Modifiers,
             SetTo(c, TRUE) \/ SetTo(c, FALSE),
             Agree({KEY_LCTRL}), KEY_LCTRL \notin Down
      PROVE  KeyboardTypes' /\ Expected'
  <2>1. KeyboardTypes'
        BY <1>1 DEF KeyboardTypes, Passed, SetTo
  <2>2. Down' = Down /\ wire' = rest
        BY <1>1 DEF Passed, Down
  <2>3. ASSUME NEW m \in Modifiers \ {KEY_LCTRL} PROVE state'[m] <=> m \in Down
    <3>1. state'[m] = state[m]
          BY <1>1, <2>3, NoModifiers DEF SetTo, KeyboardTypes
    <3>   QED BY <1>1, <3>1 DEF Agree
  <2>4. Agree({KEY_LCTRL})'
        BY <2>2, <2>3 DEF Agree
  <2>   QED BY <1>1, <2>1, <2>2, <2>4 DEF Expected, PauseComing
<1>2. CASE wire = <<197>> /\ Agree({})
  <2>1. PICK c \in 1 .. 126, b \in Nat : c = 69 /\ c # 96 /\ b = c + 128
        OBVIOUS
  <2>2. Head(wire) = b /\ Tail(wire) = <<>>
        BY <1>2, <2>1
  <2>3. Passed(<<>>) /\ ~escape_e0' /\ SetTo(c, FALSE)
        BY <1>0, <2>1, <2>2, BreakTaken
  <2>4. KeyboardTypes' /\ Down' = Down /\ Agree({} \ {c})'
        BY <1>2, <2>1, <2>3, NoModifiers, Settled
  <2>5. Agree({})' /\ wire' = <<>>
        BY <2>3, <2>4 DEF Agree, Passed
  <2>   QED BY <2>3, <2>4, <2>5 DEF Expected, Quiet
<1>3. CASE wire # <<197>>
  <2>0. Agree({KEY_LCTRL}) /\ KEY_LCTRL \notin Down
        BY <1>3 DEF PauseComing
  <2>1. CASE wire = <<225, 29, 69, 225, 157, 197>>
    <3>1. PICK c \in 1 .. 126, b \in Nat : c = 97 /\ c # 96 /\ b = c + 128
          OBVIOUS
    <3>2. PICK rest : rest = <<29, 69, 225, 157, 197>>
          OBVIOUS
    <3>3. Head(wire) = b /\ Tail(wire) = rest
          BY <2>1, <3>1, <3>2
    <3>4. Passed(rest) /\ ~escape_e0' /\ SetTo(c, FALSE)
          BY <1>0, <3>1, <3>3, BreakTaken
    <3>5. c \in 1 .. 127 /\ c \notin Modifiers
          BY <3>1, NoModifiers
    <3>   QED BY <1>1, <2>0, <3>2, <3>4, <3>5
  <2>2. CASE wire = <<29, 69, 225, 157, 197>>
    <3>1. PICK c \in 1 .. 127 : c = 29
          OBVIOUS
    <3>2. PICK rest : rest = <<69, 225, 157, 197>>
          OBVIOUS
    <3>3. Head(wire) = c /\ Tail(wire) = rest
          BY <2>2, <3>1, <3>2
    <3>4. Passed(rest) /\ ~escape_e0' /\ SetTo(c, TRUE)
          BY <1>0, <3>1, <3>3, MakeTaken
    <3>   QED BY <1>1, <2>0, <3>1, <3>2, <3>4
  <2>3. CASE wire = <<69, 225, 157, 197>>
    <3>1. PICK c \in 1 .. 127 : c = 69
          OBVIOUS
    <3>2. PICK rest : rest = <<225, 157, 197>>
          OBVIOUS
    <3>3. Head(wire) = c /\ Tail(wire) = rest
          BY <2>3, <3>1, <3>2
    <3>4. Passed(rest) /\ ~escape_e0' /\ SetTo(c, TRUE)
          BY <1>0, <3>1, <3>3, MakeTaken
    <3>5. c \notin Modifiers
          BY <3>1, NoModifiers
    <3>   QED BY <1>1, <2>0, <3>1, <3>2, <3>4, <3>5
  <2>4. CASE wire = <<225, 157, 197>>
    <3>1. PICK c \in 1 .. 126, b \in Nat : c = 97 /\ c # 96 /\ b = c + 128
          OBVIOUS
    <3>2. PICK rest : rest = <<157, 197>>
          OBVIOUS
    <3>3. Head(wire) = b /\ Tail(wire) = rest
          BY <2>4, <3>1, <3>2
    <3>4. Passed(rest) /\ ~escape_e0' /\ SetTo(c, FALSE)
          BY <1>0, <3>1, <3>3, BreakTaken
    <3>5. c \in 1 .. 127 /\ c \notin Modifiers
          BY <3>1, NoModifiers
    <3>   QED BY <1>1, <2>0, <3>2, <3>4, <3>5
  <2>5. CASE wire = <<157, 197>>
    <3>1. PICK c \in 1 .. 126, b \in Nat : c = 29 /\ c # 96 /\ b = c + 128
          OBVIOUS
    <3>2. Head(wire) = b /\ Tail(wire) = <<197>>
          BY <2>5, <3>1
    <3>3. Passed(<<197>>) /\ ~escape_e0' /\ SetTo(c, FALSE)
          BY <1>0, <3>1, <3>2, BreakTaken
    <3>4. KeyboardTypes' /\ Agree({KEY_LCTRL} \ {c})'
          BY <2>0, <3>1, <3>3, NoModifiers, Settled
    <3>5. Agree({})' /\ wire' = <<197>>
          BY <3>1, <3>3, <3>4, NoModifiers DEF Agree, Passed
    <3>   QED BY <3>3, <3>4, <3>5 DEF Expected, PauseComing
  <2>6. PauseBytes = <<225, 29, 69, 225, 157, 197>>
        BY DEF PauseBytes, E1
  <2>7. \/ wire = PauseBytes \/ wire = <<29, 69, 225, 157, 197>>
        \/ wire = <<69, 225, 157, 197>> \/ wire = <<225, 157, 197>> \/ wire = <<157, 197>>
        BY <1>3, Zenon DEF PauseComing
  <2>   QED BY <2>1, <2>2, <2>3, <2>4, <2>5, <2>6, <2>7, Zenon
<1>4. wire = <<197>> => Agree({})
      BY DEF PauseComing, PauseBytes, E1
<1>   QED BY <1>2, <1>3, <1>4

\* Print screen: no modifier is touched.
LEMMA PrintTaken ==
    ASSUME KeyboardTypes, keyboard_callback, PrintComing
    PROVE  KeyboardTypes' /\ Expected'
<1>0. Agree({})
      BY DEF PrintComing
<1>1. CASE ~escape_e0
  <2>1. PICK rest \in {<<42, 224, 55>>, <<55>>, <<183, 224, 170>>, <<170>>} :
           Head(wire) = 224 /\ Tail(wire) = rest
    <3>1. /\ PrintBytes = <<224, 42, 224, 55>>
          /\ PrintUp = <<224, 183, 224, 170>>
          BY DEF PrintBytes, PrintUp
    <3>2. CASE wire = <<224, 42, 224, 55>>
          BY <3>2
    <3>3. CASE wire = <<224, 55>>
          BY <3>3
    <3>4. CASE wire = <<224, 183, 224, 170>>
          BY <3>4
    <3>5. CASE wire = <<224, 170>>
          BY <3>5
    <3>   QED BY <1>1, <3>1, <3>2, <3>3, <3>4, <3>5 DEF PrintComing
  <2>2. Passed(rest) /\ escape_e0' /\ state' = state
        BY <1>1, <2>1, PrefixTaken
  <2>3. KeyboardTypes' /\ Agree({})'
        BY <1>0, <2>2, Unsettled
  <2>   QED BY <2>1, <2>2, <2>3 DEF Expected, PrintComing, Passed
<1>2. CASE escape_e0
  <2>1. PICK c \in 1 .. 126, rest \in {<<>>, <<224, 55>>, <<224, 170>>} :
           /\ c \in {42, 55}
           /\ Head(wire) = c \/ Head(wire) = c + 128
           /\ Tail(wire) = rest
    <3>1. CASE wire = <<42, 224, 55>>
          BY <3>1
    <3>2. CASE wire = <<55>>
          BY <3>2
    <3>3. CASE wire = <<183, 224, 170>>
          BY <3>3
    <3>4. CASE wire = <<170>>
          BY <3>4
    <3>   QED BY <1>2, <3>1, <3>2, <3>3, <3>4 DEF PrintComing
  <2>2. PICK k : k = E0 + c
        OBVIOUS
  <2>3. k \notin Modifiers
        BY <2>1, <2>2, NoModifiers
  <2>4. /\ Head(wire) = c => Passed(Tail(wire)) /\ ~escape_e0' /\ SetTo(k, TRUE)
        /\ Head(wire) = c + 128 => Passed(Tail(wire)) /\ ~escape_e0' /\ SetTo(k, FALSE)
        BY <1>2, <2>2, <2>3, PrefixedTaken
  <2>5. Passed(rest) /\ ~escape_e0' /\ (SetTo(k, TRUE) \/ SetTo(k, FALSE))
        BY <2>1, <2>4
  <2>6. KeyboardTypes' /\ Agree({} \ {k})' /\ Agree({})' /\ wire' = rest
    <3>1. KeyboardTypes' /\ Agree({} \ {k})'
          BY <1>0, <2>3, <2>5, Settled
    <3>   QED BY <2>5, <3>1 DEF Agree, Passed
  <2>7. CASE rest = <<>>
        BY <2>5, <2>6, <2>7 DEF Expected, Quiet
  <2>8. CASE rest # <<>>
        BY <2>1, <2>5, <2>6, <2>8 DEF Expected, PrintComing
  <2>   QED BY <2>7, <2>8
<1>   QED BY <1>1, <1>2 DEF KeyboardTypes

\* Taking a byte keeps the invariant.
LEMMA CallbackInv == ASSUME KeyboardInv, keyboard_callback PROVE KeyboardInv'
<1>1. KeyboardTypes /\ Expected
      BY DEF KeyboardInv, keyboard_callback, KeyboardTypes
<1>2. CASE Quiet
      BY <1>2 DEF Quiet, keyboard_callback
<1>3. CASE KeyComing
      BY <1>1, <1>3, KeyTaken DEF KeyboardInv
<1>4. CASE PauseComing
      BY <1>1, <1>4, PauseTaken DEF KeyboardInv
<1>5. CASE PrintComing
      BY <1>1, <1>5, PrintTaken DEF KeyboardInv
<1>6. CASE FaultComing
  <2>1. Head(wire) \in {0, 255}
        BY <1>6 DEF FaultComing
  <2>2. error' = TRUE /\ UNCHANGED <<escape_e0, state, held>>
        BY <2>1 DEF keyboard_callback, handle_scancode
  <2>   QED BY <1>1, <2>2 DEF KeyboardInv, KeyboardTypes
<1>   QED BY <1>1, <1>2, <1>3, <1>4, <1>5, <1>6 DEF Expected

\* Between two keys the driver is up to date.
LEMMA EmptyQuiet == ASSUME Expected, wire = <<>> PROVE Quiet
<1>1. ~KeyComing
  <2>1. ASSUME NEW k \in Keys PROVE ~Coming(k, Make(k)) /\ ~Coming(k, Break(k))
    <3>1. CASE k \in 1 .. 95
      <4>1. Make(k) = <<k>> /\ Break(k) = <<k + 128>>
            BY <3>1, PlainCodes
      <4>2. ~(k >= E0)
            BY <3>1 DEF E0
      <4>   QED BY <4>1, <4>2 DEF Coming
    <3>2. CASE \E c \in 1 .. 95 : k = E0 + c
      <4>1. PICK c \in 1 .. 95 : k = E0 + c
            BY <3>2
      <4>2. Make(k) = <<224, c>> /\ Break(k) = <<224, c + 128>>
            BY <4>1, PrefixedCodes
      <4>   QED BY <4>2 DEF Coming
    <3>   QED BY <3>1, <3>2, LayoutAssumption
  <2>   QED BY <2>1 DEF KeyComing
<1>2. ~PauseComing /\ ~PrintComing /\ ~FaultComing
      BY DEF PauseComing, PrintComing, FaultComing, PauseBytes, PrintBytes, PrintUp
<1>   QED BY <1>1, <1>2 DEF Expected

\* What a key sends is one of what the invariant expects.
LEMMA DeviceInv == ASSUME KeyboardInv, Device PROVE KeyboardInv'
<1>1. /\ KeyboardTypes /\ wire = <<>> /\ ~error /\ error' = error
      /\ escape_e0' = escape_e0 /\ state' = state
      BY DEF KeyboardInv, KeyboardTypes, Device, Press, Release, Key, PrintScreen, Pause,
             Fault, Send, driverVars
<1>2. Quiet
      BY <1>1, EmptyQuiet DEF KeyboardInv
<1>3. ASSUME NEW m \in Modifiers \cap Keys, Press(m) PROVE KeyboardInv'
  <2>1. wire' = Make(m) /\ m \in Down' /\ \A n \in Modifiers \ {m} : n \in Down' <=> n \in Down
        BY <1>3 DEF Press, Send, Down
  <2>2. KeyboardTypes' /\ Agree({m})'
        BY <1>1, <1>2, <1>3, <2>1 DEF KeyboardTypes, Agree, Quiet, Press
  <2>3. Coming(m, Make(m))'
        BY <1>1, <1>2, <2>1 DEF Coming, Quiet
  <2>4. KeyComing'
        BY <2>1, <2>2, <2>3 DEF KeyComing
  <2>   QED BY <2>2, <2>4 DEF KeyboardInv, Expected
<1>4. ASSUME NEW m \in Modifiers \cap Keys, Release(m) PROVE KeyboardInv'
  <2>1. /\ wire' = Break(m) /\ m \notin Down'
        /\ \A n \in Modifiers \ {m} : n \in Down' <=> n \in Down
        BY <1>4 DEF Release, Send, Down
  <2>2. KeyboardTypes' /\ Agree({m})'
        BY <1>1, <1>2, <1>4, <2>1 DEF KeyboardTypes, Agree, Quiet, Release
  <2>3. Coming(m, Break(m))'
        BY <1>1, <1>2, <2>1 DEF Coming, Quiet
  <2>4. KeyComing'
        BY <2>1, <2>2, <2>3 DEF KeyComing
  <2>   QED BY <2>2, <2>4 DEF KeyboardInv, Expected
<1>5. ASSUME NEW k \in Keys \ Modifiers, Key(k) PROVE KeyboardInv'
  <2>1. held' = held /\ Down' = Down /\ (wire' = Make(k) \/ wire' = Break(k))
        BY <1>5 DEF Key, Send, Down
  <2>2. KeyboardTypes' /\ Agree({k})'
        BY <1>1, <1>2, <2>1 DEF KeyboardTypes, Agree, Quiet
  <2>3. Coming(k, Make(k))' \/ Coming(k, Break(k))'
        BY <1>1, <1>2, <2>1 DEF Coming, Quiet
  <2>4. KeyComing'
        BY <1>5, <2>2, <2>3 DEF KeyComing
  <2>   QED BY <2>2, <2>4 DEF KeyboardInv, Expected
<1>6. CASE PrintScreen
  <2>1. held' = held /\ Down' = Down /\ wire' \in {PrintBytes, PrintUp}
        BY <1>6 DEF PrintScreen, Send, Down
  <2>2. KeyboardTypes' /\ Agree({})'
        BY <1>1, <1>2, <2>1 DEF KeyboardTypes, Agree, Quiet
  <2>3. PrintComing'
        BY <1>1, <1>2, <2>1, <2>2 DEF PrintComing, Quiet
  <2>   QED BY <2>2, <2>3 DEF KeyboardInv, Expected
<1>7. CASE Pause
  <2>1. /\ held' = held /\ wire' = PauseBytes /\ KEY_LCTRL \notin Down'
        /\ \A n \in Modifiers \ {KEY_LCTRL} : n \in Down' <=> n \in Down
        BY <1>7 DEF Pause, Send, Down
  <2>2. KeyboardTypes' /\ Agree({KEY_LCTRL})'
        BY <1>1, <1>2, <2>1 DEF KeyboardTypes, Agree, Quiet
  <2>3. PauseComing'
        BY <1>1, <1>2, <2>1, <2>2 DEF PauseComing, Quiet
  <2>   QED BY <2>2, <2>3 DEF KeyboardInv, Expected
<1>8. CASE Fault
  <2>1. held' = held /\ wire' \in {<<0>>, <<255>>}
        BY <1>8 DEF Fault, Send
  <2>   QED BY <1>1, <2>1 DEF KeyboardInv, KeyboardTypes, Expected, FaultComing
<1>   QED BY <1>3, <1>4, <1>5, <1>6, <1>7, <1>8 DEF Device

\* The invariant holds of the keyboard and the shell together.
LEMMA KeyboardInvariant == Spec => []KeyboardInv
<1>1. ConsoleInit => KeyboardInv
      BY DEF ConsoleInit, KeyboardInit, KeyboardInv, KeyboardTypes, Expected, Quiet, Agree, Down
<1>2. ASSUME KeyboardInv, [Next]_vars PROVE KeyboardInv'
  <2>1. CASE Interrupt
        BY <1>2, <2>1, CallbackInv DEF Interrupt
  <2>2. CASE Device
        BY <1>2, <2>2, DeviceInv
  <2>3. CASE UNCHANGED vars
    <3>1. UNCHANGED <<escape_e0, state, error, held, wire, forgotten>>
          BY <2>3 DEF vars, keyboardVars
    <3>   QED BY <1>2, <3>1 DEF KeyboardInv, KeyboardTypes, Expected, Quiet, Agree, Down,
                 KeyComing, Coming, PauseComing, PrintComing, FaultComing
  <2>   QED BY <1>2, <2>1, <2>2, <2>3 DEF Next
<1>   QED BY <1>1, <1>2, PTL DEF Spec

\* The driver's idea of the modifiers (keyboard.c, set_key_state by way of
\* handle_scancode) is right whenever no byte is on its way: the prefix of a key
\* is never left over, a break code clears what its make code has set, and only
\* Pause, whose bytes are left ctrl's, makes it forget one.
THEOREM ModifiersFollowKeys == Spec => []ModifiersHeld
<1>1. ASSUME KeyboardInv, wire = <<>>, ~error PROVE Quiet
      BY <1>1, EmptyQuiet DEF KeyboardInv
<1>2. ASSUME KeyboardTypes, Quiet, NEW m \in Modifiers
      PROVE  state[m] = (m \in held \ forgotten)
  <2>1. state[m] \in BOOLEAN /\ (state[m] <=> m \in held \ forgotten)
        BY <1>2 DEF KeyboardTypes, Quiet, Agree, Down
  <2>2. CASE state[m]
    <3>1. state[m] = TRUE /\ (m \in held \ forgotten) = TRUE
          BY <2>1, <2>2, Zenon
    <3>   QED BY <3>1, Zenon
  <2>3. CASE ~state[m]
    <3>1. state[m] = FALSE
          BY <2>1, <2>3
    <3>2. (m \in held \ forgotten) = FALSE
          BY <2>1, <2>3
    <3>   QED BY <3>1, <3>2, Zenon
  <2>   QED BY <2>2, <2>3, Zenon
<1>3. KeyboardInv => ModifiersHeld
      BY <1>1, <1>2 DEF ModifiersHeld, Quiet, KeyboardInv
<1>   QED BY <1>3, KeyboardInvariant, PTL

-------------------------------------------------------------------------------
(* The line.  The buffer is a line of n characters, and zeros up to its end: no
   handler ever leaves a character behind a zero, and the last place keeps its
   zero, which shell_init has put there and nothing puts back. *)

Padded(b, n) ==
    /\ n \in Place /\ b \in [Place -> Chars \cup {Nul}]
    /\ \A i \in 0 .. n - 1 : b[i] \in Chars
    /\ \A i \in n .. max_input : b[i] = Nul

LineInv == \E n \in Place : Padded(input_buffer, n) /\ cursor \in 0 .. n

\* Where the string at i ends.
LEMMA CStringIs ==
    ASSUME NEW b, NEW i \in Place, NEW e \in Place, i <= e, b[e] = Nul,
           \A k \in i .. e - 1 : b[k] # Nul
    PROVE  CString(b, i) = [k \in 1 .. e - i |-> b[i + k - 1]]
<1>   DEFINE Ends(m) == m >= i /\ b[m] = Nul /\ \A k \in i .. m - 1 : b[k] # Nul
             end == CHOOSE m \in Place : Ends(m)
<1>0. max_input \in Nat
      BY ShellAssumption
<1>1. end \in Place /\ Ends(end)
      BY <1>0 DEF Place
<1>2. end = e
  <2>   HIDE DEF end
  <2>1. ~ end < e /\ ~ e < end
        BY <1>0, <1>1 DEF Place
  <2>   QED BY <1>0, <1>1, <2>1 DEF Place
<1>3. CString(b, i) = [k \in 1 .. end - i |-> b[i + k - 1]]
      BY DEF CString
<1>   HIDE DEF end
<1>   QED BY <1>2, <1>3

\* The text of a buffer is its characters up to the first zero.
LEMMA PaddedText ==
    ASSUME NEW b, NEW n, Padded(b, n)
    PROVE  /\ Length(b) = n /\ n \in Nat
           /\ Text(b) \in Seq(Chars) /\ Len(Text(b)) = n
           /\ \A k \in 1 .. n : Text(b)[k] = b[k - 1]
<1>0. max_input \in Nat /\ n \in 0 .. max_input /\ Nul \notin Chars
      BY ShellAssumption DEF Padded, Place
<1>1. /\ b[n] = Nul /\ \A i \in 0 .. n - 1 : b[i] # Nul
      /\ \A i \in 0 .. n - 1 : b[i] \in Chars
      BY <1>0 DEF Padded
<1>2. Length(b) = n
  <2>   DEFINE Ends(m) == b[m] = Nul /\ \A i \in 0 .. m - 1 : b[i] # Nul
               len == CHOOSE m \in Place : Ends(m)
  <2>1. len \in Place /\ Ends(len)
        BY <1>0, <1>1 DEF Place
  <2>2. Length(b) = len
        BY DEF Length
  <2>   HIDE DEF len
  <2>3. ~ len < n /\ ~ n < len
        BY <1>0, <1>1, <2>1 DEF Place
  <2>   QED BY <1>0, <2>1, <2>2, <2>3 DEF Place
<1>3. PICK z \in Place : z = 0
      BY <1>0 DEF Place
<1>4. CString(b, z) = [k \in 1 .. n - z |-> b[z + k - 1]]
      BY <1>0, <1>1, <1>3, CStringIs DEF Place
<1>5. Text(b) = [k \in 1 .. n |-> b[k - 1]]
      BY <1>0, <1>3, <1>4 DEF Text
<1>6. \A k \in 1 .. n : b[k - 1] \in Chars
      BY <1>0, <1>1
<1>   QED BY <1>0, <1>2, <1>5, <1>6

\* Two sequences of the same length and elements.
LEMMA SameElements ==
    ASSUME NEW S, NEW s \in Seq(S), NEW t \in Seq(S), Len(s) = Len(t),
           \A k \in 1 .. Len(s) : s[k] = t[k]
    PROVE  s = t
BY SeqEqual

\* What it means that r is s with x inserted at i.
IsInsertion(S, s, i, x, r) ==
    /\ r \in Seq(S) /\ Len(r) = Len(s) + 1
    /\ \A k \in 1 .. Len(s) + 1 : r[k] = IF k < i THEN s[k] ELSE IF k = i THEN x ELSE s[k - 1]

\* InsertAtProperties in these words.
LEMMA InsertAtInserts ==
    ASSUME NEW S, NEW s \in Seq(S), NEW i \in 1 .. Len(s) + 1, NEW x \in S
    PROVE  IsInsertion(S, s, i, x, InsertAt(s, i, x))
BY InsertAtProperties DEF IsInsertion

\* Shifting up from the cursor is inserting, and in a full line the last character
\* goes.
LEMMA InsertedText ==
    ASSUME NEW b, NEW n, Padded(b, n), NEW at \in 0 .. n, at < max_input, NEW c \in Chars
    PROVE  /\ Padded(Inserted(b, at, c), IF n < max_input THEN n + 1 ELSE n)
           /\ Text(Inserted(b, at, c)) =
                 SubSeq(InsertAt(Text(b), at + 1, c), 1,
                        IF n < max_input THEN n + 1 ELSE max_input)
<1>0. max_input \in Nat /\ n \in 0 .. max_input /\ b \in [Place -> Chars \cup {Nul}]
      BY ShellAssumption DEF Padded, Place
<1>   DEFINE d == Inserted(b, at, c)
             m == IF n < max_input THEN n + 1 ELSE n
<1>1. /\ d \in [Place -> Chars \cup {Nul}]
      /\ \A i \in Place : d[i] = IF i = at THEN c
                                 ELSE IF i \in at + 1 .. max_input - 1 THEN b[i - 1] ELSE b[i]
      BY <1>0 DEF Inserted, Place
<1>   HIDE DEF d
<1>2. Padded(d, m)
      BY <1>0, <1>1 DEF Padded, Place
<1>3. /\ Text(b) \in Seq(Chars) /\ Len(Text(b)) = n
      /\ \A k \in 1 .. n : Text(b)[k] = b[k - 1]
      BY PaddedText
<1>4. /\ Text(d) \in Seq(Chars) /\ Len(Text(d)) = m
      /\ \A k \in 1 .. m : Text(d)[k] = d[k - 1]
      BY <1>2, PaddedText
<1>5. PICK l \in Seq(Chars), i \in Nat :
              l = Text(b) /\ i = at + 1 /\ i \in 1 .. Len(l) + 1
      BY <1>0, <1>3
<1>6. PICK s : s = InsertAt(l, i, c)
      OBVIOUS
<1>7. /\ s \in Seq(Chars) /\ Len(s) = n + 1
      /\ \A k \in 1 .. n + 1 : s[k] = IF k < i THEN l[k] ELSE IF k = i THEN c ELSE l[k - 1]
  <2>1. l \in Seq(Chars) /\ i \in 1 .. Len(l) + 1 /\ c \in Chars
        BY <1>5
  <2>2. IsInsertion(Chars, l, i, c, s)
        BY <1>6, <2>1, InsertAtInserts, Zenon
  <2>   QED BY <1>3, <1>5, <2>2 DEF IsInsertion
<1>8. PICK u : u = SubSeq(s, 1, m)
      OBVIOUS
<1>9. u \in Seq(Chars) /\ Len(u) = m /\ \A k \in 1 .. m : u[k] = s[k]
      BY <1>0, <1>7, <1>8
<1>10. \A k \in 1 .. m : u[k] = Text(d)[k]
  <2>   TAKE k \in 1 .. m
  <2>1. u[k] = IF k < i THEN b[k - 1] ELSE IF k = i THEN c ELSE b[k - 2]
        BY <1>0, <1>3, <1>5, <1>7, <1>9
  <2>2. Text(d)[k] = IF k - 1 = at THEN c
                     ELSE IF k - 1 \in at + 1 .. max_input - 1 THEN b[k - 2] ELSE b[k - 1]
        BY <1>0, <1>1, <1>4 DEF Place
  <2>   QED BY <1>0, <1>5, <2>1, <2>2
<1>11. Text(d) = u
      BY <1>0, <1>4, <1>9, <1>10, SameElements
<1>12. m = IF n < max_input THEN n + 1 ELSE max_input
      BY <1>0
<1>   QED BY <1>2, <1>5, <1>6, <1>8, <1>11, <1>12 DEF d

\* Shifting down to the place before the cursor is removing.
LEMMA DeletedText ==
    ASSUME NEW b, NEW n, Padded(b, n), NEW at \in 1 .. n
    PROVE  Padded(Deleted(b, at), n - 1) /\ Text(Deleted(b, at)) = RemoveAt(Text(b), at)
<1>0. max_input \in Nat /\ n \in 0 .. max_input /\ b \in [Place -> Chars \cup {Nul}]
      BY ShellAssumption DEF Padded, Place
<1>   DEFINE d == Deleted(b, at)
<1>1. /\ d \in [Place -> Chars \cup {Nul}]
      /\ \A i \in Place : d[i] = IF i \in at - 1 .. max_input - 1 THEN b[i + 1] ELSE b[i]
      BY <1>0 DEF Deleted, Place
<1>   HIDE DEF d
<1>2. Padded(d, n - 1)
      BY <1>0, <1>1 DEF Padded, Place
<1>3. /\ Text(b) \in Seq(Chars) /\ Len(Text(b)) = n
      /\ \A k \in 1 .. n : Text(b)[k] = b[k - 1]
      BY PaddedText
<1>4. /\ Text(d) \in Seq(Chars) /\ Len(Text(d)) = n - 1
      /\ \A k \in 1 .. n - 1 : Text(d)[k] = d[k - 1]
      BY <1>2, PaddedText
<1>5. PICK l \in Seq(Chars), i \in Nat : l = Text(b) /\ i = at /\ i \in 1 .. Len(l)
      BY <1>0, <1>3
<1>6. PICK s : s = RemoveAt(l, i)
      OBVIOUS
<1>7. /\ s \in Seq(Chars) /\ Len(s) = n - 1
      /\ \A k \in 1 .. n - 1 : s[k] = IF k < i THEN l[k] ELSE l[k + 1]
      BY <1>3, <1>5, <1>6, RemoveAtProperties
<1>8. \A k \in 1 .. n - 1 : s[k] = Text(d)[k]
      BY <1>0, <1>1, <1>3, <1>4, <1>5, <1>7 DEF Place
<1>9. Text(d) = s
      BY <1>0, <1>4, <1>7, <1>8, SameElements
<1>   QED BY <1>2, <1>5, <1>6, <1>9 DEF d

-------------------------------------------------------------------------------
(* The words.  The first pass counts where words end, the second finds where they
   start; there are as many of the one as of the other. *)

\* What corresponds one to one is as many.
LEMMA OneToOne ==
    ASSUME NEW S, NEW T, IsFiniteSet(S), NEW f \in [S -> T],
           \A a, b \in S : f[a] = f[b] => a = b, \A t \in T : \E a \in S : f[a] = t
    PROVE  Cardinality(T) = Cardinality(S) /\ IsFiniteSet(T)
<1>1. f \in Bijection(S, T)
      BY Fun_IsBij
<1>2. ExistsBijection(S, T)
      BY <1>1, Fun_ExistsBij
<1>   QED BY <1>2, FS_Bijection

\* The set one below.
Lowered(S) == {i - 1 : i \in S}

\* It has as many elements.
LEMMA LoweredCount ==
    ASSUME NEW S \in SUBSET (Nat \ {0}), IsFiniteSet(S)
    PROVE  /\ Lowered(S) \in SUBSET Nat /\ IsFiniteSet(Lowered(S))
           /\ Cardinality(Lowered(S)) = Cardinality(S)
<1>   DEFINE T == Lowered(S)
             f == [i \in S |-> i - 1]
<1>1. /\ f \in [S -> T] /\ T \in SUBSET Nat
      /\ \A a, b \in S : f[a] = f[b] => a = b
      /\ \A t \in T : \E a \in S : f[a] = t
      BY DEF Lowered
<1>   HIDE DEF f, T
<1>2. Cardinality(T) = Cardinality(S) /\ IsFiniteSet(T)
      BY <1>1, OneToOne
<1>   QED BY <1>1, <1>2 DEF T

\* Its n-th is one below the n-th.
LEMMA LoweredNth ==
    ASSUME NEW S \in SUBSET (Nat \ {0}), IsFiniteSet(S), NEW n \in 1 .. Cardinality(S)
    PROVE  Nth(Lowered(S), n) = Nth(S, n) - 1
<1>1. Cardinality(S) \in Nat /\ S \in SUBSET Nat
      BY FS_CardinalityType
<1>2. PICK T : T = Lowered(S)
      OBVIOUS
<1>3. T \in SUBSET Nat /\ IsFiniteSet(T) /\ n \in 1 .. Cardinality(T)
      BY <1>2, LoweredCount
<1>4. PICK i \in S : i = Nth(S, n) /\ Cardinality({j \in S : j < i}) = n - 1
      BY <1>1, NthIs
<1>5. PICK k \in T : k = Nth(T, n) /\ Cardinality({j \in T : j < k}) = n - 1
      BY <1>3, NthIs
<1>6. PICK h \in T : h = i - 1
      BY <1>2 DEF Lowered
<1>7. Cardinality({j \in T : j < h}) = Cardinality({j \in S : j < i})
  <2>   DEFINE U == {j \in S : j < i}
  <2>1. U \in SUBSET (Nat \ {0}) /\ IsFiniteSet(U)
        BY FS_Subset
  <2>2. {j \in T : j < h} = Lowered(U)
        BY <1>2, <1>6 DEF Lowered
  <2>   HIDE DEF U
  <2>3. Cardinality(Lowered(U)) = Cardinality(U)
        BY <2>1, LoweredCount
  <2>   QED BY <2>2, <2>3 DEF U
<1>8. h = k
      BY <1>3, <1>4, <1>5, <1>7, NthOnly
<1>   QED BY <1>2, <1>4, <1>5, <1>6, <1>8

RunEnds(s, sep) == {j \in DOMAIN s : s[j] # sep /\ (j = Len(s) \/ s[j + 1] = sep)}

\* As many runs end as start.
LEMMA RunsCounted ==
    ASSUME NEW X, NEW s \in Seq(X), NEW sep
    PROVE  Cardinality(RunEnds(s, sep)) = Cardinality(RunStarts(s, sep))
<1>   DEFINE S == RunStarts(s, sep)
             T == RunEnds(s, sep)
             f == [i \in S |-> RunEnd(s, sep, i)]
<1>1. PICK n \in Nat : n = Len(s) /\ DOMAIN s = 1 .. n
      OBVIOUS
<1>2. IsFiniteSet(S) /\ S \subseteq 1 .. n
      BY <1>1, RunStartsIs
<1>3. \A i \in S : /\ f[i] \in i .. n
                   /\ \A k \in i .. f[i] : s[k] # sep
                   /\ f[i] = n \/ s[f[i] + 1] = sep
  <2>   TAKE i \in S
  <2>1. PICK e : e = RunEnd(s, sep, i)
        OBVIOUS
  <2>2. /\ e \in i .. n /\ \A k \in i .. e : s[k] # sep
        /\ e = n \/ s[e + 1] = sep
        BY <1>1, <2>1, RunEndIs
  <2>   QED BY <2>1, <2>2
<1>4. \A i \in S : s[i] # sep /\ (i = 1 \/ s[i - 1] = sep)
      BY DEF RunStarts
<1>   HIDE DEF f
<1>5. f \in [S -> T]
  <2>1. \A i \in S : f[i] \in T
        BY <1>1, <1>2, <1>3 DEF RunEnds
  <2>   QED BY <2>1 DEF f
<1>6. ASSUME NEW a \in S, NEW b \in S, f[a] = f[b] PROVE a = b
  <2>1. PICK e \in Nat : /\ e = f[a] /\ a \in 1 .. e /\ b \in 1 .. e
                         /\ \A k \in a .. e : s[k] # sep
                         /\ \A k \in b .. e : s[k] # sep
        BY <1>2, <1>3, <1>6
  <2>2. ~ a < b
        BY <1>4, <2>1
  <2>3. ~ b < a
        BY <1>4, <2>1
  <2>   QED BY <2>1, <2>2, <2>3
<1>7. ASSUME NEW t \in T PROVE \E a \in S : f[a] = t
  <2>1. t \in 1 .. n /\ s[t] # sep /\ (t = n \/ s[t + 1] = sep)
        BY <1>1 DEF RunEnds
  <2>   DEFINE D == {d \in 0 .. t - 1 : t - d = 1 \/ s[t - d - 1] = sep}
  <2>2. D \in SUBSET Nat /\ t - 1 \in D
        BY <2>1
  <2>3. PICK d \in D : \A g \in D : d <= g
    <3>   HIDE DEF D
    <3>   QED BY <2>2, LeastNat
  <2>4. d \in 0 .. t - 1 /\ (t - d = 1 \/ s[t - d - 1] = sep)
        OBVIOUS
  <2>5. ASSUME NEW g \in 0 .. d PROVE s[t - g] # sep
    <3>1. CASE g = 0
          BY <2>1, <3>1
    <3>2. CASE g > 0
      <4>1. g - 1 \in 0 .. t - 1 /\ g - 1 < d /\ t - (g - 1) - 1 = t - g
            BY <2>1, <2>4, <3>2
      <4>2. g - 1 \notin D
            BY <2>3, <2>4, <4>1
      <4>   QED BY <4>1, <4>2
    <3>   QED BY <3>1, <3>2
  <2>   HIDE DEF D
  <2>6. PICK a \in 1 .. t : a = t - d
        BY <2>1, <2>4
  <2>7. \A k \in a .. t : s[k] # sep
    <3>   TAKE k \in a .. t
    <3>1. t - k \in 0 .. d /\ t - (t - k) = k
          BY <2>1, <2>4, <2>6
    <3>   QED BY <2>5, <3>1
  <2>8. a \in S
        BY <1>1, <2>1, <2>4, <2>6, <2>7 DEF RunStarts
  <2>9. t = RunEnd(s, sep, a)
    <3>1. t \in a .. Len(s) /\ (t = Len(s) \/ s[t + 1] = sep)
          BY <1>1, <2>1, <2>6
    <3>   QED BY <2>7, <2>8, <3>1, RunEndOnly
  <2>   QED BY <2>8, <2>9 DEF f
<1>   HIDE DEF S, T
<1>8. Cardinality(T) = Cardinality(S)
      BY <1>2, <1>5, <1>6, <1>7, OneToOne
<1>   QED BY <1>8 DEF S, T

\* The blanks that the first pass turns into zeros are those behind a word, so
\* that it counts the ends of words.
LEMMA EndsAre ==
    ASSUME NEW b, NEW n \in Nat, Padded(b, n)
    PROVE  /\ WordEnds(b) = RunEnds(Text(b), Space) \ {n}
           /\ argc(b) = Cardinality(RunStarts(Text(b), Space))
<1>0. PICK l : l = Text(b)
      OBVIOUS
<1>   DEFINE ends == RunEnds(l, Space)
<1>1. /\ Length(b) = n /\ n \in Nat /\ l \in Seq(Chars) /\ Len(l) = n
      /\ DOMAIN l = 1 .. n /\ \A k \in 1 .. n : l[k] = b[k - 1]
      BY <1>0, PaddedText
<1>2. WordEnds(b) = ends \ {n}
  <2>1. ASSUME NEW i \in 1 .. n - 1
        PROVE  (b[i] = Space /\ b[i - 1] # Space) <=> (l[i] # Space /\ l[i + 1] = Space)
    <3>1. i \in 1 .. n /\ i + 1 \in 1 .. n /\ (i + 1) - 1 = i
          BY <1>1
    <3>2. l[i] = b[i - 1] /\ l[i + 1] = b[i]
          BY <1>1, <3>1
    <3>   QED BY <3>2
  <2>2. ends \ {n} = {i \in 1 .. n - 1 : l[i] # Space /\ l[i + 1] = Space}
        BY <1>1 DEF RunEnds
  <2>   QED BY <1>1, <2>1, <2>2 DEF WordEnds
<1>3. IsFiniteSet(ends) /\ Cardinality(ends) \in Nat
  <2>1. ends \subseteq 1 .. n /\ IsFiniteSet(1 .. n)
        BY <1>1, FS_Interval DEF RunEnds
  <2>   QED BY <2>1, FS_Subset, FS_CardinalityType
<1>4. n \in ends <=> n > 0 /\ b[n - 1] # Space
  <2>1. n > 0 => l[n] = b[n - 1]
        BY <1>1
  <2>   QED BY <1>1, <2>1 DEF RunEnds
<1>5. argc(b) = Cardinality(ends)
  <2>   HIDE DEF ends
  <2>1. CASE n \in ends
    <3>1. Cardinality(ends \ {n}) = Cardinality(ends) - 1
          BY <1>3, <2>1, FS_RemoveElement
    <3>2. argc(b) = Cardinality(WordEnds(b)) + 1
          BY <1>1, <1>4, <2>1 DEF argc
    <3>   QED BY <1>2, <1>3, <3>1, <3>2
  <2>2. CASE n \notin ends
    <3>1. ends \ {n} = ends
          BY <2>2
    <3>2. argc(b) = Cardinality(WordEnds(b)) + 0
          BY <1>1, <1>4, <2>2 DEF argc
    <3>   QED BY <1>2, <1>3, <3>1, <3>2
  <2>   QED BY <2>1, <2>2
<1>6. Cardinality(ends) = Cardinality(RunStarts(l, Space))
      BY <1>1, RunsCounted
<1>   QED BY <1>0, <1>2, <1>5, <1>6

\* Over what the first pass leaves, the second finds where the words start.
LEMMA StartsAre ==
    ASSUME NEW b, NEW n \in Nat, Padded(b, n)
    PROVE  /\ WordStarts(b) = Lowered(RunStarts(Text(b), Space))
           /\ \A i \in 0 .. n - 1 : Blank(Split(b)[i]) <=> b[i] = Space
           /\ \A i \in 0 .. n : Split(b)[i] = IF i \in WordEnds(b) THEN Nul ELSE b[i]
<1>0. PICK l : l = Text(b)
      OBVIOUS
<1>   DEFINE S == RunStarts(l, Space)
<1>1. /\ Length(b) = n /\ n \in Nat /\ l \in Seq(Chars) /\ Len(l) = n
      /\ DOMAIN l = 1 .. n /\ \A k \in 1 .. n : l[k] = b[k - 1]
      BY <1>0, PaddedText
<1>2. /\ n \in 0 .. max_input /\ max_input \in Nat /\ Nul \notin Chars
      /\ \A i \in 0 .. n - 1 : b[i] \in Chars /\ b[i] # Nul
      BY ShellAssumption DEF Padded, Place
<1>3. \A i \in Place : Split(b)[i] = IF i \in WordEnds(b) THEN Nul ELSE b[i]
      BY DEF Split
<1>4. ASSUME NEW i \in 0 .. n - 1 PROVE Blank(Split(b)[i]) <=> b[i] = Space
  <2>1. i \in Place
        BY <1>2 DEF Place
  <2>2. CASE i \in WordEnds(b)
    <3>1. Split(b)[i] = Nul /\ b[i] = Space
          BY <1>3, <2>1, <2>2 DEF WordEnds
    <3>   QED BY <3>1 DEF Blank
  <2>3. CASE i \notin WordEnds(b)
    <3>1. Split(b)[i] = b[i] /\ b[i] # Nul
          BY <1>2, <1>3, <2>1, <2>3
    <3>   QED BY <3>1 DEF Blank
  <2>   QED BY <2>2, <2>3
<1>5. WordStarts(b) = {i \in 0 .. n - 1 : b[i] # Space /\ (i = 0 \/ b[i - 1] = Space)}
  <2>1. ASSUME NEW i \in 0 .. n - 1
        PROVE  (~Blank(Split(b)[i]) /\ (i = 0 \/ Blank(Split(b)[i - 1])))
                  <=> (b[i] # Space /\ (i = 0 \/ b[i - 1] = Space))
    <3>1. i # 0 => i - 1 \in 0 .. n - 1
          BY <1>1
    <3>   QED BY <1>4, <3>1
  <2>   QED BY <1>1, <2>1 DEF WordStarts
<1>6. S = {i \in 1 .. n : b[i - 1] # Space /\ (i = 1 \/ b[i - 2] = Space)}
  <2>1. ASSUME NEW i \in 1 .. n
        PROVE  /\ l[i] = b[i - 1]
               /\ i # 1 => l[i - 1] = b[i - 2]
    <3>1. i # 1 => i - 1 \in 1 .. n /\ (i - 1) - 1 = i - 2
          BY <1>1
    <3>   QED BY <1>1, <3>1
  <2>   QED BY <1>1, <2>1 DEF RunStarts
<1>   HIDE DEF S
<1>7. WordStarts(b) = Lowered(S)
  <2>1. ASSUME NEW i \in WordStarts(b) PROVE i \in Lowered(S)
    <3>1. i \in 0 .. n - 1 /\ b[i] # Space /\ (i = 0 \/ b[i - 1] = Space)
          BY <1>5
    <3>2. PICK j \in 1 .. n : j = i + 1 /\ j - 1 = i /\ (i # 0 => j - 2 = i - 1)
          BY <1>1, <3>1
    <3>3. j \in S
          BY <1>6, <3>1, <3>2
    <3>   QED BY <3>2, <3>3 DEF Lowered
  <2>2. ASSUME NEW i \in Lowered(S) PROVE i \in WordStarts(b)
    <3>1. PICK j \in S : i = j - 1
          BY DEF Lowered
    <3>2. j \in 1 .. n /\ b[j - 1] # Space /\ (j = 1 \/ b[j - 2] = Space)
          BY <1>6
    <3>3. i \in 0 .. n - 1 /\ (j # 1 => j - 2 = i - 1) /\ (j = 1 => i = 0)
          BY <1>1, <3>1, <3>2
    <3>   QED BY <1>5, <3>1, <3>2, <3>3
  <2>   QED BY <2>1, <2>2
<1>8. \A i \in 0 .. n : i \in Place
      BY <1>2 DEF Place
<1>   QED BY <1>0, <1>3, <1>4, <1>7, <1>8 DEF S

\* The command gets the words of the line.
LEMMA WordsAre ==
    ASSUME NEW b, NEW n \in Nat, Padded(b, n)
    PROVE  argv(b) = Runs(Text(b), Space)
<1>0. PICK l : l = Text(b)
      OBVIOUS
<1>   DEFINE S == RunStarts(l, Space)
<1>1. /\ Length(b) = n /\ n \in Nat /\ l \in Seq(Chars) /\ Len(l) = n
      /\ DOMAIN l = 1 .. n /\ \A k \in 1 .. n : l[k] = b[k - 1]
      BY <1>0, PaddedText
<1>2. /\ n \in 0 .. max_input /\ max_input \in Nat /\ Nul \notin Chars
      /\ \A i \in 0 .. n - 1 : b[i] # Nul
      /\ b[n] = Nul
      BY ShellAssumption DEF Padded, Place
<1>3. /\ argc(b) = Cardinality(S) /\ WordStarts(b) = Lowered(S)
      /\ WordEnds(b) = RunEnds(l, Space) \ {n}
      /\ \A i \in 0 .. n : Split(b)[i] = IF i \in WordEnds(b) THEN Nul ELSE b[i]
      BY <1>0, EndsAre, StartsAre
<1>4. S \subseteq 1 .. n /\ IsFiniteSet(S) /\ S \in SUBSET Nat
      BY <1>1, RunStartsIs
<1>5. ASSUME NEW m \in 1 .. Cardinality(S)
      PROVE  CString(Split(b), Nth(WordStarts(b), m)) =
                SubSeq(l, Nth(S, m), RunEnd(l, Space, Nth(S, m)))
  <2>1. PICK i \in S : i = Nth(S, m)
    <3>   HIDE DEF S
    <3>   QED BY <1>4, NthIs
  <2>2. Nth(WordStarts(b), m) = i - 1
    <3>1. S \in SUBSET (Nat \ {0})
          BY <1>4
    <3>   HIDE DEF S
    <3>   QED BY <1>3, <1>4, <2>1, <3>1, LoweredNth
  <2>3. PICK e : e = RunEnd(l, Space, i)
        OBVIOUS
  <2>4. /\ e \in i .. n /\ \A k \in i .. e : l[k] # Space
        /\ e = n \/ l[e + 1] = Space
        BY <1>1, <2>3, RunEndIs
  <2>5. i \in 1 .. n /\ e \in 1 .. n
        BY <1>4, <2>4
  <2>6. Split(b)[e] = Nul
    <3>1. CASE e = n
      <4>1. e \notin WordEnds(b)
            BY <1>3, <3>1
      <4>   QED BY <1>2, <1>3, <3>1, <4>1
    <3>2. CASE e # n
      <4>1. e \in WordEnds(b)
            BY <1>1, <1>3, <2>4, <2>5, <3>2 DEF RunEnds
      <4>   QED BY <1>3, <2>5, <4>1
    <3>   QED BY <3>1, <3>2
  <2>7. ASSUME NEW k \in i - 1 .. e - 1 PROVE Split(b)[k] = l[k + 1] /\ Split(b)[k] # Nul
    <3>1. k \in 0 .. n - 1 /\ k + 1 \in i .. e /\ k + 1 \in 1 .. n /\ (k + 1) - 1 = k
          BY <2>4, <2>5
    <3>2. l[k + 1] = b[k] /\ b[k] # Space
          BY <1>1, <2>4, <3>1
    <3>3. k \notin WordEnds(b)
          BY <3>2 DEF WordEnds
    <3>4. Split(b)[k] = b[k]
          BY <1>3, <3>1, <3>3
    <3>   QED BY <1>2, <3>1, <3>2, <3>4
  <2>a. PICK d : d = Split(b)
        OBVIOUS
  <2>8. PICK j \in Place : j = i - 1 /\ d = Split(b) /\ e \in Place /\ j <= e
        BY <1>2, <2>4, <2>5, <2>a DEF Place
  <2>9. d[e] = Nul /\ \A k \in j .. e - 1 : d[k] # Nul
        BY <2>6, <2>7, <2>8
  <2>10. CString(d, j) = [k \in 1 .. e - j |-> d[j + k - 1]]
    <3>1. e \in Place /\ j <= e
          BY <2>8
    <3>   QED BY <2>9, <3>1, CStringIs
  <2>11. SubSeq(l, i, e) = [k \in 1 .. e - j |-> l[i + k - 1]]
        BY <1>1, <2>5, <2>8
  <2>12. ASSUME NEW k \in 1 .. e - j PROVE d[j + k - 1] = l[i + k - 1]
    <3>1. j + k - 1 \in i - 1 .. e - 1 /\ (j + k - 1) + 1 = i + k - 1
          BY <2>5, <2>8
    <3>   QED BY <2>7, <2>8, <3>1
  <2>13. CString(d, j) = SubSeq(l, i, e)
        BY <2>10, <2>11, <2>12
  <2>   QED BY <2>1, <2>2, <2>3, <2>8, <2>13
<1>   QED BY <1>0, <1>3, <1>5 DEF argv, Runs

-------------------------------------------------------------------------------
(* The shell implements the editor.  Moving the cursor past either end of the line
   and typing behind its last place are the editor's stutters. *)

LineKept == UNCHANGED <<input_buffer, cursor, words>>

\* The editor's variables.
EditorVars == <<Text(input_buffer), cursor, words>>

\* The editor splits a line as the shell's module does.
LEMMA WordsSame == \A l : Editor!Words(l) = Runs(l, Space)
<1>1. \A s, x : Editor!RunStarts(s, x) = RunStarts(s, x)
      BY DEF Editor!RunStarts, RunStarts
<1>2. \A s, x, i : Editor!RunEnd(s, x, i) = RunEnd(s, x, i)
      BY DEF Editor!RunEnd, RunEnd
<1>0. \A S : Editor!Cardinality(S) = Cardinality(S)
      BY DEF Editor!Cardinality, Cardinality
<1>3. \A S, n : Editor!Nth(S, n) = Nth(S, n)
      BY <1>0 DEF Editor!Nth, Nth
<1>4. \A s, x : Editor!Runs(s, x) = Runs(s, x)
      BY <1>0, <1>1, <1>2, <1>3 DEF Editor!Runs, Runs
<1>   QED BY <1>4 DEF Editor!Words

\* The editor inserts as the shell's module does.
LEMMA InsertingSame == \A l, i, c : Editor!InsertAt(l, i, c) = InsertAt(l, i, c)
BY DEF Editor!InsertAt, InsertAt

\* And removes.
LEMMA RemovingSame == \A l, i : Editor!RemoveAt(l, i) = RemoveAt(l, i)
BY DEF Editor!RemoveAt, RemoveAt

EditorStep == [Editor!Next]_EditorVars

\* Nothing of the line changes.
LEMMA LineStutters ==
    ASSUME LineInv, LineKept
    PROVE  LineInv' /\ EditorStep
BY DEF LineInv, LineKept, EditorStep, EditorVars, Padded, Place

\* A character is inserted; behind the last place of a full line it is not part of it.
LEMMA TypingEdits ==
    ASSUME LineInv, NEW c \in Chars, char_callback(c)
    PROVE  LineInv' /\ EditorStep
<1>1. CASE cursor < max_input
  <2>0. max_input \in Nat
        BY ShellAssumption
  <2>1. PICK n \in Place : Padded(input_buffer, n) /\ cursor \in 0 .. n
        BY DEF LineInv
  <2>a. PICK at \in 0 .. n : at = cursor /\ at < max_input
        BY <1>1, <2>1
  <2>2. PICK b, l : b = input_buffer /\ l = Text(b) /\ at = cursor /\ at < max_input
        BY <2>a
  <2>3. PICK d, m : d = Inserted(b, at, c) /\ m = IF n < max_input THEN n + 1 ELSE n
        OBVIOUS
  <2>4. Padded(b, n)
        BY <2>1, <2>2
  <2>5. /\ Padded(d, m)
        /\ Text(d) = SubSeq(InsertAt(l, at + 1, c), 1,
                            IF n < max_input THEN n + 1 ELSE max_input)
        BY <2>2, <2>3, <2>4, InsertedText
  <2>6. Len(l) = n /\ n \in Nat
        BY <2>2, <2>4, PaddedText
  <2>7. /\ input_buffer' = d /\ words' = words
        /\ cursor' = IF at + 1 >= max_input THEN max_input - 1 ELSE at + 1
        BY <1>1, <2>2, <2>3 DEF char_callback, Render
  <2>8. LineInv'
    <3>1. m \in Place /\ cursor' \in 0 .. m
          BY <2>0, <2>2, <2>3, <2>6, <2>7 DEF Place
    <3>   QED BY <2>5, <2>7, <3>1 DEF LineInv, Padded, Place
  <2>9. cursor' = IF at + 1 < max_input THEN at + 1 ELSE max_input - 1
        BY <2>0, <2>2, <2>6, <2>7
  <2>10. Editor!Insert(c)
        BY <1>1, <2>2, <2>5, <2>6, <2>7, <2>9, InsertingSame DEF Editor!Insert
  <2>   QED BY <2>8, <2>10 DEF EditorStep, Editor!Next
<1>2. CASE ~ cursor < max_input
      BY <1>2, LineStutters DEF char_callback, LineKept
<1>   QED BY <1>1, <1>2

\* The cursor moves within the line.
LEMMA MovingEdits ==
    ASSUME LineInv, KEY_LEFT \/ KEY_RIGHT
    PROVE  LineInv' /\ EditorStep
<1>1. PICK n \in Place : Padded(input_buffer, n) /\ cursor \in 0 .. n
      BY DEF LineInv
<1>2. /\ Length(input_buffer) = n /\ n \in Nat /\ Len(Text(input_buffer)) = n
      BY <1>1, PaddedText
<1>3. input_buffer' = input_buffer /\ words' = words
      BY DEF KEY_LEFT, KEY_RIGHT, MoveTo
<1>4. ASSUME cursor' \in 0 .. n PROVE LineInv'
      BY <1>1, <1>3, <1>4 DEF LineInv, Padded, Place
<1>5. CASE KEY_LEFT
  <2>1. cursor' = IF cursor > 0 THEN cursor - 1 ELSE 0
        BY <1>5 DEF KEY_LEFT, MoveTo
  <2>2. CASE cursor > 0
    <3>1. cursor' = cursor - 1
          BY <2>1, <2>2
    <3>2. Text(input_buffer)' = Text(input_buffer)
          BY <1>3
    <3>3. Editor!Left
          BY <1>3, <2>2, <3>1, <3>2 DEF Editor!Left
    <3>   QED BY <1>1, <1>2, <1>4, <2>2, <3>1, <3>3 DEF EditorStep, Editor!Next
  <2>3. CASE ~ cursor > 0
    <3>1. LineKept
          BY <1>1, <1>2, <1>3, <2>1, <2>3 DEF LineKept
    <3>   QED BY <3>1, LineStutters
  <2>   QED BY <2>2, <2>3
<1>6. CASE KEY_RIGHT
  <2>1. cursor' = IF cursor < n THEN cursor + 1 ELSE n
        BY <1>2, <1>6 DEF KEY_RIGHT, MoveTo
  <2>2. CASE cursor < n
    <3>1. cursor' = cursor + 1
          BY <2>1, <2>2
    <3>2. Text(input_buffer)' = Text(input_buffer)
          BY <1>3
    <3>3. Editor!Right
          BY <1>2, <1>3, <2>2, <3>1, <3>2 DEF Editor!Right
    <3>   QED BY <1>1, <1>2, <1>4, <2>2, <3>1, <3>3 DEF EditorStep, Editor!Next
  <2>3. CASE ~ cursor < n
    <3>1. LineKept
          BY <1>1, <1>2, <1>3, <2>1, <2>3 DEF LineKept
    <3>   QED BY <3>1, LineStutters
  <2>   QED BY <2>2, <2>3
<1>   QED BY <1>5, <1>6

\* The character before the cursor goes.
LEMMA RemovingEdits ==
    ASSUME LineInv, KEY_BACKSPACE
    PROVE  LineInv' /\ EditorStep
<1>1. PICK n \in Place : Padded(input_buffer, n) /\ cursor \in 0 .. n
      BY DEF LineInv
<1>2. max_input \in Nat /\ n \in Nat /\ n \in 0 .. max_input
      BY <1>1, ShellAssumption DEF Place
<1>3. CASE cursor = 0
      BY <1>3, LineStutters DEF KEY_BACKSPACE, LineKept, shellVars
<1>4. CASE cursor # 0
  <2>1. PICK at \in 1 .. n : at = cursor
        BY <1>1, <1>2, <1>4
  <2>2. PICK b, d, l : b = input_buffer /\ d = Deleted(b, at) /\ l = Text(b)
        OBVIOUS
  <2>3. Padded(d, n - 1) /\ Text(d) = RemoveAt(l, at)
        BY <1>1, <2>2, DeletedText
  <2>4. input_buffer' = d /\ cursor' = at - 1 /\ words' = words
        BY <1>4, <2>1, <2>2 DEF KEY_BACKSPACE, Render
  <2>5. LineInv'
    <3>1. n - 1 \in Place /\ cursor' \in 0 .. n - 1
          BY <1>2, <2>1, <2>4 DEF Place
    <3>   QED BY <2>3, <2>4, <3>1 DEF LineInv, Padded, Place
  <2>6. Editor!Backspace
        BY <1>2, <2>1, <2>2, <2>3, <2>4, RemovingSame DEF Editor!Backspace
  <2>   QED BY <2>5, <2>6 DEF EditorStep, Editor!Next
<1>   QED BY <1>3, <1>4

\* A buffer of zeros is the empty line.
LEMMA ZerosAre ==
    ASSUME NEW b, b = [i \in Place |-> Nul]
    PROVE  Padded(b, 0) /\ Text(b) = <<>>
<1>1. PICK n \in Nat : n = 0
      OBVIOUS
<1>2. Padded(b, n)
      BY <1>1, ShellAssumption DEF Padded, Place
<1>3. Text(b) \in Seq(Chars) /\ Len(Text(b)) = n
      BY <1>2, PaddedText
<1>   QED BY <1>1, <1>2, <1>3

\* Enter empties the line and hands its words to the command, whatever that is.
LEMMA EnteringEdits ==
    ASSUME LineInv, KEY_ENTER
    PROVE  LineInv' /\ EditorStep
<1>1. PICK n \in Place : Padded(input_buffer, n) /\ cursor \in 0 .. n
      BY DEF LineInv
<1>2. max_input \in Nat /\ n \in Nat
      BY <1>1, ShellAssumption DEF Place
<1>3. words' = Runs(Text(input_buffer), Space)
  <2>1. argv(input_buffer) = Runs(Text(input_buffer), Space)
        BY <1>1, <1>2, WordsAre
  <2>   QED BY <2>1 DEF KEY_ENTER, run_command
<1>4. PICK s : shell_start(s)
      BY DEF KEY_ENTER, run_command
<1>5. input_buffer' = [i \in Place |-> Nul] /\ cursor' = 0
  <2>1. input_buffer[max_input] = Nul
        BY <1>1, <1>2 DEF Padded, Place
  <2>   QED BY <1>2, <1>4, <2>1 DEF shell_start, Place
<1>6. Padded(input_buffer', 0) /\ Text(input_buffer') = <<>>
      BY <1>5, ZerosAre
<1>7. LineInv'
      BY <1>2, <1>5, <1>6 DEF LineInv, Padded, Place
<1>8. Editor!Enter
      BY <1>3, <1>5, <1>6, WordsSame DEF Editor!Enter
<1>   QED BY <1>7, <1>8 DEF EditorStep, Editor!Next

\* The layout sends characters.
LEMMA SentChars ==
    ASSUME NEW b, CharSent(b) # NoChar
    PROVE  CharSent(b) \in Chars
<1>1. PICK k : k = KeySent(b)
      OBVIOUS
<1>2. k \in DOMAIN Table /\ CharSent(b) = Table[k]
      BY <1>1 DEF CharSent
<1>3. Table \in {Plain, Shifted, <<>>}
      BY DEF Table
<1>   QED BY <1>2, <1>3, ConsoleAssumption

\* No key with a character is one that keydown_callback acts on.
LEMMA CharsFirst ==
    ASSUME NEW b, CharSent(b) # NoChar, send_keydown(b)
    PROVE  char_callback(CharSent(b))
<1>1. KeySent(b) \in DOMAIN Table /\ Table \in {Plain, Shifted, <<>>}
      BY DEF CharSent, Table
<1>2. KeySent(b) \notin CommandKeys
      BY <1>1, ConsoleAssumption DEF CommandKeys, KEY_BACKSPACE_CODE, KEY_ENTER_CODE,
         KEY_LEFT_CODE, KEY_RIGHT_CODE, E0
<1>3. /\ KeySent(b) # KEY_LEFT_CODE /\ KeySent(b) # KEY_RIGHT_CODE
      /\ KeySent(b) # KEY_BACKSPACE_CODE /\ KeySent(b) # KEY_ENTER_CODE
      BY <1>2, Zenon DEF CommandKeys
<1>   QED BY <1>3, Zenon DEF send_keydown

\* Whatever the keyboard sends, the line is edited or stays.
LEMMA ShellStep ==
    ASSUME LineInv, [Next]_vars
    PROVE  LineInv' /\ EditorStep
<1>1. ASSUME UNCHANGED shellVars PROVE LineInv' /\ EditorStep
      BY <1>1, LineStutters DEF shellVars, LineKept
<1>2. CASE Interrupt
  <2>1. PICK b : send_keydown(b)
        BY <1>2 DEF Interrupt
  <2>2. CASE CharSent(b) # NoChar
    <3>1. PICK c \in Chars : c = CharSent(b)
          BY <2>2, SentChars
    <3>2. char_callback(c)
          BY <2>1, <2>2, <3>1, CharsFirst
    <3>   QED BY <3>2, TypingEdits
  <2>3. CASE CharSent(b) = NoChar
    <3>1. \/ KEY_LEFT \/ KEY_RIGHT
          \/ KEY_BACKSPACE \/ KEY_ENTER
          \/ UNCHANGED shellVars
          BY <2>1, <2>3 DEF send_keydown
    <3>   QED BY <1>1, <3>1, MovingEdits, RemovingEdits, EnteringEdits
  <2>   QED BY <2>2, <2>3
<1>3. CASE Device /\ UNCHANGED shellVars
      BY <1>1, <1>3
<1>4. CASE UNCHANGED vars
      BY <1>1, <1>4 DEF vars
<1>   QED BY <1>2, <1>3, <1>4 DEF Next

\* shell_init begins with an empty line.
LEMMA ShellInit == ASSUME Init PROVE LineInv /\ Editor!Init
<1>1. input_buffer = [i \in Place |-> Nul] /\ cursor = 0 /\ words = <<>>
      BY DEF Init
<1>2. Padded(input_buffer, 0) /\ Text(input_buffer) = <<>>
      BY <1>1, ZerosAre
<1>   QED BY <1>1, <1>2, ShellAssumption DEF LineInv, Editor!Init, Padded, Place

\* The buffer is always a line and zeros, with the cursor in it or behind it.
LEMMA LineInvariant == Spec => []LineInv
<1>1. ConsoleInit => LineInv
      BY ShellInit DEF ConsoleInit
<1>2. LineInv /\ [Next]_vars => LineInv'
      BY ShellStep
<1>   QED BY <1>1, <1>2, PTL DEF Spec

(* The kernel's shell implements the line editor: what char_callback and
   keydown_callback do to the 128 bytes of input_buffer, with loops that shift
   characters and zeros, and what parse_command makes of them in two passes, is
   inserting, removing, moving and splitting into words, for every line, limit,
   layout and sequence of keys. *)
THEOREM ShellIsEditor == Spec => EditsLine
<1>1. ConsoleInit => Editor!Init
      BY ShellInit DEF ConsoleInit
<1>2. LineInv /\ [Next]_vars => [Editor!Next]_Editor!vars
      BY ShellStep DEF EditorStep, EditorVars, Editor!vars
<1>   QED BY <1>1, <1>2, LineInvariant, PTL DEF Spec, EditsLine, Editor!Spec

-------------------------------------------------------------------------------
(* Writing on the screen.  The cursor may stand behind the end of a row, where the
   shell puts it for a long line, but a character is only written within one. *)

Screens == [x : 0 .. Byte - 1, y : 0 .. Height - 1, cells : [0 .. Size - 1 -> Glyphs]]

Ready(s) == s \in Screens /\ s.x < Width

\* Places on the screen by their rows.
LEMMA Rows ==
    /\ Width \in Nat \ {0} /\ Height \in Nat \ {0} /\ Byte \in Nat
    /\ Height <= Width /\ Width < Byte /\ Size \in Nat
    /\ \A y \in Nat, x \in 0 .. Width - 1 :
          /\ y * Width + x \in Nat
          /\ y < Height <=> y * Width + x < Size
          /\ x + 1 = Width => y * Width + x + 1 = (y + 1) * Width + 0
<1>1. /\ Width \in Nat \ {0} /\ Height \in Nat \ {0} /\ Byte \in Nat
      /\ Height <= Width /\ Width < Byte
      BY ScreenAssumption
<1>2. PICK S : S = Size /\ S = Width * Height
      BY DEF Size
<1>3. S \in Nat
      BY <1>1, <1>2, Products
<1>4. ASSUME NEW y \in Nat, NEW x \in 0 .. Width - 1
      PROVE  /\ y * Width + x \in Nat
             /\ y < Height <=> y * Width + x < S
             /\ x + 1 = Width => y * Width + x + 1 = (y + 1) * Width + 0
  <2>1. PICK p : p = y * Width /\ p = Width * y
        BY <1>1
  <2>2. p \in Nat /\ (y + 1) * Width = p + Width /\ Width * (y + 1) = p + Width /\ y + 1 \in Nat
        BY <1>1, <2>1, Products
  <2>3. ASSUME y < Height PROVE p + x < S
    <3>1. Width * (y + 1) <= Width * Height
          BY <1>1, <2>2, <2>3, Multiples
    <3>   QED BY <1>1, <1>2, <1>3, <2>2, <3>1
  <2>4. ASSUME ~ y < Height PROVE ~ p + x < S
    <3>1. Width * Height <= Width * y
          BY <1>1, <2>4, Multiples
    <3>   QED BY <1>1, <1>2, <1>3, <2>1, <2>2, <3>1
  <2>   QED BY <1>1, <2>1, <2>2, <2>3, <2>4
<1>   QED BY <1>1, <1>2, <1>3, <1>4

\* After the end of a row comes the next, or the same after a scroll.
LEMMA NextLineIs ==
    ASSUME NEW s \in Screens
    PROVE  /\ Ready(NextLine(s)) /\ NextLine(s).x = 0
           /\ s.y + 1 < Height => NextLine(s).y = s.y + 1 /\ NextLine(s).cells = s.cells
<1>1. /\ Width \in Nat \ {0} /\ Height \in Nat \ {0} /\ Byte \in Nat
      /\ Height <= Width /\ Width < Byte /\ Size \in Nat
      BY Rows
<1>2. PICK y \in 0 .. Height - 1 : y = s.y
      BY DEF Screens
<1>3. (y + 1) % Byte = y + 1
      BY <1>1
<1>4. PICK t : t = [s EXCEPT !.x = 0, !.y = (@ + 1) % Byte]
      OBVIOUS
<1>5. /\ t = [x |-> 0, y |-> y + 1, cells |-> s.cells]
      /\ s.cells \in [0 .. Size - 1 -> Glyphs]
      BY <1>2, <1>3, <1>4 DEF Screens
<1>6. NextLine(s) = IF y + 1 >= Height THEN vga_scroll(t, 1) ELSE t
  <2>1. NextLine(s) = IF t.y >= Height THEN vga_scroll(t, 1) ELSE t
        BY <1>4 DEF NextLine
  <2>   QED BY <1>5, <2>1
<1>7. CASE y + 1 >= Height
  <2>1. y + 1 = Height /\ ((y + 1) - 1) % Byte = Height - 1
        BY <1>1, <1>2, <1>7
  <2>2. PICK w \in Nat : w = 1 * Width
        BY <1>1
  <2>3. PICK cells : cells = [p \in DOMAIN t.cells |->
                                IF p + w < Size THEN t.cells[p + w] ELSE Space]
        OBVIOUS
  <2>4. vga_scroll(t, 1) = [t EXCEPT !.y = (@ - 1) % Byte, !.cells = cells]
        BY <2>2, <2>3 DEF vga_scroll
  <2>5. vga_scroll(t, 1) = [x |-> 0, y |-> Height - 1, cells |-> cells]
        BY <1>5, <2>1, <2>4
  <2>6. cells \in [0 .. Size - 1 -> Glyphs]
    <3>1. Space \in Glyphs
          BY ScreenAssumption
    <3>2. t.cells \in [0 .. Size - 1 -> Glyphs]
          BY <1>5
    <3>3. PICK old : old = t.cells
          OBVIOUS
    <3>4. /\ old \in [0 .. Size - 1 -> Glyphs] /\ DOMAIN old = 0 .. Size - 1
          /\ cells = [p \in DOMAIN old |-> IF p + w < Size THEN old[p + w] ELSE Space]
          BY <2>3, <3>2, <3>3
    <3>5. \A p \in 0 .. Size - 1 : p + w < Size => p + w \in 0 .. Size - 1
          BY <1>1, <2>2
    <3>6. \A p \in 0 .. Size - 1 : (IF p + w < Size THEN old[p + w] ELSE Space) \in Glyphs
          BY <3>1, <3>4, <3>5
    <3>7. cells = [p \in 0 .. Size - 1 |-> IF p + w < Size THEN old[p + w] ELSE Space]
          BY <3>4
    <3>   QED BY <3>6, <3>7
  <2>7. PICK r : r = NextLine(s)
        OBVIOUS
  <2>8. r = [x |-> 0, y |-> Height - 1, cells |-> cells]
        BY <1>6, <1>7, <2>5, <2>7
  <2>9. r \in Screens /\ r.x = 0
        BY <1>1, <2>6, <2>8 DEF Screens
  <2>10. ~ s.y + 1 < Height
        BY <1>1, <1>2, <2>1
  <2>   QED BY <1>1, <2>7, <2>9, <2>10 DEF Ready
<1>8. CASE ~ y + 1 >= Height
  <2>1. NextLine(s) = t
        BY <1>6, <1>8
  <2>   QED BY <1>1, <1>2, <1>5, <1>8, <2>1 DEF Screens, Ready
<1>   QED BY <1>7, <1>8

\* A character goes to the place of the cursor, and the cursor to the next, unless
\* the screen ends there and scrolls.
LEMMA CharWritten ==
    ASSUME NEW s, Ready(s), NEW c \in Glyphs \cup {NewLine}
    PROVE  /\ Ready(vga_writeChar(s, c))
           /\ c # NewLine /\ Shown(s) + 1 < Size =>
                 /\ Shown(vga_writeChar(s, c)) = Shown(s) + 1
                 /\ vga_writeChar(s, c).cells = [s.cells EXCEPT ![Shown(s)] = c]
<1>1. /\ Width \in Nat \ {0} /\ Height \in Nat \ {0} /\ Byte \in Nat
      /\ Height <= Width /\ Width < Byte /\ Size \in Nat
      BY Rows
<1>2. PICK x \in 0 .. Width - 1, y \in 0 .. Height - 1 : x = s.x /\ y = s.y
      BY <1>1 DEF Ready, Screens
<1>3. PICK p \in 0 .. Size - 1 : p = Shown(s) /\ p = y * Width + x
  <2>0. y \in Nat /\ y < Height /\ x \in 0 .. Width - 1
        BY <1>1
  <2>1. y * Width + x \in Nat /\ y * Width + x < Size
        BY <2>0, Rows
  <2>   QED BY <1>1, <1>2, <2>1 DEF Shown
<1>4. PICK cells : cells = IF c = NewLine THEN s.cells ELSE [s.cells EXCEPT ![p] = c]
      OBVIOUS
<1>5. cells \in [0 .. Size - 1 -> Glyphs]
      BY <1>3, <1>4 DEF Ready, Screens
<1>6. PICK t : t = [(IF c = NewLine THEN s ELSE vga_setChar(s, c)) EXCEPT !.x = (@ + 1) % Byte]
      OBVIOUS
<1>7. t = [x |-> x + 1, y |-> y, cells |-> cells] /\ t \in Screens
  <2>1. (x + 1) % Byte = x + 1 /\ x + 1 \in 0 .. Byte - 1
        BY <1>1, <1>2
  <2>2. s = [x |-> x, y |-> y, cells |-> s.cells]
        BY <1>2 DEF Ready, Screens
  <2>3. c # NewLine => vga_setChar(s, c) = [s EXCEPT !.cells = cells]
    <3>1. ~ (s.x >= Width \/ s.y >= Height)
          BY <1>1, <1>2
    <3>   QED BY <1>3, <1>4, <3>1 DEF vga_setChar
  <2>4. t = [x |-> x + 1, y |-> y, cells |-> cells]
        BY <1>4, <1>6, <2>1, <2>2, <2>3
  <2>   QED BY <1>2, <1>5, <2>1, <2>4 DEF Screens
<1>8. vga_writeChar(s, c) = IF x + 1 >= Width \/ c = NewLine THEN NextLine(t) ELSE t
  <2>1. vga_writeChar(s, c) = IF t.x >= Width \/ c = NewLine THEN NextLine(t) ELSE t
        BY <1>6 DEF vga_writeChar
  <2>   QED BY <1>7, <2>1
<1>9. Ready(vga_writeChar(s, c))
      BY <1>1, <1>2, <1>7, <1>8, NextLineIs DEF Ready
<1>10. ASSUME c # NewLine, Shown(s) + 1 < Size
       PROVE  /\ Shown(vga_writeChar(s, c)) = Shown(s) + 1
              /\ vga_writeChar(s, c).cells = [s.cells EXCEPT ![Shown(s)] = c]
  <2>1. CASE x + 1 < Width
    <3>1. vga_writeChar(s, c) = t
          BY <1>1, <1>2, <1>8, <1>10, <2>1
    <3>2. t.x = x + 1 /\ t.y = y /\ t.cells = cells
          BY <1>7
    <3>3. y * Width + (x + 1) = p + 1
      <4>1. PICK q \in Nat : q = y * Width
            BY <1>1, <1>2, Products
      <4>   QED BY <1>2, <1>3, <4>1
    <3>   QED BY <1>3, <1>4, <1>10, <3>1, <3>2, <3>3 DEF Shown
  <2>2. CASE ~ x + 1 < Width
    <3>1. x + 1 = Width /\ vga_writeChar(s, c) = NextLine(t)
          BY <1>1, <1>2, <1>8, <2>2
    <3>2. p + 1 = (y + 1) * Width + 0
      <4>1. y * Width + x + 1 = (y + 1) * Width + 0
            BY <1>1, <1>2, <3>1, Rows
      <4>   QED BY <1>3, <4>1
    <3>3. y + 1 < Height
      <4>1. PICK z \in Nat, o \in 0 .. Width - 1 : z = y + 1 /\ o = 0
            BY <1>1, <1>2
      <4>2. z * Width + o < Size
            BY <1>3, <1>10, <3>2, <4>1
      <4>   QED BY <4>1, <4>2, Rows
    <3>4. t.y = y /\ t.cells = cells
          BY <1>7
    <3>5. NextLine(t).x = 0 /\ NextLine(t).y = y + 1 /\ NextLine(t).cells = cells
          BY <1>7, <3>3, <3>4, NextLineIs
    <3>   QED BY <1>3, <1>4, <1>10, <3>1, <3>2, <3>5 DEF Shown
  <2>   QED BY <2>1, <2>2
<1>   QED BY <1>9, <1>10

\* A new line brings the cursor back into a row, wherever it was.
LEMMA NewLineWritten ==
    ASSUME NEW s \in Screens
    PROVE  Ready(vga_writeChar(s, NewLine))
<1>1. PICK t : t = [s EXCEPT !.x = (@ + 1) % Byte]
      OBVIOUS
<1>2. t \in Screens
  <2>1. Byte \in Nat \ {0}
        BY Rows
  <2>2. (s.x + 1) % Byte \in 0 .. Byte - 1
        BY <2>1 DEF Screens
  <2>   QED BY <1>1, <2>2 DEF Screens
<1>3. vga_writeChar(s, NewLine) = NextLine(t)
      BY <1>1 DEF vga_writeChar
<1>   QED BY <1>2, <1>3, NextLineIs

\* vga_writeText writes one character after the other.
LEMMA WritingIs ==
    ASSUME NEW s, Ready(s), NEW text \in Seq(Glyphs \cup {NewLine})
    PROVE  \E t : /\ t[0] = s /\ vga_writeText(s, text) = t[Len(text)]
                  /\ \A k \in 1 .. Len(text) : t[k] = vga_writeChar(t[k - 1], text[k])
                  /\ \A k \in 0 .. Len(text) : Ready(t[k])
<1>1. PICK n \in Nat : n = Len(text)
      OBVIOUS
<1>   DEFINE X == {q \in Screens : Ready(q)}
             R == [k \in 1 .. n |-> [q \in X |-> vga_writeChar(q, text[k])]]
             Is(t) == t = [k \in 0 .. n |->
                              IF k = 0 THEN s ELSE vga_writeChar(t[k - 1], text[k])]
<1>2. \A k \in 1 .. n : text[k] \in Glyphs \cup {NewLine}
      BY <1>1
<1>3. s \in X /\ \A q \in X : \A k \in 1 .. n : vga_writeChar(q, text[k]) \in X
      BY <1>2, CharWritten DEF Ready
<1>4. R \in [1 .. n -> [X -> X]]
      BY <1>3
<1>5. \E t : Is(t)
  <2>1. PICK t \in [0 .. n -> X] : t[0] = s /\ \A k \in 1 .. n : t[k] = R[k][t[k - 1]]
    <3>   HIDE DEF R, X
    <3>1. Computes(X, n, s, R)
          BY <1>3, <1>4, Recursion
    <3>   QED BY <3>1 DEF Computes
  <2>   HIDE DEF X
  <2>2. ASSUME NEW k \in 1 .. n
        PROVE  t[k] = vga_writeChar(t[k - 1], text[k])
    <3>1. t[k - 1] \in X
          OBVIOUS
    <3>   QED BY <2>1, <3>1
  <2>3. t = [k \in 0 .. n |-> t[k]]
        OBVIOUS
  <2>4. \A k \in 0 .. n : k = 0 \/ k \in 1 .. n
        OBVIOUS
  <2>5. \A k \in 0 .. n : t[k] = IF k = 0 THEN s ELSE vga_writeChar(t[k - 1], text[k])
        BY <2>1, <2>2, <2>4
  <2>   QED BY <2>3, <2>5, Zenon
<1>6. PICK t : vga_writeText(s, text) = t[n] /\ Is(t)
  <2>   DEFINE u == CHOOSE t : Is(t)
  <2>1. vga_writeText(s, text) = u[n]
        BY <1>1 DEF vga_writeText
  <2>2. Is(u)
        BY <1>5
  <2>   QED BY <2>1, <2>2
<1>7. t[0] = s /\ \A k \in 1 .. n : t[k] = vga_writeChar(t[k - 1], text[k])
  <2>1. \A k \in 0 .. n : t[k] = IF k = 0 THEN s ELSE vga_writeChar(t[k - 1], text[k])
        BY <1>6, Zenon
  <2>2. \A k \in 1 .. n : k \in 0 .. n /\ k # 0
        OBVIOUS
  <2>3. 0 \in 0 .. n
        OBVIOUS
  <2>   QED BY <2>1, <2>2, <2>3
<1>8. \A k \in 0 .. n : t[k] \in X
  <2>   DEFINE P == {k \in Nat : t[k] \in X}
  <2>1. 0 \in P
        BY <1>3, <1>7
  <2>2. \A k \in 1 .. n : k - 1 \in P => k \in P
    <3>   HIDE DEF X
    <3>   QED BY <1>3, <1>7
  <2>3. \A k \in 0 .. n : k \in P
    <3>   HIDE DEF P
    <3>   QED BY <2>1, <2>2, Upward
  <2>   QED BY <2>3
<1>   HIDE DEF Is
<1>   QED BY <1>1, <1>6, <1>7, <1>8

\* A text without line ends that does not reach the end of the screen is shown as
\* it is, also over the end of a row.
LEMMA TextWritten ==
    ASSUME NEW s, Ready(s), NEW text \in Seq(Glyphs \cup {NewLine})
    PROVE  /\ Ready(vga_writeText(s, text))
           /\ (\A i \in 1 .. Len(text) : text[i] # NewLine) /\ Shown(s) + Len(text) < Size =>
                 \A i \in 1 .. Len(text) :
                    vga_writeText(s, text).cells[Shown(s) + i - 1] = text[i]
<1>1. PICK n \in Nat : n = Len(text) /\ \A k \in 1 .. n : text[k] \in Glyphs \cup {NewLine}
      OBVIOUS
<1>2. PICK t : /\ t[0] = s /\ vga_writeText(s, text) = t[n]
               /\ \A k \in 1 .. n : t[k] = vga_writeChar(t[k - 1], text[k])
               /\ \A k \in 0 .. n : Ready(t[k])
  <2>1. PICK t : /\ t[0] = s /\ vga_writeText(s, text) = t[Len(text)]
                 /\ \A k \in 1 .. Len(text) : t[k] = vga_writeChar(t[k - 1], text[k])
                 /\ \A k \in 0 .. Len(text) : Ready(t[k])
        BY WritingIs
  <2>   QED BY <1>1, <2>1
<1>3. Size \in Nat /\ Shown(s) \in Nat
  <2>1. PICK x \in 0 .. Width - 1, y \in 0 .. Height - 1 : x = s.x /\ y = s.y
        BY Rows DEF Ready, Screens
  <2>2. y \in Nat
        BY Rows
  <2>   QED BY <2>1, <2>2, Rows DEF Shown
<1>4. PICK p \in Nat : p = Shown(s)
      BY <1>3
<1>5. ASSUME \A i \in 1 .. n : text[i] # NewLine, p + n < Size
      PROVE  \A i \in 1 .. n : t[n].cells[p + i - 1] = text[i]
  <2>   DEFINE P == {k \in Nat : k <= n => /\ Shown(t[k]) = p + k
                                           /\ \A i \in 1 .. k : t[k].cells[p + i - 1] = text[i]}
  <2>1. 0 \in P
        BY <1>2, <1>4
  <2>2. ASSUME NEW k \in 1 .. n, k - 1 \in P PROVE k \in P
    <3>1. PICK q, c, r : q = t[k - 1] /\ c = text[k] /\ r = t[k]
          OBVIOUS
    <3>2. /\ Ready(q) /\ c \in Glyphs \cup {NewLine} /\ c # NewLine /\ r = vga_writeChar(q, c)
          /\ Shown(q) = p + k - 1 /\ Shown(q) + 1 < Size
          /\ \A i \in 1 .. k - 1 : q.cells[p + i - 1] = text[i]
          BY <1>1, <1>2, <1>3, <1>5, <2>2, <3>1
    <3>3. Shown(r) = p + k /\ r.cells = [q.cells EXCEPT ![p + k - 1] = c]
          BY <3>2, CharWritten
    <3>4. q.cells \in [0 .. Size - 1 -> Glyphs] /\ p + k - 1 \in 0 .. Size - 1
          BY <1>3, <3>2 DEF Ready, Screens
    <3>5. ASSUME NEW i \in 1 .. k PROVE r.cells[p + i - 1] = text[i]
      <4>1. PICK j \in 0 .. Size - 1 : j = p + i - 1
            BY <1>3, <1>5, <3>4
      <4>2. PICK old, h : old = q.cells /\ h = p + k - 1
            OBVIOUS
      <4>3. /\ old \in [0 .. Size - 1 -> Glyphs] /\ h \in 0 .. Size - 1
            /\ r.cells = [old EXCEPT ![h] = c]
            BY <3>3, <3>4, <4>2
      <4>4. r.cells[j] = IF j = h THEN c ELSE old[j]
            BY <4>3
      <4>5. CASE i = k
            BY <3>1, <4>1, <4>2, <4>4, <4>5
      <4>6. CASE i # k
        <5>1. i \in 1 .. k - 1 /\ j # h
              BY <4>1, <4>2, <4>6
        <5>   QED BY <3>2, <4>1, <4>2, <4>4, <5>1
      <4>   QED BY <4>5, <4>6
    <3>6. Shown(t[k]) = p + k /\ \A i \in 1 .. k : t[k].cells[p + i - 1] = text[i]
          BY <3>1, <3>3, <3>5
    <3>   QED BY <3>6
  <2>3. \A k \in 0 .. n : k \in P
    <3>   HIDE DEF P
    <3>   QED BY <2>1, <2>2, Upward
  <2>4. n \in P
        BY <2>3
  <2>   QED BY <2>4
<1>   QED BY <1>1, <1>2, <1>4, <1>5

-------------------------------------------------------------------------------
(* What the screen shows.  Every handler that leaves the line as it is leaves the
   cells, and the one that changes it writes all of it again. *)

ScreenInv ==
    screen \in Screens /\ input_x \in 0 .. Width - 1 /\ input_y \in 0 .. Height - 1

\* The cursor can be put on any row.
LEMMA CursorSet ==
    ASSUME NEW s \in Screens, NEW x \in 0 .. Byte - 1, NEW y \in 0 .. Height - 1
    PROVE  /\ vga_setCursor(s, x, y) \in Screens
           /\ vga_setCursor(s, x, y).x = x /\ vga_setCursor(s, x, y).y = y
           /\ vga_setCursor(s, x, y).cells = s.cells
<1>1. x % Byte = x /\ y % Byte = y
      BY Rows
<1>2. vga_setCursor(s, x, y) = [s EXCEPT !.x = x, !.y = y]
      BY <1>1 DEF vga_setCursor
<1>   QED BY <1>2 DEF Screens

\* Writing the line again shows it, with the cursor in its place.
LEMMA RenderIs ==
    ASSUME NEW old \in Screens, NEW x \in 0 .. Width - 1, NEW y \in 0 .. Height - 1,
           NEW b, NEW n \in Nat, Padded(b, n), NEW at \in 0 .. n
    PROVE  \E r \in Screens :
              /\ r = render_input(old, b, at, x, y)
              /\ Shown(r) = y * Width + x + at
              /\ ~ Scrolls(b, x, y) =>
                    /\ \A i \in 1 .. n : r.cells[y * Width + x + i - 1] = Text(b)[i]
                    /\ r.cells[y * Width + x + n] = Space
<1>1. /\ max_input \in Nat /\ n \in 0 .. max_input
      /\ max_input + Width < Byte /\ Chars \subseteq Glyphs
      BY ShellAssumption DEF Padded, Place
<1>2. PICK l \in Seq(Chars) :
              l = Text(b) /\ Len(l) = n
      BY PaddedText
<1>3. PICK text : text = Append(l, Space) /\ text = shell_text(b)
      BY <1>2 DEF shell_text
<1>4. /\ text \in Seq(Glyphs \cup {NewLine}) /\ Len(text) = n + 1
      /\ text[n + 1] = Space /\ \A i \in 1 .. n : text[i] = l[i]
      /\ \A i \in 1 .. n + 1 : text[i] # NewLine
  <2>1. Space \in Glyphs /\ NewLine \notin Glyphs
        BY ScreenAssumption
  <2>2. l \in Seq(Glyphs)
        BY <1>1
  <2>3. PICK m \in Seq(Glyphs), c \in Glyphs : m = l /\ c = Space
        BY <2>1, <2>2
  <2>4. text = Append(m, c) /\ Len(m) = n
        BY <1>2, <1>3, <2>3
  <2>5. /\ text \in Seq(Glyphs) /\ Len(text) = n + 1
        /\ text[n + 1] = c /\ \A i \in 1 .. n : text[i] = m[i]
        BY ONLY <2>4, n \in Nat, m \in Seq(Glyphs), c \in Glyphs
  <2>6. \A i \in 1 .. n + 1 : text[i] \in Glyphs
        BY <2>5
  <2>7. text \in Seq(Glyphs \cup {NewLine})
        BY <2>5
  <2>   QED BY <2>1, <2>3, <2>5, <2>6, <2>7
<1>5. /\ Width \in Nat \ {0} /\ Height \in Nat \ {0} /\ Byte \in Nat
      /\ Height <= Width /\ Width < Byte /\ Size \in Nat
      BY Rows
<1>6. PICK s : /\ s = vga_setCursor(old, x, y) /\ Ready(s) /\ s.x = x /\ s.y = y
      BY <1>5, CursorSet DEF Ready
<1>7. PICK p \in Nat : p = Shown(s) /\ p = y * Width + x
  <2>1. y \in Nat
        BY <1>5
  <2>   QED BY <1>6, <2>1, Rows DEF Shown
<1>8. PICK t : /\ t = vga_writeText(s, text) /\ Ready(t)
               /\ p + (n + 1) < Size => \A i \in 1 .. n + 1 : t.cells[p + i - 1] = text[i]
  <2>1. PICK t : t = vga_writeText(s, text)
        OBVIOUS
  <2>2. /\ Ready(t)
        /\ (\A i \in 1 .. Len(text) : text[i] # NewLine) /\ Shown(s) + Len(text) < Size =>
              \A i \in 1 .. Len(text) : t.cells[Shown(s) + i - 1] = text[i]
        BY <1>4, <1>6, <2>1, TextWritten
  <2>   QED BY <1>4, <1>7, <2>1, <2>2
<1>9. x + at \in 0 .. Byte - 1
      BY <1>1, <1>5
<1>10. PICK r : r = render_input(old, b, at, x, y)
       OBVIOUS
<1>11. /\ r \in Screens /\ r.x = x + at /\ r.y = y
       /\ r.cells = t.cells
  <2>1. r = vga_setCursor(t, x + at, y)
        BY <1>3, <1>6, <1>8, <1>10 DEF render_input
  <2>2. PICK z \in 0 .. Byte - 1 : z = x + at
        BY <1>9
  <2>   QED BY <1>8, <2>1, <2>2, CursorSet DEF Ready
<1>12. ASSUME ~ Scrolls(b, x, y) PROVE p + (n + 1) < Size
  <2>1. ~ y * Width + x + Len(text) >= Size
        BY <1>3, <1>12 DEF Scrolls
  <2>   QED BY <1>4, <1>5, <1>7, <2>1
<1>13. Shown(r) = p + at
  <2>1. PICK q \in Nat : q = y * Width
        BY <1>5, Products
  <2>   QED BY <1>7, <1>11, <2>1 DEF Shown
<1>14. ASSUME ~ Scrolls(b, x, y)
       PROVE  /\ \A i \in 1 .. n : r.cells[p + i - 1] = l[i]
              /\ r.cells[p + n] = Space
  <2>1. \A i \in 1 .. n + 1 : r.cells[p + i - 1] = text[i]
        BY <1>8, <1>11, <1>12, <1>14
  <2>2. \A i \in 1 .. n : i \in 1 .. n + 1
        OBVIOUS
  <2>3. n + 1 \in 1 .. n + 1 /\ p + (n + 1) - 1 = p + n
        OBVIOUS
  <2>   QED BY <1>4, <2>1, <2>2, <2>3
<1>   QED BY <1>2, <1>7, <1>10, <1>11, <1>13, <1>14

\* So does a handler that renders.
LEMMA RenderShows ==
    ASSUME ScreenInv, LineInv', NEW b, NEW at, Render(b, at)
    PROVE  ScreenInv' /\ LineShown'
<1>1. /\ input_buffer' = b /\ cursor' = at /\ input_x' = input_x /\ input_y' = input_y
      /\ status' = status /\ moved' = (moved \/ Scrolls(b, input_x, input_y))
      /\ screen' = render_input(screen, b, at, input_x, input_y)
      BY DEF Render
<1>2. PICK x \in 0 .. Width - 1, y \in 0 .. Height - 1 : x = input_x /\ y = input_y
      BY DEF ScreenInv
<1>3. PICK n \in Nat : Padded(b, n) /\ at \in 0 .. n
  <2>1. PICK n \in Place : Padded(b, n) /\ at \in 0 .. n
        BY <1>1 DEF LineInv, Padded, Place
  <2>   QED BY <2>1, PaddedText
<1>4. PICK r \in Screens :
              /\ r = render_input(screen, b, at, x, y)
              /\ Shown(r) = y * Width + x + at
              /\ ~ Scrolls(b, x, y) =>
                    /\ \A i \in 1 .. n : r.cells[y * Width + x + i - 1] = Text(b)[i]
                    /\ r.cells[y * Width + x + n] = Space
      BY <1>2, <1>3, RenderIs DEF ScreenInv
<1>5. screen' = r /\ Shown(screen') = Shown(r)
      BY <1>1, <1>2, <1>4
<1>6. ScreenInv'
      BY <1>1, <1>4, <1>5 DEF ScreenInv
<1>7. Text(input_buffer') = Text(b) /\ Len(Text(b)) = n
      BY <1>1, <1>3, PaddedText
<1>8. ~ moved' => ~ Scrolls(b, x, y)
      BY <1>1, <1>2
<1>9. LineShown'
      BY <1>1, <1>2, <1>4, <1>5, <1>7, <1>8 DEF LineShown
<1>   QED BY <1>6, <1>9

\* Moving the cursor within the line leaves what is shown.
LEMMA MoveShows ==
    ASSUME ScreenInv, LineShown, LineInv', NEW at, MoveTo(at)
    PROVE  ScreenInv' /\ LineShown'
<1>1. /\ input_buffer' = input_buffer /\ cursor' = at /\ input_x' = input_x
      /\ input_y' = input_y /\ status' = status /\ moved' = moved
      /\ screen' = vga_setCursor(screen, input_x + at, input_y)
      BY DEF MoveTo
<1>2. PICK x \in 0 .. Width - 1, y \in 0 .. Height - 1 : x = input_x /\ y = input_y
      BY DEF ScreenInv
<1>3. /\ Width \in Nat \ {0} /\ Height \in Nat \ {0} /\ Byte \in Nat
      /\ Width < Byte /\ max_input \in Nat /\ max_input + Width < Byte
      BY Rows, ShellAssumption
<1>4. PICK n \in Place : Padded(input_buffer, n) /\ at \in 0 .. n
      BY <1>1 DEF LineInv, Padded, Place
<1>5. PICK z \in 0 .. Byte - 1 : z = x + at
      BY <1>3, <1>4 DEF Place
<1>6. /\ screen' \in Screens /\ screen'.x = z /\ screen'.y = y
      /\ screen'.cells = screen.cells
      BY <1>1, <1>2, <1>5, CursorSet DEF ScreenInv
<1>7. ScreenInv'
      BY <1>1, <1>6 DEF ScreenInv
<1>8. Shown(screen') = y * Width + x + at
  <2>1. PICK q \in Nat : q = y * Width
        BY <1>3, Products
  <2>   QED BY <1>4, <1>5, <1>6, <2>1 DEF Shown, Place
<1>9. Text(input_buffer') = Text(input_buffer)
      BY <1>1
<1>10. LineShown'
      BY <1>1, <1>2, <1>6, <1>8, <1>9 DEF LineShown
<1>   QED BY <1>7, <1>10

\* A new line starts where the prompt ends.
LEMMA StartShows ==
    ASSUME LineInv, NEW s, Ready(s), shell_start(s)
    PROVE  ScreenInv' /\ LineShown'
<1>1. PICK t : t = vga_writeText(s, Prompt) /\ Ready(t)
  <2>1. Prompt \in Seq(Glyphs \cup {NewLine})
        BY ShellAssumption
  <2>   QED BY <2>1, TextWritten
<1>2. screen' = t /\ input_x' = t.x /\ input_y' = t.y /\ cursor' = 0
      BY <1>1 DEF shell_start
<1>3. Text(input_buffer') = <<>>
  <2>1. PICK n \in Place : Padded(input_buffer, n)
        BY DEF LineInv
  <2>2. input_buffer' = [i \in Place |-> Nul]
        BY <2>1, ShellAssumption DEF shell_start, Padded, Place
  <2>   QED BY <2>2, ZerosAre
<1>4. ScreenInv'
  <2>1. t.x \in 0 .. Byte - 1 /\ t.y \in 0 .. Height - 1 /\ t.x < Width
        BY <1>1 DEF Ready, Screens
  <2>   QED BY <1>1, <1>2, <2>1, Rows DEF ScreenInv, Ready
<1>5. LineShown'
  <2>1. PICK x \in Nat, y \in Nat : x = t.x /\ y = t.y
        BY <1>1, Rows DEF Ready, Screens
  <2>2. PICK q \in Nat : q = y * Width
        BY <2>1, Rows, Products
  <2>3. Shown(screen') = q + x /\ input_y' * Width + input_x' = q + x /\ (q + x) + 0 = q + x
        BY <1>2, <2>1, <2>2 DEF Shown
  <2>4. Len(<<>>) = 0
        OBVIOUS
  <2>   QED BY <1>2, <1>3, <2>3, <2>4 DEF LineShown
<1>   QED BY <1>4, <1>5

\* The parts of a line are lines.
LEMMA RunsTyped ==
    ASSUME NEW X, NEW l \in Seq(X), NEW sep, Runs(l, sep) # <<>>
    PROVE  Runs(l, sep)[1] \in Seq(X)
<1>   DEFINE S == RunStarts(l, sep)
<1>1. S \subseteq 1 .. Len(l) /\ S \in SUBSET Nat /\ IsFiniteSet(S) /\ Cardinality(S) \in Nat
      BY RunStartsIs
<1>2. PICK n \in Nat : n = 1 /\ n \in 1 .. Cardinality(S)
  <2>1. Cardinality(S) # 0
    <3>1. Cardinality(S) = 0 => Runs(l, sep) = <<>>
          BY DEF Runs
    <3>   QED BY <3>1
  <2>   QED BY <1>1, <2>1
<1>3. PICK i \in S : i = Nth(S, n)
  <2>   HIDE DEF S
  <2>   QED BY <1>1, <1>2, NthIs
<1>4. PICK e \in i .. Len(l) : e = RunEnd(l, sep, i)
      BY RunEndIs
<1>5. SubSeq(l, i, e) \in Seq(X)
      BY <1>1, <1>4
<1>6. Runs(l, sep)[n] = SubSeq(l, i, e)
      BY <1>2, <1>3, <1>4 DEF Runs
<1>   QED BY <1>2, <1>5, <1>6

\* Whatever a command prints, the prompt comes on a row of the screen.
LEMMA EnterShows ==
    ASSUME LineInv, ScreenInv, KEY_ENTER
    PROVE  ScreenInv' /\ LineShown'
<1>1. PICK s : s = vga_writeChar(screen, NewLine) /\ Ready(s)
      BY NewLineWritten DEF ScreenInv
<1>2. PICK args : args = argv(input_buffer)
      OBVIOUS
<1>3. IF args = <<>> THEN shell_start(s)
      ELSE \E text \in Answers(args[1]) : shell_start(vga_writeText(s, text))
      BY <1>1, <1>2 DEF KEY_ENTER, run_command
<1>4. CASE args = <<>>
      BY <1>1, <1>3, <1>4, StartShows
<1>5. CASE args # <<>>
  <2>1. PICK text \in Answers(args[1]) : shell_start(vga_writeText(s, text))
        BY <1>3, <1>5
  <2>2. PICK n \in Nat : Padded(input_buffer, n)
        BY PaddedText DEF LineInv
  <2>3. args[1] \in Seq(Chars)
    <3>1. PICK l \in Seq(Chars) : l = Text(input_buffer)
          BY <2>2, PaddedText
    <3>2. args = Runs(l, Space)
          BY <1>2, <2>2, <3>1, WordsAre
    <3>   QED BY <1>5, <3>2, RunsTyped
  <2>4. text \in Seq(Glyphs \cup {NewLine})
    <3>1. CASE text \in Outputs
          BY <3>1, ShellAssumption
    <3>2. CASE text = Append(args[1], NewLine)
      <4>1. PICK word \in Seq(Glyphs \cup {NewLine}), c \in Glyphs \cup {NewLine} :
                    word = args[1] /\ c = NewLine
            BY <2>3, ShellAssumption
      <4>2. text = Append(word, c)
            BY <3>2, <4>1
      <4>   QED BY <4>2
    <3>   QED BY <2>1, <3>1, <3>2 DEF Answers
  <2>5. PICK t : t = vga_writeText(s, text) /\ Ready(t)
        BY <1>1, <2>4, TextWritten
  <2>   QED BY <2>1, <2>5, StartShows
<1>   QED BY <1>4, <1>5

\* A handler that changes nothing leaves both.
LEMMA ShowingStutters ==
    ASSUME ScreenInv, LineShown, UNCHANGED shellVars
    PROVE  ScreenInv' /\ LineShown'
<1>1. /\ input_buffer' = input_buffer /\ cursor' = cursor /\ input_x' = input_x
      /\ input_y' = input_y /\ screen' = screen /\ status' = status /\ moved' = moved
      BY DEF shellVars
<1>   QED BY <1>1 DEF ScreenInv, LineShown

\* Once the terminator has gone nothing is said of what is shown.
LEMMA TypingShows ==
    ASSUME LineInv, LineInv', ScreenInv, LineShown, NEW c \in Chars, char_callback(c)
    PROVE  ScreenInv' /\ LineShown'
<1>1. CASE cursor < max_input
      BY <1>1, RenderShows DEF char_callback
<1>2. CASE ~ (cursor < max_input)
  <2>1. /\ status' = "overrun" /\ input_x' = input_x /\ input_y' = input_y
        /\ screen' = screen
        BY <1>2 DEF char_callback
  <2>   QED BY <2>1 DEF ScreenInv, LineShown
<1>   QED BY <1>1, <1>2

\* Every step keeps the line where the shell takes it to be.
LEMMA ShowingStep ==
    ASSUME LineInv, ScreenInv, LineShown, [Next]_vars
    PROVE  ScreenInv' /\ LineShown'
<1>1. LineInv'
      BY ShellStep
<1>2. CASE Interrupt
  <2>1. PICK b : send_keydown(b)
        BY <1>2 DEF Interrupt
  <2>2. CASE CharSent(b) # NoChar
    <3>1. PICK c \in Chars : c = CharSent(b)
          BY <2>2, SentChars
    <3>2. char_callback(c)
          BY <2>1, <2>2, <3>1, CharsFirst
    <3>   QED BY <1>1, <3>2, TypingShows
  <2>3. CASE CharSent(b) = NoChar
    <3>1. \/ KEY_LEFT \/ KEY_RIGHT
          \/ KEY_BACKSPACE \/ KEY_ENTER
          \/ UNCHANGED shellVars
          BY <2>1, <2>3 DEF send_keydown
    <3>2. CASE KEY_LEFT
          BY <1>1, <3>2, MoveShows DEF KEY_LEFT
    <3>3. CASE KEY_RIGHT
          BY <1>1, <3>3, MoveShows DEF KEY_RIGHT
    <3>4. CASE KEY_BACKSPACE
          BY <1>1, <3>4, RenderShows, ShowingStutters DEF KEY_BACKSPACE
    <3>   QED BY <3>1, <3>2, <3>3, <3>4, EnterShows, ShowingStutters
  <2>   QED BY <2>2, <2>3
<1>3. CASE Device /\ UNCHANGED shellVars
      BY <1>3, ShowingStutters
<1>4. CASE UNCHANGED vars
      BY <1>4, ShowingStutters DEF vars
<1>   QED BY <1>2, <1>3, <1>4 DEF Next

\* On the screen that kernel_main has cleared the prompt is written, and no line.
LEMMA InitShows == ASSUME Init PROVE ScreenInv /\ LineShown
<1>1. /\ Width \in Nat \ {0} /\ Height \in Nat \ {0} /\ Byte \in Nat /\ Byte # 0
      /\ Size \in Nat /\ Space \in Glyphs
      BY Rows, ScreenAssumption
<1>2. Ready(vga_init)
      BY <1>1 DEF vga_init, Ready, Screens
<1>3. PICK s : s = vga_writeText(vga_init, Prompt) /\ Ready(s)
  <2>1. Prompt \in Seq(Glyphs \cup {NewLine})
        BY ShellAssumption
  <2>   QED BY <1>2, <2>1, TextWritten
<1>4. PICK b : b = [i \in Place |-> Nul]
      OBVIOUS
<1>5. /\ input_buffer = b /\ cursor = 0 /\ input_x = s.x /\ input_y = s.y
      /\ screen = render_input(s, b, 0, s.x, s.y)
      BY <1>3, <1>4 DEF Init
<1>6. Padded(b, 0) /\ Text(b) = <<>>
      BY <1>4, ZerosAre
<1>7. PICK x \in 0 .. Width - 1, y \in 0 .. Height - 1 : x = s.x /\ y = s.y
      BY <1>1, <1>3 DEF Ready, Screens
<1>8. PICK n \in Nat, at \in Nat : n = 0 /\ at = 0
      OBVIOUS
<1>9. PICK r \in Screens : r = render_input(s, b, at, x, y) /\ Shown(r) = y * Width + x + at
      BY <1>3, <1>6, <1>8, RenderIs DEF Ready
<1>10. screen = r
       BY <1>5, <1>7, <1>8, <1>9
<1>11. ScreenInv
       BY <1>5, <1>7, <1>9, <1>10 DEF ScreenInv
<1>12. Len(<<>>) = 0
       OBVIOUS
<1>   QED BY <1>5, <1>6, <1>7, <1>8, <1>9, <1>10, <1>11, <1>12 DEF LineShown

(* The screen shows the line.  While the shell is ready and the line has not moved
   with a scroll, the places from where it starts show its characters and a blank
   behind them, also over the end of a row, and the hardware's cursor stands at the
   place of the next character: vga_writeText and render_input with the shell's
   handlers, for every size of the screen, limit, layout, output of commands and
   sequence of keys. *)
THEOREM LineIsShown == Spec => []LineShown
<1>1. ConsoleInit => ScreenInv /\ LineShown
      BY InitShows DEF ConsoleInit
<1>2. LineInv /\ ScreenInv /\ LineShown /\ [Next]_vars => ScreenInv' /\ LineShown'
      BY ShowingStep
<1>   QED BY <1>1, <1>2, LineInvariant, PTL DEF Spec
===============================================================================
