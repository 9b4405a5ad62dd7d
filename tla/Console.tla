------------------------------ MODULE Console -------------------------------
(***************************************************************************)
(* Keyboard and mouse input (console.c) up to the keyboard port of the     *)
(* chipset (fe2010.c). A terminal sends characters, a keyboard the make    *)
(* and break codes of keys. console_execute_keyboard turns a character     *)
(* into codes: the first goes out at once, the others wait in a FIFO and   *)
(* leave it one by one, one in each poll of the main loop.                 *)
(*                                                                         *)
(* A character is its key's code, zero if the table has none, and how it   *)
(* is typed: plain, shifted, control, or special for the key codes of      *)
(* curses above 255, for which isupper is undefined and may say anything.  *)
(***************************************************************************)
EXTENDS Integers, Sequences

CONSTANTS
    FifoSize,       \* CONSOLE_SCANCODE_FIFO_SIZE, 8; one place stays free
    Chars           \* the characters that may be typed

LCTRL  == 29
LSHIFT == 42
LALT   == 56
SCROLL == 70
Bat    == 170       \* the self-test code, also the break code of LSHIFT
None   == 0         \* no code, no modifier

Keys == {c.code : c \in Chars} \cup {LCTRL, LSHIFT, LALT, SCROLL}
Break(code) == code + 128
Codes == Keys \cup {Break(k) : k \in Keys} \cup {None, Bat}

Kinds == {"plain", "shifted", "control", "special"}

ASSUME ConsoleAssumption ==
    \* At most two codes are left behind a zero when the next key adds three.
    /\ FifoSize \in Nat /\ FifoSize > 5
    /\ Chars \subseteq [kind : Kinds, code : 0 .. 127]

VARIABLES
    fifo,           \* console_scancode_fifo, oldest code first
    alt_toggle,
    keyclock,       \* bit 6 of the control register
    scancode,       \* the keyboard data register
    unread,         \* it holds a code the guest has not read
    down,           \* the keys that are down by the codes the guest has read
    lost,           \* a code has not reached the guest
    mouse_data

input == <<fifo, alt_toggle, mouse_data>>
keyboard_vars == <<fifo, alt_toggle, keyclock, scancode, unread, down, lost, mouse_data>>

Buttons == {"pressed1", "pressed3", "released"}

KeyboardTypeOK ==
    /\ fifo \in Seq(Codes) /\ Len(fifo) < FifoSize
    /\ alt_toggle \in BOOLEAN
    /\ keyclock \in BOOLEAN
    /\ scancode \in Codes
    /\ unread \in BOOLEAN
    /\ down \subseteq Keys \cup {None}
    /\ lost \in BOOLEAN
    /\ mouse_data \in Buttons \cup {"none"}

KeyboardInit ==
    /\ fifo = <<>>
    /\ alt_toggle = FALSE
    /\ keyclock = FALSE
    /\ scancode = None
    /\ unread = FALSE
    /\ down = {}
    /\ lost = FALSE
    /\ mouse_data = "none"
-----------------------------------------------------------------------------
\* A ring with one free place, here as the queue it holds.
console_scancode_fifo_write(q, code) ==
    IF Len(q) = FifoSize - 1 THEN q ELSE Append(q, code)

\* What a read gives, zero if there is nothing, and what it leaves.
FifoFront(q) == IF q = <<>> THEN None ELSE Head(q)
console_scancode_fifo_read(q) == IF q = <<>> THEN q ELSE Tail(q)

console_xt_keyboard_scancode(ch) == ch.code

console_character_is_shifted(ch) ==
    CASE ch.kind = "shifted" -> {TRUE}
      [] ch.kind = "special" -> BOOLEAN
      [] OTHER -> {FALSE}
console_character_is_control(ch) == ch.kind = "control"

\* The modifier key that is held while the character's key is pressed.
Modifier(ch, shifted) ==
    CASE shifted -> LSHIFT
      [] ~shifted /\ console_character_is_control(ch) -> LCTRL
      [] ~shifted /\ ~console_character_is_control(ch) ->
            IF alt_toggle THEN LALT ELSE None

\* fe2010_keyboard_press: with the keyboard clock off the code is dropped; a
\* code that has not been read yet is overwritten.
fe2010_keyboard_press(code) ==
    /\ lost' = (lost \/ ~keyclock \/ unread)
    /\ IF keyclock THEN scancode' = code /\ unread' = TRUE
                   ELSE UNCHANGED <<scancode, unread>>
    /\ UNCHANGED <<keyclock, down>>

\* Faulty: the break code of the modifier is not queued.
Chord_holds_modifier(modifier, key) ==
    LET q == console_scancode_fifo_read(fifo)
    IN /\ fe2010_keyboard_press(modifier)
       /\ fifo' = console_scancode_fifo_write(
                    console_scancode_fifo_write(q, key), Break(key))

\* A key with its modifier: the modifier's make code goes out, the make and
\* break codes of the key and the break code of the modifier wait.
Chord(modifier, key) ==
    LET q == console_scancode_fifo_read(fifo)
    IN /\ fe2010_keyboard_press(modifier)
       /\ fifo' = console_scancode_fifo_write(
                    console_scancode_fifo_write(
                      console_scancode_fifo_write(q, key), Break(key)), Break(modifier))

Stroke(key) ==
    /\ fe2010_keyboard_press(key)
    /\ fifo' = console_scancode_fifo_write(console_scancode_fifo_read(fifo), Break(key))
-----------------------------------------------------------------------------
(* console_execute_keyboard. A code from the FIFO goes out; zero is taken  *)
(* out of it too, but counts as nothing, and the terminal is asked.        *)

\* Faulty: the code stays in the FIFO.
DeliverCode_again ==
    /\ FifoFront(fifo) # None
    /\ fe2010_keyboard_press(FifoFront(fifo))
    /\ UNCHANGED <<fifo, alt_toggle, mouse_data>>

DeliverCode ==
    /\ FifoFront(fifo) # None
    /\ fe2010_keyboard_press(FifoFront(fifo))
    /\ fifo' = console_scancode_fifo_read(fifo)
    /\ UNCHANGED <<alt_toggle, mouse_data>>

TypeCharacter ==
    /\ FifoFront(fifo) = None
    /\ \E ch \in Chars : \E shifted \in console_character_is_shifted(ch) :
          LET modifier == Modifier(ch, shifted)
              key == console_xt_keyboard_scancode(ch)
          IN /\ IF modifier = None THEN Stroke(key) ELSE Chord(modifier, key)
             /\ alt_toggle' = (alt_toggle /\ modifier # LALT)
    /\ UNCHANGED mouse_data

\* F12 is Ctrl and Scroll Lock.
TypeF12 ==
    /\ FifoFront(fifo) = None
    /\ Chord(LCTRL, SCROLL)
    /\ UNCHANGED <<alt_toggle, mouse_data>>

\* F11 gives the next plain character an Alt.
TypeF11 ==
    /\ FifoFront(fifo) = None
    /\ fifo' = console_scancode_fifo_read(fifo)
    /\ alt_toggle' = TRUE
    /\ UNCHANGED <<keyclock, scancode, unread, down, lost, mouse_data>>

\* mos5720_mouse_data; the request on the mouse line is in Fe2010.
MouseEvent ==
    /\ FifoFront(fifo) = None
    /\ fifo' = console_scancode_fifo_read(fifo)
    /\ mouse_data' \in Buttons
    /\ UNCHANGED <<alt_toggle, keyclock, scancode, unread, down, lost>>

NoInput ==
    /\ FifoFront(fifo) = None
    /\ fifo' = console_scancode_fifo_read(fifo)
    /\ UNCHANGED <<alt_toggle, keyclock, scancode, unread, down, lost, mouse_data>>

console_execute_keyboard ==
    DeliverCode \/ TypeCharacter \/ TypeF12 \/ TypeF11 \/ MouseEvent \/ NoInput
-----------------------------------------------------------------------------
(* The guest's keyboard handler and its use of the control register.       *)

Held(keys, code) == IF code >= 128 THEN keys \ {code - 128} ELSE keys \cup {code}

\* fe2010_scancode_read, on the interrupt that the code has raised.
GuestReads ==
    /\ unread
    /\ down' = Held(down, scancode)
    /\ unread' = FALSE
    /\ UNCHANGED <<input, keyclock, scancode, lost>>

\* fe2010_ctrl_write: bit 7 clears the register, read or not; a rising bit 6
\* puts the self-test code there.
GuestCtrlWrite ==
    /\ \E clear, clock \in BOOLEAN :
          LET rising == clock /\ ~keyclock
          IN /\ keyclock' = clock
             /\ scancode' = IF rising THEN Bat ELSE IF clear THEN None ELSE scancode
             /\ unread' = (rising \/ (unread /\ ~clear))
             /\ lost' = (lost \/ (unread /\ (rising \/ clear)))
    /\ UNCHANGED <<input, down>>

KeyboardNext == console_execute_keyboard \/ GuestReads \/ GuestCtrlWrite

\* The main loop polls every 10000 turns for ever, and the guest's handler,
\* which the pending request brings about, reads the port.
KeyboardSpec ==
    /\ KeyboardInit /\ [][KeyboardNext]_keyboard_vars
    /\ WF_keyboard_vars(console_execute_keyboard) /\ WF_keyboard_vars(GuestReads)
-----------------------------------------------------------------------------
\* Whether key k is down once the codes of q have gone out as well. Zero codes
\* never do.
DownAfter(k, keys, q) ==
    LET about == {i \in DOMAIN q : q[i] # None /\ q[i] % 128 = k}
        last == CHOOSE i \in about : \A j \in about : j <= i
    IN IF about = {} THEN k \in keys ELSE q[last] < 128

\* No key stays down for want of a break code: the codes under way, the one in
\* the port and those in the FIFO (never dropped there, however fast the
\* typing), release every key that the guest has been told is down, unless the
\* guest has lost a code (console_execute_keyboard, console_scancode_fifo_write).
KeysBalance ==
    ~lost => LET told == IF unread THEN Held(down, scancode) ELSE down
             IN \A k \in Keys \cup {None} : ~DownAfter(k, told, fifo)

\* A key that the guest takes for pressed is released in time, also when a
\* character without a code put a zero into the FIFO and typing goes on
\* (console_scancode_fifo_read), unless the guest loses a code.
KeyIsReleased == \A k \in Keys \cup {None} : k \in down ~> (k \notin down \/ lost)
=============================================================================
