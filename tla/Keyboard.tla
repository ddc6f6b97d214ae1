------------------------------ MODULE Keyboard ------------------------------
(***************************************************************************)
(* The keys of the host, the clipboard and the keyboard matrix of the MSX  *)
(* (kbd.c, paste.c, msx_keyboard_* of msx.c) under the events of the main  *)
(* loop (main.c): keys with auto-repeat, Ctrl+V, the settings, the capture *)
(* of the mouse, the loss of the focus, resets and frames.                 *)
(*                                                                         *)
(* A matrix position is pressed by host keys, of which two may share it,   *)
(* and by the paste queue, each of which lets go on its own.  Six keys     *)
(* stand for their kinds: two of one position (Shift), Ctrl, a key that    *)
(* ends the capture with Ctrl (Return), the key of the paste chord (V) and *)
(* a guest function key (F7, SELECT), which works with Shift only and      *)
(* hides that Shift from the guest.                                        *)
(***************************************************************************)
EXTENDS Integers, Sequences, FiniteSets

CONSTANTS Texts,    \* what the clipboard may hold
          MaxHeld   \* keys that the user holds at once

ASSUME KeyboardAssumption == \A text \in Texts : Len(text) \in Nat

Key == {"lshift", "rshift", "ctrl", "return", "v", "f7"}
Shifts == {"lshift", "rshift"}

regular_position ==
    [k \in Key \ {"f7"} |->
        CASE k \in Shifts -> "SHIFT" [] k = "ctrl" -> "CTRL"
          [] k = "return" -> "RETURN" [] k = "v" -> "V"]
guest_function_position == [k \in {"f7"} |-> "SELECT"]
Positions == {"SHIFT", "CTRL", "RETURN", "V", "SELECT"}

\* A character without a place in the table is skipped ("?").
keymap == [c \in {"n", "v", "V"} |->
              [position |-> IF c = "n" THEN "RETURN" ELSE "V", shift |-> c = "V"]]
INITIAL_DELAY_FRAMES == 3
HOLD_FRAMES == 2
GAP_FRAMES == 1
NotHeld == [position |-> "none", shift |-> FALSE]

VARIABLES
    input,      \* KbdHost, the matrix of MsxMachine, and Paste
    window,     \* the settings shown, the mouse captured, the machine paused
    fingers,    \* the keys the user holds
    last,       \* the key that repeats
    cut,        \* positions cleared under a key that the paste holds
    watch       \* a paste that no other key disturbs, and what the guest saw

keyvars == <<input, window, fingers, last, cut, watch>>

---------------------------------------------------------------------------
(* The matrix (msx.c).                                                     *)

msx_keyboard_clear(s) ==
    [s EXCEPT !.rows = {}, !.refs = [p \in Positions |-> 0]]
msx_keyboard_press(s, p) ==
    [s EXCEPT !.refs[p] = IF @ # 255 THEN @ + 1 ELSE @, !.rows = @ \cup {p}]
\* Mutant: one key of two frees the position.
ReleaseRow(s, p) == [s EXCEPT !.refs[p] = 0, !.rows = @ \ {p}]
msx_keyboard_release(s, p) ==
    LET refs == IF s.refs[p] > 0 THEN s.refs[p] - 1 ELSE 0
    IN  [s EXCEPT !.refs[p] = refs, !.rows = IF refs = 0 THEN @ \ {p} ELSE @]

(* The keys of the host (kbd.c).                                           *)

suppress_guest_shift(s) ==
    LET left == IF "lshift" \in s.down THEN msx_keyboard_release(s, "SHIFT") ELSE s
    IN  IF "rshift" \in s.down THEN msx_keyboard_release(left, "SHIFT") ELSE left
restore_guest_shift(s) ==
    LET left == IF "lshift" \in s.down THEN msx_keyboard_press(s, "SHIFT") ELSE s
    IN  IF "rshift" \in s.down THEN msx_keyboard_press(left, "SHIFT") ELSE left

kbd_release_all(s) ==
    msx_keyboard_clear([s EXCEPT !.down = {}, !.guest_special = {},
                                 !.guest_special_count = 0])

FunctionDown(s, k) ==
    LET alone == IF s.guest_special_count = 0 THEN suppress_guest_shift(s) ELSE s
    IN  msx_keyboard_press([alone EXCEPT !.down = @ \cup {k},
                                         !.guest_special = @ \cup {k},
                                         !.guest_special_count = @ + 1],
                           guest_function_position[k])
FunctionUp(s, k) ==
    LET free == [msx_keyboard_release(s, guest_function_position[k]) EXCEPT
                    !.down = @ \ {k}, !.guest_special = @ \ {k},
                    !.guest_special_count = IF @ > 0 THEN @ - 1 ELSE 0]
    IN  IF free.guest_special_count = 0 THEN restore_guest_shift(free) ELSE free

kbd_handle_guest_function(s, k, down, shift) ==
    IF down
    THEN IF shift /\ k \notin s.guest_special THEN FunctionDown(s, k) ELSE s
    ELSE IF k \in s.guest_special THEN FunctionUp(s, k) ELSE [s EXCEPT !.down = @ \ {k}]

kbd_handle(s, k, down, shift, repeat) ==
    LET now == [s EXCEPT !.down = IF down THEN @ \cup {k} ELSE @ \ {k}]
    IN  IF k \in DOMAIN guest_function_position
        THEN kbd_handle_guest_function(s, k, down, shift)
        ELSE IF repeat \/ (k \in s.down <=> down) THEN s
        ELSE IF k \in Shifts /\ s.guest_special_count > 0 THEN now
        ELSE IF down THEN msx_keyboard_press(now, regular_position[k])
        ELSE msx_keyboard_release(now, regular_position[k])

---------------------------------------------------------------------------
(* The paste queue (paste.c).                                              *)

paste_active(s) == s.offset < Len(s.text)
clear_text(s) == [s EXCEPT !.text = <<>>, !.offset = 0, !.timer = 0]

release_held(s) ==
    IF s.held = NotHeld THEN s
    ELSE LET key == msx_keyboard_release(s, s.held.position)
             both == IF s.held.shift THEN msx_keyboard_release(key, "SHIFT") ELSE key
         IN  [both EXCEPT !.held = NotHeld]

paste_cancel(s) == clear_text(release_held(s))
paste_start(s, text) ==
    [paste_cancel(s) EXCEPT !.text = text, !.timer = INITIAL_DELAY_FRAMES]

\* The first character at or after the offset that can be typed.
NextCharacter(s) ==
    CHOOSE i \in s.offset .. Len(s.text) :
        /\ i = Len(s.text) \/ s.text[i + 1] \in DOMAIN keymap
        /\ \A j \in s.offset .. i - 1 : s.text[j + 1] \notin DOMAIN keymap

PressNext(s) ==
    LET at == NextCharacter(s)
        key == keymap[s.text[at + 1]]
        shifted == IF key.shift THEN msx_keyboard_press(s, "SHIFT") ELSE s
    IN  IF at = Len(s.text) THEN clear_text(s)
        ELSE [msx_keyboard_press(shifted, key.position) EXCEPT
                  !.offset = at, !.held = key, !.timer = HOLD_FRAMES]

paste_tick(s) ==
    LET next == [release_held(s) EXCEPT !.offset = @ + 1]
    IN  CASE ~paste_active(s) -> s
          [] paste_active(s) /\ s.timer > 0 -> [s EXCEPT !.timer = @ - 1]
          [] paste_active(s) /\ s.timer = 0 /\ s.held # NotHeld ->
                IF paste_active(next) THEN [next EXCEPT !.timer = GAP_FRAMES]
                ELSE clear_text(next)
          [] OTHER -> PressNext(s)

---------------------------------------------------------------------------
(* The watch of the properties.                                            *)

Undisturbed == [alone |-> FALSE, text |-> <<>>, typed |-> <<>>, seen |-> {}]

\* What the guest's scan of the matrix makes of a frame: each position that
\* was not pressed before is a keystroke, with Shift or Ctrl if pressed.
Modifiers == {"SHIFT", "CTRL"}
Strokes(rows) ==
    LET fresh == (rows \ watch.seen) \ Modifiers
    IN  IF fresh = {} THEN <<>>
        ELSE <<[keys |-> fresh, with |-> rows \cap Modifiers]>>
Scan(rows) ==
    IF watch.alone
    THEN [watch EXCEPT !.typed = @ \o Strokes(rows), !.seen = rows]
    ELSE watch

\* Where the matrix forgets a key that the paste still holds.
PasteHolds(s) ==
    (IF s.held = NotHeld THEN {} ELSE {s.held.position})
        \cup (IF s.held.shift THEN {"SHIFT"} ELSE {})

---------------------------------------------------------------------------
(* The events of the main loop.                                            *)

Shift == fingers' \cap Shifts # {}
Ctrl == "ctrl" \in fingers'

KeyboardInit ==
    /\ input = [down |-> {}, guest_special |-> {}, guest_special_count |-> 0,
                rows |-> {}, refs |-> [p \in Positions |-> 0],
                text |-> <<>>, offset |-> 0, timer |-> 0, held |-> NotHeld]
    /\ window = [visible |-> FALSE, captured |-> FALSE, paused |-> FALSE]
    /\ fingers = {} /\ last = "none" /\ cut = {} /\ watch = Undisturbed

Press(k) == /\ k \notin fingers /\ Cardinality(fingers) < MaxHeld
            /\ fingers' = fingers \cup {k} /\ last' = k

\* The settings keep every key to themselves.
KeyToSettings(k) ==
    /\ window.visible /\ Press(k)
    /\ UNCHANGED <<input, window, cut, watch>>

\* Ctrl+Return gives the captured mouse back, before anything else.
EndsCapture(k) == window.captured /\ Ctrl /\ k = "return"
LetMouseGo ==
    /\ input' = kbd_release_all(input)
    /\ window' = [window EXCEPT !.captured = FALSE]
    /\ cut' = cut \cup PasteHolds(input)

\* Ctrl+V drops the chord and types the clipboard, unless that is empty or
\* cannot be read or copied.
IsPaste(k) == k = "v" /\ Ctrl
PasteChord(k) ==
    /\ ~window.visible /\ Press(k) /\ ~EndsCapture(k) /\ IsPaste(k)
    /\ \/ \E text \in Texts :
            /\ input' = paste_start(kbd_release_all(input), text)
            /\ cut' = {}
            /\ watch' = [Undisturbed EXCEPT !.alone = TRUE, !.text = text]
       \/ /\ input' = kbd_release_all(input)
          /\ cut' = cut \cup PasteHolds(input)
          /\ watch' = Undisturbed
    /\ UNCHANGED window

KeyDown(k) ==
    /\ ~window.visible /\ Press(k) /\ ~IsPaste(k)
    /\ IF EndsCapture(k) THEN LetMouseGo
       ELSE /\ input' = kbd_handle(input, k, TRUE, Shift, FALSE)
            /\ UNCHANGED <<window, cut>>
    /\ watch' = Undisturbed

\* The key pressed last repeats while it is held.
KeyRepeat ==
    /\ last \in fingers /\ ~window.visible
    /\ UNCHANGED <<fingers, last, watch>>
    /\ IF EndsCapture(last) THEN LetMouseGo
       ELSE /\ input' = kbd_handle(input, last, TRUE, Shift, TRUE)
            /\ UNCHANGED <<window, cut>>

KeyUp(k) ==
    /\ k \in fingers
    /\ fingers' = fingers \ {k}
    /\ last' = IF last = k THEN "none" ELSE last
    /\ input' = IF window.visible THEN input
                ELSE kbd_handle(input, k, FALSE, Shift, FALSE)
    /\ UNCHANGED <<window, cut, watch>>

\* The host sees no key of a window that has lost the focus go up.
FocusLost ==
    /\ input' = paste_cancel(kbd_release_all(input))
    /\ window' = [window EXCEPT !.captured = FALSE]
    /\ fingers' = {} /\ last' = "none" /\ cut' = {} /\ watch' = Undisturbed

\* F9 and what else ends the settings.
SettingsTakeKeys ==
    /\ ~window.visible
    /\ input' = paste_cancel(kbd_release_all(input))
    /\ window' = [window EXCEPT !.visible = TRUE, !.captured = FALSE]
    /\ last' = "none" /\ cut' = {} /\ watch' = Undisturbed
    /\ UNCHANGED fingers
SettingsLeaveKeys ==
    /\ window.visible
    /\ window' = [window EXCEPT !.visible = FALSE]
    /\ last' \in {last, "none"}
    /\ UNCHANGED <<input, fingers, cut, watch>>

\* F5, F3, and the reset that the settings ask for.
ResetKeyboard ==
    /\ input' = msx_keyboard_clear(kbd_release_all(paste_cancel(input)))
    /\ window' = [window EXCEPT !.captured = FALSE, !.paused = FALSE]
    /\ last' = "none" /\ cut' = {} /\ watch' = Undisturbed
    /\ UNCHANGED fingers

\* A click captures the mouse; the host may refuse.  Pause stops the queue.
Click ==
    /\ ~window.visible
    /\ window' = [window EXCEPT !.captured = TRUE]
    /\ UNCHANGED <<input, fingers, last, cut, watch>>
Pause ==
    /\ ~window.visible
    /\ window' = [window EXCEPT !.paused = ~@]
    /\ last' = "none"
    /\ UNCHANGED <<input, fingers, cut, watch>>

\* The queue goes on once before each frame; then the guest runs.  It stops
\* to matter where a position was cut when nothing presses that any more.
Frame ==
    LET next == IF window.paused \/ window.visible THEN input ELSE paste_tick(input)
    IN  /\ input' = next
        /\ cut' = {p \in cut : \/ p \in PasteHolds(next)
                               \/ \E k \in next.down \cap DOMAIN regular_position :
                                      regular_position[k] = p}
        /\ watch' = IF window.paused THEN watch ELSE Scan(next.rows)
        /\ UNCHANGED <<window, fingers, last>>

KeyboardNext ==
    \/ \E k \in Key : KeyToSettings(k) \/ PasteChord(k) \/ KeyDown(k) \/ KeyUp(k)
    \/ KeyRepeat \/ FocusLost \/ SettingsTakeKeys \/ SettingsLeaveKeys
    \/ ResetKeyboard \/ Click \/ Pause \/ Frame

KeyboardSpec == KeyboardInit /\ [][KeyboardNext]_keyvars

---------------------------------------------------------------------------
(* Properties.                                                             *)

\* How many of the host's keys press a position, and how often the queue does.
Held(keys, p) ==
    Cardinality({k \in keys : \/ k \in DOMAIN regular_position /\ regular_position[k] = p
                              \/ k \in DOMAIN guest_function_position
                                   /\ guest_function_position[k] = p})
Pasted(p) == IF p \in PasteHolds(input) THEN 1 ELSE 0

\* Nothing sticks: the guest sees a key only while the user or the queue
\* holds one of its position, whatever released it in between, and sees each
\* that is held but for a Shift that a function key hides (msx_keyboard_press,
\* kbd_handle, release_held).  The queue's own hold may be cut short by Ctrl+V
\* or Ctrl+Return, and its release then takes a key of the user along.
NothingSticks ==
    /\ input.rows = {p \in Positions : input.refs[p] > 0}
    /\ \A p \in Positions :
          /\ input.refs[p] <= Held(fingers, p) + Pasted(p)
          /\ p \in cut \/ input.refs[p] =
                (IF p = "SHIFT" /\ input.guest_special_count > 0
                 THEN 0 ELSE Held(input.down, p)) + Pasted(p)

\* What the guest sees of a paste that no key disturbs is the clipboard: each
\* character once, in order, with its own Shift and without the chord
\* (paste_start, paste_tick).
Stroke(c) == [keys |-> {keymap[c].position},
              with |-> IF keymap[c].shift THEN {"SHIFT"} ELSE {}]
StrokesUpTo(text) ==
    LET upto[n \in 0 .. Len(text)] ==
            IF n = 0 THEN <<>>
            ELSE IF text[n] \in DOMAIN keymap THEN Append(upto[n - 1], Stroke(text[n]))
            ELSE upto[n - 1]
    IN  upto
Strokable(text) == StrokesUpTo(text)[Len(text)]
PastesItsText ==
    watch.alone =>
        LET whole == Strokable(watch.text)
        IN  /\ Len(watch.typed) <= Len(whole)
            /\ watch.typed = SubSeq(whole, 1, Len(watch.typed))
            /\ ~paste_active(input) => watch.typed = whole

KeysTrue == NothingSticks /\ PastesItsText
=============================================================================
