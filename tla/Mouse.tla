-------------------------------- MODULE Mouse --------------------------------
(***************************************************************************)
(* The MSX mouse on a controller port (msx_mouse_* of msx.c) and the host  *)
(* mouse that drives it while captured (main.c).  The guest strobes the    *)
(* port through register 15 of the PSG and reads a nibble after each       *)
(* strobe: X high, X low, Y high, Y low, then as many of zeroes.  Between  *)
(* the nibbles the user may move the mouse, and after a pause the mouse    *)
(* starts over.                                                            *)
(*                                                                         *)
(* A nibble has Nibble values (16); a reported axis has two nibbles, with  *)
(* a sign (s8), and is held to the largest that has both signs (127).      *)
(***************************************************************************)
EXTENDS Integers, FiniteSets

CONSTANTS Nibble,       \* values of a nibble
          Deltas,       \* motions of the host in one event, <<x, y>>
          MaxMotions    \* of them in all

ASSUME MouseAssumption == Nibble \in Nat \ {0, 1} /\ Deltas \subseteq Int \X Int

Byte == Nibble * Nibble
Largest == Byte \div 2 - 1
Axis == {"x", "y"}
Button == {"left", "right"}

VARIABLES
    mouse,      \* MsxMouse of the port
    host,       \* captured, the settings shown, the buttons that are down
    program,    \* the guest: nibbles read in this report, or Torn
    told,       \* what it put together so far
    owed,       \* host motion the guest has not been told of
    motions     \* bound

mousevars == <<mouse, host, program, told, owed, motions>>

None == [a \in Axis |-> 0]

\* The age of the last write stops to count where it is past the timeout of
\* 1.5 ms: "fresh" or "late".
msx_mouse_reset_state(enabled) ==
    [enabled |-> enabled, phase |-> "Y_LOW_2", latched |-> None, pending |-> None,
     fractional |-> None, buttons_pressed |-> {}, age |-> "fresh"]

msx_mouse_clear_input(m) ==
    [m EXCEPT !.latched = None, !.pending = None, !.fractional = None,
              !.buttons_pressed = {}]

\* Two steps of the host are one of the MSX, the other way round; what is
\* left of an odd one is kept.
msx_mouse_scale_axis(delta, fractional) ==
    [quotient |-> -((delta + fractional) \div 2),
     fractional |-> (delta + fractional) % 2]

msx_mouse_add_host_motion(m, delta) ==
    LET scaled == [a \in Axis |-> msx_mouse_scale_axis(delta[a], m.fractional[a])]
    IN  [m EXCEPT !.pending = [a \in Axis |-> @[a] + scaled[a].quotient],
                  !.fractional = [a \in Axis |-> scaled[a].fractional]]

msx_mouse_clamp_delta(delta) ==
    IF delta < -Largest THEN -Largest ELSE IF delta > Largest THEN Largest ELSE delta

\* Mutant: what does not fit in the report is dropped.
LatchAll(m) ==
    [m EXCEPT !.latched = [a \in Axis |-> msx_mouse_clamp_delta(m.pending[a])],
              !.pending = None]
msx_mouse_latch(m) ==
    LET delta == [a \in Axis |-> msx_mouse_clamp_delta(m.pending[a])]
    IN  [m EXCEPT !.latched = delta, !.pending = [a \in Axis |-> @[a] - delta[a]]]

Phases == <<"X_HIGH_1", "X_LOW_1", "Y_HIGH_1", "Y_LOW_1",
            "X_HIGH_2", "X_LOW_2", "Y_HIGH_2", "Y_LOW_2">>
Following(phase) ==
    LET i == CHOOSE i \in 1 .. 8 : Phases[i] = phase
    IN  Phases[(i % 8) + 1]

msx_mouse_write_port(m, strobe) ==
    LET phase == IF m.age = "late" THEN "Y_LOW_2" ELSE m.phase
        now == [m EXCEPT !.age = "fresh", !.phase = phase]
        next == [now EXCEPT !.phase = Following(phase)]
    IN  CASE ~m.enabled -> m
          [] m.enabled /\ phase \in {"X_HIGH_1", "Y_HIGH_1", "X_HIGH_2", "Y_HIGH_2"} ->
                IF strobe THEN now ELSE next
          [] m.enabled /\ phase \in {"X_LOW_1", "X_LOW_2"} ->
                IF strobe THEN next ELSE now
          [] m.enabled /\ phase = "Y_LOW_1" ->
                IF strobe THEN [next EXCEPT !.latched = None] ELSE now
          [] m.enabled /\ phase = "Y_LOW_2" ->
                IF strobe THEN msx_mouse_latch(next) ELSE now

\* The nibble on the port.
msx_mouse_read_port(m) ==
    CASE m.phase \in {"X_HIGH_1", "X_HIGH_2"} -> (m.latched["x"] % Byte) \div Nibble
      [] m.phase \in {"X_LOW_1", "X_LOW_2"} -> m.latched["x"] % Nibble
      [] m.phase \in {"Y_HIGH_1", "Y_HIGH_2"} -> (m.latched["y"] % Byte) \div Nibble
      [] OTHER -> m.latched["y"] % Nibble

---------------------------------------------------------------------------
(* The guest.                                                              *)

NoReport == [a \in Axis |-> 0]
Signed(byte) == IF byte > Largest THEN byte - Byte ELSE byte

\* What is left of the host's motion, once nothing of a report is under way.
Remaining(m) == [a \in Axis |-> m.fractional[a] - 2 * m.pending[a]]

Torn == -1
Strobe(n) == n % 2 = 0

\* A write for the other port leaves this port's line as it is.
OtherPortWrite ==
    /\ program # Torn
    /\ mouse' = msx_mouse_write_port(mouse, program > 0 /\ Strobe(program - 1))
    /\ UNCHANGED <<host, program, told, owed, motions>>

\* The next of the eight nibbles of a report; the value of an axis is its
\* first pair's.
Step ==
    LET now == msx_mouse_write_port(mouse, Strobe(program))
        axis == IF program % 4 < 2 THEN "x" ELSE "y"
        nibble == msx_mouse_read_port(now)
        value == IF Strobe(program) THEN nibble * Nibble ELSE told[axis] + nibble
        report == IF program < 4 THEN [told EXCEPT ![axis] = value] ELSE told
    IN  /\ mouse.enabled /\ program # Torn
        /\ mouse' = now
        /\ program' = (program + 1) % 8
        /\ told' = IF program = 3 THEN NoReport ELSE report
        /\ owed' = IF program # 3 THEN owed
                   ELSE [a \in Axis |-> owed[a] + 2 * Signed(report[a])]
        /\ UNCHANGED <<host, motions>>

\* The guest may break off a report, or leave out the zeroes: it drops the
\* line and waits until the mouse starts over.  What was latched for a report
\* that it did not read to the end is gone.
Wait ==
    /\ mouse' = [msx_mouse_write_port(mouse, FALSE) EXCEPT !.age = "late"]
    /\ owed' = IF program \in {Torn} \cup 1 .. 3 THEN Remaining(mouse) ELSE owed
    /\ program' = 0 /\ told' = NoReport
    /\ UNCHANGED <<host, motions>>

---------------------------------------------------------------------------
(* The host (main.c).                                                      *)

MouseInit ==
    /\ mouse = msx_mouse_reset_state(TRUE)
    /\ host = [captured |-> FALSE, visible |-> FALSE, down |-> {}]
    /\ program = 0 /\ told = NoReport /\ owed = None /\ motions = 0

Motion(delta) ==
    LET by == [a \in Axis |-> IF a = "x" THEN delta[1] ELSE delta[2]]
    IN  /\ host.captured /\ motions < MaxMotions
        /\ mouse' = IF mouse.enabled THEN msx_mouse_add_host_motion(mouse, by) ELSE mouse
        /\ owed' = IF mouse.enabled THEN [a \in Axis |-> owed[a] + by[a]] ELSE owed
        /\ motions' = motions + 1
        /\ UNCHANGED <<host, program, told>>

\* The first click captures the mouse, which the host may refuse, and is the
\* guest's too.
ButtonDown(b) ==
    /\ b \notin host.down
    /\ LET taken == host.captured \/ (mouse.enabled /\ ~host.visible)
       IN  \/ /\ taken
              /\ host' = [host EXCEPT !.down = @ \cup {b}, !.captured = TRUE]
              /\ mouse' = [mouse EXCEPT !.buttons_pressed = @ \cup {b}]
           \/ /\ ~host.captured
              /\ host' = [host EXCEPT !.down = @ \cup {b}]
              /\ UNCHANGED mouse
    /\ UNCHANGED <<program, told, owed, motions>>
ButtonUp(b) ==
    /\ b \in host.down
    /\ host' = [host EXCEPT !.down = @ \ {b}]
    /\ mouse' = IF host.captured THEN [mouse EXCEPT !.buttons_pressed = @ \ {b}]
                ELSE mouse
    /\ UNCHANGED <<program, told, owed, motions>>

\* A report under way when the input is cleared is torn: its other nibbles
\* are zero.
Cut(m) ==
    /\ mouse' = m /\ owed' = Remaining(m)
    /\ program' = IF program = 0 THEN 0 ELSE Torn
    /\ told' = NoReport

\* set_mouse_capture(FALSE): Ctrl+Return, or the loss of the focus, with
\* which the host forgets the buttons.
Release ==
    /\ \/ host.captured /\ host' = [host EXCEPT !.captured = FALSE]
       \/ host' = [host EXCEPT !.captured = FALSE, !.down = {}]
    /\ Cut(msx_mouse_clear_input(mouse))
    /\ UNCHANGED motions
SettingsTakeMouse ==
    /\ ~host.visible
    /\ host' = [host EXCEPT !.visible = TRUE, !.captured = FALSE]
    /\ IF host.captured THEN Cut(msx_mouse_clear_input(mouse))
       ELSE UNCHANGED <<mouse, program, told, owed>>
    /\ UNCHANGED motions
SettingsLeaveMouse ==
    /\ host.visible /\ host' = [host EXCEPT !.visible = FALSE]
    /\ UNCHANGED <<mouse, program, told, owed, motions>>

\* The settings give the port another device, or the mouse again
\* (sync_mouse_ports).
msx_mouse_set_enabled ==
    /\ host.visible
    /\ Cut(msx_mouse_reset_state(~mouse.enabled))
    /\ UNCHANGED <<host, motions>>

\* A reset starts the guest anew.
ResetMouse ==
    /\ mouse' = msx_mouse_reset_state(mouse.enabled)
    /\ host' = [host EXCEPT !.captured = FALSE]
    /\ program' = 0 /\ told' = NoReport /\ owed' = None
    /\ UNCHANGED motions

MouseNext ==
    \/ Step \/ OtherPortWrite \/ Wait \/ Release
    \/ SettingsTakeMouse \/ SettingsLeaveMouse \/ msx_mouse_set_enabled \/ ResetMouse
    \/ \E d \in Deltas : Motion(d)
    \/ \E b \in Button : ButtonDown(b) \/ ButtonUp(b)

MouseSpec == MouseInit /\ [][MouseNext]_mousevars

---------------------------------------------------------------------------
(* Properties.                                                             *)

\* Every motion of the host arrives, whenever it is made: what the guest was
\* told and what still waits add up to it, halved and reversed, the odd step
\* too (msx_mouse_scale_axis, msx_mouse_latch, msx_mouse_write_port).  A
\* report that the guest breaks off is lost.
MotionWhole ==
    program # Torn =>
        LET under_way == IF program \in 1 .. 3 THEN mouse.latched ELSE None
        IN  owed = [a \in Axis |-> mouse.fractional[a]
                                    - 2 * (mouse.pending[a] + under_way[a])]

\* No button sticks: the guest sees one only while the user holds it.
ButtonsTrue == mouse.buttons_pressed \subseteq host.down

MouseTrue == MotionWhole /\ ButtonsTrue
=============================================================================
