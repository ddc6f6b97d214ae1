------------------------------ MODULE MCFrontEnd ------------------------------
(***************************************************************************)
(* What the user does to the machine from the host: the settings, with the *)
(* users of MCSettings, the keyboard and the clipboard, the mouse, and the *)
(* cassette player; one of the four at a time, they share no state.        *)
(*                                                                         *)
(* Keyboard: three keys held at once; a text with the same character twice *)
(* and one with Shift, without a key, and without Shift.  Mouse: nibbles   *)
(* of four values and motions that are odd, negative, and larger than one  *)
(* report holds.  Cassette: a program in three blocks and the next one, an *)
(* image with a block behind its second, and a file without data; a CPU of *)
(* five cycles in the time of three samples.                               *)
(***************************************************************************)
EXTENDS MCSettings, Keyboard, Mouse, Cassette

VARIABLE device     \* "settings", "keyboard", "mouse" or "cassette"

MCTexts == {<<"n", "n">>, <<"V", "?", "v">>}
MCDeltas == {<<-3, 17>>, <<1, -5>>}
MCContents == [f \in File |->
    CASE f = "program" -> <<"x", "H", "ea", "ea", "H", "x", "eof", "H", "x">>
      [] f = "image" -> <<"H", "d0", "d0", "H", "x", "H", "x">>
      [] OTHER -> <<"x", "H">>]

\* What the user leaves alone waits in one initial state.
FrontEndInit ==
    /\ device \in {"settings", "keyboard", "mouse", "cassette"}
    /\ Init /\ KeyboardInit /\ MouseInit /\ TapeInit
    /\ device # "settings" => /\ user = CHOOSE u \in Users : TRUE
                              /\ config = CHOOSE c \in UserConfigs : TRUE
    /\ device # "cassette" => tape_path = NoFile
FrontEndNext ==
    /\ UNCHANGED device
    /\ \/ device = "settings" /\ Next /\ UNCHANGED <<keyvars, mousevars, tapevars>>
       \/ device = "keyboard" /\ KeyboardNext /\ UNCHANGED <<vars, mousevars, tapevars>>
       \/ device = "mouse" /\ MouseNext /\ UNCHANGED <<vars, keyvars, tapevars>>
       \/ device = "cassette" /\ TapeNext /\ UNCHANGED <<vars, keyvars, mousevars>>
FrontEndSpec ==
    FrontEndInit /\ [][FrontEndNext]_<<device, vars, keyvars, mousevars, tapevars>>
===============================================================================
