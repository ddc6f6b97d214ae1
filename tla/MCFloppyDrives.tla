--------------------------- MODULE MCFloppyDrives ---------------------------
(***************************************************************************)
(* Two files of one track: f1 with two sectors, f2 with one sector, which  *)
(* the host opens for reading only.  A sector has two bytes.               *)
(***************************************************************************)
EXTENDS FloppyDrives, TLC

CONSTANTS f1, f2

MCPath == {f1, f2}
MCTracks == [f \in {f1, f2} |-> 1]
MCSides == [f \in {f1, f2} |-> 1]
MCSectors == [f \in {f1, f2} |-> IF f = f1 THEN 2 ELSE 1]
MCLocked == {f2}

\* The configuration starts with f1 for drive A and f2 for drive B.
MCInit == Init /\ config.second /\ config.path = (0 :> f1 @@ 1 :> f2)
MCSpec == MCInit /\ [][Next]_vars

\* What the next steps and the properties look at: saved while the overlay
\* is open, the registers of a controller while its command needs them.
TcView ==
    LET kept == <<tc.main_status, tc.control, tc.current_track>>
    IN  CASE tc.phase \in {"idle", "command"} ->
                <<kept, tc.command, tc.parameter_count>>
          [] tc.phase = "result" -> <<kept, tc.position, tc.size>>
          [] tc.phase = "format" -> <<kept, tc.selected_drive, tc.left, tc.tuple>>
          [] OTHER -> tc
MCView ==
    <<floppyvars, controller, TcView, visible, config, requests, history,
      [wd EXCEPT !.multiple = @ /\ wd.busy, !.record_missing = @ /\ lost # {}],
      IF visible THEN saved ELSE 0>>
=============================================================================
