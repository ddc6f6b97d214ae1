------------------------------- MODULE Tc8566 -------------------------------
(***************************************************************************)
(* The TC8566AF of the RDF600 cartridge (src/tc8566.c) on the same drives: *)
(* a command byte, its parameters, data or format tuples, and result bytes *)
(* pass through one data port, and the main status register tells the      *)
(* guest which way the next byte goes.  Parameter values are chosen when   *)
(* the last one arrives, the only moment the controller looks at them; the *)
(* values of result bytes are left out but for the error they report.      *)
(***************************************************************************)
EXTENDS Floppy

CONSTANTS SectorBytes, Cylinder, Head, SectorNumber,
          FormatCount,          \* sectors that a format command asks for
          UnitSelect            \* units it addresses; 2 and 3 have no drive

VARIABLE tc

Command == {"none", "read data", "write data", "read id", "format",
            "recalibrate", "specify", "sense drive", "seek",
            "sense interrupt", "invalid"}

\* parameter_needed; a command that takes none goes straight to its result.
Needed(c) ==
    CASE c \in {"read data", "write data"} -> 8
      [] c = "format" -> 5
      [] c \in {"specify", "seek"} -> 2
      [] OTHER -> 1

TcReset ==
    [phase |-> "idle", command |-> "none", main_status |-> {"RQM"},
     control |-> 0, selected_drive |-> 0,
     current_track |-> [d \in Drive |-> 0], parameter_count |-> 0,
     cylinder |-> 0, head |-> 0, sector |-> 0, end_of_track |-> 0,
     position |-> 0, size |-> 0, left |-> 0, tuple |-> 0]

\* Functions of the controller's state.  position and size count the bytes
\* of the result in the result phase, those of the sector in the others.
enter_idle(w) ==
    [w EXCEPT !.phase = "idle", !.command = "none", !.main_status = {"RQM"},
              !.parameter_count = 0, !.position = 0, !.size = 0]
enter_result(w, count) ==
    [w EXCEPT !.phase = "result", !.position = 0, !.size = count,
              !.main_status = {"RQM", "BUSY", "DIO"}]
enter_rw_result(w) == enter_result(w, 7)
set_command_error(w) == enter_rw_result(w)      \* with an error in ST0, ST1

rw_request_valid(w, write, size2) ==
    LET d == w.selected_drive
    IN  /\ floppy_image_mounted(d)
        /\ write => floppy_image_writable(d)
        /\ size2 /\ w.cylinder = w.current_track[d]
        /\ OnDisk(d, w.cylinder, w.head, w.sector)

Moving(w, phase, status) ==
    [w EXCEPT !.phase = phase, !.position = 0, !.size = SectorBytes,
              !.main_status = {"RQM", "BUSY", "NONDMA"} \cup status]

load_read_sector(w, size2, host) ==
    IF rw_request_valid(w, FALSE, size2) /\ host = "done"
    THEN Moving(w, "read", {"DIO"}) ELSE set_command_error(w)
begin_write_sector(w, size2) ==
    IF rw_request_valid(w, TRUE, size2) THEN Moving(w, "write", {})
    ELSE set_command_error(w)

CommandDone(w) == enter_rw_result([w EXCEPT !.sector = @ + 1])

\* The command ends with its request or with the track.
next_sector(w, write, host) ==
    LET d == w.selected_drive
        last == d \notin Drive \/ w.sector >= w.end_of_track
                \/ w.sector >= (IF floppy_image_mounted(d)
                                THEN sectors_per_track[image[d].file] ELSE 0)
        next == [w EXCEPT !.sector = @ + 1]
    IN  IF last THEN CommandDone(w)
        ELSE IF write THEN begin_write_sector(next, TRUE)
             ELSE load_read_sector(next, TRUE, host)

(* ------------------------- commands of the guest ----------------------- *)

begin_command(c) ==
    /\ tc.phase = "idle"
    /\ tc' = LET w == [tc EXCEPT !.command = c, !.parameter_count = 0]
             IN  CASE c = "sense interrupt" -> enter_result(w, 2)
                   [] c = "invalid" ->
                        enter_result([w EXCEPT !.command = "none"], 1)
                   [] OTHER -> [w EXCEPT !.phase = "command",
                                         !.main_status = {"RQM", "BUSY"}]
    /\ UNCHANGED floppyvars

WriteParameter ==
    /\ tc.phase = "command" /\ tc.parameter_count + 1 < Needed(tc.command)
    /\ tc' = [tc EXCEPT !.parameter_count = @ + 1]
    /\ UNCHANGED floppyvars

LastParameter(commands, next) ==
    /\ tc.phase = "command" /\ tc.command \in commands
    /\ tc.parameter_count + 1 = Needed(tc.command)
    /\ tc' = next /\ UNCHANGED floppyvars

Addressed(t, h, n) ==
    [tc EXCEPT !.parameter_count = Needed(tc.command),
               !.selected_drive = tc.control, !.cylinder = t, !.head = h,
               !.sector = n]
prepare_read_write(write, t, h, n, eot, size2, host) ==
    LET w == [Addressed(t, h, n) EXCEPT !.end_of_track = eot]
    IN  LastParameter({IF write THEN "write data" ELSE "read data"},
            IF write THEN begin_write_sector(w, size2)
            ELSE load_read_sector(w, size2, host))

OnTrack(w) ==
    /\ floppy_image_mounted(w.selected_drive)
    /\ w.head < sides[image[w.selected_drive].file]
    /\ w.cylinder < tracks[image[w.selected_drive].file]
Here == IF tc.control \in Drive THEN tc.current_track[tc.control] ELSE 0
prepare_read_id(h) ==
    LET w == Addressed(Here, h, 1)
    IN  LastParameter({"read id"},
            IF OnTrack(w) THEN enter_rw_result(w) ELSE set_command_error(w))
prepare_format(h, count, size2) ==
    LET w == [Addressed(Here, h, 1) EXCEPT !.left = count, !.tuple = 0]
    IN  LastParameter({"format"},
            IF /\ OnTrack(w) /\ floppy_image_writable(w.selected_drive)
               /\ size2 /\ count > 0
            THEN [w EXCEPT !.phase = "format",
                           !.main_status = {"RQM", "BUSY", "NONDMA"}]
            ELSE set_command_error(w))

\* Recalibrate is a seek to cylinder 0.
Seek(d, t) ==
    LastParameter({"recalibrate", "seek"},
        LET at == IF tc.command = "seek" THEN t ELSE 0
        IN  enter_idle([tc EXCEPT !.selected_drive = d, !.current_track =
                IF d \in Drive THEN [@ EXCEPT ![d] = at] ELSE @]))
Specify == LastParameter({"specify"}, enter_idle(tc))
SenseDrive(d) ==
    LastParameter({"sense drive"},
        enter_result([tc EXCEPT !.parameter_count = 1, !.selected_drive = d], 1))

(* --------------------------- data and results -------------------------- *)

tc8566_read_data(host) ==
    /\ tc.phase \in {"read", "result"} /\ tc.position < tc.size
    /\ LET w == [tc EXCEPT !.position = @ + 1]
       IN  tc' = IF w.position < w.size THEN w
                 ELSE IF tc.phase = "result" THEN enter_idle(w)
                      ELSE next_sector(w, FALSE, host)
    /\ UNCHANGED floppyvars

tc8566_write_control(value) ==
    /\ tc' = [tc EXCEPT !.control = value, !.selected_drive = value]
    /\ UNCHANGED floppyvars

WriteByte(host) ==
    /\ tc.phase = "write" /\ tc.position < tc.size
    /\ LET w == [tc EXCEPT !.position = @ + 1]
           d == tc.selected_drive
       IN  IF w.position < w.size THEN tc' = w /\ UNCHANGED floppyvars
           ELSE /\ floppy_image_write_sector(d, tc.cylinder, tc.head,
                                             tc.sector, host)
                /\ tc' = IF Stored(d, tc.cylinder, tc.head, tc.sector, host)
                         THEN next_sector(w, TRUE, host)
                         ELSE set_command_error(w)

TupleByte == /\ tc.phase = "format" /\ tc.tuple < 3
             /\ tc' = [tc EXCEPT !.tuple = @ + 1] /\ UNCHANGED floppyvars
format_data_write(t, h, n, size2, host) ==
    /\ tc.phase = "format" /\ tc.tuple = 3
    /\ LET w == [tc EXCEPT !.tuple = 0, !.cylinder = t, !.head = h,
                           !.sector = n]
           d == tc.selected_drive
       IN  IF size2 /\ d \in Drive
           THEN /\ floppy_image_write_sector(d, t, h, n, host)
                /\ tc' = IF ~Stored(d, t, h, n, host) THEN set_command_error(w)
                         ELSE IF w.left > 1 THEN [w EXCEPT !.left = @ - 1]
                              ELSE enter_rw_result([w EXCEPT !.left = 0])
           ELSE tc' = set_command_error(w) /\ UNCHANGED floppyvars

tc8566_reset == tc' = TcReset

TcNext ==
    \/ \E c \in Command \ {"none"} : begin_command(c)
    \/ WriteParameter
    \/ \E write, size2 \in BOOLEAN, t \in Cylinder, h \in Head,
          n, eot \in SectorNumber, host \in {"done", "refused"} :
          prepare_read_write(write, t, h, n, eot, size2, host)
    \/ \E h \in Head : prepare_read_id(h)
    \/ \E h \in Head, count \in FormatCount, size2 \in BOOLEAN :
          prepare_format(h, count, size2)
    \/ \E d \in UnitSelect, t \in Cylinder : Seek(d, t)
    \/ Specify
    \/ \E d \in UnitSelect : SenseDrive(d)
    \/ \E host \in {"done", "refused"} : tc8566_read_data(host)
    \/ \E value \in UnitSelect : tc8566_write_control(value)
    \/ \E host \in HostOutcome : WriteByte(host)
    \/ TupleByte
    \/ \E t \in Cylinder, h \in Head, n \in SectorNumber, size2 \in BOOLEAN,
          host \in HostOutcome : format_data_write(t, h, n, size2, host)

-----------------------------------------------------------------------------
\* What the main status register asks for is what the controller acts on:
\* a byte to read is there, a byte to write is taken.
StatusTruthful ==
    /\ "RQM" \in tc.main_status
    /\ ("BUSY" \in tc.main_status) = (tc.phase # "idle")
    /\ IF "DIO" \in tc.main_status
       THEN tc.phase \in {"read", "result"} /\ tc.position < tc.size
       ELSE \/ tc.phase = "idle"
            \/ tc.phase = "command" /\ tc.parameter_count < Needed(tc.command)
            \/ tc.phase = "write" /\ tc.position < tc.size
            \/ tc.phase = "format" /\ tc.left > 0
=============================================================================
