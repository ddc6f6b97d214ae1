----------------------------- MODULE MCSettings -----------------------------
(***************************************************************************)
(* Users for the model checker: pairs of devices that meet in the code,    *)
(* by a slot, a ROM file, a mode setting or a machine that needs the slot, *)
(* and single ones whose connection takes several host calls.  Nobody here *)
(* owns the RS-232C interface, whose missing bookkeeping would fail every  *)
(* property, or MSX-MUSIC, whose connection is another ROM in a slot.      *)
(* Nine host operations are those of the longest event: a further one is   *)
(* never reached, so that each is refused in turn.                         *)
(***************************************************************************)
EXTENDS Settings

MCReserved == [x \in Machine |-> IF x = "m1" THEN 0 ELSE -1]
Owns(devices) == [kit |-> devices, machines |-> {"m0"}, edits |-> 2,
                  calls |-> 9, start |-> 0, gives_up |-> TRUE]
Keeps(devices) == [Owns(devices) EXCEPT !.gives_up = FALSE]
Chooses(devices) == [Owns(devices) EXCEPT !.machines = Machine]
Unrefused(devices) == [Owns(devices) EXCEPT !.calls = 0]
Once(someone) == [someone EXCEPT !.edits = 1]

MCUsers == {Owns({"sunrise_ide"}), Once(Owns({"sunrise_ide", "cdx2"})),
            Unrefused({"sunrise_ide", "cdx2"}), Once(Owns({"megaflash"})),
            Unrefused({"megaflash"}), Owns({"floppy", "scc"}),
            Chooses({"scc"}), Once(Chooses({"sunrise_ide", "scc"})),
            Chooses({"rdf600", "powergraph_v9990"}),
            Once(Keeps({"sd_mapper"})), Once(Keeps({"msx_scsi"})),
            Once(Keeps({"msx_scsi", "cdx2"}))}

\* Two that meet what the code gets wrong.
MCScsiUser == {Unrefused({"msx_scsi"})}
MCCardUser == {Owns({"sd_mapper"})}
=============================================================================
