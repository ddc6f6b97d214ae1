------------------------------ MODULE Settings ------------------------------
(***************************************************************************)
(* The settings overlay over the machine it reconfigures (overlay.c, the   *)
(* device part of msx.c, the slot owners of config.c, the start of main.c).*)
(*                                                                         *)
(* The user opens the overlay with F9, and everything he changes is made   *)
(* to the running machine at once: a device is connected, which may throw  *)
(* a cartridge out and move the devices of a lower priority to another     *)
(* slot; images are mounted, ejected and mounted again in another mode.    *)
(* Closing with F9 keeps the changes, Escape gives them up and has to undo *)
(* each of them.  Files are chosen in a dialog of the host, whose answer   *)
(* comes at any later time.                                                *)
(*                                                                         *)
(* An event is one function of the world, a record of the configuration c, *)
(* the live machine m and the overlay ui.  Every operation that needs the  *)
(* host (reading a ROM, opening an image, writing back what the guest has  *)
(* changed) may be refused; fail counts down to the refused one, so that   *)
(* an event stays a function, ok is the result of the last operation, and  *)
(* lost tells that the refusal to close an image took the image along.     *)
(*                                                                         *)
(* Not here: rows and sections of the menu, notifications, settings of     *)
(* display, sound and input; the flash image of MegaFlash (MegaFlashStore),*)
(* the clock (RtcStore), the drives' contents (FloppyDrives), the cassette,*)
(* the model editor, the mapper and RAM options of cartridges.             *)
(***************************************************************************)
EXTENDS Integers, Sequences, SequencesExt

CONSTANTS
    Users,         \* who uses the program, one user per behaviour: his
                   \* devices, the machines he chooses from, whether he
                   \* ever gives up, and his bounds:
                   \* his edits, and how many host operations of an event,
                   \* or of the start, may be refused
    Rom, Image, Cart,                                   \* files of the user
    Empty,         \* no file: an empty path
    Machine, DefaultMachine,
    ReservedSlot   \* the slot of each machine's own floppy controller
                   \* (-1: it takes no cartridge slot)

ASSUME UsersAssumption ==
    \A u \in Users :
        /\ u.kit \subseteq {"sunrise_ide", "msx_scsi", "sd_mapper", "scc",
                            "megaflash", "msx_music", "rs232", "cdx2",
                            "rdf600", "powergraph_v9990", "floppy"}
        /\ u.machines \subseteq Machine
        /\ {u.edits, u.calls, u.start} \subseteq Nat
ASSUME ReservedAssumption == ReservedSlot \in [Machine -> -1 .. 1]

VARIABLES
    user,      \* who uses the program
    config,    \* the configuration in memory
    msx,       \* the live machine
    saved,     \* the configuration when the overlay was opened
    ui,        \* the overlay
    dialog,    \* the file dialog that is open, if any
    refused,   \* the host refused an operation: "never", at the "start" of
               \* the program, in an "edit", the "closing" of an image in one,
               \* or in "giving_up"
    given_up,  \* the session was given up: "no", "yes", "half" when the
               \* machine could not be put back, "kept" when it stayed so
    edits      \* how many changes were made

vars == <<user, config, msx, saved, ui, dialog, refused, given_up, edits>>

---------------------------------------------------------------------------
(* Devices, the bays of their images, cartridge slots.                     *)

kit == user.kit
MayEdit == edits < user.edits /\ edits' = edits + 1

Slot == {0, 1}
Priority == <<"sunrise_ide", "msx_scsi", "sd_mapper", "megaflash", "scc",
              "msx_music", "rs232", "cdx2", "rdf600", "powergraph_v9990">>
Device == ToSet(Priority)
Drives == {"sunrise_ide", "msx_scsi", "sd_mapper", "megaflash"}
Controllers == {"cdx2", "rdf600"}      \* floppy controllers in a cartridge
\* Devices that are something in the machine, not only an owner of a slot.
Placed == Drives \cup Controllers \cup {"rs232", "powergraph_v9990"}
WithRom == Drives \cup Controllers \cup {"rs232"}

BaysOf == [d \in {"sunrise_ide", "msx_scsi", "sd_mapper", "megaflash",
                  "floppy"} |->
    CASE d = "sunrise_ide" -> <<"ide">>
      [] d = "msx_scsi" -> <<"scsi">>
      [] d = "sd_mapper" -> <<"sd_a", "sd_b">>
      [] d = "megaflash" -> <<"mf_a", "mf_b">>
      [] d = "floppy" -> <<"drive_a", "drive_b">>]
Bay == UNION {ToSet(BaysOf[d]) : d \in DOMAIN BaysOf}
DeviceOf == [b \in Bay |-> CHOOSE d \in DOMAIN BaysOf : b \in ToSet(BaysOf[d])]
\* The image modes of the configuration: one for all SD cards.
Kind == {"ide", "scsi", "sd", "floppy"}
KindOf == [b \in Bay |->
    CASE b \in {"ide", "scsi"} -> b
      [] b \in {"drive_a", "drive_b"} -> "floppy"
      [] OTHER -> "sd"]

Nobody == "nobody"
NoDisk == <<Empty, "ro">>               \* a bay holds a path and a mode
NoCart == <<"nothing", Empty, FALSE>>   \* a slot: what, its file, its bank
NoDialog == <<"none", "none">>

ModeOf(c, b) == c.mode[KindOf[b]]

\* Of the devices that are switched on, those that come first.
Leading(places) ==
    IF places = {} THEN Nobody
    ELSE Priority[CHOOSE i \in places : \A j \in places : i <= j]
First(on) == Leading({i \in DOMAIN Priority : Priority[i] \in on})
Others(on) == on \ {First(on)}

\* Who the configuration gives a cartridge slot to.
Owner(c, s) ==
    IF s = ReservedSlot[c.machine] THEN "Floppy controller"
    ELSE First(IF ReservedSlot[c.machine] # -1 \/ s = 0 THEN c.on ELSE Others(c.on))

TheSlot(slots) == IF slots = {} THEN -1 ELSE CHOOSE s \in slots : TRUE
OwnSlot(c, d) == TheSlot({s \in Slot : Owner(c, s) = d})

\* Two devices at one port, and more devices than slots, are not kept.
Normalize(c) ==
    LET apart == IF {"msx_scsi", "cdx2"} \subseteq c.on /\ c.d0
                 THEN c.on \ {"cdx2"} ELSE c.on
        second == IF ReservedSlot[c.machine] = -1 THEN {First(Others(apart))}
                                                  ELSE {}
    IN [c EXCEPT !.on = apart \cap ({First(apart)} \cup second)]

---------------------------------------------------------------------------
(* The world of one event.                                                 *)

Fine(w) == [w EXCEPT !.ok = TRUE]
Failed(w) == [w EXCEPT !.ok = FALSE]

\* An operation the host may refuse.
Called(w) == [w EXCEPT !.fail = IF @ > 0 THEN @ - 1 ELSE 0,
                       !.ok = w.fail # 1]

Then(w, Op(_)) == IF w.ok THEN Op(w) ELSE w

\* One operation after the other, of four at most.
OneByOne(w, Op(_, _), S) ==
    LET Nth(v, i) == IF i <= Len(S) THEN Op(v, S[i]) ELSE v
    IN Nth(Nth(Nth(Nth(w, 1), 2), 3), 4)
\* The same, up to the first that fails.
InTurn(w, Op(_, _), S) ==
    OneByOne(w, LAMBDA v, x : IF v.ok THEN Op(v, x) ELSE v, S)

---------------------------------------------------------------------------
(* The machine: what msx.c does to its devices.                            *)

Connected(m, d) == /\ m.slot[d] # -1
                   /\ d \in Controllers => m.cart[m.slot[d]] # NoCart
LiveSlot(m, d) == IF Connected(m, d) THEN m.slot[d] ELSE -1

\* An image is closed, and is gone even when the host refuses that.
ShutBay(w, b) ==
    LET v == IF w.m.bay[b] = NoDisk \/ DeviceOf[b] = "floppy" THEN Fine(w)
                                                             ELSE Called(w)
    IN [v EXCEPT !.m.bay[b] = NoDisk, !.lost = @ \/ ~v.ok]

\* Taking an image out first stores what the guest has changed in it, and
\* leaves it where it is when that is refused.
EjectBay(w, b) ==
    Then(IF w.m.bay[b][2] = "rw" /\ b \notin w.fresh THEN Called(w)
                                                     ELSE Fine(w),
         LAMBDA v : ShutBay(v, b))

\* An image is opened, the one in its bay taken out.
MountBay(w, b, path, mode) ==
    IF DeviceOf[b] # "floppy" /\ ~Connected(w.m, DeviceOf[b]) THEN Failed(w)
    ELSE Then(Then(Called(w), LAMBDA v : EjectBay(v, b)),
              LAMBDA v : [v EXCEPT !.m.bay[b] = <<path, mode>>,
                                   !.fresh = @ \cup {b}])

\* MegaFlash stores flash and cards before it lets go of any; the SD mapper
\* lets go of its cards one by one; Sunrise IDE takes the RS-232C interface
\* out of its slot as well.
EjectMegaflash(w) ==
    Then(InTurn(IF Connected(w.m, "megaflash") THEN Called(w) ELSE Fine(w),
                ShutBay, BaysOf["megaflash"]),
         LAMBDA v : [v EXCEPT !.m.slot["megaflash"] = -1])
EjectSunrise(w) ==
    Then(EjectBay(w, "ide"),
         LAMBDA v : [v EXCEPT !.m.slot["sunrise_ide"] = -1,
                              !.m.slot["rs232"] = -1])
EjectDrive(w, d) ==
    CASE d = "megaflash" -> EjectMegaflash(w)
      [] d = "sunrise_ide" -> EjectSunrise(w)
      [] OTHER -> Then(InTurn(Fine(w), EjectBay, BaysOf[d]),
                       LAMBDA v : [v EXCEPT !.m.slot[d] = -1])
EjectController(w, d) ==
    IF w.m.slot[d] = -1 THEN Fine(w)
    ELSE [Fine(w) EXCEPT !.m.slot[d] = -1, !.m.cart[w.m.slot[d]] = NoCart]
EjectDevice(w, d) == IF d \in Drives THEN EjectDrive(w, d)
                                     ELSE EjectController(w, d)

\* Whatever is put into a slot, or taken out of it, the SCSI or floppy
\* controller that was there goes; the RS-232C ROM is not known to go.
ReleaseSlot(w, s) ==
    Then(IF w.m.slot["msx_scsi"] # s THEN Fine(w)
         ELSE Then(EjectBay(w, "scsi"),
                   LAMBDA v : [v EXCEPT !.m.slot["msx_scsi"] = -1]),
         LAMBDA v : [v EXCEPT !.m.slot = [d \in Placed |->
            IF d \in Controllers /\ v.m.slot[d] = s THEN -1
                                                    ELSE v.m.slot[d]]])

InstallCart(w, s, content) ==
    Then(ReleaseSlot(w, s), LAMBDA v : [v EXCEPT !.m.cart[s] = content])

EjectCart(w, s) == Fine(InstallCart(w, s, NoCart))

LoadCart(w, s, path) ==
    Then(Called(w), LAMBDA v : InstallCart(v, s, <<"user", path, FALSE>>))

\* A drive ejects the slot's cartridge itself; a controller and the RS-232C
\* interface are cartridges.  SCSI at D0 and CDX-2 exclude each other.
LoadDrive(w, d, s, rom, d0) ==
    [w EXCEPT !.m.slot[d] = s, !.m.cart[s] = NoCart,
              !.m.rom[d] = rom,
              !.m.d0 = IF d = "msx_scsi" THEN d0 ELSE @]
LoadDevice(w, d, s, rom, bank, d0) ==
    IF \/ s = -1 \/ rom = Empty
       \/ d = "msx_scsi" /\ d0 /\ w.m.slot["cdx2"] # -1
       \/ d = "cdx2" /\ Connected(w.m, "msx_scsi") /\ w.m.d0
    THEN Failed(w)
    ELSE Then(Called(w), LAMBDA v :
            IF d \in Drives
            THEN LoadDrive(v, d, s, rom, d0)
            ELSE Then(InstallCart(v, s, <<d, rom, d = "cdx2" /\ bank>>),
                      LAMBDA u : [u EXCEPT !.m.slot[d] = s]))

MountAll(w, d, images, c) ==
    InTurn(w, LAMBDA v, b : IF images[b] = Empty THEN v
                            ELSE MountBay(v, b, images[b], ModeOf(c, b)),
           BaysOf[d])

\* New settings for a device at work: all of them or, if anything is
\* refused, the old ones.
ReplaceDrive(w, d, p) ==
    IF ~Connected(w.m, d) THEN Failed(w)
    ELSE Then(Called(w), LAMBDA v :
            [v EXCEPT !.m.rom[d] = p.rom,
                      !.m.d0 = IF d = "msx_scsi" THEN p.d0 ELSE @,
                      !.m.bay = [b \in Bay |->
                         IF DeviceOf[b] # d THEN v.m.bay[b]
                         ELSE IF p.image[b] = Empty THEN NoDisk
                         ELSE <<p.image[b], ModeOf(v.c, b)>>],
                      !.fresh = @ \cup ToSet(BaysOf[d])])
ReplaceDevice(w, d, p) ==
    IF d = "msx_scsi" /\ p.d0 /\ w.m.slot["cdx2"] # -1
    THEN Failed(w) ELSE ReplaceDrive(w, d, p)

MoveCart(m, d, s) ==
    IF ~Connected(m, d) \/ s = -1 \/ m.slot[d] = s THEN m
    ELSE [m EXCEPT !.slot[d] = s,
                   !.cart = [x \in Slot |-> IF x = s THEN m.cart[m.slot[d]]
                                                     ELSE NoCart]]

\* The drives move, and take nothing with them.
ReconcileDrives(w) ==
    [w EXCEPT !.m.slot = [d \in Placed |->
        IF d \in Drives /\ Connected(w.m, d) /\ OwnSlot(w.c, d) # -1
        THEN OwnSlot(w.c, d) ELSE w.m.slot[d]]]

\* The devices at work follow the owners of the slots.
Reconcile(w) ==
    [ReconcileDrives(w) EXCEPT
        !.m = MoveCart(MoveCart(@, "cdx2", OwnSlot(w.c, "cdx2")),
                       "rdf600", OwnSlot(w.c, "rdf600"))]

---------------------------------------------------------------------------
(* Connecting and disconnecting (overlay.c).                               *)

Off(w, d) == [w EXCEPT !.c.on = @ \ {d}]
Undone(w, d) == Failed(Reconcile(Off(w, d)))

\* Switching a cartridge device takes or frees a slot: what sits in a slot
\* that gets an owner is thrown out and forgotten.
Toggle(w, d) ==
    IF d \in w.c.on THEN Fine(Reconcile(Off(w, d)))
    ELSE IF \A s \in Slot : Owner(w.c, s) # Nobody THEN Failed(w)
    ELSE LET on == [w EXCEPT !.c.on = @ \cup {d}]
             TakeSlot(v, s) ==
                IF \/ Owner(w.c, s) # Nobody
                   \/ Owner(on.c, s) = Nobody
                   \/ v.c.cart[s] = Empty /\ v.m.cart[s] = NoCart
                THEN v ELSE [EjectCart(v, s) EXCEPT !.c.cart[s] = Empty]
         IN Fine(Reconcile(TakeSlot(TakeSlot(on, 0), 1)))

\* The settings of a device as a setup edits them.
SettingsOf(c, d) == [rom |-> c.rom[d],
                     image |-> [b \in Bay |-> c.image[b]],
                     d0 |-> c.d0]

Store(w, d, p) ==
    [w EXCEPT !.c.rom[d] = p.rom,
              !.c.d0 = IF d = "msx_scsi" THEN p.d0 ELSE @,
              !.c.image = [b \in Bay |-> IF DeviceOf[b] = d THEN p.image[b]
                                                            ELSE w.c.image[b]]]

\* Two devices at one port are refused, and a device without its ROM.
Validate(w, d, p) ==
    IF \/ p.rom = Empty
       \/ d = "msx_scsi" /\ "cdx2" \in w.c.on /\ p.d0
       \/ d = "cdx2" /\ "msx_scsi" \in w.c.on /\ w.c.d0
    THEN Failed(w) ELSE Fine(w)

\* A device whose ROM cannot be loaded, or whose images cannot be mounted,
\* is switched off again; the cartridge it threw out does not come back.
SwitchedOn(w, d, p) == Then(Validate(w, d, p), LAMBDA v : Toggle(v, d))
ControllerLoaded(loaded, d, p) ==
    IF loaded.ok THEN [loaded EXCEPT !.c.rom[d] = p.rom] ELSE Undone(loaded, d)
ConnectController(w, d, p) ==
    Then(SwitchedOn(w, d, p), LAMBDA v : ControllerLoaded(
         LoadDevice(v, d, OwnSlot(v.c, d), p.rom, v.c.bank, FALSE), d, p))
DriveMounted(mounted, d, p) ==
    IF mounted.ok THEN Store(mounted, d, p)
                  ELSE Undone(EjectDevice(mounted, d), d)
DriveLoaded(loaded, d, p) ==
    IF loaded.ok
    THEN DriveMounted(MountAll(loaded, d, p.image, loaded.c), d, p)
    ELSE Undone(loaded, d)
ConnectDrive(w, d, p) ==
    Then(SwitchedOn(w, d, p), LAMBDA v : DriveLoaded(
         LoadDevice(v, d, OwnSlot(v.c, d), p.rom, FALSE, p.d0), d, p))
Connect(w, d, p) == IF d \in Drives THEN ConnectDrive(w, d, p)
                                    ELSE ConnectController(w, d, p)

Disconnect(w, d) == Then(EjectDevice(w, d), LAMBDA v : Toggle(v, d))

\* The RS-232C interface is switched without a look at the slots: its ROM
\* goes over what is there, and the other devices stay where they are.
SwitchRs232(w) ==
    IF "rs232" \in w.c.on THEN Fine(Off(EjectDevice(w, "rs232"), "rs232"))
    ELSE LET on == [w EXCEPT !.c.on = @ \cup {"rs232"}]
             loaded == LoadDevice(on, "rs232", OwnSlot(on.c, "rs232"),
                                  w.c.rom["rs232"], FALSE, FALSE)
         IN IF w.c.rom["rs232"] = Empty THEN Fine(on)
            ELSE IF loaded.ok THEN loaded ELSE Fine(Off(loaded, "rs232"))

\* The machine is made to agree with the configuration, which is normalized
\* first.  A controller that cannot be loaded is switched off.
ApplyController(w, d) ==
    LET connected == Connected(w.m, d)
        loaded == LoadDevice(w, d, OwnSlot(w.c, d), w.c.rom[d], w.c.bank,
                             FALSE)
    IN IF /\ connected = (d \in w.c.on)
          /\ connected /\ d = "cdx2" => w.m.cart[w.m.slot[d]][3] = w.c.bank
       THEN Fine(w)
       ELSE IF d \notin w.c.on THEN Fine(EjectDevice(w, d))
       ELSE IF loaded.ok THEN loaded
       ELSE [Fine(Off(loaded, d)) EXCEPT !.c = Normalize(@)]

ApplyPowergraph(w) ==
    LET own == OwnSlot(w.c, "powergraph_v9990")
        enabled == "powergraph_v9990" \in w.c.on
    IN IF ~enabled THEN [Fine(w) EXCEPT !.m.slot["powergraph_v9990"] = -1]
       ELSE IF own # -1 THEN [Fine(w) EXCEPT
                                 !.m.slot["powergraph_v9990"] = own]
       ELSE [Fine(Off(w, "powergraph_v9990")) EXCEPT !.c = Normalize(@)]

ApplyConfig(w) ==
    LET normal == [w EXCEPT !.c = Normalize(@), !.m.machine = w.c.machine]
    IN ApplyPowergraph(ApplyController(ApplyController(normal, "cdx2"),
                                       "rdf600"))

Dirty(w) == [w EXCEPT !.ui.dirty = TRUE]
Edited(w) == ApplyConfig(Dirty(w))

---------------------------------------------------------------------------
(* Giving up: every part is compared with the saved configuration sv and,  *)
(* when it differs, taken out and put back.                                *)

SavedSlot(sv, d) == IF d \in sv.on THEN OwnSlot(sv, d) ELSE -1

\* Where the drive sits is not looked at.
DriveChangedAnywhere(w, sv, d) ==
    \/ (d \in w.c.on) # (d \in sv.on)
    \/ w.c.rom[d] # sv.rom[d]
    \/ d = "msx_scsi" /\ w.c.d0 # sv.d0
    \/ \E b \in ToSet(BaysOf[d]) :
         \/ w.c.image[b] # sv.image[b]
         \/ ModeOf(w.c, b) # ModeOf(sv, b)
         \/ w.m.bay[b] # NoDisk /\ w.m.bay[b][2] # ModeOf(sv, b)

DriveChanged(w, sv, d) ==
    \/ (d \in w.c.on) # (d \in sv.on)
    \/ w.c.rom[d] # sv.rom[d]
    \/ d = "msx_scsi" /\ w.c.d0 # sv.d0
    \/ LiveSlot(w.m, d) # SavedSlot(sv, d)
    \/ \E b \in ToSet(BaysOf[d]) :
         \/ w.c.image[b] # sv.image[b]
         \/ ModeOf(w.c, b) # ModeOf(sv, b)
         \/ w.m.bay[b] # NoDisk /\ w.m.bay[b][2] # ModeOf(sv, b)
PutBack(w, sv, d) ==
    IF SavedSlot(sv, d) = -1 THEN w
    ELSE Then(LoadDevice(w, d, SavedSlot(sv, d), sv.rom[d], FALSE, sv.d0),
              LAMBDA v : MountAll(v, d, sv.image, sv))
RestoreDrive(w, sv, d) ==
    IF DriveChanged(w, sv, d)
    THEN Then(EjectDevice(w, d), LAMBDA v : PutBack(v, sv, d)) ELSE Fine(w)

RestoreController(w, sv, d) ==
    IF /\ (d \in w.c.on) = (d \in sv.on)
       /\ w.c.rom[d] = sv.rom[d]
       /\ d = "cdx2" => w.c.bank = sv.bank
       /\ LiveSlot(w.m, d) = SavedSlot(sv, d)
    THEN Fine(w)
    ELSE LET v == EjectDevice(w, d)
         IN IF SavedSlot(sv, d) = -1 THEN v
            ELSE LoadDevice(v, d, SavedSlot(sv, d), sv.rom[d], sv.bank, FALSE)

RestoreRs232(w, sv) ==
    LET wanted == "rs232" \in sv.on /\ sv.rom["rs232"] # Empty
        live == w.m.slot["rs232"]
    IN IF /\ ("rs232" \in w.c.on) = ("rs232" \in sv.on)
          /\ w.c.rom["rs232"] = sv.rom["rs232"]
          /\ (live # -1) = wanted
          /\ live # -1 => live = OwnSlot(sv, "rs232")
       THEN Fine(w)
       ELSE LET v == EjectDevice(w, "rs232")
            IN IF wanted THEN LoadDevice(v, "rs232", OwnSlot(sv, "rs232"),
                                         sv.rom["rs232"], FALSE, FALSE)
               ELSE v

\* A slot the saved configuration gives to a device is emptied.
RestoreSlot(w, sv, s) ==
    IF w.c.cart[s] = sv.cart[s] /\ Owner(w.c, s) = Owner(sv, s) THEN w
    ELSE IF Owner(sv, s) # Nobody \/ sv.cart[s] = Empty THEN EjectCart(w, s)
    ELSE LET loaded == LoadCart(w, s, sv.cart[s])
         IN IF loaded.ok THEN loaded ELSE EjectCart(loaded, s)

RestoreCartridges(w, sv) == RestoreSlot(RestoreSlot(w, sv, 0), sv, 1)

\* The ROMs of the saved machine, when another one was chosen.
RestoreFirmware(w, sv, machine) ==
    IF machine = sv.machine THEN Fine(w)
    ELSE Then(Called(w), LAMBDA v : [v EXCEPT !.m.firmware = sv.machine])

RestoreFloppies(w, sv) ==
    IF "floppy" \notin kit THEN Fine(w)
    ELSE Then(InTurn(Fine(w), EjectBay, BaysOf["floppy"]),
              LAMBDA v : MountAll(v, "floppy", sv.image, sv))

\* The configuration itself goes back after the devices and before the
\* firmware and the drives.
RestoreSavedConfig(w, sv) ==
    LET Drive(v, d) == RestoreDrive(v, sv, d)
        Controller(v, d) == RestoreController(v, sv, d)
        carts == Then(InTurn(Fine(w), Drive, <<"megaflash", "sd_mapper",
                                        "sunrise_ide", "msx_scsi">>),
                      LAMBDA v : RestoreRs232(RestoreCartridges(v, sv), sv))
    IN Then(InTurn(carts, Controller, <<"cdx2", "rdf600">>),
            LAMBDA v : Then(
                RestoreFirmware(ApplyConfig([v EXCEPT !.c = sv]), sv,
                                w.c.machine),
                LAMBDA u : RestoreFloppies(u, sv)))

---------------------------------------------------------------------------
(* Events of the overlay.  An event runs on the world, with one of its     *)
(* host operations refused, at most one in a behaviour.                    *)

NoPending == [rom |-> Empty, image |-> [b \in Bay |-> Empty], d0 |-> FALSE]

World(fail) == [c |-> config, m |-> msx, ui |-> ui, fail |-> fail,
                ok |-> TRUE, fresh |-> {}, lost |-> FALSE]

\* The whole effect of an event: configuration, machine and overlay.
DoAs(kind, Op(_)) ==
    \E fail \in IF refused = "never" THEN 0 .. user.calls ELSE {0} :
        LET w == Op(World(fail))
        IN /\ w.fail = 0
           /\ config' = w.c /\ msx' = w.m /\ ui' = w.ui
           /\ refused' = IF fail = 0 THEN refused
                         ELSE IF w.lost /\ kind = "edit" THEN "closing"
                         ELSE kind
           /\ UNCHANGED user
Do(Op(_)) == DoAs("edit", Op)

Edit(Op(_)) == /\ MayEdit
               /\ Do(Op)
               /\ UNCHANGED <<saved, dialog, given_up>>

Ui(w, state) == [w EXCEPT !.ui.state = state]
Menu(w) == [w EXCEPT !.ui.state = "menu", !.ui.device = "none",
                     !.ui.editing = FALSE, !.ui.pending = NoPending]
Closed(w) == [Menu(w) EXCEPT !.ui.visible = FALSE, !.ui.dirty = FALSE]
InMenu == ui.visible /\ ui.state = "menu"

\* The answer to a dialog that is open now will be thrown away.
CancelSetup(w) ==
    [Menu(w) EXCEPT !.ui.discard = w.ui.discard \/ dialog # NoDialog]

BeginSetup(w, d, editing) ==
    [w EXCEPT !.ui.state = "setup", !.ui.device = d, !.ui.editing = editing,
              !.ui.pending = SettingsOf(w.c, d)]

\* F9.
Open == /\ ~ui.visible
        /\ ui' = [ui EXCEPT !.visible = TRUE, !.dirty = FALSE]
        /\ saved' = config
        /\ given_up' = IF given_up = "kept" THEN "kept" ELSE "no"
        /\ UNCHANGED <<user, config, msx, dialog, refused, edits>>

\* F9 again, or Enter in the question whether to keep the changes.
Keep == /\ ui.visible
        /\ Do(LAMBDA w : Closed(ApplyConfig(
                IF w.ui.state = "setup" THEN CancelSetup(w) ELSE w)))
        /\ given_up' = IF given_up = "half" THEN "kept" ELSE given_up
        /\ UNCHANGED <<saved, dialog, edits>>

\* Escape in the menu asks first when something was changed.
Ask == /\ InMenu /\ ui.dirty
       /\ Do(LAMBDA w : Ui(w, "confirm"))
       /\ UNCHANGED <<saved, dialog, given_up, edits>>

\* The overlay stays open when the machine could not be put back.
ClosedIfDone(v) == IF v.ok THEN Closed(v) ELSE v
GiveUp(w) == ClosedIfDone(RestoreSavedConfig(w, saved))
Abandon == /\ ui.visible /\ user.gives_up
           /\ ui.state = IF ui.dirty THEN "confirm" ELSE "menu"
           /\ DoAs("giving_up", GiveUp)
           /\ given_up' = IF given_up = "kept" THEN "kept"
                          ELSE IF ui'.visible THEN "half" ELSE "yes"
           /\ UNCHANGED <<saved, dialog, edits>>

\* Escape in a setup, or Enter on its last row.
LeaveSetup == /\ ui.visible /\ ui.state = "setup"
              /\ Do(CancelSetup)
              /\ UNCHANGED <<saved, dialog, given_up, edits>>

\* New settings of a device that is edited reach it only if they differ.
FinishEditing(w, d, p) ==
    LET replaced == IF d \in w.c.on THEN ReplaceDevice(w, d, p) ELSE Fine(w)
    IN IF p = SettingsOf(w.c, d) THEN Menu(w)
       ELSE Then(replaced, LAMBDA v : Menu(Edited(Store(v, d, p))))
FinishSetup(w) ==
    LET d == w.ui.device
        p == w.ui.pending
    IN IF ~w.ok \/ p.rom = Empty THEN w
       ELSE IF w.ui.editing THEN FinishEditing(Fine(w), d, p)
       ELSE Then(Connect(w, d, p), LAMBDA v : Menu(Edited(v)))
Finish == /\ ui.visible /\ ui.state = "setup"
          /\ Edit(LAMBDA w : FinishSetup(Called(w)))

\* What a setup lets one change without a file: no image, the other port.
ClearImage(b) ==
    /\ ui.visible /\ ui.state = "setup" /\ DeviceOf[b] = ui.device
    /\ Do(LAMBDA w : [w EXCEPT !.ui.pending.image[b] = Empty])
    /\ UNCHANGED <<saved, dialog, given_up, edits>>
OtherPort ==
    /\ ui.visible /\ ui.state = "setup" /\ ui.device = "msx_scsi"
    /\ Do(LAMBDA w : [w EXCEPT !.ui.pending.d0 = ~@])
    /\ UNCHANGED <<saved, dialog, given_up, edits>>

\* Enter on a device: disconnected, connected, or its setup when its ROM
\* or an image is not there.
Switch(w, d) ==
    LET files == IF d \in WithRom THEN Called(w) ELSE w
    IN IF d \in w.c.on
       THEN Then(IF d = "rs232" THEN SwitchRs232(w)
                 ELSE IF d \in WithRom THEN Disconnect(w, d)
                 ELSE Toggle(w, d), Edited)
       ELSE IF d = "rs232" THEN Edited(SwitchRs232(w))
       ELSE IF d \notin WithRom THEN Then(Toggle(w, d), Edited)
       ELSE IF w.c.rom[d] = Empty THEN
            IF d \in Drives THEN BeginSetup(w, d, FALSE) ELSE w
       ELSE IF ~files.ok THEN
            IF d \in Drives THEN BeginSetup(files, d, FALSE) ELSE files
       ELSE Then(Connect(files, d, SettingsOf(w.c, d)), Edited)
Activate(d) == InMenu /\ Edit(LAMBDA w : Switch(w, d))

\* Space on a drive device.
EditSettings(d) == /\ InMenu /\ edits < user.edits
                   /\ Do(LAMBDA w : BeginSetup(w, d, TRUE))
                   /\ UNCHANGED <<saved, dialog, given_up, edits>>

\* Delete on a device: disconnected, its settings cleared.
Cleared(w, d) ==
    Then(IF d \in w.c.on THEN Disconnect(w, d) ELSE Fine(w),
         LAMBDA v : Edited([Store(v, d, NoPending) EXCEPT
                       !.c.bank = IF d = "cdx2" THEN FALSE ELSE @]))
Forget(d) == InMenu /\ Edit(LAMBDA w : Cleared(w, d))

\* The jumper of a CDX-2 with two ROMs in one chip.
OtherBank(w) ==
    LET live == LiveSlot(w.m, "cdx2")
    IN Then(IF "cdx2" \in w.c.on /\ live # -1
            THEN LoadDevice(w, "cdx2", live, w.c.rom["cdx2"], ~w.c.bank, FALSE)
            ELSE Fine(w),
            LAMBDA v : Edited([v EXCEPT !.c.bank = ~@]))
SwitchBank == InMenu /\ config.rom["cdx2"] # Empty /\ Edit(OtherBank)

\* Delete on the image of a device at work, or on a cartridge.
Ejected(w, b) ==
    Then(EjectBay(w, b), LAMBDA v : Dirty([v EXCEPT !.c.image[b] = Empty]))
EjectImage(b) ==
    /\ InMenu /\ DeviceOf[b] \in config.on \cup (kit \cap {"floppy"})
    /\ Edit(LAMBDA w : Ejected(w, b))
\* The cartridge is out, and the overlay does not know that it is.
EjectUserCartSilently(s) ==
    /\ InMenu /\ Owner(config, s) = Nobody
    /\ Edit(LAMBDA w : [EjectCart(w, s) EXCEPT !.c.cart[s] = Empty])
CartTaken(w, s) == Dirty([EjectCart(w, s) EXCEPT !.c.cart[s] = Empty])
EjectUserCart(s) ==
    /\ InMenu /\ Owner(config, s) = Nobody
    /\ Edit(LAMBDA w : CartTaken(w, s))

\* Another access to the images of one kind: those that are mounted are
\* mounted again, and if one cannot be, those before it are put back.
RemountBay(w, b, mode) == IF w.m.bay[b] = NoDisk THEN w
                          ELSE MountBay(w, b, w.c.image[b], mode)
Remount(w, bays, mode) == InTurn(w, LAMBDA v, b : RemountBay(v, b, mode), bays)
BaysOfKind(k) == SelectSeq(<<"ide", "scsi", "sd_a", "sd_b", "mf_a", "mf_b",
                             "drive_a", "drive_b">>, LAMBDA b : KindOf[b] = k)
\* Drive A keeps the new mode when drive B is refused.
ChangeModeNoWayBack(w, k) ==
    LET mode == IF w.c.mode[k] = "ro" THEN "rw" ELSE "ro"
        remounted == Remount(Fine(w), BaysOfKind(k), mode)
    IN IF remounted.ok THEN Edited([remounted EXCEPT !.c.mode[k] = mode])
       ELSE Failed(remounted)
ChangeDiskMode(w, k, mode) ==
    Then(Remount(Fine(w), BaysOfKind(k), mode),
         LAMBDA v : Edited([v EXCEPT !.c.mode[k] = mode]))
ChangeMode(w, k) ==
    LET mode == IF w.c.mode[k] = "ro" THEN "rw" ELSE "ro"
        remounted == Remount(Fine(w), BaysOfKind(k), mode)
        switched == SelectSeq(BaysOfKind(k), LAMBDA b : b \in remounted.fresh)
    IN IF k \in {"ide", "scsi"} THEN ChangeDiskMode(w, k, mode)
       ELSE IF remounted.ok THEN Edited([remounted EXCEPT !.c.mode[k] = mode])
       ELSE Failed(Remount(Fine(remounted), switched, w.c.mode[k]))
SetImageMode(k) == InMenu /\ Edit(LAMBDA w : ChangeMode(w, k))

\* Another machine: not if one of the drives or sound devices would have to
\* go.  A slot that gets another owner is emptied.
SelectMachine(w, x) ==
    LET target == Normalize([w.c EXCEPT !.machine = x])
        Lost(d) == d \in w.c.on \ target.on
        TakeSlot(v, s) ==
            IF \/ Owner(target, s) \in {Nobody, Owner(w.c, s)}
               \/ v.c.cart[s] = Empty /\ v.m.cart[s] = NoCart
            THEN v ELSE [EjectCart(v, s) EXCEPT !.c.cart[s] = Empty]
        Move(v) ==
            LET u == TakeSlot(TakeSlot([v EXCEPT !.m.firmware = x], 0), 1)
            IN Fine(Reconcile(Edited([u EXCEPT !.c.machine = x])))
    IN IF \E d \in Drives \cup {"scc", "msx_music", "rs232"} : Lost(d)
       THEN Failed(w) ELSE Then(Called(w), Move)
ChooseMachine(x) == InMenu /\ Edit(LAMBDA w : SelectMachine(w, x))

\* All settings back to what a new configuration has, kept if that can be
\* done and saved, else as they were when the overlay was opened.
Defaults == [on |-> {}, rom |-> [d \in WithRom |-> Empty],
             image |-> [b \in Bay |-> Empty],
             mode |-> [k \in Kind |-> "ro"],
             cart |-> [s \in Slot |-> Empty],
             d0 |-> FALSE, bank |-> FALSE, machine |-> DefaultMachine]
ClosedOrBack(v) ==
    IF v.ok THEN Closed(v) ELSE Menu(RestoreSavedConfig(v, saved))
ResetToDefaults ==
    /\ InMenu /\ MayEdit
    /\ DoAs("giving_up", LAMBDA w :
         ClosedOrBack(Then(RestoreSavedConfig(w, Defaults), Called)))
    /\ saved' = IF ui'.visible THEN saved ELSE config'
    /\ given_up' = IF given_up = "half" THEN "kept" ELSE given_up
    /\ UNCHANGED dialog

---------------------------------------------------------------------------
(* The host's file dialog: one at a time, answered whenever the user does. *)

OpenDialog(target) ==
    /\ ui.visible /\ dialog = NoDialog /\ dialog' = target
    /\ UNCHANGED <<user, config, msx, saved, ui, refused, given_up>>
AskForRom(d) ==
    /\ \/ d \in Drives /\ ui.state = "setup" /\ ui.device = d
          /\ UNCHANGED edits
       \/ d \in Controllers /\ InMenu
          /\ MayEdit
    /\ OpenDialog(<<"rom", d>>)
AskForImage(b) ==
    /\ \/ ui.state = "setup" /\ ui.device = DeviceOf[b] /\ UNCHANGED edits
       \/ /\ InMenu /\ MayEdit
          /\ \/ DeviceOf[b] = "floppy"
             \/ DeviceOf[b] \in config.on /\ Connected(msx, DeviceOf[b])
    /\ OpenDialog(<<"image", b>>)
AskForCart(s) ==
    /\ InMenu /\ Owner(config, s) = Nobody
    /\ MayEdit
    /\ OpenDialog(<<"cart", s>>)

\* The answer goes to what is open now: into the setup of the device, else
\* to the machine at once.
TakeRom(w, d, path) ==
    LET live == LiveSlot(w.m, d)
        p == [SettingsOf(w.c, d) EXCEPT !.rom = path]
    IN IF d \in Drives
       THEN IF w.ui.state = "setup" /\ w.ui.device = d
            THEN [w EXCEPT !.ui.pending.rom = path] ELSE w
       ELSE Then(IF d \in w.c.on /\ live # -1
                 THEN Then(LoadDevice(w, d, live, path, w.c.bank, FALSE),
                           LAMBDA v : [v EXCEPT !.c.rom[d] = path])
                 ELSE Connect(w, d, p), Edited)
TakeImage(w, b, path) ==
    IF w.ui.state = "setup" /\ w.ui.device = DeviceOf[b]
    THEN [w EXCEPT !.ui.pending.image[b] = path]
    ELSE Then(MountBay(w, b, path, ModeOf(w.c, b)),
              LAMBDA v : Dirty([v EXCEPT !.c.image[b] = path]))
TakeCart(w, s, path) ==
    IF Owner(w.c, s) # Nobody THEN w
    ELSE Then(LoadCart(w, s, path),
              LAMBDA v : Dirty([v EXCEPT !.c.cart[s] = path]))

Take(w, path) ==
    CASE dialog[1] = "rom" -> TakeRom(w, dialog[2], path)
      [] dialog[1] = "image" -> TakeImage(w, dialog[2], path)
      [] dialog[1] = "cart" -> TakeCart(w, dialog[2], path)

\* An answer that comes after its setup was cancelled, or without an open
\* overlay, changes nothing; nor does one without a file.  Any other makes
\* the overlay remember the directory, and that is a change.
Answered(w, path) ==
    LET kept == [w EXCEPT !.ui.discard = FALSE]
    IN IF w.ui.discard \/ ~w.ui.visible \/ path = Empty THEN kept
       ELSE Take(Dirty(kept), path)
Answer(path) ==
    /\ dialog # NoDialog /\ dialog' = NoDialog
    /\ Do(LAMBDA w : Answered(w, path))
    /\ UNCHANGED <<saved, given_up, edits>>

---------------------------------------------------------------------------
(* The start of the program (main.c) with a configuration from a file.     *)

NoMachine(c) ==
    [slot |-> [d \in Placed |-> -1], rom |-> [d \in Drives |-> Empty],
     bay |-> [b \in Bay |-> NoDisk], cart |-> [s \in Slot |-> NoCart],
     d0 |-> FALSE, machine |-> c.machine, firmware |-> c.machine]

\* A device whose ROM cannot be loaded is switched off; an image that
\* cannot be mounted is only reported.
StartDevice(w, d) ==
    LET loaded == LoadDevice(w, d, OwnSlot(w.c, d), w.c.rom[d], w.c.bank,
                             w.c.d0)
    IN IF d \notin w.c.on \/ (d = "rs232" /\ w.c.rom[d] = Empty) THEN w
       ELSE IF ~loaded.ok THEN [Off(loaded, d) EXCEPT !.c = Normalize(@)]
       ELSE loaded
StartImages(w, d) ==
    OneByOne(w, LAMBDA v, b : IF w.c.image[b] = Empty THEN v
                              ELSE MountBay(v, b, w.c.image[b], ModeOf(w.c, b)),
             BaysOf[d])
StartDrive(w, d) == StartImages(StartDevice(w, d), d)
StartCart(w, s) == IF Owner(w.c, s) # Nobody \/ w.c.cart[s] = Empty THEN w
                   ELSE LoadCart(w, s, w.c.cart[s])

Started(c, fail) ==
    LET nothing == [c |-> Normalize(c), m |-> NoMachine(c), fail |-> fail,
                    ok |-> TRUE, fresh |-> {}, lost |-> FALSE,
                    ui |-> [visible |-> FALSE, dirty |-> FALSE,
                            state |-> "menu", device |-> "none",
                            editing |-> FALSE, pending |-> NoPending,
                            discard |-> FALSE]]
        fdc == OneByOne(ApplyPowergraph(nothing), StartDevice,
                        <<"cdx2", "rdf600">>)
        drives == OneByOne(IF "floppy" \in kit THEN StartImages(fdc, "floppy")
                                               ELSE fdc,
                           StartDrive,
                           <<"sunrise_ide", "msx_scsi", "sd_mapper",
                             "megaflash">>)
        carts == StartCart(StartCart(StartDevice(drives, "rs232"), 0), 1)
    IN ApplyConfig(carts)

\* Configurations that a session can have saved: devices with their ROM,
\* no cartridge in a slot that belongs to a device.
Pasts == [on : SUBSET (kit \ {"floppy"}), machine : user.machines,
            d0 : IF "msx_scsi" \in kit THEN BOOLEAN ELSE {FALSE},
            used : BOOLEAN, carts : BOOLEAN]
UserConfig(o) ==
    LET bare == [Defaults EXCEPT !.on = o.on, !.machine = o.machine,
                                 !.d0 = o.d0]
        owned == IF o.used THEN kit ELSE o.on
    IN [bare EXCEPT
            !.rom = [d \in WithRom |-> IF d \in owned
                                       THEN CHOOSE r \in Rom : TRUE
                                       ELSE Empty],
            !.image = [b \in Bay |-> IF DeviceOf[b] \in kit /\ o.used
                                     THEN CHOOSE i \in Image : TRUE
                                     ELSE Empty],
            !.mode = [k \in Kind |-> IF o.used THEN "rw" ELSE "ro"],
            !.cart = [s \in Slot |-> IF o.carts /\ Owner(bare, s) = Nobody
                                     THEN CHOOSE r \in Cart : TRUE
                                     ELSE Empty]]
UserConfigs == {c \in {UserConfig(o) : o \in Pasts} : Normalize(c) = c}

Init ==
    /\ user \in Users
    /\ \E c \in UserConfigs : \E fail \in 0 .. user.start :
          LET w == Started(c, fail)
          IN /\ w.fail = 0
             /\ config = w.c /\ msx = w.m /\ ui = w.ui /\ saved = w.c
             /\ refused = IF fail > 0 THEN "start" ELSE "never"
    /\ dialog = NoDialog
    /\ given_up = "no"
    /\ edits = 0

KitDevice == kit \cap Device
KitBay == {b \in Bay : DeviceOf[b] \in kit}
Next ==
    \/ Open \/ Keep \/ Ask \/ Abandon
    \/ LeaveSetup \/ Finish \/ OtherPort \/ ResetToDefaults
    \/ \E d \in KitDevice : Activate(d)
    \/ \E d \in KitDevice \cap Drives : EditSettings(d) \/ AskForRom(d)
    \/ \E d \in KitDevice \cap Controllers : AskForRom(d)
    \/ \E d \in KitDevice \cap (Drives \cup Controllers) : Forget(d)
    \/ "cdx2" \in kit /\ SwitchBank
    \/ \E b \in KitBay : ClearImage(b) \/ EjectImage(b) \/ AskForImage(b)
    \/ \E k \in {KindOf[b] : b \in KitBay} : SetImageMode(k)
    \/ \E s \in Slot : EjectUserCart(s) \/ AskForCart(s)
    \/ \E x \in user.machines \ {config.machine} : ChooseMachine(x)
    \/ \E path \in {Empty} \cup (CASE dialog[1] = "rom" -> Rom
                                   [] dialog[1] = "image" -> Image
                                   [] dialog[1] = "cart" -> Cart
                                   [] OTHER -> {}) : Answer(path)

Spec == Init /\ [][Next]_vars

---------------------------------------------------------------------------
(* Properties.                                                             *)

\* No session that could not be given up was kept.
Whole == given_up \in {"no", "yes"}

DevicesInStep ==
    \A d \in Placed :
        /\ LiveSlot(msx, d) = IF d \in config.on THEN OwnSlot(config, d)
                              ELSE -1
        /\ d \in config.on /\ d \in Drives => msx.rom[d] = config.rom[d]
        /\ d \in config.on /\ d \in Controllers =>
              msx.cart[OwnSlot(config, d)]
                = <<d, config.rom[d], d = "cdx2" /\ config.bank>>
Usable(b) == DeviceOf[b] \in config.on \cup (kit \cap {"floppy"})
ImageInStep(b) ==
    msx.bay[b] = IF Usable(b) /\ config.image[b] # Empty
                 THEN <<config.image[b], ModeOf(config, b)>> ELSE NoDisk
ImagesInStep == \A b \in Bay : ImageInStep(b)
CartsInStep ==
    \A s \in Slot :
        Owner(config, s) = Nobody =>
            msx.cart[s] = IF config.cart[s] = Empty THEN NoCart
                          ELSE <<"user", config.cart[s], FALSE>>

\* As long as the host refuses nothing, the machine that runs is the one
\* the configuration describes: devices in their slots with their ROMs,
\* images mounted in their mode, cartridges where no device is, after any
\* connecting, moving, editing, choosing of a machine and giving up
\* (activate_item, reconcile_extension_slots, overlay_tick, restore_*).
InStep == refused = "never" =>
             DevicesInStep /\ ImagesInStep /\ CartsInStep

\* After a refused operation nothing runs that the configuration does not
\* show: what is mounted is the configured image in the configured mode,
\* what is connected is switched on and in its slot (the ways back in
\* connect_*, set_*_image_mode, msx_replace_*).
OneRefusal ==
    refused \in {"edit", "closing", "giving_up"} /\ Whole =>
        /\ \A b \in Bay : msx.bay[b] # NoDisk =>
              /\ Usable(b)
              /\ msx.bay[b] = <<config.image[b], ModeOf(config, b)>>
        /\ \A d \in Placed : LiveSlot(msx, d) # -1 =>
              d \in config.on /\ LiveSlot(msx, d) = OwnSlot(config, d)

\* The machine follows the configuration: it is the one described while the
\* host refuses nothing, and shows nothing else after a refusal (the way
\* forward and the ways back of overlay.c's connect_*, set_* and restore_*).
MachineFollows == InStep /\ OneRefusal

\* Without a refusal, a session that changed anything knows it: Escape asks
\* before it throws changes away and F9 saves them (overlay->dirty).
DirtyTellsTruth ==
    ui.visible /\ refused = "never" /\ config # saved => ui.dirty

\* What was given up is gone: the configuration is the one the session
\* began with and the machine is as that one says, also after a refused
\* edit (restore_saved_config).  An image the host refused to close in an
\* edit is no longer mounted (ata_unmount, sd_card_eject); restore_* does
\* not look for it and may leave its bay empty, and nothing else.
GivenUpIsRestored ==
    /\ given_up = "yes" /\ ~ui.visible
    /\ refused \in {"never", "edit", "closing"}
    => /\ config = saved
       /\ DevicesInStep /\ CartsInStep
       /\ \A b \in Bay :
             ImageInStep(b) \/ (refused = "closing" /\ msx.bay[b] = NoDisk)
=============================================================================
