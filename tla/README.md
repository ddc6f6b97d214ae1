# 1983: TLA+ models and proofs

1983 emulates MSX and MSX2 computers. Most of its state is private to one
device and is well covered by the unit tests in `diagnostics/`. What those tests
hardly reach is what several parties do to the same device: the guest program
through its ports, the user through the settings overlay, the host that refuses
a file operation, a resolver thread, a peer on the network, a terminal, a power
failure, and the chips that go on working while the guest does something else.
The modules here model the devices where such parties meet, check them with TLC
on small instances, and prove the results that matter most with TLAPS for all
values of the constants.

Paths below are relative to the repository; the C sources are in `src/`.

Contents: [1 Inventory](#1-inventory) - [2 Modules](#2-modules) -
[3 Runs](#3-runs) - [4 Proofs](#4-proofs) - [5 What is left out](#5-what-is-left-out) -
[6 Plan](#6-plan)

## 1 Inventory

One thread runs everything but name resolution: `main.c` loops over events, the
overlay, a frame of Z80 instructions (`msx_run_frame`), polling of the sockets
and drawing. A port or memory access of the guest is a C call that runs to its
end, so it is one step; so is a key press in the overlay. What makes the program
hard is not data races but the ORDER of such steps: the guest may be stopped in
the middle of a sector, of a command sequence or of a register update when the
user changes what it works on, each host call inside a step may fail, and the
chips catch up with the CPU clock after every instruction.

### 1.1 Modelled

| Component | State | Operations | What is hard | What makes it correct |
|---|---|---|---|---|
| UNAPI resolver, `unapinet.c` | `dns_state`, `dns_ip`, `dns_generation`, `dns_thread`, mutex; a job per thread | query, status, reset, enable, destroy; `dns_worker` | A thread that outlives its query; shutdown while it runs; a thread that cannot be created | The guest sees the answer to its last question only; nobody uses the freed structure; a question ends; a handler does not block |
| UNAPI sockets, `unapinet.c` | four TCP and four UDP handles: host socket, buffers, state, deadline, ring | open, listen, send, receive, state, close, abort; `poll_tcp`, `poll_udp` | Partial sends, full buffers, half-close, resets, deadlines, reuse of a handle | Streams without gap, repetition or exchange; FIN behind the data; descriptors neither leaked nor closed twice; a closed handle becomes free |
| Sunrise IDE and ATA disk, `sunrise.c`, `ata.c` | task file, sector buffer, transfer position, image, dirty flag | register and data accesses, soft and machine reset, mount, eject, flush, shutdown | Host failures in mid-transfer; commands and resets over a transfer; count 0 | A plain disk: whole sectors, inside the image, nothing let go of unsynced |
| SD cards and SD Mapper, `sdcard.c`, `sd_mapper.c` | two cards with command bytes, response queue, block buffer, image; two select bits | bytes in both directions, select, reset, mount, eject, flush, ROM eject, replacement, shutdown | A multiple read fills buffer and queue while the next command arrives; two cards ejected in turn | The card is where the guest knows it to be; blocks whole; nothing let go of unsynced |
| MSX-SCSI and SCSI disk, `msx_scsi.c`, `scsi_disk.c` | bus phase, command block, buffer; the Z5380's copies of phase, data and lines | register writes, handshake, DMA, selection, bus reset, mount, eject, flush, shutdown | The controller copies what the target changes; REQ/ACK against phase changes and disk swaps | Both agree between two handshakes; a plain disk |
| RTC and CMOS, `rtc.c` | four banks of nibbles, mode, test, accumulators, dirty flag, file | port accesses, frame advance, save, load, attach | Carries through month, year and century; saves that lose power; offline time | Shows the time; the file is whole; dirty CMOS is not dropped; a save comes back |
| MegaFlashROM, its files, `megaflash.c`, `overlay.c`, `config.c`, `main.c` | flash in memory, state file, a pending file per image, live, saved and stored configuration | stage, replace, connect, clear, save, cancel, start, recover, flush | A save in several host steps, each failing or cut by death | Image and flash belong together; only writing the settings (save, reset to the defaults, end of the program) replaces them; no programmed flash is overwritten |
| MegaFlashROM, its bus, `megaflash.c` | bank and configuration registers, flash command stage, buffer | writes in four subslots, reset | Ten commands share a stage counter; bank writes are bus writes too | Complete commands only, whole effect, locks hold |
| Floppy images, `floppy.c`, `overlay.c` | file, mode, dirty and change flag of two drives | mount, eject, flush, read, write, change line; the overlay's requests | Swaps in mid-command, refused flushes, rollback of a mode switch | No change forgotten, swaps announced, read-only kept |
| Floppy controllers, `wd2793.c`, `tc8566.c` | registers, transfer, DRQ and INTRQ; phase, parameters, result | all commands | End of multi-sector transfers; errors looked at later than they happen | The guest is always answered |
| Settings overlay, `overlay.c`, with `msx.c`, `config.c`, `main.c` | live and saved configuration, the machine's slots, ROMs, images and cartridges, an open file dialog | connect, disconnect, edit, move, choose files and machine, eject, reset to defaults, keep, give up | Slots are handed on between devices; each host call of an event may be refused; a dialog answers late | The machine is the one the configuration describes; a refusal leaves nothing half done; giving up brings back the saved one |
| VDP, `vdp.c`, with the frame loop of `msx.c` | registers and latches, VRAM, pending access, command engine with its event, flags, sprite status, the lines drawn | four ports; `vdp_advance`: beam, slots, interrupts; the drawing behind the beam; frames | Registers and VRAM change under a running command and behind the beam | Each cell of a command once, in order; the picture is what the beam saw; flags tell the frame; a guest gets what it waits for |
| RS-232C, `rs232_dev.c`, `serial_8251.c`, `serial_8254.c`, `rs232.c` | USART characters, flags and deadlines, three counters, clock line, two rings, the pseudo terminal | ports, the advance after each instruction, reset, switching on and off | Overrun, backpressure, clocks reprogrammed under a character, latched halves | Nothing lost unreported, neither direction stuck, latched counts whole |
| Keyboard and paste, `kbd.c`, `paste.c`, matrix of `msx.c`, events of `main.c` | host keys down, guest function keys, reference counts of the matrix, paste queue | key events with repeat, Ctrl+V, `paste_tick`, releases of everything | Keys and queue share positions; a release of everything falls between a press and its release | Nothing sticks or goes missing; a paste types its text |
| Mouse, `msx.c`, capture in `main.c` | phase, latched and pending motion, fractions, buttons | motion, buttons, capture, the guest's strobes and reads | Motion in the middle of a report; reports that overflow or are broken off | Every motion is told once; no button sticks |
| Cassette, `cassette.c`, with `overlay.c` | samples, position, fraction, motor, last cycle | mount, eject, rewind, motor, reset, every look; keep and give up | Nothing moves the tape but whoever looks; resets turn the clock back | The tape is where its motor took it, and the configured file's |

### 1.2 Modelled in part, or not

| Component | What is hard | Status |
|---|---|---|
| Machine, `msx.c` | Device order, the frame budget against device clocks | Reset, placing of devices and the calls into modelled devices; the instruction and frame loop in Vdp and Serial; slot and mapper decoding planned |
| Configuration and models, `config.c`, `models.c` | A save cut in the middle | Owners of slots and normalisation (Settings); what a save leaves behind (MegaFlashStore); the text formats not modelled |
| Start and main loop, `main.c` | Startup after a failure | Start of the devices, flash and drives (Settings, MegaFlashStore, FloppyDrives); events of keys, mouse and focus (Keyboard, Mouse); command line and timing are host I/O |
| V9990, `v9990.c` | As the VDP | Planned |
| UNAPI port protocol, `unapinet.c` | A command cut by another | Planned |
| Cartridge mappers, `cartridge.c` | Masks for sizes that are no power of two | Planned as functions |
| Game pads, `gamepad.c` | Polled afresh for each frame | Not modelled |
| Z80, `z80.c` | An interpreter with tests of its own | Not modelled: a guest is a sequence of accesses |
| PSG, SCC, `psg.c`, `scc.c` | Numeric only | Not modelled |
| Display, audio, LEDs, notices, GIF, `display.c`, `audio.c`, `leds.c`, `notify.c`, `gifcap.c`, `ffmpeg_gif.c` | Nothing feeds back into the machine | Not modelled |
| Web front end and relay, `web/` | Its relay has handles as UnapiNet | Not modelled |
| Build, packaging, tests, tools | - | Not part of the program; tests were read for what they promise |

### 1.3 How they interact

- `msx.c` decodes an access of the guest to one device and calls it. Models of a
  device take that call as an action (`wd2793_write_memory`, `ata_write_data`,
  `cmd_tcp_send`, `rtc_write_data`, `megaflash_write`) or as an instruction of a
  guest's program (Vdp, Serial).
- After each instruction `msx.c` advances the devices by the cycles it took:
  `vdp_advance`, `rs232dev_io_advance`. What happens within those cycles happens
  without the guest, in the order of its deadlines.
- `overlay.c` calls the same devices while the guest stands still, copies the
  configuration when it opens (`overlay->saved`) and writes or restores it when
  it closes. Settings has this for all devices; what a device does with its own
  files is in FloppyDrives, RtcStore and MegaFlashStore.
- Cartridge devices share two slots. A device of higher priority that comes or
  goes moves the others (`reconcile_extension_slots`).
- `msx_reset` resets controllers but neither images, nor flash, nor CMOS.
- `unapinet_poll` runs once a frame and before each command; `dns_worker` is the
  only other thread, and shares `UnapiNet` under `dns_mutex`.
- Host files are written by devices; `config.c` and `rtc.c` decide what survives
  a death.

## 2 Modules

Definitions carry the names of the C functions they model wherever they model
one. History variables (marked so in the modules) are read by properties only.

**UnapiDns** (`unapinet.c`, resolver; abstract specification **Resolver**). `pc`
says where the frame loop is within a handler that another thread can fall into;
`worker` is the thread behind `dns_thread`. A section under `dns_mutex` is one
step. `QueryCheck .. QuerySpawn` is `cmd_dns_query`, `Status` is
`cmd_dns_status`, `WorkerResolve` and `WorkerPublish` are `dns_worker`, `Reset`
is `unapinet_reset`, `Destroy .. DestroyFree` is `unapinet_destroy`. Resolver has
a question, an answer and a phase, and no threads; `ImplementsResolver` maps
`dns_state` to the phase.

**UnapiTcp, UnapiUdp**, composed by **UnapiNet** (`unapinet.c`, sockets). `conn`
and `udp` are the handles; `net` is the host socket with the far end: bytes the
kernel took (`wire`), bytes under way, FIN and reset. A byte is its position in
its stream. `poll_tcp` does everything the function does for a handle, in its
order. The datagram ring is written in closed form: `Room` is what fits, `Place`
where a datagram goes, `Enqueue` what the ring is after any number of them, which
is what the loop of `poll_udp` leaves. UnapiNet adds the frame loop: `FramePoll`, and a poll before a command
(`BeginCommand`, then `Command`).

**Ata**, composed into **Sunrise** (`ata.c`, `sunrise.c`; abstract specification
**Disk**). The variables are the fields of `AtaDevice`; `medium` is what a reader
of the host file finds, `unsynced` what no flush and sync has covered. A host
failure (short write, refused flush, failed close) is a choice inside the action
of the call. Disk knows images, whole sectors and one transfer; `ImplementsDisk`
maps the registers to it. The constants that describe the images, **Images**, are
common to the three interfaces.

**SdMapper** (`sd_mapper.c`, `sdcard.c`). An access of the data window moves one
byte each way: out of the response queue, and into the command parser or the
block being written. `guest` records what a guest that keeps to the protocol
asked for; a command of the guest is enabled only where such a guest gives one,
which leaves every order of commands, stops, resets and ejections. `card_files` and
`card_unsynced` are the host's side of it.

**Scsi** (`scsi_disk.c`, `msx_scsi.c`). `disk` is the target with its phase, `bus`
the Z5380 with its copies, `disk_files` and `disk_unsynced` the host's side. A byte crosses by a handshake of four accesses or by
DMA. It implements Disk as Ata does, by another mapping.

**Rtc** has the register file, the calendar and the loader's checks as operators;
**RtcStore** is the clock with its ports, its file and the front end around it.
`Frame` is `rtc_advance`; `FlushWrite`, `FlushSync` and `FlushRename` are the
steps of one `rtc_save_persistence`, apart because the power may fail between
them; `Toggle`, `Reconfigure`, `ClockShutdown` are the callers. The loop of
`advance_time` is the recursive function of `AddDays`, one `Turned` for each month.
`truth` is the moment the clock should show.

**MegaFlashStore** (abstract specification **Reseed**). A flash is the image that
seeded it and the number of programs since. `states` are the files (final, and a
pending one per image), `config_file` the configuration on the disk, `config` and
`saved` those in memory. `EditConnected`, `EditDisconnected`, `Setup`, `Connect`,
`Disconnect`, `Clear`, `Cancel` and `ResetToDefaults` are the overlay's functions;
`Save`, `ConfigSave`, `Commit`, `Rollback` are `close_overlay`, one action per host
step, because `Dies` may fall between them. `Quit`, `ExitSave` and `Shutdown` are the
end of the program: a reseed that is staged is saved first, as by F9, then the live
settings are written, whatever they are, and then the flash is flushed. A restore
brings MegaFlash back first and then six other devices, any of which may be refused:
`restored` tells whether the live settings are those of the cartridge ("whole"), a
restore has stopped half way ("half"), or something was done on top of one ("astray").

**MegaFlash**. `BusWrite` is one write of the guest, which `megaflash_write` takes
through the four subslots: bank and configuration registers first, then the flash
(`flash_write`), as the code does. A cell of the flash is the set of its bits
that are 1.

**Floppy** has the images; **Wd2793** and **Tc8566** work on them; **FloppyDrives**
instantiates both over the same drives and adds the overlay. The operations that
a request of the user combines (`floppy_image_flush`, `floppy_image_eject`,
`floppy_image_mount`) are functions of a drive state with the refused host call
as parameter, so that a request of five calls is one step as in the code.
`controller` says which of the two the machine has.

**Settings** (`overlay.c`, the device part of `msx.c`, the owners of `config.c`,
the start of `main.c`). An event of the user is a chain of up to thirty host
operations, each of which may be refused and is then taken back by code of its
own. The module writes an event as a function of the world, a record of the
configuration `c`, the machine `m` and the overlay `ui`; `fail` counts down to
the operation that the host refuses and `ok` is the result of the last one, as in
the C code. `Connect*`, `Disconnect*`, `Replace*`, `Restore*` and `Reconcile`
follow the functions of the same name; an action picks the event and the refused
operation. `AskFor*` opens a file dialog of the host and `Answer` is
`overlay_tick` with the answer, at any later time. Nothing is mounted after an eject
of an IDE, SD or SCSI image whose file the host refused to close (`ShutBay`), while a
refused flush keeps it; `lost` tells the two refusals apart for the properties.

**Vdp** (`vdp.c` and the loop of `msx_run_frame`). `pc` is where the machine is:
"cpu" runs the next access of the guest, "engine" is `vdp_advance` over the cycles
it took, one slot or event after the other, "frame" is the end of a frame,
"pause" lies between two. The ports come with their
latches; the engine takes a slot when `NextTicks` says it gets one; a line is
drawn when something is about to change (`render_flush_completed`), never by the
beam itself. **VdpMemory** is the scaled VRAM with its four bitmap layouts.
**VdpWatched** adds three histories: the job of the running command, what the
beam saw of the lines not yet drawn, and whether the sprite flags are this
frame's. **Blitter** is what the data book says of the commands in closed form,
without registers, slots and events; `ImplementsBlitter` maps the engine to it.
A guest is a program of port accesses and waits (**MCVdpGuests**), because a free
choice among all register values would have no bound.

**Timer8254** has the three counters as operators (a count, its latches, its
output over time); **Serial** has the USART, the clock line between them, the
rings, the pseudo terminal and the overlay that opens and closes it. Time is a
number of ticks; `Advance` moves to the next deadline (`ser8251_advance`,
`counter_advance`), `Instruction` is an access of the guest's program
(**MCSerialGuests**), and `Op` has every access a program may make. `PairRead` is
the guest's record of a count that it reads in two halves. Characters are numbered.

**Keyboard** (`kbd.c`, `paste.c`, the matrix of `msx.c`). `input` has the fields of
`KbdHost`, the matrix with its counts and `Paste`; `fingers` are the keys the user
really holds, which the program learns of only while it gets the events. Six keys
stand for their kinds. The order of the tests in the event loop is that of
`main.c`: end of the capture, settings, guest function keys, Ctrl+V, the rest.
`watch` follows what the guest's scan makes of an undisturbed paste.

**Mouse** (`msx_mouse_*`). `mouse` is `MsxMouse`; `Step` is a strobe and a read of
the guest, `OtherPortWrite` a write meant for the other port, which strobes this one
with the level it has, `Wait` a pause beyond the timeout. `owed` adds up what the
user moved less what the guest was told.

**Cassette** (`cassette.c`). `build_msx_cas` is a function over the elements of a
file, headers and bytes; `cassette_sync` has the arithmetic of the code, with its
carried fraction. `ran` counts the cycles with motor and tape.

## 3 Runs

Twelve runs, in MC modules and `.cfg` files. Five pass, seven expect a violation
(section 3.2). The runs `ports`, `storage`, `kept` and `front_end` take several devices
that share no state, and a behaviour has one of them: `device` (in `ports`, `used`) is
chosen in `Init` and never changes, the others wait in their initial state. This
loses nothing, since no step of one of these devices reads or writes another. The
names of such components are disjoint, so that the MC module extends them and a run
checks the very definitions that the theorems state. Deadlock is checked in
`ports`, where the VDP must always be able to go on (the other three devices of
that run may stop at their bounds, which `PortsNext` allows them by a stutter). In
the other runs a model may stop where its bound on requests, failures or moves is
reached, or after shutdown.

### 3.1 Runs that pass

`ports`, the devices that work while the guest does something else:

| Property | Shows |
|---|---|
| `GuestSeesOwnAnswer`, `NoUseAfterFree`, `ImplementsResolver`, `QueryEnds` | Under resets, toggles and shutdown at any moment an address that the guest reads belongs to the name it asked for last; no worker writes through a freed bridge; a pending query is answered or withdrawn. |
| `StreamsInOrder`, `NoDescriptorLeak`, `FinWaitEnds` | Streams are gapless and in order through partial sends, full queues and resets, a FIN never overtakes accepted bytes, the datagram ring keeps order across its wrap; a handle owns a descriptor exactly while it is open; a closed connection goes away. |
| `SerialInOrder`, `NeverStuck`, `LatchedCountWhole` | Characters pass once and in order unless something happened that must lose one and is reported; neither direction comes to rest with characters waiting unless one met a stopped clock; a latched count is read whole. |
| `ImplementsBlitter` | Refinement: each cell of a command is visited once, in order, with the registers as they were given, each byte of a transfer is taken or offered once, whatever the guest writes meanwhile. |
| `LinesAsTheBeamSaw`, `StatusTellsTheFrame` | A line drawn late shows what the beam saw; the sprite flags of a frame are those of its lines together; the interrupt line tells the flags. |
| `GuestGetsThrough` | Liveness: a guest that waits for its turn in a transfer, for the end of a command or for an interrupt gets to the end of its program. |

`storage`, the three interfaces to a raw image:

| Property | Shows |
|---|---|
| `TransferBounded`, `BufferCurrent`, `NothingForgotten`, `ImplementsDisk` | IDE: no transfer leaves the image or outlives DRQ; what a guest reads is on the image; unsynced sectors belong to the mounted, dirty image; refinement of Disk. |
| `CardAsGuestKnows` | SD: blocks in the queue are whole and current, and what will be stored is what the guest gave, where it asked. |
| `BusInStep`, `ScsiImplementsDisk` | SCSI: between two handshakes the controller shows the target's phase and byte and can go on; refinement of Disk. |
| `CardChangesKept`, `DiskChangesKept` | SD and SCSI: no change on an image is forgotten. |

`kept`, what lives in files of its own:

| Property | Shows |
|---|---|
| `ShowsTheTime`, `FileWhole`, `NothingDropped` | The decoded registers are the moment, in both hour modes, unless the guest set the time; no power failure leaves a torn file; dirty registers are in the file before they are let go of. |
| `ImplementsReseed`, `RunsItsImage`, `NothingReplaced` | A start finds an image and a flash that belong together, and only writing the settings (save, reset to the defaults, end of the program) changes them, whatever step fails or dies; the plugged cartridge runs the configured image; a promotion replaces only the flash it was staged over. Each with the exception of section 5: a restore that stopped half way. |
| `CommandsWork` | A cell changes by a complete command, as that command says, and by nothing else, under write enable and recovery protection. |

A guest that switches the hour mode sets no time unless its hour digits are 20 or
more, which mean an evening in one mode and an afternoon in the other. So in the run
the guest enters the 12-hour mode before noon, the clock turns noon and midnight in
it, is saved and read back, and the property holds it to the moment all the time.

`floppy_drives`: `NothingForgotten`; `ChangeSeen`, a swap is announced to the
guest; `GuestIsAnswered`, a WD2793 command ends with INTRQ or wants data, a sector
that the disk or the host failed to take is reported until the next command, one that
was refused for want of a disk to write to as long as drive, disk and mode stay (see
section 5 for what happens when they do not), and the TC8566 asks for the byte it
will take and leaves its phases; `ReadOnlyKept`, a file changes only while its
drive has it open for writing.

`front_end`, what the user does from the host:

| Property | Shows |
|---|---|
| `MachineFollows` (`InStep` and `OneRefusal`) | As long as the host refuses nothing the machine is the one the configuration describes; after a refused operation nothing runs that the configuration does not show. |
| `DirtyTellsTruth`, `GivenUpIsRestored` | A session that changed anything knows it; giving up brings configuration and machine back, also after a refused edit, but for an image that the host refused to close in it, whose bay may stay empty. |
| `KeysTrue` | The guest sees a key only while the user or the paste holds it, and sees each that is held, but for a Shift hidden by a function key; an undisturbed paste types its text, each character once and with its own Shift. |
| `MouseTrue` | What the guest was told, what is under way and what waits add up to the motion of the host, down to the odd step; a button is down only while the user holds it. |
| `TapeTrue` | The tape is where the running time of its motor took it, whoever looked when; it has the bytes of the configured file in order, with a leader for each header. |

The type invariants are part of the inductive invariants of section 4 and proved
with them; the variables of the modules without a proof are pinned down by their
properties.

Bounds, and why they are enough:

- `ports`, resolver: four generations. A race needs a stale worker (one), a query
  after the reset that withdrew it (two), a reset and a query again (four). Three
  names: one with an address, one that may fail, one literal.
- `ports`, sockets: one TCP handle, one UDP endpoint, buffers of two bytes, streams
  of three, four datagrams in a ring of two. A buffer of two can be empty, partial
  and full with a partial send; a third byte has to wait; the ring wraps twice.
  Handles share no state, so a second one adds only interleavings.
- `ports`, serial: rings of two characters, a terminal that holds two, up to three
  characters typed, time to 24 ticks; a ring and a terminal can be full, an overrun
  needs two characters, a 4-bit counter wraps and is read in two halves of two
  bits. The guests send, fetch, change rate, mode and format in the middle, reset,
  and latch and read back counters while they run; the overlay switches once.
- `ports`, VDP: eight bytes of VRAM of four bits, with the four bitmap layouts
  (two, four, two and one pixels in a byte, planar and not); lines of four ticks,
  frames of five lines; a picture of two or three lines. So commands wrap in both
  directions, cross a byte, run across the end of a frame and lose slots to the
  processor. Over a hundred guests: each command alone, both ways round; transfers
  that wait and that do not, with a first byte before and after the command;
  commands replaced, stopped and outliving their mode; the processor racing the
  engine; line and frame interrupts answered by each kind of change of the picture;
  crowded and colliding sprites.
- `storage`: two images of two sectors and one, the second read-only, sectors of
  two words, counts that wrap at two. Enough for a half sector, a last sector, a
  request that crosses the end and a count of 0. Of the two SD cards the guest
  talks to one, and the other is there to refuse its flush.
- `kept`: five moves of clock, guest or user together; starts two seconds before
  the end of a century, and a second before a noon with a leap day ahead; the host
  clock jumps by forty days and a half or past the accepted age, or is set back a
  day; one power failure, at any step. Two images, one program of a flash, two
  refusals, one death: a reseed over a reseed, over a programmed flash and over a
  pristine one, and a refusal in the roll back of a refusal. Three cells of one bit, two of them in a page and one in the
  recovery area, which is reachable both directly and by wrap-around past 8 MiB; a
  command vocabulary with each unlock cycle and each command byte; buffered counts
  up to 1.
- `floppy_drives`: two files of one track with two and one sectors, two requests of
  the user, sectors of two bytes. The second file opens for reading only, which
  is what makes a mode switch fail for drive B after it succeeded for A. The
  view leaves out controller registers that no step reads again.
- `front_end`, settings: twelve users, each with one or two of the devices that meet
  somewhere in the code (same slot, same ROM file, same mode setting, a machine whose
  own controller needs a slot), two edits or one; any one host operation of an event
  is refused, of up to nine, and no event here has more. Two edits suffice for a
  device thrown out by another and for a refusal after a good change, which giving up
  then has to undo with it; the pairs with the most host operations get their second
  edit from a user who is never refused. Users that would meet the two findings below
  keep their changes or are never refused.
- `front_end`, keyboard: three keys held at once (both keys of a position and a
  third), texts with a repeated character and with Shift, without a key and without
  Shift between; pastes are started over without limit.
- `front_end`, mouse: nibbles of four values, so that a report holds -7 to 7; three
  motions, odd, negative and larger than one report.
- `front_end`, cassette: a CPU of five cycles in the time of three samples, so that
  every fraction occurs; a program of two headers and the next one, an image with a
  block behind its second, a file without data; nine cycles between two resets,
  any number of resets.

Fairness is assumed in `ports` only. Resolver: a handler that was begun runs to its
end and a resolver thread is scheduled, with a `getaddrinfo` that gives up after
some time; nothing is assumed of the guest. Sockets: the frame loop polls (it does
so every frame while the bridge is on), a command returns, and the clock reaches a
deadline that was set; nothing is assumed of the peer. VDP: the machine runs on
through instructions and frames (`Turns`, weak: `msx_run_frame` is called for every
frame), and a guest that looks again and again at its turn comes to see what is
shown at infinitely many of them (`Goes`, strong: a polling loop).

### 3.2 Runs that find a violation

| Run | Finding |
|---|---|
| `unapi_dns_blocks` | `DEVELOPMENT.md` says resolver work must never block the frame loop. A query after a reset joins the thread of the withdrawn query, which may still be in `getaddrinfo`: the emulator stands still until it returns. |
| `rtc_reload` | `rtc_save_persistence` writes what the guest left; `rtc_load_persistence` refuses an hour that does not fit the hour mode. A guest that clears the 12/24 bit in the afternoon loses all four banks at the next start. |
| `mega_unsaved` | When `config_save` fails and no reseed is pending, the overlay closes with the changed settings live. The next reseed is decided against these, so a pending file can carry the name the stored configuration expects, and a start promotes what was never saved. |
| `flash_data` | `flash_write` takes F0 for the reset command even as the datum of a program command: the byte F0 cannot be programmed. |
| `settings_cancel` | Giving up after the SCSI interface was disconnected puts its ROM back first; `restore_cartridges` then empties the slot and takes it out again. The configuration says it is connected. |
| `settings_card` | A disconnect of the SD Mapper that card B refuses has ejected card A; giving up compares settings and slots, finds nothing changed, and does not bring it back. |
| `serial_descriptors` | `rs232dev_create` leaves the descriptors at 0; every start without `--rs232` switches the interface off and closes descriptor 0 of the process. |

## 4 Proofs

TLC checks the instances above; these theorems hold for every value of the
constants, under the assumptions on constants named in the modules. TLC evaluates
them in the runs, for the values of the runs (`HostAssumption`, `NetAssumption`,
`CardAssumption`, `TargetAssumption`, `KeptAssumption`,
`ChipAssumption`, `SerialHolds` among others). All proofs of invariants have one
form: an inductive `IInv` (or a name of the component), that the initial states
satisfy, that each action preserves, and that implies the property; one lemma per
helper of the C code says what the helper preserves, and the actions cite them.

**UnapiProofs**, the resolver: `TypeCorrect`, `NoWorkerOutlivesNet`, `OwnAnswer`,
`Refinement`. Neither the absence of stale workers nor the ownership of the
answer is inductive alone. `IInv` adds who owns a thread (a worker exists exactly
while `dns_thread` is set), that a worker of the current generation works on the
question `dns_state` speaks of (so a stale worker is told by its generation),
what each handler position promises, and that the reply last left for the guest
agrees with the question. Refinement maps each step under `IInv` to a step of
Resolver or a stutter.

**SunriseProofs**: `TypeCorrect`, `TransfersBounded`, `ReadsAreCurrent`,
`NothingIsForgotten`, `Refinement`. The invariant adds that a buffer being
written holds data words only (identify data never gets on a disk). One lemma per
helper of `ata.c` says what it preserves (reset, attach, flush, unmount, load and
store of a sector); the actions cite them.

**DriveProofs**, the SD cards: `GuestKnows` (`CardAsGuestKnows`) and `CardsForgetNothing`
(`CardChangesKept`), under `SdAssumption` (a block with its framing fits the response
queue) and `DistinctCards`: the code does not forbid one image in both cards, and
then an ejection of one would leave the other's changes behind. The invariant says
of each card that after every start token of the queue there is the block and its
CRC; that for an orderly guest this block is the one it waits for, as it is on the
image now; that the bytes of the block being written are those the guest gave, in
order; and where the next block goes. A block that is stored in part (the host
gives up in the middle) makes the image dirty like a whole one.

**DriveProofs**, the SCSI disk: `InStep` (`BusInStep`), `TargetForgetsNothing`
(`DiskChangesKept`) and `TargetRefinement` (`ScsiImplementsDisk`), under `ScsiAssumption`. The invariant has four
parts: the target is sound (its buffer has the length its phase calls for, the
blocks left of a transfer are on the image, a read buffer is the image's sector);
the lines of the controller are consistent (REQ and ACK, DMA request, a pending
advance); a controller that waits shows the target's phase and byte, unless the
disk was swapped under it; and unsynced sectors belong to the mounted, dirty image.
None is inductive without the others: a handshake ends with what `Shows` said when
it began.

**FloppyProofs**: `NothingIsForgotten`, `ReadOnlyIsKept`, `ChangeIsSeen`
(`ChangeSeen`) and `GuestAnswered` (`GuestIsAnswered`). `Safe` (a change not on
stable storage belongs to a mounted image that is dirty) is preserved by flush, by
eject, which lets go only after a good flush, and by mount, which goes through
eject; a request of the user is a sequence of such calls, whichever one the host
refuses, and starts from a safe state. For the guest, `Effect` bounds what either
controller can do to the drives: nothing, a write through a drive that is open for
writing at that moment, or a look at the change line. `ReadOnlyIsKept` follows with
the fact that requests write nothing, `ChangeIsSeen` with the fact that only a look
clears the change flag. `GuestAnswered` rests on one invariant per controller:
`WdInv` (a guest that gave a command and was not told of its end has INTRQ or DRQ,
and a sector that could not be written is in the status: for good until the next
command when the write failed, as the latch `status_error` says, and when it was
refused, as long as a look at the selected drive still finds what refused it) and `TcGood` (the bytes the TC8566
still needs are those of its phase).

**KeptProofs**, the flash image and its files: `FilesAgree` (the inductive invariant itself),
`CartridgeRunsItsImage` (`RunsItsImage`), `WorkIsNotReplaced` (`NothingReplaced`) and
`StoreImplementsReseed` (`ImplementsReseed`), under `StoreAssumption` and
`NoLostSettings`. The second excludes a host that refuses the configuration file
or the end of a promotion at a start: what the code does then is the finding of
`mega_unsaved` and the behaviour named in section 5, and the theorems would be false.
Refusals of the flush, of a load and of a promotion, and a death between any two
steps, are covered. The invariant says that a pending file holds the image it is
named for and was staged over the flash it will replace (`GoodFiles`), that what a
start would find fits the configuration on the disk (`DiskFits`), that the
cartridge fits the live one, and what each step of a save and of its roll back has
done and has yet to do (`PhaseInv`). The end of the program writes the live settings,
whether they were saved or not: that the pair on the disk stays one rests on what
becomes of the pending file first (a QUIT saves a staged reseed, a failed save takes
it back). After a restore that stopped half way the cartridge runs the saved image
under the edited settings, so these parts of the invariant are stated for `restored`
other than "astray", and the two about the cartridge for "whole"; when the same
restore succeeds at a second try everything holds again, which is proved as well.

**KeptProofs**, the chip: `TheCommandsWork` (`CommandsWork`), under `CellAssumption`: any
cells of the 8 MiB and any writes of the guest, and so any order of commands,
bank switches and configuration writes between them. `CommandsWork` decides from
all the writes since the last command ended what they do; the code has a stage
and a buffer. `StageInv` says of each of the twelve stages which writes led to it
(`Carried`: the buffer is the end of the trail, and all in one page); one lemma
per stage shows that the write it takes has the effect the whole sequence has, and
that a sequence that is broken off is none of the commands. Registers and banks
are integers (`ChipType`), so whatever the guest puts into them every flash address
is one, and the erased sector or programmed page is the one of that address.

**KeptProofs**, the clock: `ClockIsSound` (the inductive invariant itself),
`TimeIsShown` (`ShowsTheTime`), `FilesAreWhole` (`FileWhole`) and `NothingIsDropped`
(`NothingDropped`), under `RtcAssumption`: starts are moments of a day, what a guest
writes are nibbles to registers 0 to 15, and the host clock moves either way.
The calendar comes first. A date of the century is a day of 0 to 36524 and the
other way round (`DateKnown`, `DateIs`); one turn of the loop in `advance_time` goes to
the first day of the next month and takes the days up to there off the rest
(`NextMonthIs`, `TurnedIs`); each turn takes off at least one, so that after as many turns as days
the rest fits in the month (`AddDaysIs`). The loop is a recursive function of the turns,
and both inductions are over sets of numbers, as in FrontEndProofs below. What
`set_time` writes in either hour mode is what `Decoded` reads (`DecodedIs`), the carries
of seconds, minutes and hours keep the sum (`Carried`), and so an advanced clock shows
the later moment (`AdvanceShows`). `ClockSound` says this of the registers, of every
saved file and of the temporary: a clock that is loaded shows what the file showed,
later by the time offline. `SaveSound` says that from its first step to its last a save
holds the registers in the temporary, that it is renamed only when synced, that a
path is given up or changed only by way of a save, and that while a path is attached
and nothing is dirty its file holds the registers (`Kept`).

**UnapiProofs**, the sockets: `DescriptorsKept` (`NoDescriptorLeak`) and `InOrder`
(`StreamsInOrder`), under `TcpAssumption` and `UdpAssumption`, for any number of
handles and any buffer sizes. `Good` says of one handle that the bytes the bridge
accepted are those on the wire followed by those in its queue; that a FIN was sent
only in `fin_wait` and behind an empty queue; that what the guest received, the
buffer and the host's queue together count the peer's bytes from 1; that a closed
handle has nothing under way; and that it owns one descriptor exactly while it is
open. Every call of the code turns a good handle into a good one; `poll_tcp` does
several of them in a row. For datagrams the content of the ring continues what the
guest has received, the numbers stored rise, and whatever is still with the host
is later.

**SerialProofs**: `CharactersInOrder` (`SerialInOrder`), `NeitherStuck`
(`NeverStuck`) and `CountsWhole` (`LatchedCountWhole`), under `SerialAssumption`
(which guests there are: any program of accesses, at any pace), from the invariant
of `SerialInvariant`. It says that a transmitter that is off is empty and an empty
one has nothing waiting, that rings and terminal are within their sizes, that the
characters heard, in the ring and in the receiver are the typed ones in order
unless a loss was reported (likewise the way out), that a counter holds what is
left to read of a latched pair, and that nothing is in the rings before `main.c`
has started the interface. These proofs found an overlap in the cases of the
model's `CounterAdvance`, which are disjoint now.

**FrontEndProofs**: `SessionTellsTheTruth` (`DirtyTellsTruth`), `KeysAreTrue`
(`KeysTrue`), `MouseIsTrue` (`MouseTrue`) and `TapeIsTrue` (`TapeTrue`), the last three under `KeyboardAssumption` (the clipboard holds
sequences), `MouseAssumption` and `TapeAssumption` (contents are sequences, clock and
sample rate are positive).

Settings: the property is about sessions in which the host refuses nothing, and the
first half of the proof is how each function of `overlay.c` and `msx.c` then ends.
Those on the machine alone leave the configuration as it is (`Moves`); a connection
switches at most its own device on, and leaves the configuration as it was if it
fails for another reason (`Connects`); giving up puts the saved configuration back or
leaves the edited one (`RestoreSavedConfigEnds`), and a reset to the defaults cannot
fail. The other half says of each edit that the configuration is unchanged or `dirty`
is set (`Told`), also when a dialog answers late (`Knows`). The theorem needs
`Apart`: no user owns both the SCSI interface and a CDX-2. `msx.c` refuses to load
one while the other is in the machine, so there an event can stop half way with a
host that refuses nothing. The run has a user with both, who keeps his changes: for
him the property is model-checked only.

Keyboard: `Matrix` says that the count of every position is what the keys that are
down and the hold of the queue need there (`Needs`), with the host's Shift taken out
of it while a guest function key is down, and that a position lost to a release of
everything is one of `cut`. Each function of `kbd.c` and `paste.c` changes the needs
and the counts alike; `msx_keyboard_release` stops at 0, so that `Fits` must also
bound what each press and release may assume. For a paste that is left alone
`InPaste` says that the strokes the guest has seen are those of the text up to the
character under the finger of the queue (`StrokesUpTo`).

Mouse: what the host moved and the guest was not told is pending, or in the latched
report as far as the phase of the transfer has not passed it, and the nibbles that it
was told are those of the report; a button is down in the machine only while the host
has it down.

Cassette: the position is what the motor's cycles make in samples, and the fraction
is their rest (`InPlace`); a sync at any time continues this, because the quotient
and the rest are the only ones (`Division`), and a cycle counter that was turned back
starts a new count. The blocks are those of the file: `build_msx_cas` is a recursive
function of the bytes, and so are the strokes of a text. The induction theorems cannot
be instantiated here, but what is needed can be stated as a set of numbers: if the
set of those up to which the claim fails had a member it would have a least one
(`Least`, from the well-foundedness of the natural numbers), and there the step fails
(`UpTo`). That the recursive functions exist at all is proved in the same way
(`GrowingExists`).

**VdpProofs**: `LinesAreAsSeen` (`LinesAsTheBeamSaw`) and `StatusIsTrue`
(`StatusTellsTheFrame`), under `VdpAssumption`: the registers a guest begins with
hold what they can, its program is a sequence, an instruction takes time. Nothing
is supposed of the program: any access at any time, with any value that fits its
register (the guard `Fits`; on the chip all registers take bytes, here the values of
a mode register and of a coordinate are of different kinds). Some thirty lemmas, one
for each helper of `vdp.c`, say what it does to the chip in terms of three relations:
`Work` changes nothing of the picture, its registers, the flags and the beam;
`Change` is the heart of the matter: either nothing changed of what a line would
show (`SameLook`), or all lines the beam has passed were drawn first (`Drawn`); and
`DrawnTo` names the lines drawn and what became of the sprite flags. The invariant
`SeenOk` says of each line the beam has passed that it is drawn as it was seen, or
would still be drawn so. Only with its second half is the property inductive: it is
what a write that forgets to draw first breaks. A line is passed exactly when it
counts as completed (`PassedIsCompleted`), so after a `Drawn` none is left. For the
flags `FlagsOk` says at any moment of the frame what the property says at its end;
lines drawn in two pieces leave the flags of both (`FlagsOfPieces`). The attempt to
prove this corrected the property: sprites that are switched off set no flags, and
a register write that makes the chip draw its first lines, and then changes what the
sprites of the others are, disturbs the frame like one between two pieces.

Model-checked only, and out of the prover's reach: liveness (`QueryEnds`,
`FinWaitEnds`, `GuestGetsThrough`), which needs ENABLED. Model-checked only because
no proof is written yet: `ImplementsBlitter`, whose closed forms of the thirteen
commands would each need an induction over cells of its own; `MachineFollows` and
`GivenUpIsRestored` of Settings.

## 5 What is left out

- Bytes where a property does not tell them apart: contents of packets, result
  bytes of the TC8566, sectors of a floppy, the fields of the identify block, SCSI
  sense data, status and message bytes, SD identification and its registers.
- Sunrise: the two bytes of a data word arrive through a latch, a word is one
  step; the ROM bank register and the LED. SD Mapper: the RAM mapper, the timer,
  the ROM banks. SCSI: the interrupt, arbitration, test and target mode, ROM banks.
- ATA, SD, SCSI, floppies, RTC: error texts and activity flags.
- Floppies: index pulse and motor, track and data registers as values, boot sector
  geometry, one file mounted in both drives, a `fclose` refused after a good
  flush. The model has, and `GuestIsAnswered` excepts: a write that is refused because
  the disk is protected, or gone, leaves no mark in the WD2793, which looks at the
  disk of the moment when the guest reads the status. If the user switches the drive
  to read/write, or changes the disk, between the refusal and that read, the guest
  reads success for a sector that was not written.
- MegaFlash: the SCC and SD card behind it; program and erase times (the code has
  none). In `kept` a start whose promotion fails is left out: the code only
  warns, goes on with the new image's name on the old flash, and `RunsItsImage`
  and `NothingReplaced` do not hold then. So is a death in the middle of writing
  the configuration, which is not atomic in the code, and a start that names another
  image on the command line (`--megaflash-rom`).
- MegaFlash, modelled and excepted by the properties: `restore_saved_config` puts
  MegaFlash back and drops its pending file before it restores six other devices, and
  returns when one of these is refused. The overlay then stays open with the edited
  image name live and the saved image in the cartridge. If the user goes on from
  there (edits, saves or quits) instead of giving up again, the configuration comes
  to name one image while the cartridge writes the flash of the other.
- Every end of the program writes the live settings, saved or not (`main.c`). That is
  modelled, and nothing here says it should not.
- Settings, modelled and excepted by `GivenUpIsRestored`: an image whose file the host
  refuses to close is no longer mounted, and giving up does not look for it. The
  `fclose` of a floppy is left out, as in FloppyDrives.
- Settings: rows and sections of the menu, text editing, the model editor, display
  and sound settings. Modelled but left out of the users of the
  runs: switching the RS-232C interface, whose ROM is loaded over whatever its slot
  holds (every property would fail for that one missing piece of bookkeeping); MSX-MUSIC,
  whose connection is another ROM in a slot; and
  a refusal during the start, after which a floppy controller stays in slot 2 while
  the configuration gives it slot 1.
- VDP: what the V9958 adds, the character generator (a line of a text or pattern
  mode is what its tables hold), the layout of the sprite tables in VRAM, the paths
  for a chip without a clock, R#24 to R#31. At the edge of a frame a line interrupt
  can come one instruction late; `GuestGetsThrough` says that it comes.
- Serial: the TCP back end, which nothing in the program selects; parity and break;
  peeks; a gate that nothing drives. Behaviours of the code that the model has and
  the properties allow for, because they are announced or nothing says otherwise:
  disabling the receiver and resetting the USART take a character from the ring and
  drop it; `poll_pty` loses the byte that the terminal refused; a periodic counter
  can be read while its remainder is negative; in mode 0 the output never rises.
- Keyboard, mouse, cassette: key tables beyond the kinds of keys, game pads; a host
  that refuses to let go of the captured mouse; the samples of a bit and the
  monitor. Three behaviours that the models have and the properties allow for,
  because nothing in the repository says otherwise: Ctrl+Return, and Ctrl+V with
  nothing to paste, clear the matrix without stopping the paste queue, whose own
  release then takes a key along that the user pressed meanwhile (`cut`); a report
  that is under way when the capture ends, or the port changes, goes on with zeroes
  (`Torn`); a report that the guest breaks off is lost.
- Ejecting the selected floppy ends a WD2793 transfer without INTRQ and without
  DRQ. `GuestIsAnswered` excludes a command ended that way.
- Mounting over a disk does not end a transfer, so that a sector begun on one
  disk can be finished on the next; and cancelling the settings with a dirty
  drive A leaves drive B holding a disk under another's name, which a later mode
  switch re-mounts. Both behaviours are in FloppyDrives; no document says what
  should happen, and no property forbids them.

Bounded in the models and not in the code: the counters and times named in the
module headers (`MaxGeneration`, `MaxAccepted`, `MaxArrived`, `MaxDatagrams`,
`MaxMoves`, `MaxDeaths`, `MaxCrashes`, `MaxWork`, `MaxFailures`, `MaxRequests`, `MaxCount`,
`Pile`, `Horizon`, `MaxHeld`, `MaxMotions`, `Runs`, a user's `edits` and `calls`), and the programs of the guests of
VDP and serial interface.

## 6 Plan

Order: what keeps user data first, what the guest can observe next, pure address
decoding last.

1. Done: the resolver, the sockets, ATA, SD and SCSI under Disk, RTC, MegaFlash,
   floppies, the settings, the VDP, the serial interface, keyboard, mouse and
   cassette.
2. `UnapiPorts`: the command bytes in front of UnapiDns and UnapiNet.
3. The V9990, whose command protocol follows the VDP's.
4. `Slots`: primary and secondary slots, memory mapper, cartridge mappers, as
   functions against a reference decoding over all banks.
5. A common `Medium` for Ata, SdMapper and Scsi.

Proofs still to be written: `MachineFollows` of Settings, the largest, with a lemma
for each of its thirty host operations, and `GivenUpIsRestored`, which needs it.
