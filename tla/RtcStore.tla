------------------------------ MODULE RtcStore ------------------------------
(***************************************************************************)
(* The clock of src/rtc.c in a running machine, and its CMOS file: the     *)
(* ports and the frame loop, the attachment of src/msx.c, the transitions  *)
(* of src/overlay.c, start and shutdown of src/main.c, and a host that may *)
(* refuse any file operation or lose power between two of them.            *)
(*                                                                         *)
(* A save is one call of rtc_save_persistence; its steps are separate here *)
(* because power may fail between them, and nothing else can happen there. *)
(*                                                                         *)
(* Bounds: MaxMoves frames, guest writes, resets, moves of the host clock  *)
(* and decisions of the user together; MaxCrashes power failures.          *)
(***************************************************************************)
EXTENDS Rtc

CONSTANTS
    Machine,            \* machines with an RTC, each with its own CMOS path
    NoPath,
    Start,              \* moments at which the emulator may be started
    HostSteps,          \* by how many seconds the host clock moves, or is set back
    FrameCycles,        \* CPU cycles of one advance
    CpuHz, TestHz,      \* MSX_CPU_HZ, RTC_TEST_HZ
    GuestWrites,        \* <<register, value>> a guest writes
    MaxOffline,         \* RTC_STATE_MAX_OFFLINE_SECONDS, in days
    MaxMoves, MaxDeaths

ASSUME RtcAssumption ==
    /\ NoPath \notin Machine /\ CpuHz \in Nat \ {0} /\ TestHz \in Nat
    /\ \A w \in GuestWrites : w[1] \in 0..15 /\ w[2] \in 0..15
    /\ Start \subseteq {t \in [days : Nat, seconds : Nat] : t.seconds < 86400}
    /\ HostSteps \subseteq Int /\ FrameCycles \subseteq Nat

VARIABLES
    registers, mode, test,
    cycle_accumulator, test_cycle_accumulator, rtc_dirty,
    machine,            \* the selected machine
    path,               \* rtc_persistence_path
    rtc_pc,             \* where the frontend is
    target,             \* the path msx_set_rtc_persistence was called with
    next_machine,       \* the machine a transition leads to, NoPath: to none
    host,               \* the host clock
    file,               \* the CMOS file of each machine
    temporary,          \* path.tmp
    truth,              \* history: the moment the clock should show
    moves, deaths

clock == <<registers, mode, test, cycle_accumulator,
           test_cycle_accumulator, rtc_dirty, truth>>
front == <<machine, path, rtc_pc, target, next_machine>>
disk == <<file, temporary>>
clockvars == <<clock, front, host, disk, moves, deaths>>

NoTruth == [days |-> -1, seconds |-> 0]
NoFile == [kind |-> "none"]
Torn == [kind |-> "torn"]
Saved == [kind |-> "saved", registers |-> registers, host |-> host,
          running |-> (mode \div 8) % 2 = 1, truth |-> truth]
NoTemporary == [content |-> NoFile, synced |-> FALSE]

BlankRegisters == [b \in Blocks |-> register_masks[b]]

\* rtc_init_at: blank-high batteries, then the host's time.
Fresh(moment) == set_time(BlankRegisters, FieldsOf(moment))

Now == host

Move == moves < MaxMoves /\ moves' = moves + 1 /\ UNCHANGED deaths
NoMove == UNCHANGED <<moves, deaths>>

\* The control registers after rtc_reset.
ControlReset == mode' = 8 /\ test' = 0 /\ test_cycle_accumulator' = 0

rtc_init(moment) ==
    /\ registers' = Fresh(moment) /\ truth' = moment
    /\ ControlReset /\ cycle_accumulator' = 0

ClockInit ==
    /\ host \in Start /\ machine \in Machine /\ next_machine = machine
    /\ registers = Fresh(host) /\ truth = host
    /\ mode = 8 /\ test = 0
    /\ cycle_accumulator = 0 /\ test_cycle_accumulator = 0 /\ rtc_dirty = FALSE
    /\ path = NoPath /\ target = machine /\ rtc_pc = "attach"
    /\ file = [m \in Machine |-> NoFile] /\ temporary = NoTemporary
    /\ moves = 0 /\ deaths = 0

---------------------------------------------------------------------------
(* The chip.                                                               *)

HasBit(value, b) == (value \div b) % 2 = 1
TimerEnabled == HasBit(mode, 8)

\* The cycles short of a second stay for the next advance.
Fraction(total) == IF TimerEnabled THEN total % CpuHz ELSE cycle_accumulator

\* rtc_advance: the seconds of the timer first, the test ticks after them.
Advance(cycles) ==
    LET total == cycle_accumulator + cycles
        seconds == IF TimerEnabled THEN total \div CpuHz ELSE 0
        timed == IF seconds = 0 THEN registers
                 ELSE advance_time(registers, seconds, 0, 0, 0)
        tests == IF test = 0 THEN 0
                 ELSE (test_cycle_accumulator + cycles * TestHz) \div CpuHz
        Ticked(b) == IF HasBit(test, b) THEN tests ELSE 0
    IN  /\ cycle_accumulator' = Fraction(total)
        /\ test_cycle_accumulator' =
               IF test = 0 THEN test_cycle_accumulator
               ELSE (test_cycle_accumulator + cycles * TestHz) % CpuHz
        /\ registers' = IF tests = 0 THEN timed
                        ELSE advance_time(timed, Ticked(1), Ticked(2), Ticked(4), Ticked(8))
        /\ rtc_dirty' = (rtc_dirty \/ seconds > 0 \/ tests > 0)
        /\ truth' = IF truth = NoTruth \/ Ticked(8) > 0 THEN NoTruth
                    ELSE LET t == Later(truth, seconds + Ticked(1) + 60 * Ticked(2))
                         IN  [t EXCEPT !.days = @ + Ticked(4)]
        /\ UNCHANGED <<mode, test>>

Frame ==
    /\ rtc_pc = "running" /\ Move
    /\ \E cycles \in FrameCycles : Advance(cycles)
    /\ UNCHANGED front /\ UNCHANGED <<host, disk>>

(* The guest selects a register (rtc_select) and writes it: one step.      *)

\* Writes to the clock's own registers set a time of the guest's choosing.  So
\* does a switch of the hour mode when the hour is written as 20 or more: that
\* is an evening in one mode and an afternoon in the other, where smaller
\* digits mean the same hour in both.
SetsClock(block, r) ==
    \/ block = 0
    \/ block = 1 /\ r = 11
    \/ block = 1 /\ r = 10 /\ decode_pair(registers[0], 4) >= 20

WriteRegister(latch, value) ==
    LET block == mode % 4
        stored == Masked(block, latch, value)
    IN  /\ registers' = [registers EXCEPT ![block][latch] = stored]
        /\ rtc_dirty' = (rtc_dirty \/ registers[block][latch] # stored)
        /\ truth' = IF SetsClock(block, latch) /\ registers' # registers
                    THEN NoTruth ELSE truth
        /\ UNCHANGED <<mode, test, cycle_accumulator, test_cycle_accumulator>>

WriteMode(value) ==
    /\ mode' = value /\ rtc_dirty' = (rtc_dirty \/ mode # value)
    /\ UNCHANGED <<registers, test, cycle_accumulator, test_cycle_accumulator,
                   truth>>

WriteTest(value) ==
    /\ test' = value
    /\ test_cycle_accumulator' = IF test = value THEN test_cycle_accumulator ELSE 0
    /\ UNCHANGED <<registers, mode, cycle_accumulator, rtc_dirty, truth>>

\* Register 15: clear the alarm, drop the fraction of a second.
WriteReset(value) ==
    /\ registers' = IF HasBit(value, 1)
                    THEN [registers EXCEPT ![1] =
                             [r \in Regs |-> IF r \in 2..8 THEN 0 ELSE @[r]]]
                    ELSE registers
    /\ rtc_dirty' = (rtc_dirty \/ HasBit(value, 1))
    /\ cycle_accumulator' = IF HasBit(value, 2) THEN 0 ELSE cycle_accumulator
    /\ UNCHANGED <<mode, test, test_cycle_accumulator, truth>>

rtc_write_data ==
    /\ rtc_pc = "running" /\ Move
    /\ \E w \in GuestWrites :
          CASE w[1] = 13 -> WriteMode(w[2])
            [] w[1] = 14 -> WriteTest(w[2])
            [] w[1] = 15 -> WriteReset(w[2])
            [] OTHER -> WriteRegister(w[1], w[2])
    /\ UNCHANGED front /\ UNCHANGED <<host, disk>>

\* The reset of the machine keeps the banks.
rtc_reset ==
    /\ rtc_pc = "running" /\ Move /\ ControlReset /\ rtc_dirty' = TRUE
    /\ UNCHANGED <<registers, cycle_accumulator, truth>>
    /\ UNCHANGED front /\ UNCHANGED <<host, disk>>

---------------------------------------------------------------------------
(* Saving: msx_flush_rtc_persistence.                                      *)

Exiting == rtc_pc \in {"exit_write", "exit_sync", "exit_rename"}
FrontAt(label) == rtc_pc' = label /\ UNCHANGED <<machine, path, target, next_machine>>

\* The emulator has stopped: its memory is gone.
ClockOff ==
    /\ rtc_pc' = "off" /\ path' = NoPath /\ target' = machine /\ next_machine' = machine
    /\ registers' = BlankRegisters /\ truth' = NoTruth
    /\ ControlReset /\ cycle_accumulator' = 0 /\ rtc_dirty' = FALSE
    /\ UNCHANGED machine

\* The next step of a flush that leaves the clock alone.
Flushing(label, exiting) ==
    /\ FrontAt(IF Exiting THEN exiting ELSE label)
    /\ UNCHANGED clock

NeedsFlush == path # NoPath /\ rtc_dirty

FlushNothing ==
    /\ rtc_pc \in {"flush_write", "exit_write"} /\ ~NeedsFlush
    /\ IF Exiting THEN ClockOff ELSE FrontAt("attach") /\ UNCHANGED clock
    /\ UNCHANGED <<host, disk>> /\ NoMove

FlushWrite ==
    /\ rtc_pc \in {"flush_write", "exit_write"} /\ NeedsFlush
    /\ temporary' = [content |-> Saved, synced |-> FALSE]
    /\ Flushing("flush_sync", "exit_sync")
    /\ UNCHANGED <<host, file>> /\ NoMove

\* Mutant: the temporary is renamed without having been synchronized.
FlushNoSync ==
    /\ rtc_pc \in {"flush_sync", "exit_sync"}
    /\ Flushing("flush_rename", "exit_rename")
    /\ UNCHANGED <<host, file, temporary>> /\ NoMove

FlushSync ==
    /\ rtc_pc \in {"flush_sync", "exit_sync"}
    /\ temporary' = [temporary EXCEPT !.synced = TRUE]
    /\ Flushing("flush_rename", "exit_rename")
    /\ UNCHANGED <<host, file>> /\ NoMove

FlushRename ==
    /\ rtc_pc \in {"flush_rename", "exit_rename"}
    /\ file' = [file EXCEPT ![path] =
                   IF temporary.synced THEN temporary.content ELSE Torn]
    /\ temporary' = NoTemporary
    /\ IF Exiting THEN ClockOff
       ELSE /\ FrontAt("attach") /\ rtc_dirty' = FALSE
            /\ UNCHANGED <<registers, mode, test, cycle_accumulator,
                           test_cycle_accumulator, truth>>
    /\ UNCHANGED host /\ NoMove

\* Any host call refuses: the temporary is removed.  A transition is given
\* up, a shutdown goes on.
\* Mutant: the transition goes on without the save.
GoOn == FrontAt("attach") /\ UNCHANGED clock

GiveUp ==
    /\ rtc_pc' = "running" /\ target' = machine /\ next_machine' = machine
    /\ UNCHANGED <<machine, path>> /\ UNCHANGED clock

FlushFails ==
    /\ rtc_pc \in {"flush_write", "exit_write", "flush_sync", "exit_sync",
               "flush_rename", "exit_rename"}
    /\ NeedsFlush
    /\ temporary' = NoTemporary
    /\ IF Exiting THEN ClockOff ELSE GiveUp
    /\ UNCHANGED <<host, file>> /\ NoMove

---------------------------------------------------------------------------
(* Attaching: the rest of msx_set_rtc_persistence.                         *)

\* A file that rtc_load_persistence takes.
SecondsSince(f) == (Now.days - f.host.days) * 86400 + Now.seconds - f.host.seconds
Loadable(f) ==
    /\ f.kind = "saved" /\ valid_persisted_registers(f.registers)
    /\ SecondsSince(f) <= MaxOffline * 86400

Detach ==
    /\ rtc_pc = "attach" /\ target = NoPath
    /\ path' = NoPath
    /\ machine' = IF next_machine = NoPath THEN machine ELSE next_machine
    /\ target' = machine' /\ next_machine' = machine'
    /\ rtc_pc' = IF next_machine = NoPath THEN "running" ELSE "attach"
    /\ UNCHANGED clock /\ UNCHANGED <<host, disk>> /\ NoMove

Attached ==
    /\ rtc_pc = "attach" /\ target # NoPath
    /\ path' = target /\ rtc_pc' = "running"
    /\ UNCHANGED <<machine, target, next_machine>>
    /\ UNCHANGED <<host, disk>> /\ NoMove

LoadFile ==
    /\ Attached
    /\ LET f == file[target]
           offline == IF f.running /\ SecondsSince(f) > 0 THEN SecondsSince(f) ELSE 0
       IN  /\ Loadable(f)
           /\ registers' = IF offline = 0 THEN f.registers
                           ELSE advance_time(f.registers, offline, 0, 0, 0)
           /\ rtc_dirty' = (offline > 0)
           /\ truth' = IF f.truth = NoTruth THEN NoTruth
                       ELSE Later(f.truth, offline)
    /\ ControlReset /\ cycle_accumulator' = 0

\* No file, or one that is refused: a clock of the host's time stays, and is
\* dirty so that a save can replace the file.
KeepFresh ==
    /\ Attached
    /\ ~Loadable(file[target])
    /\ rtc_init(Now) /\ rtc_dirty' = TRUE

---------------------------------------------------------------------------
(* The frontend.                                                           *)

\* Persistence is switched off or on, from the menu.
Toggle ==
    /\ rtc_pc = "running" /\ rtc_pc' = "flush_write"
    /\ IF path = NoPath THEN target' = machine /\ UNCHANGED next_machine
       ELSE target' = NoPath /\ next_machine' = NoPath
    /\ UNCHANGED <<machine, path>>
    /\ UNCHANGED clock /\ UNCHANGED <<host, disk>> /\ Move

\* Another machine, or the same one with another VDP, region or memory: the
\* old clock is detached, then the new machine's is attached.
Reconfigure ==
    /\ rtc_pc = "running" /\ path # NoPath /\ rtc_pc' = "flush_write"
    /\ target' = NoPath
    /\ \E m \in Machine : next_machine' = m
    /\ UNCHANGED <<machine, path>>
    /\ UNCHANGED clock /\ UNCHANGED <<host, disk>> /\ Move

\* Without persistence the clock goes on in the other machine.
ReconfigureDetached ==
    /\ rtc_pc = "running" /\ path = NoPath
    /\ \E m \in Machine : machine' = m /\ target' = m /\ next_machine' = m
    /\ ControlReset /\ rtc_dirty' = TRUE
    /\ UNCHANGED <<path, rtc_pc, registers, cycle_accumulator, truth>>
    /\ UNCHANGED <<host, disk>> /\ Move

ClockShutdown ==
    /\ rtc_pc = "running" /\ rtc_pc' = "exit_write" /\ target' = NoPath
    /\ UNCHANGED <<machine, path, next_machine>>
    /\ UNCHANGED clock /\ UNCHANGED <<host, disk>> /\ Move

\* The next start finds the file as it is.
Restart ==
    /\ rtc_pc = "off" /\ rtc_pc' = "attach" /\ path' = NoPath
    /\ target' = machine /\ next_machine' = machine
    /\ rtc_init(Now) /\ rtc_dirty' = FALSE
    /\ UNCHANGED machine
    /\ UNCHANGED <<host, disk>> /\ NoMove

\* Power fails anywhere: memory is gone, and so is what was not synced.
PowerFails ==
    /\ rtc_pc # "off" /\ deaths < MaxDeaths /\ deaths' = deaths + 1
    /\ temporary' = NoTemporary
    /\ ClockOff
    /\ UNCHANGED <<host, moves, file>>

HostClock ==
    /\ rtc_pc \in {"running", "off"} /\ Move
    /\ \E s \in HostSteps : host' = Later(host, s)
    /\ host'.days >= 0
    /\ UNCHANGED clock /\ UNCHANGED front /\ UNCHANGED disk

ClockNext ==
    \/ Frame \/ rtc_write_data \/ rtc_reset
    \/ FlushNothing \/ FlushWrite \/ FlushSync \/ FlushRename \/ FlushFails
    \/ Detach \/ LoadFile \/ KeepFresh
    \/ Toggle \/ Reconfigure \/ ReconfigureDetached
    \/ ClockShutdown \/ Restart \/ PowerFails \/ HostClock

ClockSpec == ClockInit /\ [][ClockNext]_clockvars

---------------------------------------------------------------------------
(* Properties.                                                             *)

\* Through carries, month ends, leap years, test ticks, saves, reloads and
\* the time that passes offline, the clock shows the moment it should, unless
\* the guest set it; a guest that goes over to the other hour mode before
\* eight in the evening has not, and noon and midnight then come in 12-hour
\* digits (advance_time, decode_hour, set_time, rtc_load_persistence).
ShowsTheTime == truth # NoTruth => Decoded(registers) = FieldsOf(truth)

\* The file of a machine is absent or a whole save, whatever step of a save
\* the power failed in (rtc_save_persistence).
FileWhole == \A m \in Machine : file[m].kind # "torn"

\* Dirty CMOS is never let go of: when the frontend detaches from a path,
\* changes the machine or replaces the clock by another one, the file holds
\* the registers as they were (msx_set_rtc_persistence and its callers).
Kept == file[path].kind = "saved" /\ file[path].registers = registers
NothingDropped ==
    [][(path # NoPath /\ path' # path /\ rtc_pc' # "off") => Kept]_clockvars

\* What was saved comes back: a clock that is attached to a path with a
\* saved file is that file's clock (TECHNICAL.md: "The battery-backed banks
\* are stored per configured MSX2 machine"; rtc_save_persistence writes
\* what rtc_load_persistence must accept).
SavedComesBack ==
    [][(rtc_pc = "attach" /\ rtc_pc' = "running" /\ target # NoPath /\ file[target].kind = "saved"
        /\ Now.days - file[target].host.days <= MaxOffline)
           => \A b \in {2, 3} : registers'[b] = file[target].registers[b]]_clockvars
=============================================================================
