------------------------------ MODULE Cassette ------------------------------
(***************************************************************************)
(* The cassette player (cassette.c): a CAS file becomes a tape, and the    *)
(* tape runs with the cycles of the CPU while the motor is on.  Nothing    *)
(* moves it: whoever looks at it or changes it first brings it up to the   *)
(* cycle of the machine.  The settings insert, eject and rewind it, keep   *)
(* or give up the choice (overlay.c), and a reset sets the cycle back to 0 *)
(* (msx.c).                                                                *)
(*                                                                         *)
(* A file is a sequence of bytes and headers, a header ("H") standing for  *)
(* its eight bytes; TypeBytes equal bytes (10) tell the type of a file.    *)
(* Lengths are in samples.                                                 *)
(***************************************************************************)
EXTENDS Integers, Sequences, FiniteSets

CONSTANTS
    File, NoFile,   \* the user's files
    Contents,       \* of each, a sequence
    TypeBytes, LongLeader, ShortLeader, ByteSamples,
    CpuHz, SampleRate, \* CASSETTE_CPU_HZ, CASSETTE_SAMPLE_RATE
    Runs,           \* cycles that may pass between two events
    Horizon         \* bound on the cycle of the machine

IsSequence(s) == s \in Seq({s[i] : i \in DOMAIN s})

ASSUME TapeAssumption ==
    /\ NoFile \notin File /\ \A f \in File : IsSequence(Contents[f])
    /\ {LongLeader, ShortLeader, ByteSamples} \subseteq Nat
    /\ {CpuHz, SampleRate} \subseteq Nat \ {0} /\ Runs \subseteq Nat

VARIABLES
    tape,           \* Cassette
    cycles,         \* of the machine
    tape_path, saved_path,  \* cassette_path, as it is and as it was saved
    session,        \* the settings are open
    ran             \* cycles the tape was to run since it was at its start

tapevars == <<tape, cycles, tape_path, saved_path, session, ran>>

---------------------------------------------------------------------------
(* From the file to the tape (build_msx_cas).                              *)

Header == "H"
EndOfFile == "eof"
TypeOf == [b \in {"ea", "d0", "d3"} |->
              CASE b = "ea" -> "ascii" [] b = "d0" -> "binary" [] b = "d3" -> "basic"]

detect_file_type(data, position) ==
    IF /\ position + TypeBytes - 1 <= Len(data)
       /\ data[position] \in DOMAIN TypeOf
       /\ \A i \in position .. position + TypeBytes - 1 : data[i] = data[position]
    THEN TypeOf[data[position]] ELSE "unknown"

\* The builder between two elements of the file: in front of the first
\* header, in the first block of a program, or in one of its later blocks.
StartBuilder == [blocks |-> <<>>, block |-> "none", type |-> "unknown",
                 first_type |-> "unknown", eof |-> FALSE, data_bytes |-> 0]

\* A header begins the next program with a long leader, or the next block of
\* this one with a short one: any number for ASCII, up to the end of file, one
\* for the others.
Program(builder, type) ==
    [builder EXCEPT
        !.blocks = Append(@, "long"), !.block = "first", !.type = type,
        !.eof = FALSE, !.first_type = IF @ = "unknown" THEN type ELSE @]
Block(builder) ==
    [builder EXCEPT !.blocks = Append(@, "short"), !.block = "later", !.eof = FALSE]
Continues(builder) ==
    \/ builder.type = "ascii" /\ (builder.block = "first" \/ ~builder.eof)
    \/ builder.type \in {"binary", "basic"} /\ builder.block = "first"
builder_data(builder, byte) ==
    [builder EXCEPT !.blocks = Append(@, byte), !.data_bytes = @ + 1,
                    !.eof = @ \/ byte = EndOfFile]

Element(data, builder, position) ==
    CASE data[position] = Header /\ builder.block # "none" /\ Continues(builder) ->
            Block(builder)
      [] data[position] = Header /\ ~(builder.block # "none" /\ Continues(builder)) ->
            Program(builder, detect_file_type(data, position + 1))
      [] OTHER ->
            IF builder.block = "none" THEN builder ELSE builder_data(builder, data[position])

build_msx_cas(data) ==
    LET build[n \in 0 .. Len(data)] ==
            IF n = 0 THEN StartBuilder ELSE Element(data, build[n - 1], n)
    IN  build[Len(data)]

Builds(data) == build_msx_cas(data).data_bytes > 0
SampleCount(blocks) ==
    LET Of(part) == Cardinality({i \in DOMAIN blocks : blocks[i] = part})
        data == Len(blocks) - Of("long") - Of("short")
    IN  LongLeader * Of("long") + ShortLeader * Of("short") + ByteSamples * data

---------------------------------------------------------------------------
(* The tape (cassette.c).                                                  *)

Silent == [mounted |-> FALSE, blocks |-> <<>>, sample_count |-> 0, position |-> 0,
           cycle_fraction |-> 0, last_cycle |-> 0, motor |-> FALSE, file_type |-> "unknown"]

\* Mutant: what is no whole sample is dropped at each look.
SyncWhole(t, now) ==
    LET advance == ((now - t.last_cycle) * SampleRate) \div CpuHz
        there == t.position + advance
    IN  IF ~t.mounted \/ ~t.motor THEN [t EXCEPT !.last_cycle = now]
        ELSE [t EXCEPT !.last_cycle = now,
                       !.position = IF there < t.sample_count THEN there
                                    ELSE t.sample_count]

\* Whole seconds apart, so that no product overflows: the rest of a cycle that
\* is no sample yet is carried on.
cassette_sync(t, now) ==
    LET delta == now - t.last_cycle
        left == t.sample_count - t.position
        whole_seconds == delta \div CpuHz
        scaled == (delta % CpuHz) * SampleRate + t.cycle_fraction
        advance == whole_seconds * SampleRate + scaled \div CpuHz
        here == [t EXCEPT !.last_cycle = now]
        at_end == [here EXCEPT !.position = t.sample_count, !.cycle_fraction = 0]
    IN  CASE delta <= 0 \/ ~t.mounted \/ ~t.motor \/ left <= 0 -> here
          [] delta > 0 /\ t.mounted /\ t.motor /\ left > 0 ->
                IF whole_seconds >= (left + SampleRate - 1) \div SampleRate
                     \/ advance >= left
                THEN at_end
                ELSE [here EXCEPT !.position = @ + advance,
                                  !.cycle_fraction = scaled % CpuHz]

cassette_reset(t, now) ==
    [cassette_sync(t, now) EXCEPT !.motor = FALSE, !.last_cycle = 0]
AtStart(t, now) ==
    [cassette_sync(t, now) EXCEPT !.position = 0, !.cycle_fraction = 0]
cassette_mount(t, data, now) ==
    LET built == build_msx_cas(data)
    IN  [AtStart(t, now) EXCEPT !.mounted = TRUE, !.blocks = built.blocks,
                                !.sample_count = SampleCount(built.blocks),
                                !.file_type = built.first_type]
cassette_eject(t, now) ==
    [AtStart(t, now) EXCEPT !.mounted = FALSE, !.blocks = <<>>, !.sample_count = 0,
                            !.file_type = "unknown"]
cassette_rewind(t, now) == AtStart(t, now)
cassette_set_motor(t, motor, now) == [cassette_sync(t, now) EXCEPT !.motor = motor]

---------------------------------------------------------------------------
(* The machine and its user.                                               *)

\* A start whose file cannot be loaded goes on without a tape.
TapeInit ==
    /\ tape_path \in File \cup {NoFile}
    /\ tape \in {Silent} \cup
           (IF tape_path # NoFile /\ Builds(Contents[tape_path])
            THEN {cassette_mount(Silent, Contents[tape_path], 0)} ELSE {})
    /\ cycles = 0 /\ saved_path = tape_path /\ session = FALSE /\ ran = 0

Elapse(d) ==
    /\ cycles + d <= Horizon
    /\ cycles' = cycles + d
    /\ ran' = IF tape.mounted /\ tape.motor /\ ran < tape.sample_count * CpuHz
              THEN ran + d ELSE ran
    /\ UNCHANGED <<tape, tape_path, saved_path, session>>

\* cassette_input, cassette_monitor_sample, cassette_is_rolling and the others
\* that look.
Look ==
    /\ tape' = cassette_sync(tape, cycles)
    /\ UNCHANGED <<cycles, tape_path, saved_path, session, ran>>

\* The guest writes port C of the PPI.
Motor ==
    /\ \E on \in BOOLEAN : tape' = cassette_set_motor(tape, on, cycles)
    /\ UNCHANGED <<cycles, tape_path, saved_path, session, ran>>

msx_reset ==
    /\ tape' = cassette_reset(tape, cycles) /\ cycles' = 0
    /\ UNCHANGED <<tape_path, saved_path, session, ran>>

OpenSession ==
    /\ ~session /\ session' = TRUE /\ saved_path' = tape_path
    /\ UNCHANGED <<tape, cycles, tape_path, ran>>

\* A file that holds no tape, or that cannot be read, changes nothing.
Insert(f) ==
    /\ session
    /\ \/ /\ Builds(Contents[f])
          /\ tape' = cassette_mount(tape, Contents[f], cycles)
          /\ tape_path' = f /\ ran' = 0
       \/ UNCHANGED <<tape, tape_path, ran>>
    /\ UNCHANGED <<cycles, saved_path, session>>
Eject ==
    /\ session
    /\ tape' = cassette_eject(tape, cycles) /\ tape_path' = NoFile /\ ran' = 0
    /\ UNCHANGED <<cycles, saved_path, session>>
Rewind ==
    /\ session /\ tape.mounted
    /\ tape' = cassette_rewind(tape, cycles) /\ ran' = 0
    /\ UNCHANGED <<cycles, tape_path, saved_path, session>>

KeepTape ==
    /\ session /\ session' = FALSE /\ saved_path' = tape_path
    /\ UNCHANGED <<tape, cycles, tape_path, ran>>

\* restore_cassette; a tape that cannot be loaded again leaves none.
restore_cassette ==
    /\ session /\ session' = FALSE /\ tape_path' = saved_path
    /\ IF tape_path = saved_path /\ tape.mounted = (saved_path # NoFile)
       THEN UNCHANGED <<tape, ran>>
       ELSE /\ ran' = 0
            /\ \/ tape' = cassette_eject(tape, cycles)
               \/ /\ saved_path # NoFile /\ Builds(Contents[saved_path])
                  /\ tape' = cassette_mount(tape, Contents[saved_path], cycles)
    /\ UNCHANGED <<cycles, saved_path>>

TapeNext ==
    \/ \E d \in Runs : Elapse(d)
    \/ \E f \in File : Insert(f)
    \/ Look \/ Motor \/ msx_reset \/ OpenSession \/ Eject \/ Rewind
    \/ KeepTape \/ restore_cassette

TapeSpec == TapeInit /\ [][TapeNext]_tapevars

---------------------------------------------------------------------------
(* Properties.                                                             *)

\* The tape is where the time that its motor ran took it, however often and
\* whenever anybody looked, over stops and resets (cassette_sync).
TapeWhereItRan ==
    LET there == (ran * SampleRate) \div CpuHz
        now == cassette_sync(tape, cycles)
    IN  now.position = IF there < tape.sample_count THEN there ELSE tape.sample_count

\* The tape in the player is the configured file's: every byte behind its first
\* header once and in order, a leader in place of each header, a long one
\* first (build_msx_cas, restore_cassette).
Leaders == {"long", "short"}
WholeTape(blocks, data) ==
    \E first \in DOMAIN data :
        LET played == SubSeq(data, first, Len(data))
        IN  /\ data[first] = Header
            /\ \A i \in 1 .. first - 1 : data[i] # Header
            /\ Len(blocks) = Len(played) /\ blocks[1] = "long"
            /\ \A i \in DOMAIN blocks :
                  IF played[i] = Header THEN blocks[i] \in Leaders
                  ELSE blocks[i] = played[i]
TapeIsTheFile ==
    tape.mounted => /\ tape_path # NoFile
                    /\ WholeTape(tape.blocks, Contents[tape_path])

TapeTrue == TapeWhereItRan /\ TapeIsTheFile
=============================================================================
