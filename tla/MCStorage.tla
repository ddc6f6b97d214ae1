------------------------------ MODULE MCStorage ------------------------------
(***************************************************************************)
(* The three interfaces to a raw image, one of them in the machine: the    *)
(* Sunrise IDE, the SD mapper and the SCSI cartridge, each over its host   *)
(* files.  Two images, of two sectors and of one, the first on a writable  *)
(* file; sectors of two words; a count that wraps at two.                  *)
(***************************************************************************)
EXTENDS Sunrise, SdMapper, Scsi

CONSTANTS i1, i2
VARIABLE device         \* "ide", "sd" or "scsi"

MCImage == {i1, i2}
MCSize == [i \in MCImage |-> IF i = i1 THEN 2 ELSE 1]
MCWritable == {i1}
MCCardImages == [n \in {0, 1} |-> IF n = 1 THEN {i1} ELSE {}]
MCWord == {"0", "1"}

\* What the proofs about SdMapper and Scsi suppose.
ASSUME CardAssumption == SdAssumption /\ DistinctCards
ASSUME TargetAssumption == ScsiAssumption

cardvars == <<cards, sd_rom_loaded, selected_cards, guest, card_power,
              card_files, card_unsynced>>
targetvars == <<disk, bus, swapped, disk_power, disk_files, disk_unsynced>>

StorageInit == /\ device \in {"ide", "sd", "scsi"}
               /\ SunriseInit /\ CardsInit /\ TargetInit
               /\ card_power = TRUE /\ card_files = medium /\ card_unsynced = {}
               /\ disk_power = TRUE /\ disk_files = medium /\ disk_unsynced = {}
StorageNext ==
    /\ UNCHANGED device
    /\ \/ /\ device = "ide" /\ Next /\ UNCHANGED <<cardvars, targetvars>>
       \/ /\ device = "sd" /\ CardsNext /\ UNCHANGED <<vars, targetvars>>
       \/ /\ device = "scsi" /\ ScsiNext /\ UNCHANGED <<vars, cardvars>>
StorageSpec ==
    StorageInit /\ [][StorageNext]_<<vars, device, cardvars, targetvars>>
==============================================================================
