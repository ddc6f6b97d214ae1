------------------------------ MODULE SdMapper ------------------------------
(***************************************************************************)
(* src/sd_mapper.c and src/sdcard.c: two SD cards behind one data window.  *)
(* Every access of the window moves one byte in each direction: the guest  *)
(* takes the next byte of the response queue while the byte it gives goes  *)
(* to the command parser or, once a write was accepted, to the block.      *)
(*                                                                         *)
(* A command is CommandBytes = 2 bytes here (6 in the code): the first     *)
(* names it, the last brings the sector.  A block is SectorWords bytes and *)
(* the queue holds QueueSize (512 and 1024), so that a block fits and two  *)
(* do not.  The cards are always high capacity (sd_mapper_init), so        *)
(* sectors are counted, not bytes.  Error texts, LEDs, the RAM mapper and  *)
(* the timer are left out.  "card_files" and "card_unsynced" are the       *)
(* host files.                                                             *)
(***************************************************************************)
EXTENDS Images, Integers, Sequences, SequencesExt

CONSTANTS QueueSize,
          Pile,             \* bound: bytes left to take at a new command
          Cards,            \* 0 and 1 in the code
          CardImages,       \* bound: the images the user puts in a card
          GuestCards        \* bound: the cards the guest talks to

\* A queue holds one block with its frame, whose first byte no data byte is.
SdAssumption ==
    /\ NoImage \notin Image
    /\ Size \in [Image -> Nat \ {0}]
    /\ SectorWords \in Nat \ {0} /\ QueueSize \in Nat
    /\ SectorWords + 3 <= QueueSize
    /\ "fe" \notin Word /\ Zero \in Word
    /\ Cards \subseteq Nat /\ GuestCards \subseteq Cards
    /\ CardImages \in [Cards -> SUBSET Image]

\* The user puts different images in the two cards.  (The program does not
\* ask for it: of two cards over one file each would have its own queue.)
DistinctCards ==
    \A n \in Cards, k \in Cards : n # k => CardImages[n] \cap CardImages[k] = {}

VARIABLES card_power, card_files, card_unsynced,
          cards,            \* the two SdCard records
          sd_rom_loaded,
          selected_cards,   \* the two select bits
          guest             \* what the guest asked for, see CardGuest

BlankBlock == [k \in 1..SectorWords |-> Zero]
\* "short" is every command that only answers and begins nothing, those of
\* the identification among them; a card is taken to be identified.  The
\* reads of the CSD and CID registers are left out.
Commands == {"reset", "stop", "short",
             "read", "read_many", "write", "write_many"}
\* What a guest that has not broken the protocol expects; "orderly" falls
\* when it asks for data while other data is still on its way to it.
CardGuest == [orderly |-> TRUE, target |-> 0, given |-> <<>>]

---------------------------------------------------------------------------
(* The card.                                                               *)

queue_push(c, bytes) ==
    [c EXCEPT !.queue = SubSeq(@ \o bytes, 1,
                               IF Len(@ \o bytes) > QueueSize THEN QueueSize
                               ELSE Len(@ \o bytes))]
queue_clear(c) == [c EXCEPT !.queue = <<>>]
queue_data_block(c, data) ==
    queue_push(c, <<"fe">> \o data \o <<"crc">>)

NewCard == [image |-> NoImage, image_mode |-> "ro", dirty |-> FALSE,
            selected |-> FALSE,
            command |-> "none", response_delay |-> 0,
            queue |-> <<>>, multi_read |-> FALSE, write_wait_token |-> FALSE,
            multi_write |-> FALSE, transfer_offset |-> 0, crc_bytes |-> 0,
            transfer_lba |-> 0, sector |-> BlankBlock]

sd_card_reset(c) ==
    [NewCard EXCEPT !.image = c.image, !.image_mode = c.image_mode,
                    !.dirty = c.dirty]

Mounted(c, i, mode) ==
    sd_card_reset([c EXCEPT !.image = i, !.image_mode = mode,
                            !.dirty = FALSE])

CardFlushOutcome(c) == IF c.image # NoImage /\ c.dirty THEN {"ok", "failed"}
                       ELSE {"ok"}
CardSynced(c) == {u \in card_unsynced : ~(c.dirty /\ u[1] = c.image)}

sd_card_select(c, selected) ==
    IF c.selected = selected THEN c
    ELSE [c EXCEPT !.selected = selected, !.command = "none"]

\* Reading the host file can fail at any sector.
CardLoadOutcome(c, l) ==
    IF c.image # NoImage /\ l < Size[c.image] THEN {"ok", "failed"}
    ELSE {"failed"}

\* The buffer of a load is the block of a write under way; at any other
\* moment nothing reads it before it is filled.
Loaded(c, l) == IF c.transfer_offset = 0 THEN c
                ELSE [c EXCEPT !.sector = card_files[c.image][l]]

begin_read(c, l, multiple, r) ==
    IF l >= Size[c.image] THEN queue_push(c, <<"no">>)
    ELSE IF r = "ok"
    THEN queue_data_block(
            queue_push([Loaded(c, l) EXCEPT !.transfer_lba = l + 1,
                                            !.multi_read = multiple], <<"ok">>),
            card_files[c.image][l])
    ELSE queue_push(queue_clear([c EXCEPT !.transfer_lba = l,
                                          !.multi_read = FALSE]), <<"no">>)

begin_write(c, l, multiple) ==
    IF l >= Size[c.image] THEN queue_push(c, <<"no">>)
    ELSE IF c.image_mode # "rw" THEN queue_push(c, <<"no">>)
    ELSE queue_push([c EXCEPT !.transfer_lba = l, !.transfer_offset = 0,
                              !.crc_bytes = 0, !.write_wait_token = TRUE,
                              !.multi_write = multiple], <<"ok">>)

\* The read that stops does not forget what is still in the queue.
execute_stop(c) ==
    queue_push(queue_clear([c EXCEPT !.multi_read = FALSE]), <<"ok">>)

execute_command(before, l, r) ==
    LET c == [before EXCEPT !.command = "none", !.response_delay = 1]
    IN CASE before.command = "reset" ->
              queue_push(queue_clear(
                  [c EXCEPT !.multi_read = FALSE, !.multi_write = FALSE,
                            !.write_wait_token = FALSE]),
                  <<"ok">>)
         [] before.command = "stop" -> execute_stop(c)
         [] before.command = "read" -> begin_read(c, l, FALSE, r)
         [] before.command = "read_many" -> begin_read(c, l, TRUE, r)
         [] before.command = "write" -> begin_write(c, l, FALSE)
         [] before.command = "write_many" -> begin_write(c, l, TRUE)
         [] OTHER -> queue_push(c, <<"no">>)

\* The first half of sd_card_transfer: a multiple read fetches its next
\* block once the last one was taken, then one byte goes to the guest.
\* Mutated: the next block does not wait for the last one to be taken.
PrefetchedEarly(c, r) ==
    IF c.response_delay > 0 \/ ~c.multi_read THEN c
    ELSE IF r = "ok"
    THEN queue_data_block([Loaded(c, c.transfer_lba) EXCEPT !.transfer_lba = @ + 1],
                          card_files[c.image][c.transfer_lba])
    ELSE [c EXCEPT !.multi_read = FALSE]
Prefetched(c, r) ==
    IF c.response_delay > 0 \/ c.queue # <<>> \/ ~c.multi_read THEN c
    ELSE IF r = "ok"
    THEN queue_data_block([Loaded(c, c.transfer_lba) EXCEPT !.transfer_lba = @ + 1],
                          card_files[c.image][c.transfer_lba])
    ELSE [c EXCEPT !.multi_read = FALSE]
\* transfer_lba is forgotten once nothing will use it.
Taken(c) ==
    IF c.response_delay > 0 THEN [c EXCEPT !.response_delay = @ - 1]
    ELSE [c EXCEPT !.queue = IF @ = <<>> THEN <<>> ELSE Tail(@),
                   !.transfer_lba = IF c.multi_read \/ c.write_wait_token
                                       \/ Len(c.queue) > 1 THEN @ ELSE 0]

---------------------------------------------------------------------------
(* The window: sd_card_transfer of the selected card.                      *)

Data(c) == c.queue # <<>> \/ c.multi_read
\* What the protocol makes of a command, beside what the card does.
Asked(n, c, command, l) ==
    LET orderly == /\ guest[n].orderly \/ command = "reset"
                   /\ Data(c) => command \in {"stop", "short", "reset"}
    IN guest' = [guest EXCEPT ![n] =
          [orderly |-> orderly, given |-> <<>>,
           target |-> IF ~orderly THEN 0
                      ELSE IF command \in {"write", "write_many"} THEN l
                      ELSE IF cards'[n].write_wait_token THEN @.target ELSE 0]]

parse_command_byte(n, c) ==
    /\ UNCHANGED <<card_files, card_unsynced>>
    /\ \/ /\ c.command = "none"
          /\ cards' = [cards EXCEPT ![n] = c] /\ UNCHANGED guest
       \/ /\ c.command = "none" /\ Len(c.queue) < Pile
          /\ \E command \in Commands :
                cards' = [cards EXCEPT ![n] = [c EXCEPT !.command = command]]
          /\ UNCHANGED guest
       \/ /\ c.command # "none"
          /\ \E l \in 0..Size[c.image] : \E r \in CardLoadOutcome(c, l) :
                /\ cards' = [cards EXCEPT ![n] = execute_command(c, l, r)]
                /\ Asked(n, c, c.command, l)

Token(n, c) ==
    /\ UNCHANGED <<card_files, card_unsynced>>
    /\ \/ cards' = [cards EXCEPT ![n] = c] /\ UNCHANGED guest
       \/ /\ cards' = [cards EXCEPT ![n] = [c EXCEPT !.transfer_offset = 1]]
          /\ guest' = [guest EXCEPT ![n].given = <<>>]
       \/ /\ c.multi_write
          /\ cards' = [cards EXCEPT ![n] = [c EXCEPT !.write_wait_token = FALSE,
                                                    !.multi_write = FALSE]]
          /\ UNCHANGED guest

BlockByte(n, c, w) ==
    /\ cards' = [cards EXCEPT ![n] =
           [c EXCEPT !.sector[c.transfer_offset] = w, !.transfer_offset = @ + 1,
                     !.crc_bytes = IF c.transfer_offset = SectorWords THEN 1
                                   ELSE @]]
    /\ guest' = [guest EXCEPT ![n].given = IF guest[n].orderly THEN Append(@, w)
                                           ELSE <<>>]
    /\ UNCHANGED <<card_files, card_unsynced>>

Answered(c, stored) ==
    queue_push([c EXCEPT !.crc_bytes = 0, !.response_delay = 1,
                         !.transfer_lba = @ + 1, !.transfer_offset = 0,
                         !.sector = BlankBlock,
                         !.write_wait_token = c.multi_write /\ stored,
                         !.multi_write = @ /\ stored],
               <<IF stored THEN "accepted" ELSE "no", "ok", "ff">>)

\* Mutated: part of a block does not make the image dirty.
StoredClean(n, c) ==
    LET l == c.transfer_lba IN
    IF l >= Size[c.image] \/ c.image_mode # "rw"
    THEN /\ cards' = [cards EXCEPT ![n] = Answered(c, FALSE)]
         /\ UNCHANGED <<card_files, card_unsynced>>
    ELSE \E k \in 0..SectorWords :
         /\ card_files' = [card_files EXCEPT ![c.image][l] =
                [j \in 1..SectorWords |-> IF j <= k THEN c.sector[j] ELSE @[j]]]
         /\ card_unsynced' = card_unsynced \cup (IF k = 0 THEN {} ELSE {<<c.image, l>>})
         /\ cards' = [cards EXCEPT ![n] =
                [Answered(c, k = SectorWords) EXCEPT
                    !.dirty = @ \/ k = SectorWords]]

\* store_sector: fwrite takes k of the bytes.
BlockStored(n, c) ==
    LET l == c.transfer_lba IN
    IF l >= Size[c.image] \/ c.image_mode # "rw"
    THEN /\ cards' = [cards EXCEPT ![n] = Answered(c, FALSE)]
         /\ UNCHANGED <<card_files, card_unsynced>>
    ELSE \E k \in 0..SectorWords :
         /\ card_files' = [card_files EXCEPT ![c.image][l] =
                [j \in 1..SectorWords |-> IF j <= k THEN c.sector[j] ELSE @[j]]]
         /\ card_unsynced' = card_unsynced \cup (IF k = 0 THEN {} ELSE {<<c.image, l>>})
         /\ cards' = [cards EXCEPT ![n] =
                [Answered(c, k = SectorWords) EXCEPT !.dirty = @ \/ k > 0]]

BlockCrc(n, c) ==
    /\ BlockStored(n, c)
    /\ guest' = [guest EXCEPT ![n].given = <<>>,
           ![n].target = IF guest[n].orderly /\ cards'[n].write_wait_token
                         THEN @ + 1 ELSE 0]

receive_write_byte(n, c) ==
    IF c.transfer_offset = 0 /\ c.crc_bytes = 0 THEN Token(n, c)
    ELSE IF c.transfer_offset \in 1..SectorWords
    THEN \E w \in Word \ {Zero} : BlockByte(n, c, w)
    ELSE BlockCrc(n, c)

Transfer(n) ==
    /\ sd_rom_loaded
    /\ cards[n].selected /\ cards[n].image # NoImage
    /\ UNCHANGED <<card_power, sd_rom_loaded, selected_cards>>
    /\ \E r \in CardLoadOutcome(cards[n], cards[n].transfer_lba) :
          LET c == Taken(Prefetched(cards[n], r)) IN
          IF c.write_wait_token /\ c.queue = <<>> THEN receive_write_byte(n, c)
          ELSE parse_command_byte(n, c)

---------------------------------------------------------------------------
(* The mapper's registers.                                                 *)

select_cards ==
    /\ sd_rom_loaded /\ selected_cards' \in {0} \cup {2^n : n \in GuestCards}
    /\ cards' = [n \in Cards |-> sd_card_select(cards[n], selected_cards' = 2^n)]
    /\ UNCHANGED <<card_power, card_files, card_unsynced, sd_rom_loaded, guest>>

---------------------------------------------------------------------------
(* The user.                                                               *)

\* sd_mapper_reset, also the effect of switching the RAM mapper.
MapperReset ==
    /\ selected_cards' = 0
    /\ cards' = [n \in Cards |-> sd_card_reset(cards[n])]
    /\ guest' = [n \in Cards |-> CardGuest]
sd_mapper_reset == MapperReset /\ UNCHANGED <<card_power, card_files, card_unsynced, sd_rom_loaded>>

SdInstallRom == /\ sd_rom_loaded' = TRUE /\ MapperReset
                /\ UNCHANGED <<card_power, card_files, card_unsynced>>

\* sd_card_eject: a refused flush keeps the card, a failed close does not.
Ejected(n) == IF cards[n].image = NoImage THEN cards[n]
              ELSE Mounted(cards[n], NoImage, "ro")
FlushCard ==
    \E n \in Cards : \E r \in CardFlushOutcome(cards[n]) :
        /\ r = "ok"
        /\ cards' = [cards EXCEPT ![n].dirty = FALSE]
        /\ card_unsynced' = CardSynced(cards[n])
        /\ UNCHANGED <<card_power, card_files, sd_rom_loaded, selected_cards, guest>>
EjectCard ==
    \E n \in Cards :
        /\ cards[n].image # NoImage
        /\ cards' = [cards EXCEPT ![n] = Ejected(n)]
        /\ card_unsynced' = CardSynced(cards[n])
        /\ guest' = [guest EXCEPT ![n] = CardGuest]
        /\ UNCHANGED <<card_power, card_files, sd_rom_loaded, selected_cards>>

\* The new image is opened first; then the old one goes.  When closing it
\* fails the card is left empty (EjectCard's outcome).
MountCard ==
    /\ sd_rom_loaded
    /\ \E n \in Cards : \E i \in CardImages[n], mode \in {"ro", "rw"} :
          /\ mode = "rw" => i \in Writable
          /\ cards' = [cards EXCEPT ![n] = Mounted(@, i, mode)]
          /\ card_unsynced' = CardSynced(cards[n])
          /\ guest' = [guest EXCEPT ![n] = CardGuest]
    /\ UNCHANGED <<card_power, card_files, sd_rom_loaded, selected_cards>>

AllSynced == {u \in card_unsynced : \A n \in Cards : u \in CardSynced(cards[n])}

\* The cards go one by one; a flush that is refused stops half way, and
\* neither the ROM nor the machine is reset then.
SdEjectRom ==
    \/ /\ sd_rom_loaded' = FALSE /\ selected_cards' = 0
       /\ cards' = [n \in Cards |-> sd_card_reset(Ejected(n))]
       /\ card_unsynced' = AllSynced /\ guest' = [n \in Cards |-> CardGuest]
       /\ UNCHANGED <<card_power, card_files>>
    \/ /\ \E n \in Cards :
             /\ cards[n].dirty
             /\ cards' = [k \in Cards |-> IF k < n THEN Ejected(k) ELSE cards[k]]
             /\ card_unsynced' = {u \in card_unsynced : \A k \in Cards :
                                k < n => u \in CardSynced(cards[k])}
             /\ guest' = [k \in Cards |-> IF k < n THEN CardGuest ELSE guest[k]]
       /\ UNCHANGED <<card_power, card_files, sd_rom_loaded, selected_cards>>

\* msx_replace_sd_mapper: a whole new mapper takes over the images.  Every
\* card is flushed before the first is opened again, and the old mapper is
\* let go of last; any failure leaves it as it is (FlushCard's outcomes).
Replace ==
    /\ sd_rom_loaded
    /\ \E mode \in {"ro", "rw"} :
          /\ \A n \in Cards : mode = "rw" =>
                                cards[n].image \in Writable \cup {NoImage}
          /\ cards' = [n \in Cards |->
                 IF cards[n].image = NoImage THEN NewCard
                 ELSE Mounted(NewCard, cards[n].image, mode)]
    /\ card_unsynced' = AllSynced
    /\ selected_cards' = 0 /\ guest' = [n \in Cards |-> CardGuest]
    /\ UNCHANGED <<card_power, card_files, sd_rom_loaded>>

\* sd_mapper_destroy: the files are closed whatever the flushes answer.
SdDestroy ==
    /\ card_power' = FALSE /\ sd_rom_loaded' = FALSE
    /\ selected_cards' = 0 /\ cards' = [n \in Cards |-> NewCard]
    /\ guest' = [n \in Cards |-> CardGuest]
    /\ UNCHANGED <<card_files, card_unsynced>>

---------------------------------------------------------------------------
CardsInit ==
    /\ cards = [n \in Cards |-> NewCard] /\ guest = [n \in Cards |-> CardGuest]
    /\ sd_rom_loaded = FALSE /\ selected_cards = 0

GuestStep == select_cards \/ \E n \in GuestCards : Transfer(n)
UserStep == SdInstallRom \/ SdEjectRom \/ MountCard \/ FlushCard \/ EjectCard
            \/ Replace \/ sd_mapper_reset \/ SdDestroy
CardsNext == card_power /\ (GuestStep \/ UserStep)

---------------------------------------------------------------------------
(* Properties.                                                             *)

Block(q, k) == SubSeq(q, k + 1, k + SectorWords + 1)

\* What a guest that keeps to the protocol takes from a card is what the
\* image in it holds: a block in the queue is whole, with its CRC, and is
\* the sector before transfer_lba as it is now (queue_data_block,
\* sd_card_transfer, storage_read).
GuestSeesCard ==
    \A n \in Cards : guest[n].orderly =>
        \A k \in 1..Len(cards[n].queue) : cards[n].queue[k] = "fe" =>
            /\ k + SectorWords < Len(cards[n].queue)
            /\ Block(cards[n].queue, k) =
                  card_files[cards[n].image][cards[n].transfer_lba - 1] \o <<"crc">>

\* The block a guest that keeps to the protocol has given so far is what
\* will be stored, at the sector it asked for, and only a writable image is
\* ever about to change (begin_write, receive_write_byte, store_sector).
BlockIsGiven ==
    \A n \in Cards :
        cards[n].write_wait_token /\ cards[n].transfer_offset > 0 =>
            /\ cards[n].image_mode = "rw"
            /\ guest[n].orderly =>
                  /\ cards[n].transfer_lba = guest[n].target
                  /\ Len(guest[n].given) = cards[n].transfer_offset - 1
                  /\ guest[n].given =
                        SubSeq(cards[n].sector, 1, cards[n].transfer_offset - 1)

\* What a guest that keeps to the protocol takes is what the image holds,
\* and what will be stored is what such a guest gave (queue_data_block,
\* begin_write, sd_card_transfer).
CardAsGuestKnows == GuestSeesCard /\ BlockIsGiven

\* A change that has not reached stable storage belongs to a card that
\* still has its image and counts as dirty.
CardChangesKept ==
    card_power => \A u \in card_unsynced :
        \E n \in Cards : cards[n].image = u[1] /\ cards[n].dirty
=============================================================================
