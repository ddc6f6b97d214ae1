---------------------------- MODULE DriveProofs ----------------------------
(***************************************************************************)
(* Proofs about SdMapper and Scsi for every set of images, block length,   *)
(* count and queue size.  SdMapper: a guest that keeps to the protocol     *)
(* takes whole, current blocks and has stored what it gave, and no change  *)
(* is forgotten.  Scsi: the bus stays in step with the target, no change   *)
(* is forgotten, and the target with its phases, handshakes and DMA        *)
(* implements Disk.                                                        *)
(***************************************************************************)
EXTENDS SdMapper, Scsi, TLAPS, SequenceTheorems

---------------------------------------------------------------------------
(* The SD cards and their mapper.                                          *)

cardvars == <<card_power, card_files, card_unsynced, cards, sd_rom_loaded, selected_cards,
          guest>>

Sector == [1..SectorWords -> Word]
CardFilesOK == /\ DOMAIN card_files = Image
               /\ \A i \in Image : card_files[i] \in [0..(Size[i] - 1) -> Sector]

SdInit == CardsInit /\ card_power = TRUE /\ card_unsynced = {} /\ CardFilesOK
SdSpec == SdInit /\ [][CardsNext]_cardvars

---------------------------------------------------------------------------
(* The invariant.                                                          *)

Answers == {"crc", "ok", "no", "accepted", "ff"}
Bytes == Word \cup {"fe"} \cup Answers

CardType ==
    [image : Image \cup {NoImage}, image_mode : {"ro", "rw"},
     dirty : BOOLEAN, selected : BOOLEAN, command : Commands \cup {"none"},
     response_delay : Nat, queue : Seq(Bytes), multi_read : BOOLEAN,
     write_wait_token : BOOLEAN, multi_write : BOOLEAN,
     transfer_offset : Nat, crc_bytes : Nat, transfer_lba : Nat,
     sector : Sector]
GuestType == [orderly : BOOLEAN, target : Nat, given : Seq(Word)]

CardOK(c, n) == /\ c \in CardType /\ Len(c.queue) <= QueueSize
                /\ c.image \in CardImages[n] \cup {NoImage}
                /\ c.write_wait_token => c.image_mode = "rw"

\* After every start token the queue holds the block and its CRC.
Framed(q, block) ==
    \A k \in 1..Len(q) : q[k] = "fe" =>
        /\ block \in Sector /\ k + SectorWords + 1 <= Len(q)
        /\ \A j \in 1..SectorWords : q[k + j] = block[j]
        /\ q[k + SectorWords + 1] = "crc"
Queued(c, m) == Framed(c.queue, m[c.image][c.transfer_lba - 1])

\* A write under way is no read, and the block is what was given for it.
Giving(c, g) ==
    c.write_wait_token =>
        /\ ~c.multi_read /\ c.transfer_lba = g.target
        /\ c.transfer_offset > 0 =>
              /\ c.queue = <<>> /\ c.transfer_offset <= SectorWords + 1
              /\ Len(g.given) = c.transfer_offset - 1
              /\ \A j \in 1..Len(g.given) : g.given[j] = c.sector[j]

CardInv(n) == /\ CardOK(cards[n], n) /\ guest[n] \in GuestType
              /\ cards[n].image = NoImage =>
                    cards[n].queue = <<>> /\ ~cards[n].write_wait_token
              /\ guest[n].orderly => /\ Queued(cards[n], card_files)
                                     /\ Giving(cards[n], guest[n])

MapperInv == /\ card_power \in BOOLEAN /\ CardFilesOK /\ card_unsynced \subseteq Image \X Nat
             /\ DOMAIN cards = Cards /\ DOMAIN guest = Cards
             /\ \A n \in Cards : CardInv(n)
             /\ CardChangesKept

LEMMA Constants ==
    ASSUME SdAssumption
    PROVE  /\ NoImage \notin Image
           /\ \A i \in Image : Size[i] \in Nat /\ Size[i] > 0
           /\ SectorWords \in Nat /\ SectorWords > 0
           /\ QueueSize \in Nat /\ SectorWords + 3 <= QueueSize
           /\ "fe" \notin Word /\ Zero \in Word
           /\ Cards \subseteq Nat /\ GuestCards \subseteq Cards
           /\ \A n \in Cards : CardImages[n] \subseteq Image
BY DEF SdAssumption

LEMMA BlankSector == ASSUME SdAssumption PROVE BlankBlock \in Sector
BY Constants DEF BlankBlock, Sector

---------------------------------------------------------------------------
(* The queue.                                                              *)

\* What a push leaves alone.
SameBut(e, c) ==
    /\ e.image = c.image /\ e.image_mode = c.image_mode /\ e.dirty = c.dirty
    /\ e.multi_read = c.multi_read
    /\ e.write_wait_token = c.write_wait_token
    /\ e.transfer_offset = c.transfer_offset
    /\ e.transfer_lba = c.transfer_lba /\ e.sector = c.sector

\* A push keeps what is in the queue and adds the bytes that fit.
Longer(q, p, bytes) ==
    /\ Len(q) = (IF Len(p) + Len(bytes) > QueueSize THEN QueueSize
                 ELSE Len(p) + Len(bytes))
    /\ Len(p) <= Len(q)
    /\ \A k \in 1..Len(p) : q[k] = p[k]
    /\ \A k \in (Len(p) + 1)..Len(q) : q[k] = bytes[k - Len(p)]

LEMMA Prefix ==
    ASSUME SdAssumption, NEW p \in Seq(Bytes), Len(p) <= QueueSize,
           NEW bytes \in Seq(Bytes),
           NEW q, q = SubSeq(p \o bytes, 1,
                             IF Len(p \o bytes) > QueueSize THEN QueueSize
                             ELSE Len(p \o bytes))
    PROVE  q \in Seq(Bytes) /\ Longer(q, p, bytes)
<1> DEFINE all == p \o bytes
           n == IF Len(all) > QueueSize THEN QueueSize ELSE Len(all)
<1>1. /\ all \in Seq(Bytes) /\ Len(all) = Len(p) + Len(bytes)
      /\ \A k \in 1..Len(p) : all[k] = p[k]
      /\ \A k \in (Len(p) + 1)..Len(all) : all[k] = bytes[k - Len(p)]
    BY ConcatProperties
<1>2. n \in 0..Len(all) /\ Len(p) <= n
    BY <1>1, Constants
<1> HIDE DEF all, n
<1>3. q = SubSeq(all, 1, n)
    BY DEF all, n
<1>4. /\ q \in Seq(Bytes) /\ Len(q) = n
      /\ \A k \in 1..n : q[k] = all[k]
    <2>1. n \in Nat /\ \A k \in 1..n : all[k] \in Bytes
        BY <1>1, <1>2
    <2>2. /\ SubSeq(all, 1, n) \in Seq(Bytes)
          /\ Len(SubSeq(all, 1, n)) = IF 1 <= n THEN n - 1 + 1 ELSE 0
          /\ \A k \in 1..(n - 1 + 1) : SubSeq(all, 1, n)[k] = all[1 + k - 1]
        BY <2>1, SubSeqProperties
    <2>3. q \in Seq(Bytes) /\ Len(q) = n
        <3>1. (IF 1 <= n THEN n - 1 + 1 ELSE 0) = n
            BY <2>1
        <3>2. QED
            BY <1>3, <2>2, <3>1, Zenon
    <2>4. ASSUME NEW k \in 1..n PROVE q[k] = all[k]
        <3>1. k \in 1..(n - 1 + 1) /\ 1 + k - 1 = k
            BY <2>1
        <3>2. SubSeq(all, 1, n)[k] = all[1 + k - 1]
            BY <2>2, <3>1
        <3>3. QED
            BY <1>3, <3>1, <3>2
    <2>5. QED
        BY <2>3, <2>4
<1>5. QED
    BY <1>1, <1>2, <1>4 DEF Longer, n

LEMMA PushCard ==
    ASSUME SdAssumption, NEW c \in CardType, Len(c.queue) <= QueueSize,
           NEW bytes \in Seq(Bytes)
    PROVE  LET e == queue_push(c, bytes) IN
           /\ e \in CardType /\ Len(e.queue) <= QueueSize /\ SameBut(e, c)
           /\ Longer(e.queue, c.queue, bytes)
<1> DEFINE q == SubSeq(c.queue \o bytes, 1,
                       IF Len(c.queue \o bytes) > QueueSize THEN QueueSize
                       ELSE Len(c.queue \o bytes))
           e == queue_push(c, bytes)
<1>1. c.queue \in Seq(Bytes)
    BY DEF CardType
<1>2. q \in Seq(Bytes) /\ Longer(q, c.queue, bytes)
    BY <1>1, Prefix
<1>3. e = [c EXCEPT !.queue = q]
    BY DEF queue_push
<1> HIDE DEF q, e
<1>4. e \in CardType
    BY <1>2, <1>3 DEF CardType
<1>5. e.queue = q
    BY <1>3 DEF CardType
<1>6. SameBut(e, c)
    <2>1. /\ e.image = c.image /\ e.image_mode = c.image_mode
          /\ e.transfer_offset = c.transfer_offset
          /\ e.transfer_lba = c.transfer_lba /\ e.sector = c.sector
        BY <1>3 DEF CardType
    <2>2. /\ e.dirty = c.dirty /\ e.multi_read = c.multi_read
          /\ e.write_wait_token = c.write_wait_token
        BY <1>3 DEF CardType
    <2>3. QED
        BY <2>1, <2>2 DEF SameBut
<1>7. Len(q) <= QueueSize
    BY <1>1, <1>2, Constants DEF Longer
<1>8. QED
    BY <1>2, <1>4, <1>5, <1>6, <1>7 DEF e

\* Answers after a block leave it framed.
LEMMA AnswersFramed ==
    ASSUME NEW p \in Seq(Bytes), NEW q \in Seq(Bytes), NEW bytes \in Seq(Bytes),
           Longer(q, p, bytes), NEW block, Framed(p, block),
           \A k \in 1..Len(bytes) : bytes[k] # "fe", SdAssumption
    PROVE  Framed(q, block)
<1> SUFFICES ASSUME NEW k \in 1..Len(q), q[k] = "fe"
             PROVE  /\ block \in Sector /\ k + SectorWords + 1 <= Len(q)
                    /\ \A j \in 1..SectorWords : q[k + j] = block[j]
                    /\ q[k + SectorWords + 1] = "crc"
    BY DEF Framed
<1>1. Len(q) <= Len(p) + Len(bytes)
    BY Constants DEF Longer
<1>2. k \in 1..Len(p)
    <2> SUFFICES ASSUME k \notin 1..Len(p) PROVE FALSE
        OBVIOUS
    <2>1. k \in (Len(p) + 1)..Len(q) /\ k - Len(p) \in 1..Len(bytes)
        BY <1>1
    <2>2. q[k] = bytes[k - Len(p)]
        BY <2>1 DEF Longer
    <2>3. QED
        BY <2>1, <2>2
<1>3. p[k] = "fe"
    BY <1>2 DEF Longer
<1>4. /\ block \in Sector /\ k + SectorWords + 1 <= Len(p)
      /\ \A j \in 1..SectorWords : p[k + j] = block[j]
      /\ p[k + SectorWords + 1] = "crc"
    BY <1>2, <1>3 DEF Framed
<1>5. \A j \in 1..(SectorWords + 1) : k + j \in 1..Len(p) /\ q[k + j] = p[k + j]
    BY <1>2, <1>4, Constants DEF Longer
<1>6. q[k + (SectorWords + 1)] = p[k + (SectorWords + 1)]
    BY <1>5, Constants
<1>7. ASSUME NEW j \in 1..SectorWords PROVE q[k + j] = block[j]
    <2>1. j \in 1..(SectorWords + 1)
        BY Constants
    <2>2. q[k + j] = p[k + j] /\ p[k + j] = block[j]
        BY <1>4, <1>5, <2>1
    <2>3. QED
        BY <2>2
<1>8. k + SectorWords + 1 <= Len(q)
    BY <1>4, Constants DEF Longer
<1>9. q[k + SectorWords + 1] = "crc"
    <2>1. k + (SectorWords + 1) = k + SectorWords + 1
        BY Constants
    <2>2. QED
        BY <1>4, <1>6, <2>1
<1>10. QED
    BY <1>4, <1>7, <1>8, <1>9

\* A queue without a start token frames any block.
LEMMA NoToken ==
    ASSUME NEW q, \A k \in 1..Len(q) : q[k] # "fe", NEW block
    PROVE  Framed(q, block)
BY DEF Framed

\* A block pushed behind at most one answer is framed.
LEMMA BlockFramed ==
    ASSUME SdAssumption, NEW p \in Seq(Bytes), Len(p) <= 1,
           \A k \in 1..Len(p) : p[k] # "fe", NEW block \in Sector,
           NEW q \in Seq(Bytes), Longer(q, p, <<"fe">> \o block \o <<"crc">>)
    PROVE  Framed(q, block)
<1> DEFINE frame == <<"fe">> \o block \o <<"crc">>
<1>1. block \in Seq(Word) /\ Len(block) = SectorWords
    BY Constants DEF Sector
<1>2. /\ Len(frame) = SectorWords + 2 /\ frame[1] = "fe"
      /\ \A j \in 1..SectorWords : frame[j + 1] = block[j]
      /\ frame[SectorWords + 2] = "crc"
    BY <1>1, Constants
<1>3. Len(q) = Len(p) + SectorWords + 2
    BY <1>2, Constants DEF Longer
<1> HIDE DEF frame
<1>4. ASSUME NEW k \in 1..Len(q), q[k] = "fe"
      PROVE  k = Len(p) + 1
    <2>1. CASE k <= Len(p)
        BY <1>4, <2>1 DEF Longer
    <2>2. CASE k > Len(p) + 1
        <3>1. k - Len(p) \in 2..(SectorWords + 2) /\ q[k] = frame[k - Len(p)]
            BY <1>3, <2>2, Constants DEF Longer, frame
        <3>2. CASE k - Len(p) = SectorWords + 2
            BY <1>2, <1>4, <3>1, <3>2
        <3>3. CASE k - Len(p) # SectorWords + 2
            <4>1. k - Len(p) - 1 \in 1..SectorWords
                BY <3>1, <3>3, Constants
            <4>2. q[k] = block[k - Len(p) - 1]
                BY <1>2, <3>1, <4>1
            <4>3. q[k] \in Word
                BY <1>1, <4>1, <4>2
            <4>4. QED
                BY <1>4, <4>3, Constants
        <3>4. QED
            BY <3>2, <3>3
    <2>3. QED
        BY <2>1, <2>2
<1>5. \A j \in 1..(SectorWords + 1) : q[Len(p) + 1 + j] = frame[j + 1]
    <2> SUFFICES ASSUME NEW j \in 1..(SectorWords + 1)
                 PROVE  q[Len(p) + 1 + j] = frame[j + 1]
        OBVIOUS
    <2>1. /\ Len(p) + 1 + j \in (Len(p) + 1)..Len(q)
          /\ (Len(p) + 1 + j) - Len(p) = j + 1
        BY <1>3, Constants
    <2>2. QED
        BY <2>1 DEF Longer, frame
<1>6. \A j \in 1..SectorWords : q[Len(p) + 1 + j] = block[j]
    BY <1>2, <1>5, Constants
<1>7. q[Len(p) + 1 + SectorWords + 1] = "crc"
    <2>1. SectorWords + 1 \in 1..(SectorWords + 1)
        BY Constants
    <2>2. q[Len(p) + 1 + (SectorWords + 1)] = frame[SectorWords + 1 + 1]
        BY <1>5, <2>1
    <2>3. /\ Len(p) + 1 + (SectorWords + 1) = Len(p) + 1 + SectorWords + 1
          /\ SectorWords + 1 + 1 = SectorWords + 2
        BY Constants
    <2>4. QED
        BY <1>2, <2>2, <2>3
<1>8. SUFFICES ASSUME NEW k \in 1..Len(q), q[k] = "fe"
               PROVE  /\ block \in Sector /\ k + SectorWords + 1 <= Len(q)
                      /\ \A j \in 1..SectorWords : q[k + j] = block[j]
                      /\ q[k + SectorWords + 1] = "crc"
    BY DEF Framed
<1>9. k = Len(p) + 1
    BY <1>4, <1>8
<1>10. QED
    BY <1>3, <1>6, <1>7, <1>9, Constants

\* Taking the first byte moves the frames with the bytes.
LEMMA TailFramed ==
    ASSUME SdAssumption, NEW q \in Seq(Bytes), q # <<>>, NEW block,
           Framed(q, block)
    PROVE  Framed(Tail(q), block)
<1>1. /\ Tail(q) \in Seq(Bytes) /\ Len(Tail(q)) = Len(q) - 1
      /\ \A k \in 1..Len(Tail(q)) : Tail(q)[k] = q[k + 1]
    BY HeadTailProperties
<1> SUFFICES ASSUME NEW k \in 1..Len(Tail(q)), Tail(q)[k] = "fe"
             PROVE  /\ block \in Sector /\ k + SectorWords + 1 <= Len(Tail(q))
                    /\ \A j \in 1..SectorWords : Tail(q)[k + j] = block[j]
                    /\ Tail(q)[k + SectorWords + 1] = "crc"
    BY DEF Framed
<1>2. k + 1 \in 1..Len(q) /\ q[k + 1] = "fe"
    BY <1>1
<1>3. /\ block \in Sector /\ (k + 1) + SectorWords + 1 <= Len(q)
      /\ \A j \in 1..SectorWords : q[(k + 1) + j] = block[j]
      /\ q[(k + 1) + SectorWords + 1] = "crc"
    BY <1>2 DEF Framed
<1>4. \A j \in 1..(SectorWords + 1) : Tail(q)[k + j] = q[(k + 1) + j]
    BY <1>1, <1>3, Constants
<1>5. Tail(q)[k + (SectorWords + 1)] = q[(k + 1) + (SectorWords + 1)]
    <2>1. SectorWords + 1 \in 1..(SectorWords + 1)
        BY Constants
    <2>2. QED
        BY <1>4, <2>1
<1>6. \A j \in 1..SectorWords : Tail(q)[k + j] = block[j]
    BY <1>3, <1>4, Constants
<1>7. k + SectorWords + 1 <= Len(Tail(q))
    BY <1>1, <1>3, Constants
<1>8. QED
    BY <1>3, <1>5, <1>6, <1>7, Constants

LEMMA SectorBytes ==
    ASSUME SdAssumption, NEW block \in Sector
    PROVE  <<"fe">> \o block \o <<"crc">> \in Seq(Bytes)
<1>1. block \in Seq(Bytes)
    BY Constants DEF Sector, Bytes
<1>2. <<"fe">> \in Seq(Bytes) /\ <<"crc">> \in Seq(Bytes)
    BY DEF Bytes, Answers
<1>3. <<"fe">> \o block \in Seq(Bytes)
    BY <1>1, <1>2, ConcatProperties
<1>4. QED
    BY <1>2, <1>3, ConcatProperties

LEMMA PushAnswers ==
    ASSUME SdAssumption, NEW c \in CardType, Len(c.queue) <= QueueSize,
           NEW bytes \in Seq(Answers), Len(bytes) > 0
    PROVE  LET e == queue_push(c, bytes) IN
           /\ e \in CardType /\ Len(e.queue) <= QueueSize /\ SameBut(e, c)
           /\ \A block : Framed(c.queue, block) => Framed(e.queue, block)
           /\ \A k \in 1..Len(e.queue) : k > Len(c.queue) => e.queue[k] # "fe"
<1>1. bytes \in Seq(Bytes) /\ \A k \in 1..Len(bytes) : bytes[k] # "fe"
    BY DEF Bytes, Answers
<1> DEFINE e == queue_push(c, bytes)
<1>2. /\ e \in CardType /\ Len(e.queue) <= QueueSize /\ SameBut(e, c)
      /\ Longer(e.queue, c.queue, bytes)
    BY <1>1, PushCard
<1>3. c.queue \in Seq(Bytes) /\ e.queue \in Seq(Bytes)
    BY <1>2 DEF CardType
<1> HIDE DEF e
<1>4. \A block : Framed(c.queue, block) => Framed(e.queue, block)
    BY <1>1, <1>2, <1>3, AnswersFramed
<1>5. ASSUME NEW k \in 1..Len(e.queue), k > Len(c.queue)
      PROVE  e.queue[k] # "fe"
    <2>1. k \in (Len(c.queue) + 1)..Len(e.queue)
        BY <1>3, <1>5
    <2>2. Len(e.queue) <= Len(c.queue) + Len(bytes)
        BY <1>1, <1>2, <1>3, Constants DEF Longer
    <2>3. k - Len(c.queue) \in 1..Len(bytes)
        BY <1>1, <1>3, <2>1, <2>2
    <2>4. e.queue[k] = bytes[k - Len(c.queue)]
        BY <1>2, <2>1 DEF Longer
    <2>5. QED
        BY <1>1, <2>3, <2>4
<1>6. QED
    BY <1>2, <1>4, <1>5 DEF e

LEMMA PushBlock ==
    ASSUME SdAssumption, NEW c \in CardType, Len(c.queue) <= QueueSize,
           NEW block \in Sector
    PROVE  LET e == queue_data_block(c, block) IN
           /\ e \in CardType /\ Len(e.queue) <= QueueSize /\ SameBut(e, c)
           /\ Len(c.queue) <= 1 /\ (\A k \in 1..Len(c.queue) : c.queue[k] # "fe")
                 => Framed(e.queue, block)
<1> DEFINE frame == <<"fe">> \o block \o <<"crc">>
           e == queue_push(c, frame)
<1>1. frame \in Seq(Bytes)
    BY SectorBytes
<1>2. /\ e \in CardType /\ Len(e.queue) <= QueueSize /\ SameBut(e, c)
      /\ Longer(e.queue, c.queue, frame)
    BY <1>1, PushCard
<1>3. c.queue \in Seq(Bytes) /\ e.queue \in Seq(Bytes)
    BY <1>2 DEF CardType
<1>4. queue_data_block(c, block) = e
    BY DEF queue_data_block
<1> HIDE DEF e
<1>5. ASSUME Len(c.queue) <= 1, \A k \in 1..Len(c.queue) : c.queue[k] # "fe"
      PROVE  Framed(e.queue, block)
    BY <1>2, <1>3, <1>5, BlockFramed
<1>6. QED
    BY <1>2, <1>4, <1>5

---------------------------------------------------------------------------
(* The card.                                                               *)

LEMMA MediumSector ==
    ASSUME SdAssumption, CardFilesOK, NEW i \in Image, NEW l \in Nat, l < Size[i]
    PROVE  card_files[i][l] \in Sector
<1>1. l \in 0..(Size[i] - 1)
    BY Constants
<1>2. QED
    BY <1>1 DEF CardFilesOK

LEMMA NewCardOK ==
    ASSUME SdAssumption
    PROVE  /\ NewCard \in CardType /\ NewCard.queue = <<>>
           /\ NewCard.image = NoImage /\ ~NewCard.write_wait_token
BY BlankSector DEF NewCard, CardType, Commands

\* A card without bytes on their way and without a write keeps the promise
\* whatever its guest does.
LEMMA IdleCard ==
    ASSUME NEW c, c.queue = <<>>, ~c.write_wait_token
    PROVE  \A m, g : Queued(c, m) /\ Giving(c, g)
BY DEF Queued, Framed, Giving

Idle(c) == c.queue = <<>> /\ ~c.write_wait_token

LEMMA ResetCard ==
    ASSUME SdAssumption, NEW n \in Cards, NEW c, c \in CardType,
           c.image \in CardImages[n] \cup {NoImage}
    PROVE  /\ CardOK(sd_card_reset(c), n) /\ Idle(sd_card_reset(c))
           /\ sd_card_reset(c).image = c.image
           /\ sd_card_reset(c).dirty = c.dirty
           /\ \A m, g : Queued(sd_card_reset(c), m) /\ Giving(sd_card_reset(c), g)
<1> DEFINE e == sd_card_reset(c)
<1>1. e = [NewCard EXCEPT !.image = c.image, !.image_mode = c.image_mode,
                          !.dirty = c.dirty]
    BY DEF sd_card_reset
<1> HIDE DEF e
<1>2. e \in CardType
    BY <1>1, NewCardOK DEF CardType
<1>3. e.image = c.image /\ e.queue = <<>>
    BY <1>1, NewCardOK DEF CardType
<1>4. e.dirty = c.dirty /\ ~e.write_wait_token
    BY <1>1, NewCardOK DEF CardType
<1>5. Len(e.queue) <= QueueSize
    BY <1>3, Constants
<1>6. QED
    BY <1>2, <1>3, <1>4, <1>5, IdleCard DEF CardOK, Idle, e

LEMMA MountedCard ==
    ASSUME SdAssumption, NEW n \in Cards, NEW c \in CardType,
           NEW i \in CardImages[n] \cup {NoImage}, NEW mode \in {"ro", "rw"}
    PROVE  /\ CardOK(Mounted(c, i, mode), n)
           /\ Idle(Mounted(c, i, mode))
           /\ Mounted(c, i, mode).image = i /\ ~Mounted(c, i, mode).dirty
           /\ \A m, g : /\ Queued(Mounted(c, i, mode), m)
                        /\ Giving(Mounted(c, i, mode), g)
<1> DEFINE t == [c EXCEPT !.image = i, !.image_mode = mode, !.dirty = FALSE]
<1>1. i \in Image \cup {NoImage}
    BY Constants
<1>2. t \in CardType
    BY <1>1 DEF CardType
<1>3. t.image = i
    BY DEF CardType
<1>4. t.dirty = FALSE
    BY DEF CardType
<1>5. Mounted(c, i, mode) = sd_card_reset(t)
    BY DEF Mounted
<1> HIDE DEF t
<1>6. QED
    BY <1>2, <1>3, <1>4, <1>5, ResetCard

\* What the first half of a transfer does to a card.
Carries(e, c, n) ==
    /\ CardOK(e, n) /\ e.image = c.image /\ e.dirty = c.dirty
    /\ Queued(c, card_files) => Queued(e, card_files)
    /\ \A g : Giving(c, g) => Giving(e, g)

LEMMA LoadedCard ==
    ASSUME SdAssumption, CardFilesOK, NEW c \in CardType, NEW l \in Nat,
           c.image \in Image, l < Size[c.image]
    PROVE  /\ Loaded(c, l) \in CardType
           /\ Loaded(c, l).image = c.image /\ Loaded(c, l).dirty = c.dirty
           /\ Loaded(c, l).image_mode = c.image_mode
           /\ Loaded(c, l).queue = c.queue
           /\ Loaded(c, l).multi_read = c.multi_read
           /\ Loaded(c, l).write_wait_token = c.write_wait_token
           /\ Loaded(c, l).transfer_lba = c.transfer_lba
<1>1. CASE c.transfer_offset = 0
    BY <1>1 DEF Loaded
<1>2. CASE c.transfer_offset # 0
    <2> DEFINE block == card_files[c.image][l]
               e == Loaded(c, l)
    <2>1. block \in Sector
        BY MediumSector
    <2>2. e = [c EXCEPT !.sector = block]
        BY <1>2 DEF Loaded
    <2> HIDE DEF block, e
    <2>3. e \in CardType
        BY <2>1, <2>2 DEF CardType
    <2>4. /\ e.image = c.image /\ e.image_mode = c.image_mode
          /\ e.queue = c.queue /\ e.transfer_lba = c.transfer_lba
        BY <2>2 DEF CardType
    <2>5. /\ e.dirty = c.dirty /\ e.multi_read = c.multi_read
          /\ e.write_wait_token = c.write_wait_token
        BY <2>2 DEF CardType
    <2>6. QED
        BY <2>3, <2>4, <2>5 DEF e
<1>3. QED
    BY <1>1, <1>2

LEMMA PrefetchedCard ==
    ASSUME SdAssumption, CardFilesOK, NEW n \in Cards, NEW c, CardOK(c, n),
           NEW r \in CardLoadOutcome(c, c.transfer_lba)
    PROVE  Carries(Prefetched(c, r), c, n)
<1>0. c \in CardType /\ c.transfer_lba \in Nat
    BY DEF CardOK, CardType
<1>1. CASE c.response_delay > 0 \/ c.queue # <<>> \/ ~c.multi_read
    BY <1>1 DEF Prefetched, Carries
<1>2. CASE /\ ~(c.response_delay > 0 \/ c.queue # <<>> \/ ~c.multi_read)
           /\ r = "ok"
    <2> DEFINE l == c.transfer_lba
               block == card_files[c.image][l]
               s == Loaded(c, l)
               t == [s EXCEPT !.transfer_lba = @ + 1]
               e == queue_data_block(t, block)
    <2>1. c.image \in Image /\ l < Size[c.image]
        BY <1>0, <1>2 DEF CardLoadOutcome, CardType
    <2>2. block \in Sector
        BY <1>0, <2>1, MediumSector
    <2>3. /\ s \in CardType /\ s.image = c.image /\ s.dirty = c.dirty
          /\ s.image_mode = c.image_mode
          /\ s.queue = c.queue /\ s.multi_read = c.multi_read
          /\ s.write_wait_token = c.write_wait_token /\ s.transfer_lba = l
        BY <1>0, <2>1, LoadedCard
    <2> HIDE DEF s
    <2>4. t \in CardType
        BY <1>0, <2>3 DEF CardType
    <2>5. /\ t.image = c.image /\ t.image_mode = c.image_mode
          /\ t.queue = <<>> /\ t.transfer_lba = l + 1
        BY <1>2, <2>3 DEF CardType
    <2>6. /\ t.dirty = c.dirty /\ t.multi_read
          /\ t.write_wait_token = c.write_wait_token
        BY <1>2, <2>3 DEF CardType
    <2>7. Prefetched(c, r) = e
        BY <1>2 DEF Prefetched, s
    <2> HIDE DEF t, block
    <2>8. /\ e \in CardType /\ Len(e.queue) <= QueueSize /\ SameBut(e, t)
          /\ Framed(e.queue, block)
        BY <2>2, <2>4, <2>5, Constants, PushBlock
    <2> HIDE DEF e
    <2>9. /\ e.image = c.image /\ e.dirty = c.dirty /\ e.transfer_lba - 1 = l
          /\ e.image_mode = c.image_mode
          /\ e.write_wait_token = c.write_wait_token
        BY <1>0, <2>5, <2>6, <2>8 DEF SameBut
    <2>10. Queued(e, card_files)
        BY <2>8, <2>9 DEF Queued, block
    <2>11. CardOK(e, n)
        BY <2>8, <2>9 DEF CardOK
    <2>12. \A g : Giving(c, g) => Giving(e, g)
        BY <1>2, <2>9 DEF Giving
    <2>13. QED
        BY <2>7, <2>9, <2>10, <2>11, <2>12 DEF Carries
<1>3. CASE /\ ~(c.response_delay > 0 \/ c.queue # <<>> \/ ~c.multi_read)
           /\ r # "ok"
    <2> DEFINE e == Prefetched(c, r)
    <2>1. e = [c EXCEPT !.multi_read = FALSE]
        BY <1>3 DEF Prefetched
    <2> HIDE DEF e
    <2>2. e \in CardType
        BY <1>0, <2>1 DEF CardType
    <2>3. /\ e.image = c.image /\ e.image_mode = c.image_mode
          /\ e.queue = c.queue /\ e.transfer_lba = c.transfer_lba
        BY <1>0, <2>1 DEF CardType
    <2>4. e.dirty = c.dirty /\ e.write_wait_token = c.write_wait_token
        BY <1>0, <2>1 DEF CardType
    <2>5. CardOK(e, n)
        BY <2>2, <2>3, <2>4 DEF CardOK
    <2>6. QED
        BY <1>3, <2>3, <2>4, <2>5 DEF Carries, Queued, Giving, e
<1>4. QED
    BY <1>1, <1>2, <1>3

LEMMA TakenCard ==
    ASSUME SdAssumption, NEW n \in Cards, NEW c, CardOK(c, n)
    PROVE  Carries(Taken(c), c, n)
<1> DEFINE e == Taken(c)
<1>0. c \in CardType /\ c.queue \in Seq(Bytes)
    BY DEF CardOK, CardType
<1>1. CASE c.response_delay > 0
    <2>1. e = [c EXCEPT !.response_delay = @ - 1]
        BY <1>1 DEF Taken
    <2> HIDE DEF e
    <2>2. e \in CardType
        BY <1>0, <1>1, <2>1 DEF CardType
    <2>3. /\ e.image = c.image /\ e.image_mode = c.image_mode
          /\ e.queue = c.queue /\ e.transfer_lba = c.transfer_lba
          /\ e.transfer_offset = c.transfer_offset /\ e.sector = c.sector
        BY <1>0, <2>1 DEF CardType
    <2>4. /\ e.dirty = c.dirty /\ e.write_wait_token = c.write_wait_token
          /\ e.multi_read = c.multi_read
        BY <1>0, <2>1 DEF CardType
    <2>5. CardOK(e, n)
        BY <2>2, <2>3, <2>4 DEF CardOK
    <2>6. QED
        BY <2>3, <2>4, <2>5 DEF Carries, Queued, Giving, e
<1>2. CASE ~(c.response_delay > 0)
    <2> DEFINE q == IF c.queue = <<>> THEN <<>> ELSE Tail(c.queue)
               l == IF c.multi_read \/ c.write_wait_token \/ Len(c.queue) > 1
                    THEN c.transfer_lba ELSE 0
    <2>1. e = [c EXCEPT !.queue = q, !.transfer_lba = l]
        BY <1>2 DEF Taken
    <2>2. q \in Seq(Bytes) /\ Len(q) <= Len(c.queue)
        BY <1>0, HeadTailProperties
    <2>3. c.queue = <<>> => q = <<>>
        OBVIOUS
    <2>4. \A block : Framed(c.queue, block) => Framed(q, block)
        <3>1. CASE c.queue = <<>>
            BY <3>1 DEF Framed
        <3>2. CASE c.queue # <<>>
            BY <1>0, <3>2, TailFramed
        <3>3. QED
            BY <3>1, <3>2
    <2>5. /\ l \in Nat
          /\ c.write_wait_token => l = c.transfer_lba
          /\ l # c.transfer_lba => Len(c.queue) <= 1
        BY <1>0 DEF CardType
    <2>6. Len(c.queue) <= 1 => q = <<>>
        <3>1. CASE c.queue = <<>>
            BY <3>1
        <3>2. CASE c.queue # <<>>
            BY <1>0, <2>2, <3>2, HeadTailProperties, EmptySeq
        <3>3. QED
            BY <3>1, <3>2
    <2> HIDE DEF e, q, l
    <2>7. e \in CardType
        BY <1>0, <2>1, <2>2, <2>5 DEF CardType
    <2>8. /\ e.image = c.image /\ e.image_mode = c.image_mode
          /\ e.queue = q /\ e.transfer_lba = l
          /\ e.transfer_offset = c.transfer_offset /\ e.sector = c.sector
        BY <1>0, <2>1 DEF CardType
    <2>9. /\ e.dirty = c.dirty /\ e.write_wait_token = c.write_wait_token
          /\ e.multi_read = c.multi_read
        BY <1>0, <2>1 DEF CardType
    <2>10. Len(q) <= QueueSize
        BY <1>0, <2>2, Constants DEF CardOK
    <2>11. CardOK(e, n)
        BY <2>7, <2>8, <2>9, <2>10 DEF CardOK
    <2>12. Queued(c, card_files) => Queued(e, card_files)
        <3>1. CASE l = c.transfer_lba
            BY <2>4, <2>8, <3>1 DEF Queued
        <3>2. CASE l # c.transfer_lba
            BY <2>5, <2>6, <2>8, <3>2 DEF Queued, Framed
        <3>3. QED
            BY <3>1, <3>2
    <2>13. \A g : Giving(c, g) => Giving(e, g)
        BY <2>3, <2>5, <2>8, <2>9 DEF Giving
    <2>14. QED
        BY <2>8, <2>9, <2>11, <2>12, <2>13 DEF Carries, e
<1>3. QED
    BY <1>1, <1>2

---------------------------------------------------------------------------
(* The commands.                                                           *)

\* A command leaves the card in order whatever the guest did, with the same
\* image and dirty flag.
Sane(e, c, n) == CardOK(e, n) /\ e.image = c.image /\ e.dirty = c.dirty

\* An answer after a change of the record that leaves the queue alone.
LEMMA AnsweredCard ==
    ASSUME SdAssumption, NEW n \in Cards, NEW c, CardOK(c, n),
           NEW bytes \in Seq(Answers), Len(bytes) > 0
    PROVE  LET e == queue_push(c, bytes) IN
           /\ Sane(e, c, n) /\ SameBut(e, c)
           /\ \A block : Framed(c.queue, block) => Framed(e.queue, block)
           /\ c.queue = <<>> => \A k \in 1..Len(e.queue) : e.queue[k] # "fe"
<1>1. c \in CardType /\ Len(c.queue) <= QueueSize
    BY DEF CardOK
<1>2. LET e == queue_push(c, bytes) IN
           /\ e \in CardType /\ Len(e.queue) <= QueueSize /\ SameBut(e, c)
           /\ \A block : Framed(c.queue, block) => Framed(e.queue, block)
           /\ \A k \in 1..Len(e.queue) : k > Len(c.queue) => e.queue[k] # "fe"
    BY <1>1, PushAnswers
<1> DEFINE e == queue_push(c, bytes)
<1>3. e \in CardType /\ Len(e.queue) <= QueueSize /\ SameBut(e, c)
    BY <1>2
<1>4. \A k \in 1..Len(e.queue) : k > Len(c.queue) => e.queue[k] # "fe"
    BY <1>2
<1> HIDE DEF e
<1>5. Sane(e, c, n)
    BY <1>3 DEF Sane, CardOK, SameBut
<1>6. ASSUME c.queue = <<>>
      PROVE  \A k \in 1..Len(e.queue) : e.queue[k] # "fe"
    <2>1. Len(c.queue) = 0
        BY <1>6
    <2>2. \A k \in 1..Len(e.queue) : k > 0
        OBVIOUS
    <2>3. QED
        BY <1>4, <2>1, <2>2
<1>7. QED
    BY <1>2, <1>3, <1>5, <1>6 DEF e

LEMMA OneAnswer ==
    /\ <<"ok">> \in Seq(Answers) /\ Len(<<"ok">>) > 0
    /\ <<"no">> \in Seq(Answers) /\ Len(<<"no">>) > 0
    /\ \A b \in BOOLEAN :
          LET s == <<IF b THEN "accepted" ELSE "no", "ok", "ff">> IN
          s \in Seq(Answers) /\ Len(s) > 0
BY DEF Answers

\* What a read command makes of a card; the block in front of transfer_lba
\* is the one pushed.
LEMMA BeginReadCard ==
    ASSUME SdAssumption, CardFilesOK, NEW n \in Cards, NEW c, CardOK(c, n),
           c.image \in Image, NEW l \in 0..Size[c.image],
           NEW r \in CardLoadOutcome(c, l), NEW multiple \in BOOLEAN
    PROVE  LET e == begin_read(c, l, multiple, r) IN
           /\ Sane(e, c, n) /\ e.write_wait_token = c.write_wait_token
           /\ c.queue = <<>> => Queued(e, card_files)
<1> DEFINE e == begin_read(c, l, multiple, r)
<1>0. c \in CardType /\ l \in Nat /\ Len(c.queue) <= QueueSize
    BY Constants DEF CardOK
<1>1. CASE l >= Size[c.image]
    <2>1. e = queue_push(c, <<"no">>)
        BY <1>1 DEF begin_read
    <2>2. /\ Sane(e, c, n) /\ SameBut(e, c)
          /\ c.queue = <<>> => \A k \in 1..Len(e.queue) : e.queue[k] # "fe"
        BY <2>1, OneAnswer, AnsweredCard
    <2> HIDE DEF e
    <2>3. QED
        BY <2>2 DEF SameBut, Queued, Framed, e
<1>2. CASE ~(l >= Size[c.image]) /\ r = "ok"
    <2> DEFINE s == Loaded(c, l)
               t == [s EXCEPT !.transfer_lba = l + 1, !.multi_read = multiple]
               u == queue_push(t, <<"ok">>)
               block == card_files[c.image][l]
    <2>1. l < Size[c.image]
        BY <1>0, <1>2, Constants
    <2>2. block \in Sector
        BY <1>0, <2>1, MediumSector
    <2>3. /\ s \in CardType /\ s.image = c.image /\ s.dirty = c.dirty
          /\ s.image_mode = c.image_mode /\ s.queue = c.queue
          /\ s.write_wait_token = c.write_wait_token
        BY <1>0, <2>1, LoadedCard
    <2>4. e = queue_data_block(u, block)
        BY <1>2 DEF begin_read
    <2> HIDE DEF s, e, block
    <2>5. t \in CardType
        <3> DEFINE lba == l + 1
        <3>1. t = [s EXCEPT !.transfer_lba = lba, !.multi_read = multiple]
            OBVIOUS
        <3>2. lba \in Nat
            BY <1>0
        <3> HIDE DEF lba, t
        <3>3. QED
            BY <2>3, <3>1, <3>2 DEF CardType
    <2>6. /\ t.image = c.image /\ t.image_mode = c.image_mode
          /\ t.queue = c.queue /\ t.transfer_lba = l + 1
        BY <2>3 DEF CardType
    <2>7. /\ t.dirty = c.dirty /\ t.write_wait_token = c.write_wait_token
        BY <2>3 DEF CardType
    <2> HIDE DEF t
    <2>8. CardOK(t, n)
        BY <1>0, <2>5, <2>6, <2>7 DEF CardOK
    <2>9. /\ Sane(u, t, n) /\ SameBut(u, t)
          /\ t.queue = <<>> => \A k \in 1..Len(u.queue) : u.queue[k] # "fe"
        BY <2>8, OneAnswer, AnsweredCard
    <2>10. t.queue = <<>> => Len(u.queue) <= 1
        <3>1. Longer(u.queue, t.queue, <<"ok">>)
            <4>1. <<"ok">> \in Seq(Bytes)
                BY DEF Bytes, Answers
            <4>2. QED
                BY <1>0, <2>5, <2>6, <4>1, PushCard
        <3>2. Len(<<"ok">>) = 1 /\ Len(<<>>) = 0
            OBVIOUS
        <3> HIDE DEF u
        <3>3. QED
            BY <3>1, <3>2, Constants DEF Longer
    <2>11. u \in CardType /\ Len(u.queue) <= QueueSize
        BY <2>9 DEF Sane, CardOK
    <2> HIDE DEF u
    <2>12. /\ e \in CardType /\ Len(e.queue) <= QueueSize /\ SameBut(e, u)
           /\ Len(u.queue) <= 1 /\ (\A k \in 1..Len(u.queue) : u.queue[k] # "fe")
                 => Framed(e.queue, block)
        BY <2>2, <2>4, <2>11, PushBlock
    <2>13. /\ e.image = c.image /\ e.image_mode = c.image_mode
           /\ e.dirty = c.dirty /\ e.transfer_lba = l + 1
           /\ e.write_wait_token = c.write_wait_token
        BY <2>6, <2>7, <2>9, <2>12 DEF SameBut
    <2>14. Sane(e, c, n)
        BY <2>12, <2>13 DEF Sane, CardOK
    <2>15. ASSUME c.queue = <<>> PROVE Queued(e, card_files)
        <3>1. Framed(e.queue, block)
            BY <2>6, <2>9, <2>10, <2>12, <2>15
        <3>2. e.transfer_lba - 1 = l
            BY <1>0, <2>13
        <3>3. QED
            BY <2>13, <3>1, <3>2 DEF Queued, block
    <2>16. QED
        BY <2>13, <2>14, <2>15 DEF e
<1>3. CASE ~(l >= Size[c.image]) /\ r # "ok"
    <2> DEFINE t == [c EXCEPT !.transfer_lba = l, !.multi_read = FALSE]
               u == queue_clear(t)
    <2>1. e = queue_push(u, <<"no">>)
        BY <1>3 DEF begin_read
    <2> HIDE DEF e
    <2>2. u \in CardType
        <3>1. t \in CardType
            BY <1>0 DEF CardType
        <3> DEFINE empty == <<>>
        <3>2. u = [t EXCEPT !.queue = empty] /\ empty \in Seq(Bytes)
            BY DEF queue_clear
        <3> HIDE DEF t, u, empty
        <3>3. QED
            BY <3>1, <3>2 DEF CardType
    <2>3. u.image = c.image /\ u.image_mode = c.image_mode /\ u.queue = <<>>
        BY <1>0 DEF queue_clear, CardType
    <2>4. /\ u.dirty = c.dirty /\ u.write_wait_token = c.write_wait_token
        BY <1>0 DEF queue_clear, CardType
    <2> HIDE DEF u
    <2>5. CardOK(u, n)
        BY <2>2, <2>3, <2>4, Constants DEF CardOK
    <2>6. /\ Sane(e, u, n) /\ SameBut(e, u)
          /\ \A k \in 1..Len(e.queue) : e.queue[k] # "fe"
        BY <2>1, <2>3, <2>5, OneAnswer, AnsweredCard
    <2>7. QED
        BY <2>3, <2>4, <2>6 DEF Sane, SameBut, Queued, Framed, e
<1>4. QED
    BY <1>1, <1>2, <1>3

\* A write that is accepted is for the sector asked for, on a writable
\* image, and starts with an empty block.
LEMMA BeginWriteCard ==
    ASSUME SdAssumption, NEW n \in Cards, NEW c, CardOK(c, n),
           c.image \in Image, NEW l \in 0..Size[c.image],
           NEW multiple \in BOOLEAN
    PROVE  LET e == begin_write(c, l, multiple) IN
           /\ Sane(e, c, n)
           /\ c.queue = <<>> => \A m : Queued(e, m)
           /\ ~c.multi_read /\ ~c.write_wait_token /\ e.write_wait_token =>
                 /\ ~e.multi_read /\ e.transfer_lba = l
                 /\ e.transfer_offset = 0
<1> DEFINE e == begin_write(c, l, multiple)
<1>0. c \in CardType /\ l \in Nat /\ Len(c.queue) <= QueueSize
    BY Constants DEF CardOK
<1>1. CASE l >= Size[c.image] \/ c.image_mode # "rw"
    <2>1. e = queue_push(c, <<"no">>)
        BY <1>1 DEF begin_write
    <2>2. /\ Sane(e, c, n) /\ SameBut(e, c)
          /\ c.queue = <<>> => \A k \in 1..Len(e.queue) : e.queue[k] # "fe"
        BY <2>1, OneAnswer, AnsweredCard
    <2> HIDE DEF e
    <2>3. QED
        BY <2>2 DEF SameBut, Queued, Framed, e
<1>2. CASE ~(l >= Size[c.image] \/ c.image_mode # "rw")
    <2> DEFINE t == [c EXCEPT !.transfer_lba = l, !.transfer_offset = 0,
                              !.crc_bytes = 0, !.write_wait_token = TRUE,
                              !.multi_write = multiple]
    <2>1. e = queue_push(t, <<"ok">>)
        BY <1>2 DEF begin_write
    <2>2. t \in CardType
        BY <1>0 DEF CardType
    <2>3. /\ t.image = c.image /\ t.image_mode = "rw" /\ t.queue = c.queue
          /\ t.transfer_lba = l /\ t.transfer_offset = 0
        BY <1>0, <1>2 DEF CardType
    <2>4. /\ t.dirty = c.dirty /\ t.multi_read = c.multi_read
        BY <1>0 DEF CardType
    <2> HIDE DEF t
    <2>5. CardOK(t, n)
        <3>1. c.image \in CardImages[n] \cup {NoImage}
            BY DEF CardOK
        <3>2. QED
            BY <1>0, <2>2, <2>3, <3>1 DEF CardOK
    <2>6. /\ Sane(e, t, n) /\ SameBut(e, t)
          /\ t.queue = <<>> => \A k \in 1..Len(e.queue) : e.queue[k] # "fe"
        BY <2>1, <2>5, OneAnswer, AnsweredCard
    <2> HIDE DEF e
    <2>7. QED
        BY <2>3, <2>4, <2>6 DEF Sane, SameBut, Queued, Framed, e
<1>3. QED
    BY <1>1, <1>2

\* A card whose command bytes are gone, about to execute.
Before(c) == [c EXCEPT !.command = "none", !.response_delay = 1]

LEMMA BeforeCommand ==
    ASSUME NEW n \in Cards, NEW c, CardOK(c, n), NEW b, b = Before(c)
    PROVE  CardOK(b, n) /\ SameBut(b, c) /\ b.queue = c.queue
<1>0. c \in CardType
    BY DEF CardOK
<1>1. b \in CardType
    BY <1>0 DEF CardType, Before
<1>2. /\ b.image = c.image /\ b.image_mode = c.image_mode
      /\ b.transfer_offset = c.transfer_offset /\ b.queue = c.queue
      /\ b.transfer_lba = c.transfer_lba /\ b.sector = c.sector
    BY <1>0 DEF CardType, Before
<1>3. /\ b.dirty = c.dirty /\ b.multi_read = c.multi_read
      /\ b.write_wait_token = c.write_wait_token
    BY <1>0 DEF CardType, Before
<1>4. QED
    BY <1>1, <1>2, <1>3 DEF CardOK, SameBut

\* Forgetting the queue and flags, then answering: what is on its way holds
\* no start token.
LEMMA ClearedCard ==
    ASSUME SdAssumption, NEW n \in Cards, NEW c, CardOK(c, n),
           NEW t \in CardType, t.image = c.image, t.image_mode = c.image_mode,
           t.dirty = c.dirty, t.write_wait_token => c.write_wait_token
    PROVE  LET e == queue_push(queue_clear(t), <<"ok">>) IN
           /\ Sane(e, c, n) /\ SameBut(e, t) /\ \A m : Queued(e, m)
<1> DEFINE u == queue_clear(t)
           e == queue_push(u, <<"ok">>)
           empty == <<>>
<1>1. u = [t EXCEPT !.queue = empty] /\ empty \in Seq(Bytes)
    BY DEF queue_clear
<1>2. empty = <<>>
    OBVIOUS
<1> HIDE DEF u, empty
<1>3. u \in CardType
    BY <1>1 DEF CardType
<1>4. /\ u.image = t.image /\ u.image_mode = t.image_mode /\ u.queue = empty
      /\ u.transfer_offset = t.transfer_offset
      /\ u.transfer_lba = t.transfer_lba /\ u.sector = t.sector
    BY <1>1 DEF CardType
<1>5. /\ u.dirty = t.dirty /\ u.write_wait_token = t.write_wait_token
      /\ u.multi_read = t.multi_read
    BY <1>1 DEF CardType
<1>6. CardOK(u, n)
    BY <1>2, <1>3, <1>4, <1>5, Constants DEF CardOK
<1>7. /\ Sane(e, u, n) /\ SameBut(e, u)
      /\ u.queue = <<>> => \A k \in 1..Len(e.queue) : e.queue[k] # "fe"
    BY <1>6, OneAnswer, AnsweredCard
<1> HIDE DEF e
<1>8. Sane(e, c, n) /\ SameBut(e, t)
    BY <1>4, <1>5, <1>7 DEF Sane, SameBut
<1>9. \A m : Queued(e, m)
    BY <1>2, <1>4, <1>7 DEF Queued, Framed
<1>10. QED
    BY <1>8, <1>9 DEF e, u

LEMMA ExecuteCard ==
    ASSUME SdAssumption, CardFilesOK, NEW n \in Cards, NEW c, CardOK(c, n),
           c.image \in Image, NEW l \in 0..Size[c.image],
           NEW r \in CardLoadOutcome(c, l), c.command \in Commands,
           NEW g \in GuestType, g.orderly => Queued(c, card_files) /\ Giving(c, g),
           c.write_wait_token => c.queue # <<>>,
           NEW orderly \in BOOLEAN,
           orderly => /\ g.orderly \/ c.command = "reset"
                      /\ Data(c) => c.command \in {"stop", "short", "reset"},
           NEW target,
           target = IF ~orderly THEN 0
                    ELSE IF c.command \in {"write", "write_many"} THEN l
                    ELSE IF execute_command(c, l, r).write_wait_token
                    THEN g.target ELSE 0,
           NEW b, b = Before(c),
           NEW e, e = execute_command(c, l, r),
           NEW h, h = [orderly |-> orderly, given |-> <<>>, target |-> target]
    PROVE  /\ Sane(e, c, n) /\ h \in GuestType
           /\ orderly => Queued(e, card_files) /\ Giving(e, h)
<1>1. CardOK(b, n) /\ SameBut(b, c) /\ b.queue = c.queue
    BY BeforeCommand
<1>2. h \in GuestType
    <2>1. target \in Nat
        BY Constants DEF GuestType
    <2>2. <<>> \in Seq(Word)
        OBVIOUS
    <2>3. QED
        BY <2>1, <2>2 DEF GuestType
<1>3. h.target = target /\ h.given = <<>>
    OBVIOUS
<1>4. CardLoadOutcome(b, l) = CardLoadOutcome(c, l) /\ b \in CardType
    BY <1>1 DEF CardLoadOutcome, SameBut, CardOK
<1>5. ASSUME ~e.write_wait_token, Sane(e, b, n), orderly => Queued(e, card_files)
      PROVE  /\ Sane(e, c, n) /\ h \in GuestType
             /\ orderly => Queued(e, card_files) /\ Giving(e, h)
    BY <1>1, <1>2, <1>5 DEF Sane, SameBut, Giving
\* A write that was accepted earlier goes on behind the answer.
<1>6. ASSUME orderly, g.orderly, e.write_wait_token, c.write_wait_token,
             ~e.multi_read, c.command \notin {"write", "write_many"},
             e.transfer_lba = c.transfer_lba,
             e.transfer_offset = c.transfer_offset
      PROVE  Giving(e, h)
    <2>1. c.queue # <<>> /\ Giving(c, g)
        BY <1>6
    <2>2. ~(c.transfer_offset > 0) /\ c.transfer_lba = g.target
        BY <1>6, <2>1 DEF Giving
    <2>3. QED
        BY <1>3, <1>6, <2>2 DEF Giving
<1>7. CASE c.command = "reset"
    <2> DEFINE t == [b EXCEPT !.multi_read = FALSE, !.multi_write = FALSE,
                              !.write_wait_token = FALSE]
    <2>1. e = queue_push(queue_clear(t), <<"ok">>)
        BY <1>7 DEF execute_command, Before
    <2>2. t \in CardType
        BY <1>4 DEF CardType
    <2>3. t.image = b.image /\ t.image_mode = b.image_mode
        BY <1>4 DEF CardType
    <2>4. t.dirty = b.dirty /\ ~t.write_wait_token
        BY <1>4 DEF CardType
    <2> HIDE DEF t
    <2>5. Sane(e, b, n) /\ SameBut(e, t) /\ \A m : Queued(e, m)
        BY <1>1, <2>1, <2>2, <2>3, <2>4, ClearedCard
    <2>6. QED
        BY <1>5, <2>4, <2>5 DEF SameBut
<1>8. CASE c.command = "stop"
    <2> DEFINE t == [b EXCEPT !.multi_read = FALSE]
    <2>1. e = queue_push(queue_clear(t), <<"ok">>)
        BY <1>8 DEF execute_command, Before, execute_stop
    <2>2. t \in CardType
        BY <1>4 DEF CardType
    <2>3. /\ t.image = b.image /\ t.image_mode = b.image_mode
          /\ t.transfer_lba = b.transfer_lba
          /\ t.transfer_offset = b.transfer_offset
        BY <1>4 DEF CardType
    <2>4. /\ t.dirty = b.dirty /\ t.write_wait_token = b.write_wait_token
          /\ ~t.multi_read
        BY <1>4 DEF CardType
    <2> HIDE DEF t
    <2>5. Sane(e, b, n) /\ SameBut(e, t) /\ \A m : Queued(e, m)
        BY <1>1, <2>1, <2>2, <2>3, <2>4, ClearedCard
    <2>6. CASE ~e.write_wait_token
        BY <1>5, <2>5, <2>6
    <2>7. CASE e.write_wait_token
        <3>1. /\ c.write_wait_token /\ ~e.multi_read
              /\ e.transfer_lba = c.transfer_lba
              /\ e.transfer_offset = c.transfer_offset
            BY <1>1, <2>3, <2>4, <2>5, <2>7 DEF SameBut
        <3>2. orderly => Giving(e, h)
            BY <1>6, <1>8, <2>7, <3>1
        <3>3. Sane(e, c, n)
            BY <1>1, <2>5 DEF Sane, SameBut
        <3>4. QED
            BY <1>2, <2>5, <3>2, <3>3
    <2>8. QED
        BY <2>6, <2>7
<1>9. CASE c.command = "short"
    <2>1. e = queue_push(b, <<"no">>)
        BY <1>9 DEF execute_command, Before
    <2>2. /\ Sane(e, b, n) /\ SameBut(e, b)
          /\ \A block : Framed(b.queue, block) => Framed(e.queue, block)
        BY <1>1, <2>1, OneAnswer, AnsweredCard
    <2>3. orderly => Queued(e, card_files)
        BY <1>1, <1>9, <2>2 DEF Queued, SameBut
    <2>4. CASE ~e.write_wait_token
        BY <1>5, <2>2, <2>3, <2>4
    <2>5. CASE e.write_wait_token
        <3>1. /\ c.write_wait_token /\ e.multi_read = c.multi_read
              /\ e.transfer_lba = c.transfer_lba
              /\ e.transfer_offset = c.transfer_offset
            BY <1>1, <2>2, <2>5 DEF SameBut
        <3>2. orderly => g.orderly /\ ~e.multi_read
            BY <1>9, <3>1 DEF Giving
        <3>3. orderly => Giving(e, h)
            BY <1>6, <1>9, <2>5, <3>1, <3>2
        <3>4. Sane(e, c, n)
            BY <1>1, <2>2 DEF Sane, SameBut
        <3>5. QED
            BY <1>2, <2>3, <3>3, <3>4
    <2>6. QED
        BY <2>4, <2>5
<1>10. CASE c.command \in {"read", "read_many"}
    <2>0. \/ c.command = "read" /\ e = begin_read(b, l, FALSE, r)
          \/ c.command = "read_many" /\ e = begin_read(b, l, TRUE, r)
        BY <1>10 DEF execute_command, Before
    <2>1. PICK multiple \in BOOLEAN : e = begin_read(b, l, multiple, r)
        BY <2>0, Zenon
    <2>2. /\ CardOK(b, n) /\ b.image \in Image /\ l \in 0..Size[b.image]
          /\ r \in CardLoadOutcome(b, l)
        BY <1>1, <1>4 DEF SameBut
    <2>3. /\ Sane(e, b, n) /\ e.write_wait_token = b.write_wait_token
          /\ b.queue = <<>> => Queued(e, card_files)
        <3>1. LET d == begin_read(b, l, multiple, r) IN
              /\ Sane(d, b, n) /\ d.write_wait_token = b.write_wait_token
              /\ b.queue = <<>> => Queued(d, card_files)
            BY ONLY SdAssumption, CardFilesOK, n \in Cards, <2>2,
                    multiple \in BOOLEAN, BeginReadCard, Zenon
        <3>2. QED
            BY <2>1, <3>1, Zenon
    <2>4. orderly => b.queue = <<>> /\ ~e.write_wait_token
        BY <1>1, <1>10, <2>3 DEF Data, SameBut
    <2>5. CASE ~e.write_wait_token
        BY <1>5, <2>3, <2>4, <2>5
    <2>6. CASE e.write_wait_token
        <3>1. ~orderly
            BY <2>4, <2>6
        <3>2. Sane(e, c, n)
            BY <1>1, <2>3 DEF Sane, SameBut
        <3>3. QED
            BY <1>2, <3>1, <3>2
    <2>7. QED
        BY <2>5, <2>6
<1>11. CASE c.command \in {"write", "write_many"}
    <2>0. \/ c.command = "write" /\ e = begin_write(b, l, FALSE)
          \/ c.command = "write_many" /\ e = begin_write(b, l, TRUE)
        BY <1>11 DEF execute_command, Before
    <2>1. PICK multiple \in BOOLEAN : e = begin_write(b, l, multiple)
        BY <2>0, Zenon
    <2>2. CardOK(b, n) /\ b.image \in Image /\ l \in 0..Size[b.image]
        BY <1>1 DEF SameBut
    <2>3. LET d == begin_write(b, l, multiple) IN
          /\ Sane(d, b, n)
          /\ b.queue = <<>> => \A m : Queued(d, m)
          /\ ~b.multi_read /\ ~b.write_wait_token /\ d.write_wait_token =>
                /\ ~d.multi_read /\ d.transfer_lba = l
                /\ d.transfer_offset = 0
        BY ONLY SdAssumption, n \in Cards, <2>2, multiple \in BOOLEAN,
                BeginWriteCard, Zenon
    <2>4. /\ Sane(e, b, n)
          /\ b.queue = <<>> => \A m : Queued(e, m)
          /\ ~b.multi_read /\ ~b.write_wait_token /\ e.write_wait_token =>
                /\ ~e.multi_read /\ e.transfer_lba = l
                /\ e.transfer_offset = 0
        BY <2>1, <2>3, Zenon
    <2>5. ASSUME orderly
          PROVE  b.queue = <<>> /\ ~b.multi_read /\ ~b.write_wait_token
        BY <1>1, <1>11, <2>5 DEF Data, SameBut
    <2>6. ASSUME orderly PROVE Giving(e, h)
        <3>1. h.target = l
            BY <1>3, <1>11, <2>6
        <3>2. QED
            BY <2>4, <2>5, <2>6, <3>1 DEF Giving
    <2>7. Sane(e, c, n)
        BY <1>1, <2>4 DEF Sane, SameBut
    <2>8. orderly => Queued(e, card_files)
        BY <2>4, <2>5
    <2>9. QED
        BY <1>2, <2>6, <2>7, <2>8
<1>12. QED
    BY <1>7, <1>8, <1>9, <1>10, <1>11 DEF Commands

---------------------------------------------------------------------------
(* One card changes.                                                       *)

\* Card n and its guest become e and g; the other card is left alone.
Becomes(n, e, g) ==
    /\ DOMAIN cards' = Cards /\ DOMAIN guest' = Cards
    /\ cards'[n] = e /\ guest'[n] = g
    /\ \A k \in Cards : k # n => cards'[k] = cards[k] /\ guest'[k] = guest[k]

\* The state in which a transfer hands a card to its second half.
Held(c, n) ==
    /\ CardOK(c, n) /\ c.image = cards[n].image /\ c.dirty = cards[n].dirty
    /\ c.image # NoImage
    /\ guest[n].orderly => Queued(c, card_files) /\ Giving(c, guest[n])

LEMMA CardChanged ==
    ASSUME SdAssumption, MapperInv, NEW n \in Cards, NEW e, CardOK(e, n),
           NEW g \in GuestType, Becomes(n, e, g),
           g.orderly => Queued(e, card_files') /\ Giving(e, g),
           e.image # NoImage, CardFilesOK',
           \A k \in Cards : k # n /\ cards[k].image # NoImage =>
               card_files'[cards[k].image] = card_files[cards[k].image],
           CardChangesKept', card_unsynced' \subseteq Image \X Nat, card_power' = card_power
    PROVE  MapperInv'
<1>1. \A k \in Cards : CardInv(k)
    BY DEF MapperInv
<1>2. CardInv(n)'
    BY DEF CardInv, Becomes, CardOK
<1>3. ASSUME NEW k \in Cards, k # n PROVE CardInv(k)'
    <2>1. cards'[k] = cards[k] /\ guest'[k] = guest[k] /\ CardInv(k)
        BY <1>1, <1>3 DEF Becomes
    <2>2. Queued(cards[k], card_files) => Queued(cards[k], card_files')
        <3>1. CASE cards[k].image = NoImage
            BY <2>1, <3>1 DEF CardInv, Queued, Framed
        <3>2. CASE cards[k].image # NoImage
            BY <1>3, <3>2 DEF Queued
        <3>3. QED
            BY <3>1, <3>2
    <2>3. QED
        BY <2>1, <2>2 DEF CardInv
<1>4. \A k \in Cards : CardInv(k)'
    BY <1>2, <1>3
<1>5. QED
    BY <1>4 DEF MapperInv, Becomes

LEMMA SameFiles ==
    ASSUME MapperInv, NEW n \in Cards, NEW e, NEW g, Becomes(n, e, g),
           e.image = cards[n].image, e.dirty = cards[n].dirty,
           UNCHANGED <<card_power, card_unsynced>>
    PROVE  CardChangesKept'
<1> SUFFICES ASSUME card_power', NEW u \in card_unsynced'
             PROVE  \E k \in Cards : cards'[k].image = u[1] /\ cards'[k].dirty
    BY DEF CardChangesKept
<1>1. PICK k \in Cards : cards[k].image = u[1] /\ cards[k].dirty
    BY DEF MapperInv, CardChangesKept
<1>2. cards'[k].image = cards[k].image /\ cards'[k].dirty = cards[k].dirty
    BY DEF Becomes
<1>3. QED
    BY <1>1, <1>2

\* A step that leaves the host files alone.
LEMMA QuietStep ==
    ASSUME SdAssumption, MapperInv, NEW n \in Cards, NEW e, CardOK(e, n),
           NEW g \in GuestType, Becomes(n, e, g),
           g.orderly => Queued(e, card_files) /\ Giving(e, g),
           e.image # NoImage, e.image = cards[n].image,
           e.dirty = cards[n].dirty, UNCHANGED <<card_power, card_files, card_unsynced>>
    PROVE  MapperInv'
<1>1. CardChangesKept'
    BY SameFiles
<1>2. CardFilesOK' /\ card_unsynced' \subseteq Image \X Nat
    BY DEF MapperInv, CardFilesOK
<1>3. QED
    BY <1>1, <1>2, CardChanged

LEMMA ParseStep ==
    ASSUME SdAssumption, MapperInv, NEW n \in Cards, NEW c, Held(c, n),
           c.write_wait_token => c.queue # <<>>,
           parse_command_byte(n, c), card_power' = card_power
    PROVE  MapperInv'
<1>0. /\ c \in CardType /\ guest[n] \in GuestType /\ CardFilesOK
      /\ DOMAIN cards = Cards /\ DOMAIN guest = Cards
    BY DEF Held, CardOK, MapperInv, CardInv
<1>1. UNCHANGED <<card_power, card_files, card_unsynced>>
    BY DEF parse_command_byte
<1>2. CASE cards' = [cards EXCEPT ![n] = c] /\ UNCHANGED guest
    <2>1. Becomes(n, c, guest[n])
        BY <1>0, <1>2 DEF Becomes
    <2>2. QED
        BY <1>0, <1>1, <2>1, QuietStep DEF Held
<1>3. ASSUME NEW command \in Commands,
             cards' = [cards EXCEPT ![n] = [c EXCEPT !.command = command]],
             UNCHANGED guest
      PROVE  MapperInv'
    <2> DEFINE e == [c EXCEPT !.command = command]
    <2>1. e \in CardType
        BY <1>0 DEF CardType
    <2>2. /\ e.image = c.image /\ e.image_mode = c.image_mode
          /\ e.queue = c.queue /\ e.transfer_lba = c.transfer_lba
          /\ e.transfer_offset = c.transfer_offset /\ e.sector = c.sector
        BY <1>0 DEF CardType
    <2>3. /\ e.dirty = c.dirty /\ e.multi_read = c.multi_read
          /\ e.write_wait_token = c.write_wait_token
        BY <1>0 DEF CardType
    <2>4. Becomes(n, e, guest[n])
        BY <1>0, <1>3 DEF Becomes
    <2> HIDE DEF e
    <2>5. CardOK(e, n)
        BY <2>1, <2>2, <2>3 DEF CardOK, Held
    <2>6. guest[n].orderly => Queued(e, card_files) /\ Giving(e, guest[n])
        BY <2>2, <2>3 DEF Held, Queued, Giving
    <2>7. QED
        BY <1>0, <1>1, <2>2, <2>3, <2>4, <2>5, <2>6, QuietStep DEF Held
<1>4. ASSUME c.command # "none", NEW l \in 0..Size[c.image],
             NEW r \in CardLoadOutcome(c, l),
             cards' = [cards EXCEPT ![n] = execute_command(c, l, r)],
             Asked(n, c, c.command, l)
      PROVE  MapperInv'
    <2> DEFINE e == execute_command(c, l, r)
               orderly == /\ guest[n].orderly \/ c.command = "reset"
                          /\ Data(c) => c.command \in {"stop", "short", "reset"}
               target == IF ~orderly THEN 0
                         ELSE IF c.command \in {"write", "write_many"} THEN l
                         ELSE IF e.write_wait_token THEN guest[n].target
                         ELSE 0
               h == [orderly |-> orderly, given |-> <<>>, target |-> target]
    <2>1. c.command \in Commands /\ c.image \in Image
        BY <1>0, <1>4 DEF CardType, Held
    <2>2. cards'[n] = e
        BY <1>0, <1>4
    <2>3. guest' = [guest EXCEPT ![n] = h]
        BY <1>0, <1>4, <2>2 DEF Asked
    <2>4. Becomes(n, e, h)
        BY <1>0, <1>4, <2>3 DEF Becomes
    <2>5. /\ CardOK(c, n)
          /\ guest[n].orderly => Queued(c, card_files) /\ Giving(c, guest[n])
        BY DEF Held
    <2>6. orderly \in BOOLEAN
        OBVIOUS
    <2>7. h.orderly = orderly
        OBVIOUS
    <2>8. /\ Sane(e, c, n) /\ h \in GuestType
          /\ orderly => Queued(e, card_files) /\ Giving(e, h)
        <3> DEFINE b == Before(c)
        <3>1. b = Before(c)
            OBVIOUS
        <3>2. e = execute_command(c, l, r)
            OBVIOUS
        <3>3. h = [orderly |-> orderly, given |-> <<>>, target |-> target]
            OBVIOUS
        <3>4. target = IF ~orderly THEN 0
                       ELSE IF c.command \in {"write", "write_many"} THEN l
                       ELSE IF execute_command(c, l, r).write_wait_token
                       THEN guest[n].target ELSE 0
            OBVIOUS
        <3>5. orderly => /\ guest[n].orderly \/ c.command = "reset"
                         /\ Data(c) => c.command \in {"stop", "short", "reset"}
            OBVIOUS
        <3> HIDE DEF b, e, h, target, orderly
        <3>6. QED
            BY ONLY SdAssumption, n \in Cards, l \in 0..Size[c.image],
                    r \in CardLoadOutcome(c, l),
                    c.write_wait_token => c.queue # <<>>, <1>0, <2>1, <2>5,
                    <2>6, <3>1, <3>2, <3>3, <3>4, <3>5, ExecuteCard
    <2> HIDE DEF e, h
    <2>9. QED
        BY <1>0, <1>1, <2>4, <2>7, <2>8, QuietStep DEF Held, Sane
<1>5. QED
    BY <1>2, <1>3, <1>4 DEF parse_command_byte

LEMMA TokenStep ==
    ASSUME SdAssumption, MapperInv, NEW n \in Cards, NEW c, Held(c, n),
           c.write_wait_token, c.queue = <<>>, c.transfer_offset = 0,
           Token(n, c), card_power' = card_power
    PROVE  MapperInv'
<1>0. /\ c \in CardType /\ guest[n] \in GuestType
      /\ DOMAIN cards = Cards /\ DOMAIN guest = Cards
    BY DEF Held, CardOK, MapperInv, CardInv
<1>1. UNCHANGED <<card_power, card_files, card_unsynced>>
    BY DEF Token
<1>2. CASE cards' = [cards EXCEPT ![n] = c] /\ UNCHANGED guest
    <2>1. Becomes(n, c, guest[n])
        BY <1>0, <1>2 DEF Becomes
    <2>2. QED
        BY <1>0, <1>1, <2>1, QuietStep DEF Held
<1>3. CASE /\ cards' = [cards EXCEPT ![n] = [c EXCEPT !.transfer_offset = 1]]
           /\ guest' = [guest EXCEPT ![n].given = <<>>]
    <2> DEFINE e == [c EXCEPT !.transfer_offset = 1]
               empty == <<>>
               g == [guest[n] EXCEPT !.given = empty]
    <2>1. Becomes(n, e, g)
        BY <1>0, <1>3 DEF Becomes
    <2>2. e \in CardType
        BY <1>0 DEF CardType
    <2>3. /\ e.image = c.image /\ e.image_mode = c.image_mode
          /\ e.queue = c.queue /\ e.transfer_lba = c.transfer_lba
          /\ e.transfer_offset = 1
        BY <1>0 DEF CardType
    <2>4. /\ e.dirty = c.dirty /\ e.multi_read = c.multi_read
          /\ e.write_wait_token = c.write_wait_token
        BY <1>0 DEF CardType
    <2>5. empty \in Seq(Word) /\ Len(empty) = 0
        OBVIOUS
    <2>6. /\ g \in GuestType /\ g.target = guest[n].target
          /\ g.given = empty
        <3> HIDE DEF empty
        <3>1. QED
            BY <1>0, <2>5 DEF GuestType
    <2>7. g.orderly = guest[n].orderly
        BY <1>0 DEF GuestType
    <2> HIDE DEF e, g, empty
    <2>8. CardOK(e, n)
        BY <2>2, <2>3, <2>4 DEF CardOK, Held
    <2>9. guest[n].orderly => Queued(e, card_files) /\ Giving(e, g)
        BY <2>3, <2>4, <2>5, <2>6, Constants DEF Held, Queued, Giving
    <2>10. QED
        BY <1>0, <1>1, <2>1, <2>3, <2>4, <2>6, <2>7, <2>8, <2>9, QuietStep
        DEF Held
<1>4. CASE /\ cards' = [cards EXCEPT ![n] =
                  [c EXCEPT !.write_wait_token = FALSE, !.multi_write = FALSE]]
           /\ UNCHANGED guest
    <2> DEFINE e == [c EXCEPT !.write_wait_token = FALSE, !.multi_write = FALSE]
    <2>1. Becomes(n, e, guest[n])
        BY <1>0, <1>4 DEF Becomes
    <2>2. e \in CardType
        BY <1>0 DEF CardType
    <2>3. /\ e.image = c.image /\ e.image_mode = c.image_mode
          /\ e.queue = c.queue
        BY <1>0 DEF CardType
    <2>4. e.dirty = c.dirty /\ ~e.write_wait_token
        BY <1>0 DEF CardType
    <2> HIDE DEF e
    <2>5. CardOK(e, n)
        BY <2>2, <2>3, <2>4 DEF CardOK, Held
    <2>6. Queued(e, card_files) /\ Giving(e, guest[n])
        BY <2>3, <2>4, IdleCard
    <2>7. QED
        BY <1>0, <1>1, <2>1, <2>3, <2>4, <2>5, <2>6, QuietStep DEF Held
<1>5. QED
    BY <1>2, <1>3, <1>4 DEF Token

\* The byte goes to the place in the block that the bytes before it leave.
LEMMA BlockByteStep ==
    ASSUME SdAssumption, MapperInv, NEW n \in Cards, NEW c, Held(c, n),
           c.write_wait_token, c.queue = <<>>,
           c.transfer_offset \in 1..SectorWords, NEW w \in Word,
           BlockByte(n, c, w), card_power' = card_power
    PROVE  MapperInv'
<1>0. /\ c \in CardType /\ guest[n] \in GuestType
      /\ DOMAIN cards = Cards /\ DOMAIN guest = Cards
    BY DEF Held, CardOK, MapperInv, CardInv
<1> DEFINE o == c.transfer_offset
           block == [c.sector EXCEPT ![o] = w]
           next == o + 1
           crc == IF o = SectorWords THEN 1 ELSE c.crc_bytes
           e == [c EXCEPT !.sector = block, !.transfer_offset = next,
                          !.crc_bytes = crc]
           given == IF guest[n].orderly THEN Append(guest[n].given, w) ELSE <<>>
           g == [guest[n] EXCEPT !.given = given]
<1>1. UNCHANGED <<card_power, card_files, card_unsynced>>
    BY DEF BlockByte
<1>2. cards' = [cards EXCEPT ![n] = e]
    BY <1>0 DEF BlockByte
<1>3. guest' = [guest EXCEPT ![n] = g]
    BY <1>0 DEF BlockByte
<1>4. Becomes(n, e, g)
    BY <1>0, <1>2, <1>3 DEF Becomes
<1>5. /\ o \in Nat /\ next \in Nat /\ crc \in Nat /\ c.sector \in Sector
    BY <1>0, Constants DEF CardType
<1>6. block \in Sector /\ block[o] = w
      /\ \A j \in 1..SectorWords : j # o => block[j] = c.sector[j]
    BY <1>5 DEF Sector
<1>7. given \in Seq(Word)
    BY <1>0, AppendProperties DEF GuestType
<1>8. guest[n].orderly => given = Append(guest[n].given, w)
    OBVIOUS
<1> HIDE DEF block, crc, given
<1>9. e \in CardType
    BY <1>0, <1>5, <1>6 DEF CardType
<1>10. /\ e.image = c.image /\ e.image_mode = c.image_mode
       /\ e.queue = c.queue /\ e.transfer_lba = c.transfer_lba
       /\ e.transfer_offset = next /\ e.sector = block
    BY <1>0 DEF CardType
<1>11. /\ e.dirty = c.dirty /\ e.multi_read = c.multi_read
       /\ e.write_wait_token = c.write_wait_token
    BY <1>0 DEF CardType
<1>12. /\ g \in GuestType /\ g.target = guest[n].target /\ g.given = given
    BY <1>0, <1>7 DEF GuestType
<1>13. g.orderly = guest[n].orderly
    BY <1>0 DEF GuestType
<1> HIDE DEF e, g
<1>14. CardOK(e, n)
    BY <1>9, <1>10, <1>11 DEF CardOK, Held
<1>15. ASSUME guest[n].orderly PROVE Queued(e, card_files) /\ Giving(e, g)
    <2>1. Queued(c, card_files) /\ Giving(c, guest[n])
        BY <1>15 DEF Held
    <2>2. /\ Len(guest[n].given) = o - 1 /\ o <= SectorWords
          /\ \A j \in 1..Len(guest[n].given) : guest[n].given[j] = c.sector[j]
          /\ c.transfer_lba = guest[n].target /\ ~c.multi_read
        BY <2>1, Constants DEF Giving
    <2>3. /\ Len(given) = o
          /\ \A j \in 1..(o - 1) : given[j] = guest[n].given[j]
          /\ given[o] = w
        <3> DEFINE s == guest[n].given
        <3>1. s \in Seq(Word) /\ Len(s) = o - 1 /\ given = Append(s, w)
            BY <1>0, <1>8, <1>15, <2>2 DEF GuestType
        <3> HIDE DEF s
        <3>2. /\ Len(given) = Len(s) + 1 /\ given[Len(s) + 1] = w
              /\ \A j \in 1..Len(s) : given[j] = s[j]
            BY <3>1, AppendProperties
        <3>3. Len(s) + 1 = o
            BY <1>5, <3>1
        <3>4. QED
            BY <3>1, <3>2, <3>3 DEF s
    <2>4. ASSUME NEW j \in 1..o PROVE given[j] = block[j]
        <3>1. CASE j = o
            BY <1>6, <2>3, <3>1
        <3>2. CASE j # o
            BY <1>5, <1>6, <2>2, <2>3, <3>2, Constants
        <3>3. QED
            BY <3>1, <3>2
    <2>5. next <= SectorWords + 1 /\ Len(given) = next - 1
        BY <1>5, <2>2, <2>3, Constants
    <2>6. Giving(e, g)
        BY <1>10, <1>11, <1>12, <2>2, <2>3, <2>4, <2>5 DEF Giving
    <2>7. Queued(e, card_files)
        BY <1>10 DEF Queued, Framed
    <2>8. QED
        BY <2>6, <2>7
<1>16. QED
    BY <1>0, <1>1, <1>4, <1>10, <1>11, <1>12, <1>13, <1>14, <1>15, QuietStep
    DEF Held

---------------------------------------------------------------------------
(* The end of a block.                                                     *)

LEMMA StoredAnswer ==
    ASSUME SdAssumption, NEW n \in Cards, NEW c, CardOK(c, n),
           c.write_wait_token, c.queue = <<>>, NEW stored \in BOOLEAN
    PROVE  LET e == Answered(c, stored) IN
           /\ Sane(e, c, n) /\ e.multi_read = c.multi_read
           /\ e.transfer_lba = c.transfer_lba + 1 /\ e.transfer_offset = 0
           /\ e.write_wait_token => stored
           /\ \A k \in 1..Len(e.queue) : e.queue[k] # "fe"
<1> DEFINE next == c.transfer_lba + 1
           wait == c.multi_write /\ stored
           t == [c EXCEPT !.crc_bytes = 0, !.response_delay = 1,
                          !.transfer_lba = next, !.transfer_offset = 0,
                          !.sector = BlankBlock, !.write_wait_token = wait,
                          !.multi_write = wait]
           answer == <<IF stored THEN "accepted" ELSE "no", "ok", "ff">>
           e == Answered(c, stored)
<1>0. c \in CardType /\ c.image_mode = "rw"
    BY DEF CardOK
<1>1. next \in Nat /\ next = c.transfer_lba + 1
    BY <1>0 DEF CardType
<1>2. wait \in BOOLEAN /\ (wait => stored)
    OBVIOUS
<1>3. e = queue_push(t, answer)
    BY <1>0 DEF Answered, CardType
<1>4. answer \in Seq(Answers) /\ Len(answer) > 0
    BY DEF Answers
<1> HIDE DEF next, wait, e, answer
<1>5. t \in CardType
    BY <1>0, <1>1, <1>2, BlankSector DEF CardType
<1>6. /\ t.image = c.image /\ t.image_mode = "rw" /\ t.queue = <<>>
      /\ t.transfer_lba = next /\ t.transfer_offset = 0
    BY <1>0 DEF CardType
<1>7. t.dirty = c.dirty /\ t.multi_read = c.multi_read
    BY <1>0 DEF CardType
<1>8. t.write_wait_token = wait
    BY <1>0, <1>2 DEF CardType
<1> HIDE DEF t
<1>9. CardOK(t, n)
    <2>1. c.image \in CardImages[n] \cup {NoImage}
        BY DEF CardOK
    <2>2. QED
        BY <1>5, <1>6, <2>1, Constants DEF CardOK
<1>10. /\ Sane(e, t, n) /\ SameBut(e, t)
       /\ t.queue = <<>> => \A k \in 1..Len(e.queue) : e.queue[k] # "fe"
    BY <1>3, <1>4, <1>9, AnsweredCard
<1>11. QED
    BY <1>1, <1>2, <1>6, <1>7, <1>8, <1>10 DEF Sane, SameBut, e

\* What is stored stays a medium, and only one image changes.
LEMMA StoredBlock ==
    ASSUME SdAssumption, CardFilesOK, NEW c \in CardType, c.image \in Image,
           NEW l \in Nat, l < Size[c.image], NEW k \in 0..SectorWords,
           card_files' = [card_files EXCEPT ![c.image][l] =
               [j \in 1..SectorWords |-> IF j <= k THEN c.sector[j] ELSE @[j]]]
    PROVE  /\ CardFilesOK'
           /\ \A i \in Image : i # c.image => card_files'[i] = card_files[i]
<1> DEFINE i == c.image
           block == [j \in 1..SectorWords |->
                        IF j <= k THEN c.sector[j] ELSE card_files[i][l][j]]
<1>1. card_files[i][l] \in Sector /\ c.sector \in Sector
    BY MediumSector DEF CardType
<1>2. block \in Sector
    BY <1>1 DEF Sector
<1>3. card_files[i] \in [0..(Size[i] - 1) -> Sector]
    BY DEF CardFilesOK
<1>4. card_files' = [card_files EXCEPT ![i] = [card_files[i] EXCEPT ![l] = block]]
    OBVIOUS
<1> HIDE DEF block
<1>5. [card_files[i] EXCEPT ![l] = block] \in [0..(Size[i] - 1) -> Sector]
    BY <1>2, <1>3
<1>6. DOMAIN card_files' = Image /\ \A m \in Image : m # i => card_files'[m] = card_files[m]
    BY <1>4 DEF CardFilesOK
<1>7. card_files'[i] \in [0..(Size[i] - 1) -> Sector]
    BY <1>4, <1>5 DEF CardFilesOK
<1>8. CardFilesOK'
    BY <1>6, <1>7 DEF CardFilesOK
<1>9. QED
    BY <1>6, <1>8

LEMMA OtherImages ==
    ASSUME SdAssumption, DistinctCards, MapperInv, NEW n \in Cards,
           cards[n].image # NoImage
    PROVE  \A k \in Cards : k # n /\ cards[k].image # NoImage =>
               /\ cards[k].image \in Image
               /\ cards[k].image # cards[n].image
<1>1. \A k \in Cards : /\ cards[k].image \in CardImages[k] \cup {NoImage}
                       /\ cards[k].image \in Image \cup {NoImage}
    BY DEF MapperInv, CardInv, CardOK, CardType
<1>2. QED
    BY <1>1 DEF DistinctCards

\* Storing a block, whole or in part, makes the image dirty.
LEMMA StoredChanges ==
    ASSUME MapperInv, NEW n \in Cards, NEW c, c.image = cards[n].image,
           c.dirty = cards[n].dirty, NEW e, NEW g, Becomes(n, e, g),
           e.image = c.image, NEW l, NEW k \in Nat,
           e.dirty = (c.dirty \/ k > 0), card_power' = card_power,
           card_unsynced' = card_unsynced \cup (IF k = 0 THEN {} ELSE {<<c.image, l>>})
    PROVE  CardChangesKept'
<1> SUFFICES ASSUME card_power', NEW u \in card_unsynced'
             PROVE  \E m \in Cards : cards'[m].image = u[1] /\ cards'[m].dirty
    BY DEF CardChangesKept
<1>1. cards'[n] = e
    BY DEF Becomes
<1>2. CASE u \in card_unsynced
    <2>1. PICK m \in Cards : cards[m].image = u[1] /\ cards[m].dirty
        BY <1>2 DEF MapperInv, CardChangesKept
    <2>2. CASE m = n
        BY <1>1, <2>1, <2>2
    <2>3. CASE m # n
        BY <2>1, <2>3 DEF Becomes
    <2>4. QED
        BY <2>2, <2>3
<1>3. CASE u \notin card_unsynced
    <2>1. u = <<c.image, l>> /\ k > 0
        BY <1>3
    <2>2. u[1] = c.image
        BY <2>1
    <2>3. QED
        BY <1>1, <2>1, <2>2
<1>4. QED
    BY <1>2, <1>3

LEMMA BlockCrcStep ==
    ASSUME SdAssumption, DistinctCards, MapperInv, NEW n \in Cards, NEW c,
           Held(c, n), c.write_wait_token, c.queue = <<>>,
           BlockCrc(n, c), card_power' = card_power
    PROVE  MapperInv'
<1>0. /\ c \in CardType /\ guest[n] \in GuestType /\ CardFilesOK
      /\ DOMAIN cards = Cards /\ DOMAIN guest = Cards
      /\ CardOK(c, n) /\ c.image = cards[n].image /\ c.image # NoImage
      /\ c.dirty = cards[n].dirty /\ card_unsynced \subseteq Image \X Nat
    BY DEF Held, CardOK, MapperInv, CardInv
<1>1. c.image \in Image /\ c.transfer_lba \in Nat /\ c.dirty \in BOOLEAN
    BY <1>0 DEF CardType
<1> DEFINE l == c.transfer_lba
           empty == <<>>
           wait == cards'[n].write_wait_token
           h == [guest[n] EXCEPT !.given = empty,
                    !.target = IF guest[n].orderly /\ wait THEN @ + 1 ELSE 0]
<1>2. guest' = [guest EXCEPT ![n] = h]
    BY <1>0 DEF BlockCrc
\* The block is followed by its answer: the write goes on behind the block
\* or is over.
<1>3. ASSUME NEW stored \in BOOLEAN, NEW e, CardOK(e, n),
             cards' = [cards EXCEPT ![n] = e],
             e.image = c.image, e.multi_read = c.multi_read,
             e.transfer_lba = l + 1, e.transfer_offset = 0,
             \A k \in 1..Len(e.queue) : e.queue[k] # "fe"
      PROVE  /\ Becomes(n, e, h) /\ h \in GuestType
             /\ h.orderly => Queued(e, card_files') /\ Giving(e, h)
    <2>1. wait = e.write_wait_token /\ wait \in BOOLEAN
        BY <1>0, <1>3 DEF CardOK, CardType
    <2>2. Becomes(n, e, h)
        <3> HIDE DEF h
        <3>1. QED
            BY <1>0, <1>2, <1>3 DEF Becomes
    <2>3. /\ h \in GuestType /\ h.orderly = guest[n].orderly
          /\ guest[n].orderly /\ wait => h.target = guest[n].target + 1
        <3> DEFINE g == guest[n]
        <3>1. g \in GuestType /\ wait \in BOOLEAN
            BY <1>0, <2>1
        <3> DEFINE target == IF g.orderly /\ wait THEN g.target + 1 ELSE 0
        <3>2. target \in Nat
            BY <3>1 DEF GuestType
        <3>3. h = [g EXCEPT !.given = empty, !.target = target]
            BY Zenon
        <3>4. g.orderly /\ wait => target = g.target + 1
            OBVIOUS
        <3>5. empty \in Seq(Word)
            OBVIOUS
        <3> HIDE DEF wait, g, h, target, empty
        <3>6. h \in GuestType
            BY ONLY <3>1, <3>2, <3>3, <3>5 DEF GuestType
        <3>7. h.orderly = g.orderly
            BY ONLY <3>1, <3>3 DEF GuestType
        <3>8. h.target = target
            BY ONLY <3>1, <3>3 DEF GuestType
        <3>9. QED
            BY <3>4, <3>6, <3>7, <3>8 DEF g
    <2> HIDE DEF h, wait
    <2>4. Queued(e, card_files')
        BY <1>3, NoToken DEF Queued
    <2>5. ASSUME h.orderly, wait PROVE Giving(e, h)
        <3>1. Giving(c, guest[n])
            BY <2>3, <2>5 DEF Held
        <3>2. ~c.multi_read /\ l = guest[n].target
            BY <3>1 DEF Giving
        <3>3. QED
            BY <1>3, <2>3, <2>5, <3>2 DEF Giving
    <2>6. ~wait => Giving(e, h)
        BY <2>1 DEF Giving
    <2>7. QED
        BY <2>2, <2>3, <2>4, <2>5, <2>6
<1> HIDE DEF h
<1>4. CASE l >= Size[c.image] \/ c.image_mode # "rw"
    <2> DEFINE e == Answered(c, FALSE)
    <2>1. /\ cards' = [cards EXCEPT ![n] = e]
          /\ UNCHANGED <<card_files, card_unsynced>>
        BY <1>4 DEF BlockCrc, BlockStored
    <2>2. /\ Sane(e, c, n) /\ e.multi_read = c.multi_read
          /\ e.transfer_lba = l + 1 /\ e.transfer_offset = 0
          /\ \A k \in 1..Len(e.queue) : e.queue[k] # "fe"
        BY <1>0, StoredAnswer
    <2> HIDE DEF e
    <2>3. /\ Becomes(n, e, h) /\ h \in GuestType
          /\ h.orderly => Queued(e, card_files') /\ Giving(e, h)
        BY <1>3, <2>1, <2>2 DEF Sane
    <2>4. /\ CardOK(e, n) /\ e.image = cards[n].image /\ e.image # NoImage
          /\ e.dirty = cards[n].dirty
        BY <1>0, <2>2 DEF Sane
    <2>5. card_files' = card_files /\ UNCHANGED <<card_power, card_files, card_unsynced>>
        BY <2>1
    <2>6. h.orderly => Queued(e, card_files) /\ Giving(e, h)
        BY <2>3, <2>5
    <2>7. QED
        BY <2>3, <2>4, <2>5, <2>6, QuietStep
<1>5. CASE ~(l >= Size[c.image] \/ c.image_mode # "rw")
    <2>1. PICK k \in 0..SectorWords :
             /\ card_files' = [card_files EXCEPT ![c.image][l] =
                    [j \in 1..SectorWords |->
                        IF j <= k THEN c.sector[j] ELSE @[j]]]
             /\ card_unsynced' = card_unsynced \cup (IF k = 0 THEN {}
                                           ELSE {<<c.image, l>>})
             /\ cards' = [cards EXCEPT ![n] =
                    [Answered(c, k = SectorWords) EXCEPT !.dirty = @ \/ k > 0]]
        BY <1>5 DEF BlockCrc, BlockStored
    <2> DEFINE a == Answered(c, k = SectorWords)
               dirty == c.dirty \/ k > 0
               e == [a EXCEPT !.dirty = dirty]
    <2>2. /\ Sane(a, c, n) /\ a.multi_read = c.multi_read
          /\ a.transfer_lba = l + 1 /\ a.transfer_offset = 0
          /\ \A m \in 1..Len(a.queue) : a.queue[m] # "fe"
        <3>1. (k = SectorWords) \in BOOLEAN
            OBVIOUS
        <3>2. QED
            BY <1>0, <3>1, StoredAnswer
    <2>3. a \in CardType /\ a.dirty = c.dirty
        BY <2>2 DEF Sane, CardOK
    <2> HIDE DEF a
    <2>4. cards' = [cards EXCEPT ![n] = e] /\ dirty \in BOOLEAN
        BY <2>1, <2>3 DEF a
    <2> HIDE DEF dirty
    <2>5. e \in CardType
        BY <2>3, <2>4 DEF CardType
    <2>6. /\ e.image = a.image /\ e.image_mode = a.image_mode
          /\ e.queue = a.queue /\ e.transfer_lba = a.transfer_lba
          /\ e.transfer_offset = a.transfer_offset
        BY <2>3 DEF CardType
    <2>7. e.dirty = dirty
        BY <2>3 DEF CardType
    <2>8. /\ e.write_wait_token = a.write_wait_token
          /\ e.multi_read = a.multi_read
        BY <2>3 DEF CardType
    <2> HIDE DEF e
    <2>9. CardOK(e, n) /\ e.image = c.image
        BY <2>2, <2>5, <2>6, <2>8 DEF Sane, CardOK
    <2>10. /\ Becomes(n, e, h) /\ h \in GuestType
           /\ h.orderly => Queued(e, card_files') /\ Giving(e, h)
        BY <1>3, <2>2, <2>4, <2>6, <2>8, <2>9
    <2>11. l < Size[c.image] /\ k \in Nat
        BY <1>1, <1>5, Constants
    <2>12. /\ CardFilesOK'
           /\ \A i \in Image : i # c.image => card_files'[i] = card_files[i]
        BY <1>0, <1>1, <2>1, <2>11, StoredBlock
    <2>13. \A m \in Cards : m # n /\ cards[m].image # NoImage =>
               card_files'[cards[m].image] = card_files[cards[m].image]
        BY <1>0, <2>12, OtherImages
    <2>14. card_unsynced' \subseteq Image \X Nat
        BY <1>0, <1>1, <2>1
    <2>15. CardChangesKept'
        BY <1>0, <2>1, <2>7, <2>9, <2>10, <2>11, StoredChanges DEF dirty
    <2>16. QED
        BY <1>0, <2>9, <2>10, <2>12, <2>13, <2>14, <2>15, CardChanged
<1>6. QED
    BY <1>4, <1>5

LEMMA TransferStep ==
    ASSUME SdAssumption, DistinctCards, MapperInv, NEW n \in GuestCards,
           Transfer(n)
    PROVE  MapperInv'
<1>0. /\ n \in Cards /\ CardInv(n) /\ CardFilesOK /\ card_power' = card_power
    BY Constants DEF MapperInv, Transfer
<1>1. PICK r \in CardLoadOutcome(cards[n], cards[n].transfer_lba) :
          LET c == Taken(Prefetched(cards[n], r)) IN
          IF c.write_wait_token /\ c.queue = <<>> THEN receive_write_byte(n, c)
          ELSE parse_command_byte(n, c)
    BY DEF Transfer
<1> DEFINE p == Prefetched(cards[n], r)
           c == Taken(p)
<1>2. CardOK(cards[n], n) /\ cards[n].image # NoImage
    BY <1>0 DEF CardInv, Transfer
<1>3. Carries(p, cards[n], n)
    BY <1>0, <1>2, PrefetchedCard
<1>4. IF c.write_wait_token /\ c.queue = <<>> THEN receive_write_byte(n, c)
      ELSE parse_command_byte(n, c)
    BY <1>1
<1> HIDE DEF p
<1>5. Carries(c, p, n)
    BY <1>0, <1>3, TakenCard DEF Carries
<1> HIDE DEF c
<1>6. Held(c, n)
    BY <1>0, <1>2, <1>3, <1>5 DEF Carries, Held, CardInv
<1>7. CASE ~(c.write_wait_token /\ c.queue = <<>>)
    BY <1>0, <1>4, <1>6, <1>7, ParseStep
<1>8. CASE c.write_wait_token /\ c.queue = <<>>
    <2>1. receive_write_byte(n, c)
        BY <1>4, <1>8
    <2>2. CASE c.transfer_offset = 0 /\ c.crc_bytes = 0
        BY <1>0, <1>6, <1>8, <2>1, <2>2, TokenStep DEF receive_write_byte
    <2>3. CASE ~(c.transfer_offset = 0 /\ c.crc_bytes = 0)
        <3>1. CASE c.transfer_offset \in 1..SectorWords
            <4>1. PICK w \in Word \ {Zero} : BlockByte(n, c, w)
                BY <2>1, <2>3, <3>1 DEF receive_write_byte
            <4>2. QED
                BY <1>0, <1>6, <1>8, <3>1, <4>1, BlockByteStep
        <3>2. CASE c.transfer_offset \notin 1..SectorWords
            <4>1. BlockCrc(n, c)
                BY <2>1, <2>3, <3>2 DEF receive_write_byte
            <4>2. QED
                BY <1>0, <1>6, <1>8, <4>1, BlockCrcStep
        <3>3. QED
            BY <3>1, <3>2
    <2>4. QED
        BY <2>2, <2>3
<1>9. QED
    BY <1>7, <1>8

---------------------------------------------------------------------------
(* The user, and the mapper's registers.                                   *)

LEMMA NewGuest == CardGuest \in GuestType
BY DEF CardGuest, GuestType

\* A step on any number of cards.
LEMMA AllCards ==
    ASSUME MapperInv, DOMAIN cards' = Cards, DOMAIN guest' = Cards,
           \A n \in Cards : CardInv(n)', card_files' = card_files,
           card_unsynced' \subseteq card_unsynced, card_power' \in BOOLEAN, CardChangesKept'
    PROVE  MapperInv'
BY DEF MapperInv, CardFilesOK

\* A card that is idle is in order with a guest that has just begun.
LEMMA IdleInv ==
    ASSUME NEW n \in Cards, CardOK(cards'[n], n), Idle(cards'[n]),
           guest'[n] = CardGuest
    PROVE  CardInv(n)'
<1>1. Queued(cards'[n], card_files') /\ Giving(cards'[n], guest'[n])
    BY IdleCard DEF Idle
<1>2. QED
    BY <1>1, NewGuest DEF CardInv, Idle

\* Cards go to stable storage together with the changes made to them.
LEMMA GoneCards ==
    ASSUME MapperInv, NEW gone \in SUBSET Cards,
           card_unsynced' \subseteq
               {u \in card_unsynced : \A n \in gone : u \in CardSynced(cards[n])},
           \A n \in Cards \ gone : /\ cards'[n].image = cards[n].image
                                   /\ cards'[n].dirty = cards[n].dirty,
           card_power
    PROVE  CardChangesKept'
<1> SUFFICES ASSUME card_power', NEW u \in card_unsynced'
             PROVE  \E m \in Cards : cards'[m].image = u[1] /\ cards'[m].dirty
    BY DEF CardChangesKept
<1>1. PICK m \in Cards : cards[m].image = u[1] /\ cards[m].dirty
    BY DEF MapperInv, CardChangesKept
<1>2. m \notin gone
    BY <1>1 DEF CardSynced
<1>3. QED
    BY <1>1, <1>2

LEMMA SelectStep ==
    ASSUME SdAssumption, MapperInv, card_power, select_cards
    PROVE  MapperInv'
<1>1. /\ DOMAIN cards' = Cards /\ guest' = guest /\ DOMAIN guest' = Cards
      /\ UNCHANGED <<card_power, card_files, card_unsynced>>
      /\ \A n \in Cards : CardInv(n)
    BY DEF select_cards, MapperInv
<1>2. ASSUME NEW n \in Cards
      PROVE  /\ CardInv(n)'
             /\ cards'[n].image = cards[n].image
             /\ cards'[n].dirty = cards[n].dirty
    <2> DEFINE c == cards[n]
               e == cards'[n]
               s == selected_cards' = 2^n
    <2>1. e = sd_card_select(c, s) /\ s \in BOOLEAN /\ c \in CardType
        BY <1>1 DEF select_cards, CardInv, CardOK
    <2>2. CASE e = c
        BY <1>1, <2>2 DEF CardInv
    <2>3. CASE e = [c EXCEPT !.selected = s, !.command = "none"]
        <3> HIDE DEF s
        <3>1. /\ e.image = c.image /\ e.image_mode = c.image_mode
              /\ e.queue = c.queue /\ e.transfer_lba = c.transfer_lba
              /\ e.transfer_offset = c.transfer_offset /\ e.sector = c.sector
            BY <2>1, <2>3 DEF CardType
        <3>2. /\ e.dirty = c.dirty /\ e.multi_read = c.multi_read
              /\ e.write_wait_token = c.write_wait_token
            BY <2>1, <2>3 DEF CardType
        <3>3. e \in CardType
            BY <2>1, <2>3 DEF CardType
        <3> HIDE DEF c, e
        <3>4. /\ CardOK(c, n) /\ guest[n] \in GuestType
              /\ c.image = NoImage => c.queue = <<>> /\ ~c.write_wait_token
              /\ guest[n].orderly => Queued(c, card_files) /\ Giving(c, guest[n])
            BY <1>1 DEF CardInv, c
        <3>5. CardOK(e, n)
            BY <3>1, <3>2, <3>3, <3>4 DEF CardOK
        <3>6. guest[n].orderly => Queued(e, card_files) /\ Giving(e, guest[n])
            BY <3>1, <3>2, <3>4 DEF Queued, Giving
        <3>7. e.image = NoImage => e.queue = <<>> /\ ~e.write_wait_token
            BY <3>1, <3>2, <3>4
        <3>8. /\ CardOK(cards'[n], n) /\ guest'[n] = guest[n]
              /\ card_files' = card_files
              /\ cards'[n].image = NoImage =>
                    cards'[n].queue = <<>> /\ ~cards'[n].write_wait_token
            BY <1>1, <3>5, <3>7 DEF e
        <3>9. guest'[n].orderly =>
                 Queued(cards'[n], card_files') /\ Giving(cards'[n], guest'[n])
            BY <3>6, <3>8 DEF e
        <3>10. CardInv(n)'
            BY <3>4, <3>8, <3>9 DEF CardInv
        <3>11. QED
            BY <3>1, <3>2, <3>10 DEF c, e
    <2>4. QED
        BY <2>1, <2>2, <2>3 DEF sd_card_select
<1>3. CardChangesKept'
    <2>1. card_unsynced' \subseteq
              {u \in card_unsynced : \A n \in {} : u \in CardSynced(cards[n])}
        BY <1>1
    <2>2. {} \in SUBSET Cards /\ \A n \in Cards \ {} : n \in Cards
        OBVIOUS
    <2>3. QED
        BY <1>2, <2>1, <2>2, GoneCards
<1>4. card_power' \in BOOLEAN
    BY <1>1 DEF MapperInv
<1>5. QED
    BY <1>1, <1>2, <1>3, <1>4, AllCards

LEMMA ResetStep ==
    ASSUME SdAssumption, MapperInv, card_power, MapperReset,
           UNCHANGED <<card_power, card_files, card_unsynced>>
    PROVE  MapperInv'
<1>1. /\ DOMAIN cards' = Cards /\ DOMAIN guest' = Cards
      /\ \A n \in Cards : /\ cards'[n] = sd_card_reset(cards[n])
                          /\ guest'[n] = CardGuest
    BY DEF MapperReset
<1>2. ASSUME NEW n \in Cards
      PROVE  /\ CardOK(cards'[n], n) /\ Idle(cards'[n])
             /\ cards'[n].image = cards[n].image
             /\ cards'[n].dirty = cards[n].dirty
    <2>1. cards[n] \in CardType /\ cards[n].image \in CardImages[n] \cup {NoImage}
        BY DEF MapperInv, CardInv, CardOK
    <2>2. QED
        BY <1>1, <2>1, ResetCard
<1>3. \A n \in Cards : CardInv(n)'
    BY <1>1, <1>2, IdleInv
<1>4. CardChangesKept'
    <2>1. card_unsynced' \subseteq
              {u \in card_unsynced : \A n \in {} : u \in CardSynced(cards[n])}
        OBVIOUS
    <2>2. {} \in SUBSET Cards /\ \A n \in Cards \ {} : n \in Cards
        OBVIOUS
    <2>3. QED
        BY <1>2, <2>1, <2>2, GoneCards
<1>5. QED
    BY <1>1, <1>3, <1>4, AllCards DEF MapperInv

\* A card that is flushed, ejected or mounted: only it changes.
LEMMA OneGone ==
    ASSUME SdAssumption, MapperInv, card_power, NEW n \in Cards,
           DOMAIN cards' = Cards, DOMAIN guest' = Cards,
           \A k \in Cards : k # n => cards'[k] = cards[k] /\ guest'[k] = guest[k],
           card_unsynced' = CardSynced(cards[n]), UNCHANGED <<card_power, card_files>>,
           CardInv(n)'
    PROVE  MapperInv'
<1>1. CardChangesKept'
    <2>1. {n} \in SUBSET Cards
        OBVIOUS
    <2>2. card_unsynced' \subseteq
              {u \in card_unsynced : \A k \in {n} : u \in CardSynced(cards[k])}
        BY DEF CardSynced
    <2>3. \A k \in Cards \ {n} : /\ cards'[k].image = cards[k].image
                                 /\ cards'[k].dirty = cards[k].dirty
        OBVIOUS
    <2>4. QED
        BY <2>1, <2>2, <2>3, GoneCards
<1>2. ASSUME NEW k \in Cards, k # n PROVE CardInv(k)'
    <2>1. CardInv(k) /\ cards'[k] = cards[k] /\ guest'[k] = guest[k]
          /\ card_files' = card_files
        BY <1>2 DEF MapperInv
    <2>2. QED
        BY <2>1 DEF CardInv
<1>3. card_unsynced' \subseteq card_unsynced /\ card_power' \in BOOLEAN
    BY DEF CardSynced, MapperInv
<1>4. \A k \in Cards : CardInv(k)'
    BY <1>2
<1>5. QED
    BY <1>1, <1>3, <1>4, AllCards

LEMMA FlushStep ==
    ASSUME SdAssumption, MapperInv, card_power, FlushCard
    PROVE  MapperInv'
<1>1. PICK n \in Cards :
         /\ cards' = [cards EXCEPT ![n].dirty = FALSE]
         /\ card_unsynced' = CardSynced(cards[n])
         /\ UNCHANGED <<card_power, card_files, guest>>
    BY DEF FlushCard
<1> DEFINE c == cards[n]
           e == [c EXCEPT !.dirty = FALSE]
<1>2. /\ CardInv(n) /\ CardOK(c, n) /\ c \in CardType
      /\ DOMAIN cards = Cards /\ DOMAIN guest = Cards
    BY DEF MapperInv, CardInv, CardOK
<1>3. /\ DOMAIN cards' = Cards /\ DOMAIN guest' = Cards /\ cards'[n] = e
      /\ \A k \in Cards : k # n => cards'[k] = cards[k] /\ guest'[k] = guest[k]
      /\ guest'[n] = guest[n] /\ card_files' = card_files
    BY <1>1, <1>2
<1>4. e \in CardType
    BY <1>2 DEF CardType
<1>5. /\ e.image = c.image /\ e.image_mode = c.image_mode
      /\ e.queue = c.queue /\ e.transfer_lba = c.transfer_lba
      /\ e.transfer_offset = c.transfer_offset /\ e.sector = c.sector
    BY <1>2 DEF CardType
<1>6. e.multi_read = c.multi_read /\ e.write_wait_token = c.write_wait_token
    BY <1>2 DEF CardType
<1> HIDE DEF e
<1>7. CardOK(e, n)
    BY <1>2, <1>4, <1>5, <1>6 DEF CardOK
<1>8. guest[n].orderly => Queued(e, card_files) /\ Giving(e, guest[n])
    BY <1>2, <1>5, <1>6 DEF CardInv, Queued, Giving
<1>9. CardInv(n)'
    BY <1>2, <1>3, <1>5, <1>6, <1>7, <1>8 DEF CardInv
<1>10. QED
    BY <1>1, <1>3, <1>9, OneGone

LEMMA EjectedCard ==
    ASSUME SdAssumption, MapperInv, NEW n \in Cards
    PROVE  CardOK(Ejected(n), n) /\ Idle(Ejected(n))
<1>1. CardInv(n) /\ cards[n] \in CardType
    BY DEF MapperInv, CardInv, CardOK
<1>2. CASE cards[n].image = NoImage
    BY <1>1, <1>2 DEF Ejected, CardInv, Idle
<1>3. CASE cards[n].image # NoImage
    BY <1>1, <1>3, MountedCard DEF Ejected
<1>4. QED
    BY <1>2, <1>3

LEMMA EjectStep ==
    ASSUME SdAssumption, MapperInv, card_power, EjectCard
    PROVE  MapperInv'
<1>1. PICK n \in Cards :
         /\ cards' = [cards EXCEPT ![n] = Ejected(n)]
         /\ card_unsynced' = CardSynced(cards[n])
         /\ guest' = [guest EXCEPT ![n] = CardGuest]
         /\ UNCHANGED <<card_power, card_files>>
    BY DEF EjectCard
<1>2. DOMAIN cards = Cards /\ DOMAIN guest = Cards
    BY DEF MapperInv
<1>3. /\ DOMAIN cards' = Cards /\ DOMAIN guest' = Cards
      /\ cards'[n] = Ejected(n) /\ guest'[n] = CardGuest
      /\ \A k \in Cards : k # n => cards'[k] = cards[k] /\ guest'[k] = guest[k]
    BY <1>1, <1>2
<1>4. CardInv(n)'
    BY <1>3, EjectedCard, IdleInv
<1>5. QED
    BY <1>1, <1>3, <1>4, OneGone

LEMMA MountStep ==
    ASSUME SdAssumption, MapperInv, card_power, MountCard
    PROVE  MapperInv'
<1>0. PICK n \in Cards : \E i \in CardImages[n], mode \in {"ro", "rw"} :
         /\ cards' = [cards EXCEPT ![n] = Mounted(@, i, mode)]
         /\ card_unsynced' = CardSynced(cards[n])
         /\ guest' = [guest EXCEPT ![n] = CardGuest]
    BY DEF MountCard
<1>1. PICK i \in CardImages[n], mode \in {"ro", "rw"} :
         /\ cards' = [cards EXCEPT ![n] = Mounted(@, i, mode)]
         /\ card_unsynced' = CardSynced(cards[n])
         /\ guest' = [guest EXCEPT ![n] = CardGuest]
    BY <1>0
<1>2. DOMAIN cards = Cards /\ DOMAIN guest = Cards /\ cards[n] \in CardType
    BY DEF MapperInv, CardInv, CardOK
<1>3. /\ DOMAIN cards' = Cards /\ DOMAIN guest' = Cards
      /\ cards'[n] = Mounted(cards[n], i, mode) /\ guest'[n] = CardGuest
      /\ \A k \in Cards : k # n => cards'[k] = cards[k] /\ guest'[k] = guest[k]
    BY <1>1, <1>2
<1>4. CardInv(n)'
    BY <1>2, <1>3, MountedCard, IdleInv
<1>5. QED
    BY <1>1, <1>3, <1>4, OneGone DEF MountCard

\* Every card in a set goes, the others stay.
LEMMA ManyGone ==
    ASSUME SdAssumption, MapperInv, card_power, NEW gone \in SUBSET Cards,
           DOMAIN cards' = Cards, DOMAIN guest' = Cards,
           \A n \in gone : CardInv(n)',
           \A n \in Cards \ gone : cards'[n] = cards[n] /\ guest'[n] = guest[n],
           card_unsynced' = {u \in card_unsynced : \A n \in gone : u \in CardSynced(cards[n])},
           UNCHANGED <<card_power, card_files>>
    PROVE  MapperInv'
<1>1. CardChangesKept'
    BY GoneCards
<1>2. ASSUME NEW n \in Cards \ gone PROVE CardInv(n)'
    <2>1. CardInv(n) /\ cards'[n] = cards[n] /\ guest'[n] = guest[n]
          /\ card_files' = card_files
        BY <1>2 DEF MapperInv
    <2>2. QED
        BY <2>1 DEF CardInv
<1>3. \A n \in Cards : CardInv(n)'
    BY <1>2
<1>4. card_power' \in BOOLEAN /\ card_unsynced' \subseteq card_unsynced
    BY DEF MapperInv
<1>5. QED
    BY <1>1, <1>3, <1>4, AllCards

LEMMA EjectRomStep ==
    ASSUME SdAssumption, MapperInv, card_power, SdEjectRom
    PROVE  MapperInv'
<1>1. CASE /\ cards' = [n \in Cards |-> sd_card_reset(Ejected(n))]
           /\ card_unsynced' = AllSynced /\ guest' = [n \in Cards |-> CardGuest]
           /\ UNCHANGED <<card_power, card_files>>
    <2>1. ASSUME NEW n \in Cards PROVE CardInv(n)'
        <3>1. /\ Ejected(n) \in CardType
              /\ Ejected(n).image \in CardImages[n] \cup {NoImage}
            BY EjectedCard DEF CardOK
        <3>2. CardOK(sd_card_reset(Ejected(n)), n) /\ Idle(sd_card_reset(Ejected(n)))
            BY <3>1, ResetCard
        <3>3. cards'[n] = sd_card_reset(Ejected(n)) /\ guest'[n] = CardGuest
            BY <1>1
        <3>4. QED
            BY <3>2, <3>3, IdleInv
    <2>2. Cards \in SUBSET Cards /\ Cards \ Cards = {}
        OBVIOUS
    <2>3. QED
        BY <1>1, <2>1, <2>2, ManyGone DEF AllSynced
<1>2. CASE /\ \E n \in Cards :
                /\ cards' = [k \in Cards |-> IF k < n THEN Ejected(k)
                                             ELSE cards[k]]
                /\ card_unsynced' = {u \in card_unsynced : \A k \in Cards :
                                   k < n => u \in CardSynced(cards[k])}
                /\ guest' = [k \in Cards |-> IF k < n THEN CardGuest ELSE guest[k]]
           /\ UNCHANGED <<card_power, card_files>>
    <2>1. PICK n \in Cards :
             /\ cards' = [k \in Cards |-> IF k < n THEN Ejected(k) ELSE cards[k]]
             /\ card_unsynced' = {u \in card_unsynced : \A k \in Cards :
                                k < n => u \in CardSynced(cards[k])}
             /\ guest' = [k \in Cards |-> IF k < n THEN CardGuest ELSE guest[k]]
        BY <1>2
    <2> DEFINE gone == {k \in Cards : k < n}
    <2>2. ASSUME NEW k \in gone PROVE CardInv(k)'
        <3>1. k \in Cards /\ cards'[k] = Ejected(k) /\ guest'[k] = CardGuest
            BY <2>1
        <3>2. QED
            BY <3>1, EjectedCard, IdleInv
    <2>3. /\ gone \in SUBSET Cards
          /\ \A k \in Cards \ gone : cards'[k] = cards[k] /\ guest'[k] = guest[k]
          /\ DOMAIN cards' = Cards /\ DOMAIN guest' = Cards
        BY <2>1
    <2>4. card_unsynced' = {u \in card_unsynced : \A k \in gone : u \in CardSynced(cards[k])}
        BY <2>1
    <2> HIDE DEF gone
    <2>5. QED
        BY <1>2, <2>2, <2>3, <2>4, ManyGone
<1>3. QED
    BY <1>1, <1>2 DEF SdEjectRom

LEMMA ReplaceStep ==
    ASSUME SdAssumption, MapperInv, card_power, Replace
    PROVE  MapperInv'
<1>1. PICK mode \in {"ro", "rw"} :
         cards' = [n \in Cards |->
                      IF cards[n].image = NoImage THEN NewCard
                      ELSE Mounted(NewCard, cards[n].image, mode)]
    BY DEF Replace
<1>2. /\ card_unsynced' = AllSynced /\ guest' = [n \in Cards |-> CardGuest]
      /\ UNCHANGED <<card_power, card_files>>
    BY DEF Replace
<1>3. ASSUME NEW n \in Cards PROVE CardInv(n)'
    <2>1. cards[n].image \in CardImages[n] \cup {NoImage} /\ guest'[n] = CardGuest
        BY <1>2 DEF MapperInv, CardInv, CardOK
    <2>2. CASE cards[n].image = NoImage
        <3>1. cards'[n] = NewCard
            BY <1>1, <2>2
        <3>2. CardOK(NewCard, n) /\ Idle(NewCard)
            BY NewCardOK, Constants DEF CardOK, Idle
        <3>3. QED
            BY <2>1, <3>1, <3>2, IdleInv
    <2>3. CASE cards[n].image # NoImage
        <3>1. cards'[n] = Mounted(NewCard, cards[n].image, mode)
            BY <1>1, <2>3
        <3>2. CardOK(cards'[n], n) /\ Idle(cards'[n])
            BY <2>1, <3>1, NewCardOK, MountedCard
        <3>3. QED
            BY <2>1, <3>2, IdleInv
    <2>4. QED
        BY <2>2, <2>3
<1>4. Cards \in SUBSET Cards /\ Cards \ Cards = {}
    OBVIOUS
<1>5. DOMAIN cards' = Cards /\ DOMAIN guest' = Cards
    BY <1>1, <1>2
<1>6. QED
    BY <1>2, <1>3, <1>4, <1>5, ManyGone DEF AllSynced

LEMMA DestroyStep ==
    ASSUME SdAssumption, MapperInv, card_power, SdDestroy
    PROVE  MapperInv'
<1>1. ASSUME NEW n \in Cards PROVE CardInv(n)'
    <2>1. cards'[n] = NewCard /\ guest'[n] = CardGuest
        BY DEF SdDestroy
    <2>2. CardOK(NewCard, n) /\ Idle(NewCard)
        BY NewCardOK, Constants DEF CardOK, Idle
    <2>3. QED
        BY <2>1, <2>2, IdleInv
<1>2. /\ DOMAIN cards' = Cards /\ DOMAIN guest' = Cards
      /\ card_files' = card_files /\ card_unsynced' = card_unsynced /\ card_power' = FALSE
    BY DEF SdDestroy
<1>3. CardChangesKept'
    BY <1>2 DEF CardChangesKept
<1>4. QED
    BY <1>1, <1>2, <1>3, AllCards

---------------------------------------------------------------------------
(* The theorems.                                                           *)

LEMMA InitInv == ASSUME SdAssumption, SdInit PROVE MapperInv
<1>1. \A n \in Cards : CardInv(n)
    <2> SUFFICES ASSUME NEW n \in Cards PROVE CardInv(n)
        OBVIOUS
    <2>1. cards[n] = NewCard /\ guest[n] = CardGuest
        BY DEF SdInit, CardsInit
    <2>2. CardOK(NewCard, n) /\ Idle(NewCard)
        BY NewCardOK, Constants DEF CardOK, Idle
    <2>3. Queued(NewCard, card_files) /\ Giving(NewCard, CardGuest)
        BY <2>2, IdleCard DEF Idle
    <2>4. QED
        BY <2>1, <2>2, <2>3, NewGuest DEF CardInv, Idle
<1>2. QED
    BY <1>1 DEF MapperInv, SdInit, CardsInit, CardChangesKept

LEMMA NextInv ==
    ASSUME SdAssumption, DistinctCards, MapperInv, [CardsNext]_cardvars PROVE MapperInv'
<1>1. CASE UNCHANGED cardvars
    BY <1>1 DEF cardvars, MapperInv, CardFilesOK, CardChangesKept, CardInv
<1>2. CASE card_power /\ GuestStep
    BY <1>2, SelectStep, TransferStep DEF GuestStep
<1>3. CASE card_power /\ UserStep
    <2>1. SdInstallRom => MapperReset /\ UNCHANGED <<card_power, card_files, card_unsynced>>
        BY DEF SdInstallRom
    <2>2. sd_mapper_reset => MapperReset /\ UNCHANGED <<card_power, card_files, card_unsynced>>
        BY DEF sd_mapper_reset
    <2>3. QED
        BY <1>3, <2>1, <2>2, ResetStep, EjectRomStep, MountStep, FlushStep,
           EjectStep, ReplaceStep, DestroyStep
        DEF UserStep
<1>4. QED
    BY <1>1, <1>2, <1>3 DEF CardsNext

LEMMA SeesCard == ASSUME SdAssumption, MapperInv PROVE GuestSeesCard
<1> SUFFICES ASSUME NEW n \in Cards, guest[n].orderly,
                    NEW k \in 1..Len(cards[n].queue), cards[n].queue[k] = "fe"
             PROVE  /\ k + SectorWords < Len(cards[n].queue)
                    /\ Block(cards[n].queue, k) =
                         card_files[cards[n].image][cards[n].transfer_lba - 1]
                             \o <<"crc">>
    BY DEF GuestSeesCard
<1> DEFINE q == cards[n].queue
           block == card_files[cards[n].image][cards[n].transfer_lba - 1]
           frame == block \o <<"crc">>
           last == k + SectorWords + 1
<1>1. q \in Seq(Bytes) /\ Framed(q, block)
    BY DEF MapperInv, CardInv, CardOK, CardType, Queued
<1> HIDE DEF q, block
<1>2. /\ block \in Sector /\ last <= Len(q)
      /\ \A j \in 1..SectorWords : q[k + j] = block[j]
      /\ q[last] = "crc"
    BY <1>1 DEF Framed, q
<1>3. block \in Seq(Word) /\ Len(block) = SectorWords
    BY <1>2, Constants DEF Sector
<1>4. /\ frame \in Seq(Bytes) /\ Len(frame) = SectorWords + 1
      /\ \A j \in 1..SectorWords : frame[j] = block[j]
      /\ frame[SectorWords + 1] = "crc"
    <2>1. block \in Seq(Bytes) /\ <<"crc">> \in Seq(Bytes) /\ Len(<<"crc">>) = 1
        BY <1>3 DEF Bytes, Answers
    <2>2. /\ frame \in Seq(Bytes) /\ Len(frame) = Len(block) + 1
          /\ \A j \in 1..Len(block) : frame[j] = block[j]
          /\ \A j \in (Len(block) + 1)..(Len(block) + 1) :
                frame[j] = <<"crc">>[j - Len(block)]
        BY <2>1, ConcatProperties
    <2>3. SectorWords + 1 \in (SectorWords + 1)..(SectorWords + 1)
          /\ (SectorWords + 1) - SectorWords = 1
        BY Constants
    <2>4. QED
        BY <1>3, <2>2, <2>3
<1> HIDE DEF frame
<1>5. /\ k + 1 \in Nat /\ last \in Nat /\ last - (k + 1) + 1 = SectorWords + 1
      /\ k + 1 <= last
    BY Constants
<1>6. \A j \in (k + 1)..last : q[j] \in Bytes
    BY <1>1, <1>2, Constants
<1>7. /\ SubSeq(q, k + 1, last) \in Seq(Bytes)
      /\ Len(SubSeq(q, k + 1, last)) = SectorWords + 1
      /\ \A j \in 1..(SectorWords + 1) :
             SubSeq(q, k + 1, last)[j] = q[k + 1 + j - 1]
    BY <1>5, <1>6, SubSeqProperties
<1>8. ASSUME NEW j \in 1..(SectorWords + 1)
      PROVE  SubSeq(q, k + 1, last)[j] = frame[j]
    <2>1. k + 1 + j - 1 = k + j
        BY Constants
    <2>2. CASE j = SectorWords + 1
        <3>1. k + j = last
            BY <2>2, Constants
        <3>2. QED
            BY <1>2, <1>4, <1>7, <2>1, <2>2, <3>1
    <2>3. CASE j # SectorWords + 1
        <3>1. j \in 1..SectorWords
            BY <2>3, Constants
        <3>2. QED
            BY <1>2, <1>4, <1>7, <2>1, <3>1
    <2>4. QED
        BY <2>2, <2>3
<1>9. SubSeq(q, k + 1, last) = frame
    BY <1>4, <1>7, <1>8, SeqEqual
<1>10. k + SectorWords < Len(q)
    BY <1>1, <1>2, Constants
<1>11. QED
    BY <1>9, <1>10 DEF Block, q, block, frame

LEMMA GivesBlock == ASSUME SdAssumption, MapperInv PROVE BlockIsGiven
<1> SUFFICES ASSUME NEW n \in Cards, cards[n].write_wait_token,
                    cards[n].transfer_offset > 0
             PROVE  /\ cards[n].image_mode = "rw"
                    /\ guest[n].orderly =>
                          /\ cards[n].transfer_lba = guest[n].target
                          /\ Len(guest[n].given) = cards[n].transfer_offset - 1
                          /\ guest[n].given =
                                SubSeq(cards[n].sector, 1,
                                       cards[n].transfer_offset - 1)
    BY DEF BlockIsGiven
<1> DEFINE c == cards[n]
           g == guest[n].given
           m == c.transfer_offset - 1
<1>1. /\ c \in CardType /\ c.image_mode = "rw" /\ g \in Seq(Word)
      /\ guest[n].orderly => Giving(c, guest[n])
    BY DEF MapperInv, CardInv, CardOK, GuestType
<1>2. SUFFICES ASSUME guest[n].orderly
               PROVE  /\ c.transfer_lba = guest[n].target
                      /\ Len(g) = m /\ g = SubSeq(c.sector, 1, m)
    BY <1>1
<1>3. /\ c.transfer_lba = guest[n].target
      /\ c.transfer_offset <= SectorWords + 1 /\ Len(g) = m
      /\ \A j \in 1..Len(g) : g[j] = c.sector[j]
    BY <1>1, <1>2 DEF Giving
<1>4. m \in Nat /\ m <= SectorWords /\ c.sector \in Sector
    BY <1>1, <1>3, Constants DEF CardType
<1> HIDE DEF c, g, m
<1>5. \A j \in 1..m : c.sector[j] \in Word
    BY <1>4, Constants DEF Sector
<1>6. /\ SubSeq(c.sector, 1, m) \in Seq(Word)
      /\ Len(SubSeq(c.sector, 1, m)) = IF 1 <= m THEN m - 1 + 1 ELSE 0
      /\ \A j \in 1..(m - 1 + 1) :
             SubSeq(c.sector, 1, m)[j] = c.sector[1 + j - 1]
    BY <1>4, <1>5, SubSeqProperties
<1>7. Len(SubSeq(c.sector, 1, m)) = m
    BY <1>4, <1>6
<1>8. ASSUME NEW j \in 1..m PROVE SubSeq(c.sector, 1, m)[j] = g[j]
    <2>1. j \in 1..(m - 1 + 1) /\ 1 + j - 1 = j
        BY <1>4
    <2>2. SubSeq(c.sector, 1, m)[j] = c.sector[1 + j - 1]
        BY <1>6, <2>1
    <2>3. QED
        BY <1>3, <2>1, <2>2
<1>9. g = SubSeq(c.sector, 1, m)
    BY <1>1, <1>3, <1>6, <1>7, <1>8, SeqEqual DEF g
<1>10. QED
    BY <1>3, <1>9

\* The inductive invariant holds of every run.
THEOREM CardInvariant ==
    ASSUME SdAssumption, DistinctCards PROVE SdSpec => []MapperInv
<1>1. SdInit => MapperInv
    BY InitInv
<1>2. MapperInv /\ [CardsNext]_cardvars => MapperInv'
    BY NextInv
<1>3. QED
    BY <1>1, <1>2, PTL DEF SdSpec

\* A guest that keeps to the protocol takes whole, current blocks, and what
\* it gave is what will be stored (queue_data_block, sd_card_transfer,
\* begin_write, receive_write_byte).
THEOREM GuestKnows ==
    ASSUME SdAssumption, DistinctCards PROVE SdSpec => []CardAsGuestKnows
<1>1. MapperInv => CardAsGuestKnows
    BY SeesCard, GivesBlock DEF CardAsGuestKnows
<1>2. QED
    BY <1>1, CardInvariant, PTL

\* No change made through a card is forgotten (store_sector,
\* sd_card_flush, sd_card_eject, msx_replace_sd_mapper).
THEOREM CardsForgetNothing ==
    ASSUME SdAssumption, DistinctCards PROVE SdSpec => []CardChangesKept
<1>1. MapperInv => CardChangesKept
    BY DEF MapperInv
<1>2. QED
    BY <1>1, CardInvariant, PTL
---------------------------------------------------------------------------
(* The SCSI disk and its controller.                                       *)

scsivars == <<disk_power, disk_files, disk_unsynced, disk, bus, swapped>>

Content == Word \cup {"report"}

DiskFilesOK == /\ DOMAIN disk_files = Image
               /\ \A i \in Image : disk_files[i] \in [0..(Size[i] - 1) -> Sector]

\* The cartridge is installed over host files that are all on disk.
ScsiInit == TargetInit /\ disk_power = TRUE /\ disk_unsynced = {} /\ DiskFilesOK
ScsiSpec == ScsiInit /\ [][ScsiNext]_scsivars

---------------------------------------------------------------------------
(* The invariant.                                                          *)

Targets ==
    [image : Image \cup {NoImage}, image_mode : {"ro", "rw"},
     dirty : BOOLEAN, phase : Phases \cup {"bus_free"},
     cdb : Operations \cup {"none"}, buffer : Seq(Content),
     buffer_offset : Nat, transfer_lba : Nat, blocks_remaining : Nat,
     transfer_read : BOOLEAN, transfer_write : BOOLEAN,
     discard_data_out : BOOLEAN]

Controllers ==
    [target_command : Phases, bus_phase : Phases \cup {"bus_free"},
     dma : BOOLEAN, dma_direction : {"none", "send", "receive"},
     input_data : Content \cup Phases \cup {"bus_free", "none"},
     sel : BOOLEAN, target_selected : BOOLEAN, selection_wait : BOOLEAN,
     request : BOOLEAN, acknowledge : BOOLEAN, dma_request : BOOLEAN,
     pending_input_advance : BOOLEAN]

\* The blocks of a transfer that are left are on the image.
OnImage(d) == /\ d.image \in Image /\ d.blocks_remaining > 0
              /\ d.transfer_lba + d.blocks_remaining <= Size[d.image]

\* A data-in phase has a byte to show.
ByteToShow(d) == d.phase = "data_in" => d.buffer_offset < Len(d.buffer)

\* A read is in the data-in phase, over the block its image holds.
ReadInv(d, m) ==
    d.transfer_read => /\ OnImage(d) /\ d.phase = "data_in"
                       /\ ~d.transfer_write
                       /\ d.buffer = m[d.image][d.transfer_lba]

\* A write is in the data-out phase, with less than a block given.
WriteInv(d) ==
    d.transfer_write => /\ OnImage(d) /\ d.phase = "data_out"
                        /\ d.buffer \in Seq(Word)
                        /\ Len(d.buffer) < SectorWords

Sound(d, m) == /\ d \in Targets /\ ByteToShow(d)
               /\ ReadInv(d, m) /\ WriteInv(d)

\* The lines of a controller: whoever is selected can go on.
Lines(b) ==
    /\ b \in Controllers
    /\ b.target_selected => b.selection_wait \/ b.request \/ b.acknowledge
    /\ b.selection_wait => b.sel /\ b.target_selected
    /\ ~b.target_selected => ~b.request /\ ~b.dma_request

\* The phase and the byte the controller shows are the target's.
Shows(b, d) ==
    /\ ~b.acknowledge => b.bus_phase = d.phase
    /\ b.dma_request /\ ~b.acknowledge /\ b.dma_direction = "receive" =>
          b.input_data = CurrentByte(d)

\* Only a selected target has a phase.
Quiet(b, d) == ~b.target_selected => d.phase = "bus_free"

Kept == \A u \in disk_unsynced : disk.image = u[1] /\ disk.dirty

TargetInv == /\ disk_power \in BOOLEAN /\ DiskFilesOK /\ swapped \in BOOLEAN
             /\ disk_unsynced \subseteq Image \X Nat
             /\ Sound(disk, disk_files) /\ Lines(bus)
             /\ Quiet(bus, disk)
             /\ ~swapped => Shows(bus, disk)
             /\ disk_power => Kept

LEMMA TargetConstants ==
    ASSUME ScsiAssumption
    PROVE  /\ NoImage \notin Image
           /\ \A i \in Image : Size[i] \in Nat /\ Size[i] > 0
           /\ SectorWords \in Nat /\ SectorWords > 0
           /\ CountMod \in Nat
BY DEF ScsiAssumption

---------------------------------------------------------------------------
(* The target's operators.                                                 *)

LEMMA NewTarget == NewDisk \in Targets
BY DEF NewDisk, Targets, Phases, Inputs, Outputs, Operations

\* Clearing the transfer keeps the image, its mode, the dirty flag and the
\* phase.
LEMMA ClearedTarget ==
    ASSUME NEW d \in Targets
    PROVE  /\ scsi_clear_transfer(d) \in Targets
           /\ scsi_clear_transfer(d).image = d.image
           /\ scsi_clear_transfer(d).image_mode = d.image_mode
           /\ scsi_clear_transfer(d).dirty = d.dirty
           /\ scsi_clear_transfer(d).phase = d.phase
           /\ scsi_clear_transfer(d).buffer = <<>>
           /\ scsi_clear_transfer(d).buffer_offset = 0
           /\ scsi_clear_transfer(d).transfer_read = FALSE
           /\ scsi_clear_transfer(d).transfer_write = FALSE
<1>1. scsi_clear_transfer(d) \in Targets
    BY NewTarget DEF scsi_clear_transfer, Targets
<1>2. scsi_clear_transfer(d).dirty = d.dirty
    BY DEF scsi_clear_transfer, NewDisk, Targets
<1>3. QED
    BY <1>1, <1>2 DEF scsi_clear_transfer, NewDisk

\* A cleared target in a phase that shows no data.
LEMMA InPhase ==
    ASSUME NEW d \in Targets, NEW c,
           NEW phase \in (Phases \cup {"bus_free"}) \ {"data_in"},
           c = [scsi_clear_transfer(d) EXCEPT !.phase = phase]
    PROVE  /\ c.image = d.image /\ c.dirty = d.dirty /\ c.phase = phase
           /\ c.transfer_read = FALSE /\ c.transfer_write = FALSE
           /\ \A m : Sound(c, m)
<1>1. c \in Targets
    BY ClearedTarget DEF Targets
<1>2. c.dirty = d.dirty
    BY ClearedTarget DEF Targets
<1>3. /\ c.image = d.image /\ c.phase = phase
      /\ c.transfer_read = FALSE /\ c.transfer_write = FALSE
    BY ClearedTarget DEF Targets
<1>4. QED
    BY <1>1, <1>2, <1>3 DEF Sound, ByteToShow, ReadInv, WriteInv

LEMMA StatusTarget ==
    ASSUME NEW d \in Targets
    PROVE  /\ scsi_status(d).image = d.image /\ scsi_status(d).dirty = d.dirty
           /\ scsi_status(d).phase = "status"
           /\ scsi_status(d).transfer_read = FALSE
           /\ scsi_status(d).transfer_write = FALSE
           /\ \A m : Sound(scsi_status(d), m)
BY InPhase DEF scsi_status, Phases, Inputs

\* A sector of an image is a sector.
LEMMA DiskSector ==
    ASSUME ScsiAssumption, DiskFilesOK, NEW i \in Image, NEW l \in Nat, l < Size[i]
    PROVE  disk_files[i][l] \in Seq(Word) /\ Len(disk_files[i][l]) = SectorWords
<1>1. l \in 0..(Size[i] - 1)
    BY TargetConstants
<1>2. disk_files[i][l] \in [1..SectorWords -> Word]
    BY <1>1 DEF DiskFilesOK, Sector
<1>3. QED
    BY <1>2, TargetConstants

LEMMA WordsAreContent == \A s \in Seq(Word) : s \in Seq(Content)
BY DEF Content

\* What a step of the target yields when it leaves image and host file alone.
Keeps(e, d) == /\ Sound(e, disk_files)
               /\ e.image = d.image /\ e.dirty = d.dirty

\* A transfer whose first block has not begun to cross.
Fresh(e) == /\ e.transfer_read => e.buffer_offset = 0
            /\ e.transfer_write => e.buffer = <<>>

LEMMA StatusKeeps ==
    ASSUME NEW d \in Targets
    PROVE  Keeps(scsi_status(d), d) /\ Fresh(scsi_status(d))
BY StatusTarget DEF Keeps, Fresh

\* A block that was read is shown from its first byte on.
LEMMA LoadKeeps ==
    ASSUME ScsiAssumption, DiskFilesOK, NEW d \in Targets, OnImage(d),
           d.phase = "data_in", ~d.transfer_write, NEW r
    PROVE  /\ Keeps(scsi_load_sector(d, d.transfer_lba, r), d)
           /\ Fresh(scsi_load_sector(d, d.transfer_lba, r))
<1> DEFINE e == scsi_load_sector(d, d.transfer_lba, r)
<1>1. CASE r = "ok"
    <2>1. e = [d EXCEPT !.buffer = disk_files[d.image][d.transfer_lba],
                        !.buffer_offset = 0]
        BY <1>1 DEF scsi_load_sector
    <2>2. d.transfer_lba \in Nat /\ d.transfer_lba < Size[d.image]
        BY TargetConstants DEF Targets, OnImage
    <2> DEFINE block == disk_files[d.image][d.transfer_lba]
    <2>3. block \in Seq(Word) /\ Len(block) = SectorWords
        BY <2>2, DiskSector DEF OnImage
    <2>4. block \in Seq(Content)
        BY <2>3, WordsAreContent
    <2> HIDE DEF block
    <2>5. e = [d EXCEPT !.buffer = block, !.buffer_offset = 0]
        BY <2>1 DEF block
    <2> HIDE DEF e
    <2>6. e \in Targets
        BY <2>4, <2>5 DEF Targets
    <2>7. /\ e.image = d.image /\ e.phase = "data_in" /\ e.buffer = block
          /\ e.buffer_offset = 0 /\ e.transfer_lba = d.transfer_lba
          /\ e.blocks_remaining = d.blocks_remaining
        BY <2>5 DEF Targets
    <2>8. e.dirty = d.dirty /\ e.transfer_write = FALSE
        BY <2>5 DEF Targets
    <2>9. Sound(e, disk_files)
        BY <2>3, <2>6, <2>7, <2>8, TargetConstants
        DEF Sound, ByteToShow, ReadInv, WriteInv, OnImage, block
    <2>10. QED
        BY <2>7, <2>8, <2>9 DEF Keeps, Fresh, e
<1>2. CASE r # "ok"
    BY <1>2, StatusKeeps DEF scsi_load_sector
<1>3. QED
    BY <1>1, <1>2

LEMMA BeginReadKeeps ==
    ASSUME ScsiAssumption, DiskFilesOK, NEW d \in Targets, ~d.transfer_write,
           NEW l \in Nat, NEW blocks \in Nat, NEW r
    PROVE  /\ Keeps(scsi_begin_read(d, l, blocks, r), d)
           /\ Fresh(scsi_begin_read(d, l, blocks, r))
<1>1. CASE blocks = 0 \/ ~scsi_range_valid(d, l, blocks)
    BY <1>1, StatusKeeps DEF scsi_begin_read
<1>2. CASE blocks # 0 /\ scsi_range_valid(d, l, blocks)
    <2> DEFINE e == [d EXCEPT !.transfer_lba = l, !.blocks_remaining = blocks,
                              !.transfer_read = TRUE, !.phase = "data_in"]
    <2>1. e \in Targets
        BY DEF Targets, Phases, Inputs
    <2>2. /\ e.image = d.image /\ e.phase = "data_in" /\ e.transfer_lba = l
          /\ e.blocks_remaining = blocks
        BY DEF Targets
    <2>3. e.dirty = d.dirty /\ ~e.transfer_write
        BY DEF Targets
    <2>4. scsi_begin_read(d, l, blocks, r) = scsi_load_sector(e, l, r)
        BY <1>2 DEF scsi_begin_read
    <2> HIDE DEF e
    <2>5. OnImage(e)
        BY <1>2, <2>2, TargetConstants DEF OnImage, scsi_range_valid, Targets
    <2>6. /\ Keeps(scsi_load_sector(e, l, r), e)
          /\ Fresh(scsi_load_sector(e, l, r))
        BY <2>1, <2>2, <2>3, <2>5, LoadKeeps
    <2>7. QED
        BY <2>2, <2>3, <2>4, <2>6 DEF Keeps
<1>3. QED
    BY <1>1, <1>2

LEMMA BeginWriteKeeps ==
    ASSUME ScsiAssumption, NEW d \in Targets, d.buffer = <<>>,
           d.buffer_offset = 0, ~d.transfer_read,
           NEW l \in Nat, NEW blocks \in Nat
    PROVE  /\ Keeps(scsi_begin_write(d, l, blocks), d)
           /\ Fresh(scsi_begin_write(d, l, blocks))
<1>1. CASE blocks = 0 \/ ~scsi_range_valid(d, l, blocks) \/ d.image_mode # "rw"
    BY <1>1, StatusKeeps DEF scsi_begin_write
<1>2. CASE /\ blocks # 0 /\ scsi_range_valid(d, l, blocks)
           /\ d.image_mode = "rw"
    <2> DEFINE e == [d EXCEPT !.transfer_lba = l, !.blocks_remaining = blocks,
                              !.transfer_write = TRUE, !.phase = "data_out"]
    <2>1. e \in Targets
        BY DEF Targets, Phases, Outputs
    <2>2. /\ e.image = d.image /\ e.phase = "data_out" /\ e.transfer_lba = l
          /\ e.blocks_remaining = blocks /\ e.buffer = <<>>
          /\ e.buffer_offset = 0
        BY DEF Targets
    <2>3. e.dirty = d.dirty /\ ~e.transfer_read
        BY DEF Targets
    <2>4. scsi_begin_write(d, l, blocks) = e
        BY <1>2 DEF scsi_begin_write
    <2> HIDE DEF e
    <2>5. OnImage(e)
        BY <1>2, <2>2, TargetConstants DEF OnImage, scsi_range_valid, Targets
    <2>6. e.buffer \in Seq(Word) /\ Len(e.buffer) < SectorWords
        BY <2>2, TargetConstants
    <2>7. Sound(e, disk_files)
        BY <2>1, <2>2, <2>3, <2>5, <2>6
        DEF Sound, ByteToShow, ReadInv, WriteInv
    <2>8. QED
        BY <2>2, <2>3, <2>4, <2>7 DEF Keeps, Fresh
<1>3. QED
    BY <1>1, <1>2

\* A command that is not SYNCHRONIZE CACHE leaves a sound target.
LEMMA ExecutedKeeps ==
    ASSUME ScsiAssumption, DiskFilesOK, NEW d \in Targets, NEW operation,
           NEW l \in 0..CountMod, NEW n \in 0..(CountMod - 1), NEW r,
           NEW e \in Executed(scsi_clear_transfer(d), operation, l, n, r)
    PROVE  Keeps(e, d) /\ Fresh(e)
<1> DEFINE c == scsi_clear_transfer(d)
<1>0. /\ c \in Targets /\ ~c.transfer_read /\ ~c.transfer_write
      /\ c.buffer = <<>> /\ c.buffer_offset = 0
      /\ c.image = d.image /\ c.dirty = d.dirty
    BY ClearedTarget
<1>1. l \in Nat /\ \A b \in Blocks(n) : b \in Nat
    BY TargetConstants DEF Blocks
<1> HIDE DEF c
<1>2. ASSUME Keeps(e, c), Fresh(e) PROVE Keeps(e, d) /\ Fresh(e)
    BY <1>0, <1>2 DEF Keeps
<1>3. ASSUME e = scsi_status(c) PROVE Keeps(e, d) /\ Fresh(e)
    BY <1>0, <1>2, <1>3, StatusKeeps
<1>4. CASE operation = "report"
    <2>1. CASE n = 0
        <3>1. e = [scsi_clear_transfer(d) EXCEPT !.phase = "status"]
            BY <1>4, <2>1 DEF Executed
        <3>2. QED
            BY <3>1, InPhase DEF Keeps, Fresh, Phases, Inputs
    <2>2. CASE n # 0
        <3>1. e = [c EXCEPT !.phase = "data_in", !.buffer = <<"report">>,
                            !.buffer_offset = 0]
            BY <1>4, <2>2 DEF Executed, scsi_data_in, c
        <3>2. e \in Targets
            <4>1. <<"report">> \in Seq(Content)
                BY DEF Content
            <4>2. QED
                BY <1>0, <3>1, <4>1 DEF Targets, Phases, Inputs
        <3>3. /\ e.image = c.image /\ e.buffer = <<"report">>
              /\ e.buffer_offset = 0
            BY <1>0, <3>1 DEF Targets
        <3>4. /\ e.dirty = c.dirty /\ ~e.transfer_read /\ ~e.transfer_write
            BY <1>0, <3>1 DEF Targets
        <3>5. QED
            BY <1>0, <3>2, <3>3, <3>4
            DEF Keeps, Fresh, Sound, ByteToShow, ReadInv, WriteInv
    <2>3. QED
        BY <2>1, <2>2
<1>5. CASE operation = "select"
    <2>1. CASE c.image = NoImage \/ n = 0
        BY <1>3, <1>5, <2>1 DEF Executed, c
    <2>2. CASE ~(c.image = NoImage \/ n = 0)
        <3>1. e = [c EXCEPT !.discard_data_out = TRUE, !.phase = "data_out"]
            BY <1>5, <2>2 DEF Executed, c
        <3>2. e \in Targets /\ e.image = c.image /\ e.phase = "data_out"
            BY <1>0, <3>1 DEF Targets, Phases, Outputs
        <3>3. e.dirty = c.dirty /\ ~e.transfer_read /\ ~e.transfer_write
            BY <1>0, <3>1 DEF Targets
        <3>4. QED
            BY <1>0, <3>2, <3>3
            DEF Keeps, Fresh, Sound, ByteToShow, ReadInv, WriteInv
    <2>3. QED
        BY <2>1, <2>2
<1>6. CASE operation = "read"
    <2>1. PICK b \in Blocks(n) : e = scsi_begin_read(c, l, b, r)
        BY <1>6 DEF Executed, c
    <2>2. QED
        BY <1>0, <1>1, <1>2, <2>1, BeginReadKeeps
<1>7. CASE operation = "write"
    <2>1. PICK b \in Blocks(n) : e = scsi_begin_write(c, l, b)
        BY <1>7 DEF Executed, c
    <2>2. QED
        BY <1>0, <1>1, <1>2, <2>1, BeginWriteKeeps
<1>8. CASE operation \notin {"report", "select", "read", "write"}
    BY <1>3, <1>8 DEF Executed, c
<1>9. QED
    BY <1>4, <1>5, <1>6, <1>7, <1>8

---------------------------------------------------------------------------
(* A byte reaches the target.                                              *)

HostInv == /\ DiskFilesOK /\ disk_unsynced \subseteq Image \X Nat
           /\ Sound(disk, disk_files) /\ Kept

LEMMA NothingLeft ==
    ASSUME Kept
    PROVE  ScsiSynced(disk) = {}
BY DEF Kept, ScsiSynced

\* A step that keeps the image, the dirty flag and the host files.
LEMMA KeepsInv ==
    ASSUME HostInv, Keeps(disk', disk), UNCHANGED <<disk_files, disk_unsynced>>
    PROVE  HostInv'
<1>1. DiskFilesOK'
    BY DEF HostInv, DiskFilesOK
<1>2. Kept'
    BY DEF HostInv, Kept, Keeps
<1>3. Sound(disk', disk_files')
    BY DEF Keeps
<1>4. QED
    BY <1>1, <1>2, <1>3 DEF HostInv

LEMMA ExecuteInv ==
    ASSUME ScsiAssumption, HostInv, scsi_execute(disk)
    PROVE  /\ HostInv' /\ disk'.image = disk.image /\ Fresh(disk')
           /\ disk_files' = disk_files /\ disk_unsynced' \in {disk_unsynced, {}}
           /\ disk_unsynced' # disk_unsynced => ~disk'.transfer_read
                                                /\ ~disk'.transfer_write
<1>1. disk \in Targets
    BY DEF HostInv, Sound
<1>2. CASE disk.cdb = "synchronize" /\ disk.image # NoImage
    <2>1. PICK r \in SyncOutcome(disk) :
             /\ disk' = [scsi_status(disk) EXCEPT !.dirty = @ /\ r # "ok"]
             /\ disk_unsynced' = IF r = "ok" THEN ScsiSynced(disk) ELSE disk_unsynced
        BY <1>2 DEF scsi_execute
    <2>2. disk_files' = disk_files
        BY DEF scsi_execute
    <2>3. /\ scsi_status(disk) \in Targets /\ scsi_status(disk).phase = "status"
          /\ scsi_status(disk).image = disk.image
          /\ scsi_status(disk).dirty = disk.dirty
          /\ ~scsi_status(disk).transfer_read
          /\ ~scsi_status(disk).transfer_write
        BY <1>1, StatusTarget DEF Sound
    <2>4. disk' \in Targets
        BY <2>1, <2>3 DEF Targets
    <2>5. disk'.image = disk.image /\ disk'.phase = "status"
        BY <2>1, <2>3 DEF Targets
    <2>6. /\ disk'.dirty = (disk.dirty /\ r # "ok")
          /\ ~disk'.transfer_read /\ ~disk'.transfer_write
        BY <2>1, <2>3 DEF Targets
    <2>7. Sound(disk', disk_files')
        BY <2>4, <2>5, <2>6 DEF Sound, ByteToShow, ReadInv, WriteInv
    <2>8. \/ disk_unsynced' = {}
          \/ disk_unsynced' = disk_unsynced /\ disk'.dirty = disk.dirty
        <3>1. CASE r = "ok"
            <4>1. ScsiSynced(disk) = {}
                BY NothingLeft DEF HostInv
            <4>2. QED
                BY <2>1, <3>1, <4>1
        <3>2. CASE r # "ok"
            BY <1>1, <2>1, <2>6, <3>2 DEF Targets
        <3>3. QED
            BY <3>1, <3>2
    <2>9. Kept'
        BY <2>5, <2>8 DEF Kept, HostInv
    <2>10. DiskFilesOK'
        BY <2>2 DEF DiskFilesOK, HostInv
    <2>11. disk_unsynced' \subseteq Image \X Nat
        BY <2>8 DEF HostInv
    <2>12. QED
        BY <2>2, <2>5, <2>6, <2>7, <2>8, <2>9, <2>10, <2>11 DEF HostInv, Fresh
<1>3. CASE ~(disk.cdb = "synchronize" /\ disk.image # NoImage)
    <2>1. PICK l \in 0..CountMod, n \in 0..(CountMod - 1) :
             \E r \in ScsiLoadOutcome(disk, l) :
                disk' \in Executed(scsi_clear_transfer(disk), disk.cdb, l, n, r)
        BY <1>3 DEF scsi_execute
    <2>2. UNCHANGED <<disk_files, disk_unsynced>>
        BY <1>3 DEF scsi_execute
    <2>3. Keeps(disk', disk) /\ Fresh(disk')
        BY <1>1, <2>1, ExecutedKeeps DEF HostInv
    <2>4. QED
        BY <2>2, <2>3, KeepsInv DEF Keeps
<1>4. QED
    BY <1>2, <1>3

\* What the host file holds after its first k words were replaced.
Stored(d, block, k) ==
    [disk_files EXCEPT ![d.image][d.transfer_lba] =
        [j \in 1..SectorWords |-> IF j <= k THEN block[j] ELSE @[j]]]

LEMMA StoredMedium ==
    ASSUME ScsiAssumption, DiskFilesOK, NEW d \in Targets, OnImage(d),
           NEW block \in Seq(Word), Len(block) = SectorWords,
           NEW k \in 0..SectorWords, disk_files' = Stored(d, block, k)
    PROVE  DiskFilesOK'
<1> DEFINE i == d.image
           l == d.transfer_lba
           old == disk_files[i][l]
           new == [j \in 1..SectorWords |-> IF j <= k THEN block[j] ELSE old[j]]
<1>1. i \in Image /\ l \in 0..(Size[i] - 1)
    BY TargetConstants DEF OnImage, Targets
<1>2. disk_files[i] \in [0..(Size[i] - 1) -> Sector]
    BY <1>1 DEF DiskFilesOK
<1>3. old \in Sector
    BY <1>1, <1>2
<1>4. \A j \in 1..SectorWords : block[j] \in Word /\ old[j] \in Word
    BY <1>3, TargetConstants DEF Sector
<1>5. new \in Sector
    BY <1>4 DEF Sector
<1>6. disk_files' = [disk_files EXCEPT ![i] = [disk_files[i] EXCEPT ![l] = new]]
    BY DEF Stored
<1> HIDE DEF i, l, new
<1>7. [disk_files[i] EXCEPT ![l] = new] \in [0..(Size[i] - 1) -> Sector]
    BY <1>2, <1>5
<1>8. DOMAIN disk_files' = Image
    BY <1>6 DEF DiskFilesOK
<1>9. ASSUME NEW h \in Image
      PROVE  disk_files'[h] \in [0..(Size[h] - 1) -> Sector]
    <2>1. CASE h = i
        BY <1>1, <1>6, <1>7, <2>1 DEF DiskFilesOK
    <2>2. CASE h # i
        BY <1>6, <2>2 DEF DiskFilesOK
    <2>3. QED
        BY <2>1, <2>2
<1>10. QED
    BY <1>8, <1>9 DEF DiskFilesOK

\* The block after one that was stored waits for its first byte.
LEMMA NextBlockSound ==
    ASSUME ScsiAssumption, NEW d \in Targets, Sound(d, disk_files),
           d.transfer_write
    PROVE  LET e == NextBlock(d) IN
           /\ \A m : Sound(e, m)
           /\ e.image = d.image /\ e.dirty /\ Fresh(e) /\ ~e.transfer_read
           /\ d.blocks_remaining = 1 => ~e.transfer_write
           /\ d.blocks_remaining # 1 =>
                 /\ e.transfer_write /\ e.transfer_lba = d.transfer_lba + 1
                 /\ e.blocks_remaining = d.blocks_remaining - 1
<1> DEFINE e == NextBlock(d)
           t == [d EXCEPT !.dirty = TRUE]
<1>1. /\ OnImage(d) /\ d.phase = "data_out" /\ d.blocks_remaining \in Nat
      /\ d.transfer_lba \in Nat /\ ~d.transfer_read
    <2>1. /\ OnImage(d) /\ d.phase = "data_out" /\ d.blocks_remaining \in Nat
          /\ d.transfer_lba \in Nat
        BY DEF Sound, WriteInv, Targets
    <2>2. ~d.transfer_read
        BY <2>1 DEF Sound, ReadInv
    <2>3. QED
        BY <2>1, <2>2
<1>2. CASE d.blocks_remaining = 1
    <2>1. e = scsi_status(t)
        BY <1>2 DEF NextBlock
    <2>2. t \in Targets /\ t.image = d.image
        <3>1. t \in Targets
            BY DEF Targets
        <3>2. t.image = d.image
            BY DEF Targets
        <3>3. QED
            BY <3>1, <3>2
    <2>3. t.dirty
        BY DEF Targets
    <2> HIDE DEF t
    <2>4. /\ e.image = d.image /\ e.dirty = t.dirty /\ ~e.transfer_read
          /\ ~e.transfer_write /\ \A m : Sound(e, m)
        BY <2>1, <2>2, StatusTarget
    <2> HIDE DEF e
    <2>5. QED
        BY <1>2, <2>3, <2>4 DEF Fresh, e
<1>3. CASE d.blocks_remaining # 1
    <2>1. e = [d EXCEPT !.dirty = TRUE, !.transfer_lba = @ + 1,
                        !.blocks_remaining = @ - 1, !.buffer = <<>>]
        BY <1>3 DEF NextBlock
    <2>2. d.blocks_remaining - 1 \in Nat /\ d.transfer_lba + 1 \in Nat
        BY <1>1 DEF OnImage
    <2> DEFINE lba == d.transfer_lba + 1
               left == d.blocks_remaining - 1
    <2> HIDE DEF e, t, lba, left
    <2>3. e \in Targets
        <3> DEFINE empty == <<>>
        <3>0. empty \in Seq(Content)
            OBVIOUS
        <3>1. e = [d EXCEPT !.dirty = TRUE, !.transfer_lba = lba,
                            !.blocks_remaining = left, !.buffer = empty]
            BY <2>1 DEF lba, left
        <3> HIDE DEF empty
        <3>2. lba \in Nat /\ left \in Nat
            BY <2>2 DEF lba, left
        <3>3. QED
            BY <3>0, <3>1, <3>2 DEF Targets
    <2>4. /\ e.image = d.image /\ e.transfer_lba = d.transfer_lba + 1
          /\ e.blocks_remaining = d.blocks_remaining - 1
          /\ e.buffer = <<>> /\ e.phase = "data_out"
        BY <1>1, <2>1 DEF Targets
    <2>5. e.dirty /\ ~e.transfer_read /\ e.transfer_write
        BY <1>1, <2>1 DEF Targets
    <2>6. OnImage(e)
        BY <1>1, <1>3, <2>4, TargetConstants DEF OnImage
    <2>7. e.buffer \in Seq(Word) /\ Len(e.buffer) < SectorWords
        BY <2>4, TargetConstants
    <2>8. \A m : Sound(e, m)
        BY <2>3, <2>4, <2>5, <2>6, <2>7 DEF Sound, ByteToShow, ReadInv, WriteInv
    <2>9. QED
        BY <1>3, <2>4, <2>5, <2>8 DEF Fresh, e
<1>4. QED
    BY <1>2, <1>3

LEMMA StoreBlockInv ==
    ASSUME ScsiAssumption, HostInv, disk.transfer_write,
           NEW block \in Seq(Word), Len(block) = SectorWords,
           StoreBlock(disk, block)
    PROVE  HostInv' /\ disk'.image = disk.image
<1>1. PICK k \in 0..SectorWords :
         /\ disk_files' = Stored(disk, block, k)
         /\ disk_unsynced' = IF k = 0 THEN disk_unsynced
                             ELSE disk_unsynced \cup {<<disk.image, disk.transfer_lba>>}
         /\ disk' = IF k = SectorWords THEN NextBlock(disk)
                    ELSE scsi_status([disk EXCEPT !.dirty = @ \/ k > 0])
    BY DEF StoreBlock, Stored
<1>2. disk \in Targets /\ OnImage(disk) /\ disk.transfer_lba \in Nat
    BY DEF HostInv, Sound, WriteInv, Targets
<1>3. DiskFilesOK'
    BY <1>1, <1>2, StoredMedium DEF HostInv
<1>4. disk_unsynced' \subseteq Image \X Nat
    BY <1>1, <1>2 DEF OnImage, HostInv
<1>5. /\ disk'.image = disk.image /\ Sound(disk', disk_files')
      /\ disk'.dirty = (disk.dirty \/ k > 0)
    <2>1. CASE k = SectorWords
        <3>1. k > 0
            BY <2>1, TargetConstants
        <3>2. disk' = NextBlock(disk) /\ Sound(disk, disk_files)
            BY <1>1, <2>1 DEF HostInv
        <3>3. /\ disk'.image = disk.image /\ disk'.dirty
              /\ \A m : Sound(disk', m)
            BY <1>2, <3>2, NextBlockSound
        <3>4. disk'.dirty \in BOOLEAN
            BY <3>3 DEF Sound, Targets
        <3>5. QED
            BY <3>1, <3>3, <3>4
    <2>2. CASE k # SectorWords
        <3> DEFINE t == [disk EXCEPT !.dirty = @ \/ k > 0]
        <3>1. t \in Targets
            BY <1>2 DEF Targets
        <3>2. t.image = disk.image
            BY <1>2 DEF Targets
        <3>3. t.dirty = (disk.dirty \/ k > 0)
            BY <1>2 DEF Targets
        <3>4. disk' = scsi_status(t)
            BY <1>1, <2>2
        <3> HIDE DEF t
        <3>5. QED
            BY <3>1, <3>2, <3>3, <3>4, StatusTarget
    <2>3. QED
        BY <2>1, <2>2
<1>6. Kept'
    <2> SUFFICES ASSUME NEW u \in disk_unsynced'
                 PROVE  disk'.image = u[1] /\ disk'.dirty
        BY DEF Kept
    <2>1. CASE u \in disk_unsynced
        BY <1>5, <2>1 DEF HostInv, Kept
    <2>2. CASE u \notin disk_unsynced
        <3>1. k # 0 /\ u = <<disk.image, disk.transfer_lba>>
            BY <1>1, <2>2
        <3>2. k > 0 /\ u[1] = disk.image
            BY <3>1, TargetConstants
        <3>3. QED
            BY <1>5, <3>2
    <2>3. QED
        BY <2>1, <2>2
<1>7. QED
    BY <1>3, <1>4, <1>5, <1>6 DEF HostInv

\* One more byte of a block that is not full.
LEMMA AppendedSound ==
    ASSUME NEW d \in Targets, NEW m, Sound(d, m), d.transfer_write,
           NEW w \in Word, Len(d.buffer) + 1 < SectorWords,
           NEW e, e = [d EXCEPT !.buffer = Append(@, w)]
    PROVE  /\ \A n : Sound(e, n)
           /\ e.image = d.image /\ e.dirty = d.dirty
           /\ e.transfer_write /\ ~e.transfer_read
           /\ e.transfer_lba = d.transfer_lba
           /\ e.blocks_remaining = d.blocks_remaining
           /\ e.buffer = Append(d.buffer, w)
<1> DEFINE more == Append(d.buffer, w)
<1>1. /\ OnImage(d) /\ d.phase = "data_out" /\ d.buffer \in Seq(Word)
    BY DEF Sound, WriteInv
<1>2. ~d.transfer_read
    BY <1>1 DEF Sound, ReadInv
<1>3. more \in Seq(Word) /\ Len(more) = Len(d.buffer) + 1
    BY <1>1
<1>4. more \in Seq(Content)
    BY <1>3, WordsAreContent
<1>5. e = [d EXCEPT !.buffer = more]
    OBVIOUS
<1> HIDE DEF more
<1>6. e \in Targets
    BY <1>4, <1>5 DEF Targets
<1>7. /\ e.image = d.image /\ e.transfer_lba = d.transfer_lba
      /\ e.blocks_remaining = d.blocks_remaining /\ e.buffer = more
      /\ e.phase = d.phase
    BY <1>5 DEF Targets
<1>8. e.dirty = d.dirty /\ e.transfer_write /\ ~e.transfer_read
    BY <1>2, <1>5 DEF Targets
<1>9. OnImage(e)
    BY <1>1, <1>7 DEF OnImage
<1>10. \A n : Sound(e, n)
    BY <1>1, <1>3, <1>6, <1>7, <1>8, <1>9
    DEF Sound, ByteToShow, ReadInv, WriteInv
<1>11. QED
    BY <1>7, <1>8, <1>10 DEF more

LEMMA AcceptDataInv ==
    ASSUME ScsiAssumption, HostInv, NEW w \in Word, AcceptData(disk, w)
    PROVE  HostInv' /\ disk'.image = disk.image
<1>1. disk \in Targets /\ Sound(disk, disk_files)
    BY DEF HostInv, Sound
<1>2. CASE ~disk.transfer_write
    <2>1. Keeps(disk', disk)
        BY <1>1, <1>2, StatusKeeps DEF AcceptData, Keeps
    <2>2. QED
        BY <1>2, <2>1, KeepsInv DEF AcceptData, Keeps
<1>3. CASE disk.transfer_write /\ Len(disk.buffer) + 1 < SectorWords
    <2>1. /\ disk' = [disk EXCEPT !.buffer = Append(@, w)]
          /\ UNCHANGED <<disk_files, disk_unsynced>>
        BY <1>3 DEF AcceptData
    <2>2. Keeps(disk', disk)
        BY <1>1, <1>3, <2>1, AppendedSound DEF Keeps
    <2>3. QED
        BY <2>1, <2>2, KeepsInv DEF Keeps
<1>4. CASE disk.transfer_write /\ ~(Len(disk.buffer) + 1 < SectorWords)
    <2>1. disk.buffer \in Seq(Word) /\ Len(disk.buffer) < SectorWords
        BY <1>1, <1>4 DEF Sound, WriteInv
    <2>2. /\ Append(disk.buffer, w) \in Seq(Word)
          /\ Len(Append(disk.buffer, w)) = SectorWords
        BY <1>4, <2>1, TargetConstants
    <2>3. StoreBlock(disk, Append(disk.buffer, w))
        BY <1>4 DEF AcceptData
    <2>4. QED
        BY <1>4, <2>2, <2>3, StoreBlockInv
<1>5. QED
    BY <1>2, <1>3, <1>4

\* A byte the guest hands over in any phase leaves a sound target, and no
\* change that the image does not count as its own.
LEMMA AcceptInv ==
    ASSUME ScsiAssumption, HostInv, NEW w \in Word,
           scsi_disk_accept_byte(disk, w)
    PROVE  HostInv' /\ disk'.image = disk.image
<1>1. disk \in Targets /\ Sound(disk, disk_files)
    BY DEF HostInv, Sound
<1>2. ASSUME disk.phase \in {"message_out", "command"}
      PROVE  ~disk.transfer_read /\ ~disk.transfer_write
    BY <1>1, <1>2 DEF Sound, ReadInv, WriteInv
<1>3. CASE disk.phase = "message_out"
    <2>1. /\ disk' = [disk EXCEPT !.phase = "command"]
          /\ UNCHANGED <<disk_files, disk_unsynced>>
        BY <1>3 DEF scsi_disk_accept_byte
    <2>2. disk' \in Targets
        BY <1>1, <2>1 DEF Targets, Phases, Outputs
    <2>3. disk'.image = disk.image /\ disk'.phase = "command"
        BY <1>1, <2>1 DEF Targets
    <2>4. /\ disk'.dirty = disk.dirty /\ ~disk'.transfer_read
          /\ ~disk'.transfer_write
        BY <1>1, <1>2, <1>3, <2>1 DEF Targets
    <2>5. Keeps(disk', disk)
        BY <2>2, <2>3, <2>4 DEF Keeps, Sound, ByteToShow, ReadInv, WriteInv
    <2>6. QED
        BY <2>1, <2>5, KeepsInv DEF Keeps
<1>4. CASE disk.phase = "command" /\ disk.cdb = "none"
    <2>1. PICK operation \in Operations :
             disk' = [disk EXCEPT !.cdb = operation]
        BY <1>4 DEF scsi_disk_accept_byte, AcceptCommand
    <2>2. UNCHANGED <<disk_files, disk_unsynced>>
        BY <1>4 DEF scsi_disk_accept_byte, AcceptCommand
    <2>3. disk' \in Targets
        BY <1>1, <2>1 DEF Targets
    <2>4. disk'.image = disk.image /\ disk'.phase = "command"
        BY <1>1, <1>4, <2>1 DEF Targets
    <2>5. /\ disk'.dirty = disk.dirty /\ ~disk'.transfer_read
          /\ ~disk'.transfer_write
        BY <1>1, <1>2, <1>4, <2>1 DEF Targets
    <2>6. Keeps(disk', disk)
        BY <2>3, <2>4, <2>5 DEF Keeps, Sound, ByteToShow, ReadInv, WriteInv
    <2>7. QED
        BY <2>2, <2>6, KeepsInv DEF Keeps
<1>5. CASE disk.phase = "command" /\ disk.cdb # "none"
    BY <1>5, ExecuteInv DEF scsi_disk_accept_byte, AcceptCommand
<1>6. CASE disk.phase = "data_out"
    BY <1>6, AcceptDataInv DEF scsi_disk_accept_byte
<1>7. CASE disk.phase \notin {"message_out", "command", "data_out"}
    BY <1>1, <1>7, KeepsInv DEF scsi_disk_accept_byte, Keeps
<1>8. QED
    BY <1>3, <1>4, <1>5, <1>6, <1>7

---------------------------------------------------------------------------
(* The target's byte was taken.                                            *)

\* A byte of the answer or of the block that is not the last.
LEMMA NextByteKeeps ==
    ASSUME NEW d \in Targets, Sound(d, disk_files), d.phase = "data_in",
           d.buffer_offset + 1 < Len(d.buffer),
           NEW e, e = [d EXCEPT !.buffer_offset = @ + 1]
    PROVE  /\ Keeps(e, d) /\ ~e.transfer_write
           /\ e.transfer_read = d.transfer_read
           /\ e.transfer_lba = d.transfer_lba
           /\ e.blocks_remaining = d.blocks_remaining
           /\ e.buffer_offset = d.buffer_offset + 1
<1>1. ~d.transfer_write
    BY DEF Sound, WriteInv
<1>2. e \in Targets
    BY DEF Targets
<1>3. /\ e.image = d.image /\ e.transfer_lba = d.transfer_lba
      /\ e.blocks_remaining = d.blocks_remaining /\ e.buffer = d.buffer
      /\ e.buffer_offset = d.buffer_offset + 1 /\ e.phase = "data_in"
    BY DEF Targets
<1>4. /\ e.dirty = d.dirty /\ e.transfer_read = d.transfer_read
      /\ ~e.transfer_write
    BY <1>1 DEF Targets
<1>5. Sound(e, disk_files)
    BY <1>2, <1>3, <1>4
    DEF Sound, ByteToShow, ReadInv, WriteInv, OnImage
<1>6. QED
    BY <1>3, <1>4, <1>5 DEF Keeps

\* The target that is about to load the next block of a read.
NextOf(d) == [d EXCEPT !.blocks_remaining = @ - 1, !.transfer_lba = @ + 1]

LEMMA NextOfRead ==
    ASSUME ScsiAssumption, NEW d \in Targets, Sound(d, disk_files),
           d.transfer_read, d.blocks_remaining > 1
    PROVE  /\ NextOf(d) \in Targets /\ OnImage(NextOf(d))
           /\ NextOf(d).phase = "data_in" /\ ~NextOf(d).transfer_write
           /\ NextOf(d).transfer_read
           /\ NextOf(d).image = d.image /\ NextOf(d).dirty = d.dirty
           /\ NextOf(d).transfer_lba = d.transfer_lba + 1
           /\ NextOf(d).blocks_remaining = d.blocks_remaining - 1
<1>1. /\ OnImage(d) /\ d.phase = "data_in" /\ ~d.transfer_write
      /\ d.blocks_remaining \in Nat /\ d.transfer_lba \in Nat
    BY DEF Sound, ReadInv, Targets
<1> DEFINE left == d.blocks_remaining - 1
           lba == d.transfer_lba + 1
<1>2. left \in Nat /\ lba \in Nat
    BY <1>1
<1>3. NextOf(d) = [d EXCEPT !.blocks_remaining = left, !.transfer_lba = lba]
    BY DEF NextOf
<1> HIDE DEF left, lba
<1>4. NextOf(d) \in Targets
    BY <1>2, <1>3 DEF Targets
<1>5. /\ NextOf(d).image = d.image /\ NextOf(d).phase = "data_in"
      /\ NextOf(d).transfer_lba = lba /\ NextOf(d).blocks_remaining = left
    BY <1>1, <1>3 DEF Targets
<1>6. /\ NextOf(d).dirty = d.dirty /\ ~NextOf(d).transfer_write
      /\ NextOf(d).transfer_read
    BY <1>1, <1>3 DEF Targets
<1>7. OnImage(NextOf(d))
    BY <1>1, <1>5, TargetConstants DEF OnImage, left, lba
<1>8. QED
    BY <1>4, <1>5, <1>6, <1>7 DEF left, lba

LEMMA NextLoadedKeeps ==
    ASSUME ScsiAssumption, DiskFilesOK, NEW d \in Targets, Sound(d, disk_files), NEW r
    PROVE  Keeps(NextLoaded(d, r), d)
<1>1. CASE d.transfer_read /\ d.blocks_remaining > 1
    <2>1. NextLoaded(d, r) =
             scsi_load_sector(NextOf(d), NextOf(d).transfer_lba, r)
        BY <1>1, NextOfRead DEF NextLoaded, NextOf
    <2>2. QED
        BY <1>1, <2>1, NextOfRead, LoadKeeps DEF Keeps
<1>2. CASE ~(d.transfer_read /\ d.blocks_remaining > 1)
    BY <1>2, StatusKeeps DEF NextLoaded
<1>3. QED
    BY <1>1, <1>2

\* From the status byte on no transfer is open.
LEMMA NextPhaseKeeps ==
    ASSUME NEW d \in Targets, Sound(d, disk_files),
           d.phase \in {"status", "message_in"},
           NEW phase \in {"message_in", "bus_free"},
           NEW e, e = [d EXCEPT !.phase = phase]
    PROVE  Keeps(e, d) /\ ~e.transfer_read /\ ~e.transfer_write
<1>1. ~d.transfer_read /\ ~d.transfer_write
    BY DEF Sound, ReadInv, WriteInv
<1>2. e \in Targets
    BY DEF Targets, Phases, Inputs
<1>3. e.image = d.image /\ e.phase = phase
    BY DEF Targets
<1>4. /\ e.dirty = d.dirty /\ ~e.transfer_read /\ ~e.transfer_write
    BY <1>1 DEF Targets
<1>5. QED
    BY <1>2, <1>3, <1>4 DEF Keeps, Sound, ByteToShow, ReadInv, WriteInv

LEMMA AdvanceKeeps ==
    ASSUME ScsiAssumption, DiskFilesOK, NEW d \in Targets, Sound(d, disk_files), NEW r
    PROVE  /\ Keeps(scsi_disk_advance_byte(d, r), d)
           /\ d.phase = "bus_free" => scsi_disk_advance_byte(d, r) = d
<1>1. CASE d.phase = "data_in" /\ d.buffer_offset + 1 < Len(d.buffer)
    <2>1. ~(d.buffer_offset + 1 >= Len(d.buffer))
        BY <1>1 DEF Targets
    <2>2. scsi_disk_advance_byte(d, r) = [d EXCEPT !.buffer_offset = @ + 1]
        BY <1>1, <2>1 DEF scsi_disk_advance_byte
    <2>3. QED
        BY <1>1, <2>2, NextByteKeeps
<1>2. CASE d.phase = "data_in" /\ ~(d.buffer_offset + 1 < Len(d.buffer))
    <2>1. d.buffer_offset + 1 >= Len(d.buffer)
        BY <1>2 DEF Targets
    <2>2. scsi_disk_advance_byte(d, r) = NextLoaded(d, r)
        BY <1>2, <2>1 DEF scsi_disk_advance_byte
    <2>3. QED
        BY <1>2, <2>2, NextLoadedKeeps
<1>3. CASE d.phase = "status"
    <2>1. scsi_disk_advance_byte(d, r) = [d EXCEPT !.phase = "message_in"]
        BY <1>3 DEF scsi_disk_advance_byte
    <2>2. QED
        BY <1>3, <2>1, NextPhaseKeeps
<1>4. CASE d.phase = "message_in"
    <2>1. scsi_disk_advance_byte(d, r) = [d EXCEPT !.phase = "bus_free"]
        BY <1>4 DEF scsi_disk_advance_byte
    <2>2. QED
        BY <1>4, <2>1, NextPhaseKeeps
<1>5. CASE d.phase \notin {"data_in", "status", "message_in"}
    BY <1>5 DEF scsi_disk_advance_byte, Keeps
<1>6. QED
    BY <1>1, <1>2, <1>3, <1>4, <1>5

---------------------------------------------------------------------------
(* The controller.                                                         *)

LEMMA ShownByte ==
    ASSUME NEW d \in Targets, ByteToShow(d)
    PROVE  CurrentByte(d) \in Content \cup Phases \cup {"bus_free", "none"}
<1>1. CASE d.phase = "data_in"
    <2>1. d.buffer \in Seq(Content) /\ d.buffer_offset + 1 \in 1..Len(d.buffer)
        BY <1>1 DEF ByteToShow, Targets
    <2>2. QED
        BY <1>1, <2>1 DEF CurrentByte
<1>2. CASE d.phase # "data_in"
    BY <1>2 DEF CurrentByte, Targets
<1>3. QED
    BY <1>1, <1>2

\* Offering a byte by DMA changes no other line, and offers the right one.
LEMMA DmaLines ==
    ASSUME NEW b, Lines(b), NEW d \in Targets, ByteToShow(d)
    PROVE  LET c == update_dma_request(b, d) IN
           /\ Lines(c) /\ c.bus_phase = b.bus_phase
           /\ c.acknowledge = b.acknowledge
           /\ c.target_selected = b.target_selected
           /\ c.dma_request /\ c.dma_direction = "receive" =>
                 c.input_data = CurrentByte(d)
<1> DEFINE c == update_dma_request(b, d)
           offered == b.dma /\ b.request /\ phase_matches(b)
           byte == CurrentByte(d)
<1>1. b \in Controllers
    BY DEF Lines
<1>2. byte \in Content \cup Phases \cup {"bus_free", "none"}
    BY ShownByte
<1>3. offered => b.target_selected
    BY DEF phase_matches
<1>4. CASE /\ offered /\ b.dma_direction = "receive"
           /\ b.bus_phase \in Inputs
    <2>1. c = [b EXCEPT !.dma_request = TRUE, !.input_data = byte]
        BY <1>4 DEF update_dma_request
    <2> HIDE DEF c, byte
    <2>2. c \in Controllers
        BY <1>1, <1>2, <2>1 DEF Controllers
    <2>3. c.bus_phase = b.bus_phase /\ c.input_data = byte
        BY <1>1, <2>1 DEF Controllers
    <2>4. /\ c.acknowledge = b.acknowledge /\ c.request = b.request
          /\ c.target_selected = b.target_selected /\ c.sel = b.sel
          /\ c.selection_wait = b.selection_wait
        BY <1>1, <2>1 DEF Controllers
    <2>5. QED
        BY <1>3, <1>4, <2>2, <2>3, <2>4 DEF Lines, c, byte
<1>5. CASE ~(/\ offered /\ b.dma_direction = "receive"
             /\ b.bus_phase \in Inputs)
    <2> DEFINE asked == offered /\ b.dma_direction = "send"
    <2>1. CASE asked /\ b.bus_phase \in Outputs
        <3>1. c = [b EXCEPT !.dma_request = TRUE]
            BY <1>5, <2>1 DEF update_dma_request
        <3> HIDE DEF c
        <3>2. c \in Controllers
            BY <1>1, <3>1 DEF Controllers
        <3>3. c.bus_phase = b.bus_phase /\ c.dma_direction = "send"
            BY <1>1, <2>1, <3>1 DEF Controllers
        <3>4. /\ c.acknowledge = b.acknowledge /\ c.request = b.request
              /\ c.target_selected = b.target_selected /\ c.sel = b.sel
              /\ c.selection_wait = b.selection_wait
            BY <1>1, <3>1 DEF Controllers
        <3>5. QED
            BY <1>3, <2>1, <3>2, <3>3, <3>4 DEF Lines, c
    <2>2. CASE ~(asked /\ b.bus_phase \in Outputs)
        <3>1. c = [b EXCEPT !.dma_request = FALSE, !.input_data = "none"]
            BY <1>5, <2>2 DEF update_dma_request
        <3> HIDE DEF c
        <3>2. c \in Controllers
            BY <1>1, <3>1 DEF Controllers
        <3>3. c.bus_phase = b.bus_phase
            BY <1>1, <3>1 DEF Controllers
        <3>4. /\ c.acknowledge = b.acknowledge /\ c.request = b.request
              /\ c.target_selected = b.target_selected /\ c.sel = b.sel
              /\ c.selection_wait = b.selection_wait /\ ~c.dma_request
            BY <1>1, <3>1 DEF Controllers
        <3>5. QED
            BY <3>2, <3>3, <3>4 DEF Lines, c
    <2>3. QED
        BY <2>1, <2>2
<1>6. QED
    BY <1>4, <1>5

\* After the handshake the controller shows the target's phase and byte.
LEMMA PhaseChangedLines ==
    ASSUME NEW b, NEW d \in Targets, ByteToShow(d),
           b \in Controllers, b.selection_wait => b.sel /\ b.target_selected,
           ~b.target_selected => ~b.request /\ ~b.dma_request,
           Quiet(b, d)
    PROVE  LET c == phase_changed(b, d) IN
           Lines(c) /\ Shows(c, d) /\ Quiet(c, d)
<1> DEFINE c == phase_changed(b, d)
<1>1. CASE d.phase = "bus_free"
    <2>1. c = [b EXCEPT !.bus_phase = "bus_free", !.target_selected = FALSE,
                        !.selection_wait = FALSE, !.request = FALSE,
                        !.dma_request = FALSE, !.input_data = "none",
                        !.dma_direction = "none"]
        BY <1>1 DEF phase_changed
    <2> HIDE DEF c
    <2>2. c \in Controllers
        BY <2>1 DEF Controllers
    <2>3. c.bus_phase = "bus_free"
        BY <2>1 DEF Controllers
    <2>4. /\ ~c.target_selected /\ ~c.selection_wait /\ ~c.request
          /\ ~c.dma_request
        BY <2>1 DEF Controllers
    <2>5. QED
        BY <1>1, <2>2, <2>3, <2>4 DEF Lines, Shows, Quiet, c
<1>2. CASE d.phase # "bus_free"
    <2> DEFINE phase == d.phase
               t == [b EXCEPT !.bus_phase = phase,
                              !.request = ~b.selection_wait]
    <2>1. c = update_dma_request(t, d)
        BY <1>2 DEF phase_changed
    <2>2. phase \in Phases
        BY <1>2 DEF Targets
    <2> HIDE DEF phase
    <2>3. t \in Controllers
        BY <2>2 DEF Controllers
    <2>4. t.bus_phase = phase
        BY DEF Controllers
    <2>5. /\ t.request = ~b.selection_wait /\ t.sel = b.sel
          /\ t.selection_wait = b.selection_wait
          /\ t.target_selected = b.target_selected
          /\ t.dma_request = b.dma_request
        BY DEF Controllers
    <2>6. b.target_selected
        BY <1>2 DEF Quiet
    <2> HIDE DEF t, c
    <2>7. Lines(t)
        BY <2>3, <2>5, <2>6 DEF Lines
    <2>8. /\ Lines(c) /\ c.bus_phase = phase /\ c.target_selected
          /\ c.dma_request /\ c.dma_direction = "receive" =>
                c.input_data = CurrentByte(d)
        BY <2>1, <2>4, <2>5, <2>6, <2>7, DmaLines
    <2>9. QED
        BY <2>8 DEF Shows, Quiet, phase, c
<1>3. QED
    BY <1>1, <1>2

LEMMA ClearedLines == Lines(ControllerCleared) /\ \A d : d.phase = "bus_free" =>
                      Shows(ControllerCleared, d) /\ Quiet(ControllerCleared, d)
<1>1. ControllerCleared \in Controllers
    BY DEF ControllerCleared, Controllers, Phases, Outputs
<1>2. QED
    BY <1>1 DEF ControllerCleared, Lines, Shows, Quiet

---------------------------------------------------------------------------
(* The steps.                                                              *)

\* What a step of a powered cartridge preserves.
Powered == HostInv /\ Lines(bus) /\ Quiet(bus, disk) /\ swapped \in BOOLEAN
           /\ (~swapped => Shows(bus, disk))

\* A step of the bus alone.
LEMMA BusStepInv ==
    ASSUME Powered, UNCHANGED <<disk_files, disk_unsynced, disk, swapped>>,
           Lines(bus'), bus'.target_selected = bus.target_selected,
           ~swapped => Shows(bus', disk)
    PROVE  Powered'
<1>1. HostInv'
    BY DEF Powered, HostInv, DiskFilesOK, Kept
<1>2. QED
    BY <1>1 DEF Powered, Quiet

LEMMA SelectInv ==
    ASSUME Powered, Select
    PROVE  Powered'
<1>0. UNCHANGED <<disk_files, disk_unsynced>>
    BY DEF Select
<1>1. bus \in Controllers /\ disk \in Targets
    BY DEF Powered, Lines, HostInv, Sound
<1>2. CASE bus' = [bus EXCEPT !.sel = TRUE] /\ UNCHANGED <<disk, swapped>>
    <2>1. bus' \in Controllers
        BY <1>1, <1>2 DEF Controllers
    <2>2. /\ bus'.bus_phase = bus.bus_phase /\ bus'.input_data = bus.input_data
          /\ bus'.dma_direction = bus.dma_direction
        BY <1>1, <1>2 DEF Controllers
    <2>3. /\ bus'.sel /\ bus'.target_selected = bus.target_selected
          /\ bus'.selection_wait = bus.selection_wait
          /\ bus'.request = bus.request /\ bus'.acknowledge = bus.acknowledge
          /\ bus'.dma_request = bus.dma_request
        BY <1>1, <1>2 DEF Controllers
    <2>4. QED
        BY <1>0, <1>2, <2>1, <2>2, <2>3, BusStepInv DEF Powered, Lines, Shows
<1>3. ASSUME NEW attention \in BOOLEAN, ~bus.target_selected,
             disk' = scsi_disk_select(disk, attention),
             bus' = [bus EXCEPT !.sel = TRUE, !.target_selected = TRUE,
                                !.selection_wait = TRUE, !.request = FALSE,
                                !.bus_phase = disk'.phase],
             swapped' = FALSE
      PROVE  Powered'
    <2> DEFINE phase == IF attention THEN "message_out" ELSE "command"
    <2>1. disk' = [scsi_clear_transfer(disk) EXCEPT !.phase = phase]
        BY <1>3 DEF scsi_disk_select
    <2>2. phase \in Phases /\ phase # "data_in"
        BY DEF Phases, Outputs
    <2> HIDE DEF phase
    <2>3. disk'.phase = phase /\ Keeps(disk', disk)
        <3>1. phase \in (Phases \cup {"bus_free"}) \ {"data_in"}
            BY <2>2
        <3>2. /\ disk'.image = disk.image /\ disk'.dirty = disk.dirty
              /\ disk'.phase = phase /\ \A m : Sound(disk', m)
            BY <1>1, <2>1, <3>1, InPhase
        <3>3. QED
            BY <3>2 DEF Keeps
    <2>4. HostInv'
        BY <1>0, <2>3, KeepsInv DEF Powered
    <2>5. bus' = [bus EXCEPT !.sel = TRUE, !.target_selected = TRUE,
                             !.selection_wait = TRUE, !.request = FALSE,
                             !.bus_phase = phase]
        BY <1>3, <2>3
    <2>6. bus' \in Controllers
        BY <1>1, <2>2, <2>5 DEF Controllers
    <2>7. bus'.bus_phase = phase
        BY <1>1, <2>5 DEF Controllers
    <2>8. /\ bus'.sel /\ bus'.target_selected /\ bus'.selection_wait
          /\ bus'.dma_request = bus.dma_request
        BY <1>1, <2>5 DEF Controllers
    <2>9. ~bus.dma_request
        BY <1>3 DEF Powered, Lines
    <2>10. QED
        BY <1>3, <2>3, <2>4, <2>6, <2>7, <2>8, <2>9
        DEF Powered, Lines, Shows, Quiet
<1>4. QED
    BY <1>2, <1>3 DEF Select

LEMMA SelectionReleasedInv ==
    ASSUME Powered, selection_released
    PROVE  Powered'
<1>1. bus \in Controllers /\ disk \in Targets /\ ByteToShow(disk)
    BY DEF Powered, Lines, HostInv, Sound
<1>2. UNCHANGED <<disk_files, disk_unsynced, disk, swapped>>
    BY DEF selection_released
<1>3. CASE bus.target_selected /\ bus.selection_wait
    <2> DEFINE t == [bus EXCEPT !.sel = FALSE, !.selection_wait = FALSE,
                                !.request = TRUE]
    <2>1. bus' = update_dma_request(t, disk)
        BY <1>3 DEF selection_released
    <2>2. t \in Controllers
        BY <1>1 DEF Controllers
    <2>3. t.bus_phase = bus.bus_phase
        BY <1>1 DEF Controllers
    <2>4. /\ ~t.selection_wait /\ t.request /\ t.target_selected
          /\ t.acknowledge = bus.acknowledge
        BY <1>1, <1>3 DEF Controllers
    <2> HIDE DEF t
    <2>5. Lines(t)
        BY <2>2, <2>4 DEF Lines
    <2>6. /\ Lines(bus') /\ bus'.bus_phase = bus.bus_phase
          /\ bus'.acknowledge = bus.acknowledge /\ bus'.target_selected
          /\ bus'.dma_request /\ bus'.dma_direction = "receive" =>
                bus'.input_data = CurrentByte(disk)
        BY <1>1, <2>1, <2>3, <2>4, <2>5, DmaLines
    <2>7. bus'.target_selected = bus.target_selected
        BY <1>1, <1>3, <2>6 DEF Lines, Controllers
    <2>8. ~swapped => Shows(bus', disk)
        BY <2>6 DEF Powered, Shows
    <2>9. QED
        BY <1>2, <2>6, <2>7, <2>8, BusStepInv
<1>4. CASE ~(bus.target_selected /\ bus.selection_wait)
    <2>1. bus' = [bus EXCEPT !.sel = FALSE]
        BY <1>4 DEF selection_released
    <2>2. bus' \in Controllers
        BY <1>1, <2>1 DEF Controllers
    <2>3. /\ bus'.bus_phase = bus.bus_phase /\ bus'.input_data = bus.input_data
          /\ bus'.dma_direction = bus.dma_direction
        BY <1>1, <2>1 DEF Controllers
    <2>4. /\ bus'.target_selected = bus.target_selected
          /\ bus'.selection_wait = bus.selection_wait
          /\ bus'.request = bus.request /\ bus'.acknowledge = bus.acknowledge
          /\ bus'.dma_request = bus.dma_request
        BY <1>1, <2>1 DEF Controllers
    <2>5. QED
        BY <1>2, <1>4, <2>2, <2>3, <2>4, BusStepInv DEF Powered, Lines, Shows
<1>5. QED
    BY <1>3, <1>4

LEMMA AckAssertInv ==
    ASSUME ScsiAssumption, Powered, programmed_ack_assert
    PROVE  Powered'
<1>1. bus \in Controllers /\ Lines(bus)
    BY DEF Powered, Lines
<1>2. /\ bus.target_selected /\ bus.request /\ swapped' = swapped
    BY DEF programmed_ack_assert
<1>3. HostInv'
    <2>1. CASE bus.bus_phase \in Outputs
        <3>1. PICK w \in Given : scsi_disk_accept_byte(disk, w)
            BY <2>1 DEF programmed_ack_assert
        <3>2. QED
            BY <3>1, AcceptInv DEF Powered, Given
    <2>2. CASE bus.bus_phase \notin Outputs
        <3>1. UNCHANGED <<disk_files, disk_unsynced, disk>>
            BY <2>2 DEF programmed_ack_assert
        <3>2. QED
            BY <3>1 DEF Powered, HostInv, DiskFilesOK, Kept
    <2>3. QED
        BY <2>1, <2>2
<1>4. \/ bus' = [bus EXCEPT !.acknowledge = TRUE, !.request = FALSE]
      \/ bus' = [bus EXCEPT !.acknowledge = TRUE, !.request = FALSE,
                            !.pending_input_advance = TRUE]
    BY DEF programmed_ack_assert
<1>5. bus' \in Controllers
    BY <1>1, <1>4 DEF Controllers
<1>6. /\ bus'.acknowledge /\ ~bus'.request
      /\ bus'.target_selected = bus.target_selected /\ bus'.sel = bus.sel
      /\ bus'.selection_wait = bus.selection_wait
      /\ bus'.dma_request = bus.dma_request
    BY <1>1, <1>4 DEF Controllers
<1>7. QED
    BY <1>1, <1>2, <1>3, <1>5, <1>6 DEF Powered, Lines, Shows, Quiet

\* The end of a handshake or of a DMA cycle: the target is somewhere, and the
\* controller shows where.
LEMMA HandshakeInv ==
    ASSUME HostInv', NEW b \in Controllers,
           b.selection_wait => b.sel /\ b.target_selected,
           ~b.target_selected => ~b.request /\ ~b.dma_request,
           Quiet(b, disk'), bus' = phase_changed(b, disk'), swapped' = FALSE
    PROVE  Powered'
<1>1. disk' \in Targets /\ ByteToShow(disk')
    BY DEF HostInv, Sound
<1>2. Lines(bus') /\ Shows(bus', disk') /\ Quiet(bus', disk')
    BY <1>1, PhaseChangedLines
<1>3. QED
    BY <1>2 DEF Powered

LEMMA AckReleaseInv ==
    ASSUME ScsiAssumption, Powered, programmed_ack_release
    PROVE  Powered'
<1> DEFINE t == [bus EXCEPT !.acknowledge = FALSE,
                            !.pending_input_advance = FALSE]
<1>1. bus \in Controllers /\ disk \in Targets /\ Sound(disk, disk_files) /\ DiskFilesOK
    BY DEF Powered, Lines, HostInv, Sound
<1>2. PICK r : disk' = IF bus.pending_input_advance
                       THEN scsi_disk_advance_byte(disk, r) ELSE disk
    BY DEF programmed_ack_release
<1>3. Keeps(disk', disk) /\ (disk.phase = "bus_free" => disk' = disk)
    BY <1>1, <1>2, AdvanceKeeps DEF Keeps
<1>4. HostInv'
    BY <1>3, KeepsInv DEF Powered, programmed_ack_release
<1>5. bus' = phase_changed(t, disk') /\ swapped' = FALSE
    BY DEF programmed_ack_release
<1>6. t \in Controllers
    BY <1>1 DEF Controllers
<1>7. /\ t.target_selected = bus.target_selected /\ t.sel = bus.sel
      /\ t.selection_wait = bus.selection_wait /\ t.request = bus.request
      /\ t.dma_request = bus.dma_request
    BY <1>1 DEF Controllers
<1> HIDE DEF t
<1>8. Quiet(t, disk')
    BY <1>3, <1>7 DEF Powered, Quiet
<1>9. QED
    BY <1>4, <1>5, <1>6, <1>7, <1>8, HandshakeInv DEF Powered, Lines

LEMMA ModeWriteInv ==
    ASSUME Powered, mode_write
    PROVE  Powered'
<1>1. bus \in Controllers
    BY DEF Powered, Lines
<1>2. \/ bus' = [bus EXCEPT !.dma = FALSE, !.dma_direction = "none",
                            !.dma_request = FALSE, !.input_data = "none"]
      \/ bus' = [bus EXCEPT !.dma = TRUE]
    BY DEF mode_write
<1>3. bus' \in Controllers
    BY <1>1, <1>2 DEF Controllers
<1>4. bus'.bus_phase = bus.bus_phase
    BY <1>1, <1>2 DEF Controllers
<1>5. /\ bus'.acknowledge = bus.acknowledge /\ bus'.request = bus.request
      /\ bus'.target_selected = bus.target_selected /\ bus'.sel = bus.sel
      /\ bus'.selection_wait = bus.selection_wait
    BY <1>1, <1>2 DEF Controllers
<1>6. \/ ~bus'.dma_request
      \/ /\ bus'.dma_request = bus.dma_request
         /\ bus'.input_data = bus.input_data
         /\ bus'.dma_direction = bus.dma_direction
    BY <1>1, <1>2 DEF Controllers
<1>7. UNCHANGED <<disk_files, disk_unsynced, disk, swapped>>
    BY DEF mode_write
<1>8. QED
    BY <1>3, <1>4, <1>5, <1>6, <1>7, BusStepInv DEF Powered, Lines, Shows

\* The guest sets a register that DMA depends on.
LEMMA RegisterInv ==
    ASSUME Powered, UNCHANGED <<disk_files, disk_unsynced, disk, swapped>>,
           NEW t \in Controllers, t.bus_phase = bus.bus_phase,
           t.acknowledge = bus.acknowledge, t.request = bus.request,
           t.target_selected = bus.target_selected, t.sel = bus.sel,
           t.selection_wait = bus.selection_wait,
           t.dma_request = bus.dma_request,
           bus' = update_dma_request(t, disk)
    PROVE  Powered'
<1>1. disk \in Targets /\ ByteToShow(disk)
    BY DEF Powered, HostInv, Sound
<1>2. Lines(t)
    BY DEF Powered, Lines
<1>3. /\ Lines(bus') /\ bus'.bus_phase = t.bus_phase
      /\ bus'.acknowledge = t.acknowledge
      /\ bus'.target_selected = t.target_selected
      /\ bus'.dma_request /\ bus'.dma_direction = "receive" =>
            bus'.input_data = CurrentByte(disk)
    BY <1>1, <1>2, DmaLines
<1>4. ~swapped => Shows(bus', disk)
    BY <1>3 DEF Powered, Shows
<1>5. QED
    BY <1>3, <1>4, BusStepInv

LEMMA WriteTargetCommandInv ==
    ASSUME Powered, WriteTargetCommand
    PROVE  Powered'
<1>1. bus \in Controllers
    BY DEF Powered, Lines
<1>2. PICK phase \in {"data_out", bus.bus_phase} \ {"bus_free"} :
         bus' = update_dma_request([bus EXCEPT !.target_command = phase], disk)
    BY DEF WriteTargetCommand
<1> DEFINE t == [bus EXCEPT !.target_command = phase]
<1>3. phase \in Phases
    BY <1>1, <1>2 DEF Controllers, Phases, Outputs
<1>4. t \in Controllers
    BY <1>1, <1>3 DEF Controllers
<1>5. t.bus_phase = bus.bus_phase
    BY <1>1 DEF Controllers
<1>6. /\ t.acknowledge = bus.acknowledge /\ t.request = bus.request
      /\ t.target_selected = bus.target_selected /\ t.sel = bus.sel
      /\ t.selection_wait = bus.selection_wait
      /\ t.dma_request = bus.dma_request
    BY <1>1 DEF Controllers
<1>7. UNCHANGED <<disk_files, disk_unsynced, disk, swapped>>
    BY DEF WriteTargetCommand
<1>8. bus' = update_dma_request(t, disk)
    BY <1>2
<1> HIDE DEF t
<1>9. QED
    BY <1>4, <1>5, <1>6, <1>7, <1>8, RegisterInv

LEMMA StartDmaInv ==
    ASSUME Powered, start_dma
    PROVE  Powered'
<1>1. bus \in Controllers
    BY DEF Powered, Lines
<1>2. PICK direction \in {"send", "receive"} :
         bus' = update_dma_request([bus EXCEPT !.dma_direction = direction],
                                   disk)
    BY DEF start_dma
<1> DEFINE t == [bus EXCEPT !.dma_direction = direction]
<1>3. t \in Controllers
    BY <1>1 DEF Controllers
<1>4. t.bus_phase = bus.bus_phase
    BY <1>1 DEF Controllers
<1>5. /\ t.acknowledge = bus.acknowledge /\ t.request = bus.request
      /\ t.target_selected = bus.target_selected /\ t.sel = bus.sel
      /\ t.selection_wait = bus.selection_wait
      /\ t.dma_request = bus.dma_request
    BY <1>1 DEF Controllers
<1>6. UNCHANGED <<disk_files, disk_unsynced, disk, swapped>>
    BY DEF start_dma
<1>7. bus' = update_dma_request(t, disk)
    BY <1>2
<1> HIDE DEF t
<1>8. QED
    BY <1>3, <1>4, <1>5, <1>6, <1>7, RegisterInv

LEMMA DmaReadInv ==
    ASSUME ScsiAssumption, Powered, dma_read
    PROVE  Powered'
<1>1. bus \in Controllers /\ disk \in Targets /\ Sound(disk, disk_files) /\ DiskFilesOK
    BY DEF Powered, Lines, HostInv, Sound
<1>2. PICK r : disk' = scsi_disk_advance_byte(disk, r)
    BY DEF dma_read
<1>3. Keeps(disk', disk)
    BY <1>1, <1>2, AdvanceKeeps
<1>4. HostInv'
    BY <1>3, KeepsInv DEF Powered, dma_read
<1>5. Quiet(bus, disk')
    BY DEF dma_read, Powered, Lines, Quiet
<1>6. bus' = phase_changed(bus, disk') /\ swapped' = FALSE
    BY DEF dma_read
<1>7. QED
    BY <1>1, <1>4, <1>5, <1>6, HandshakeInv DEF Powered, Lines

LEMMA DmaWriteInv ==
    ASSUME ScsiAssumption, Powered, dma_write
    PROVE  Powered'
<1>1. PICK w \in Given : scsi_disk_accept_byte(disk, w)
    BY DEF dma_write
<1>2. HostInv'
    BY <1>1, AcceptInv DEF Powered, Given
<1>3. Quiet(bus, disk')
    BY DEF dma_write, Powered, Lines, Quiet
<1>4. bus' = phase_changed(bus, disk') /\ swapped' = FALSE
    BY DEF dma_write
<1>5. QED
    BY <1>2, <1>3, <1>4, HandshakeInv DEF Powered, Lines

LEMMA ResetInv ==
    ASSUME Powered, ScsiReset
    PROVE  Powered'
<1>1. disk \in Targets
    BY DEF Powered, HostInv, Sound
<1>2. /\ disk' = [scsi_clear_transfer(disk) EXCEPT !.phase = "bus_free"]
      /\ bus' = ControllerCleared /\ swapped' = FALSE /\ UNCHANGED <<disk_files, disk_unsynced>>
    BY DEF ScsiReset, ControllerClear, scsi_disk_bus_reset
<1>3. "bus_free" \in (Phases \cup {"bus_free"}) \ {"data_in"}
    OBVIOUS
<1>4. /\ disk'.image = disk.image /\ disk'.dirty = disk.dirty
      /\ disk'.phase = "bus_free" /\ \A m : Sound(disk', m)
    BY <1>1, <1>2, <1>3, InPhase
<1>5. HostInv'
    BY <1>2, <1>4, KeepsInv DEF Powered, Keeps
<1>6. QED
    BY <1>2, <1>4, <1>5, ClearedLines DEF Powered

\* Mounting or ejecting lets go of nothing that is not on stable storage.
LEMMA AttachedInv ==
    ASSUME HostInv, NEW i \in Image \cup {NoImage},
           NEW mode \in {"ro", "rw"}, DiskAttached(i, mode)
    PROVE  HostInv' /\ disk_unsynced' = {} /\ disk'.phase = "bus_free"
           /\ ~disk'.transfer_read /\ ~disk'.transfer_write /\ disk'.image = i
<1>1. disk' = [NewDisk EXCEPT !.image = i, !.image_mode = mode]
    BY DEF DiskAttached
<1>2. disk_unsynced' = {}
    BY NothingLeft DEF DiskAttached, HostInv
<1>3. disk' \in Targets
    BY <1>1, NewTarget DEF Targets
<1>4. disk'.image = i /\ disk'.phase = "bus_free"
    BY <1>1 DEF NewDisk
<1>5. ~disk'.transfer_read /\ ~disk'.transfer_write
    BY <1>1 DEF NewDisk
<1>6. Sound(disk', disk_files')
    BY <1>3, <1>4, <1>5 DEF Sound, ByteToShow, ReadInv, WriteInv
<1>7. DiskFilesOK'
    BY DEF DiskAttached, HostInv, DiskFilesOK
<1>8. QED
    BY <1>2, <1>4, <1>5, <1>6, <1>7 DEF HostInv, Kept

LEMMA FlushDiskInv ==
    ASSUME Powered, FlushScsiDisk
    PROVE  Powered' /\ disk_unsynced' = {}
<1>1. disk \in Targets /\ Sound(disk, disk_files)
    BY DEF Powered, HostInv, Sound
<1>2. disk' = [disk EXCEPT !.dirty = FALSE] /\ UNCHANGED <<disk_files, bus, swapped>>
    BY DEF FlushScsiDisk
<1>3. disk_unsynced' = {}
    BY NothingLeft DEF FlushScsiDisk, Powered, HostInv
<1>4. disk' \in Targets
    BY <1>1, <1>2 DEF Targets
<1>5. /\ disk'.image = disk.image /\ disk'.phase = disk.phase
      /\ disk'.buffer = disk.buffer /\ disk'.transfer_lba = disk.transfer_lba
      /\ disk'.buffer_offset = disk.buffer_offset
      /\ disk'.blocks_remaining = disk.blocks_remaining
    BY <1>1, <1>2 DEF Targets
<1>6. /\ disk'.transfer_read = disk.transfer_read
      /\ disk'.transfer_write = disk.transfer_write
    BY <1>1, <1>2 DEF Targets
<1>7. Sound(disk', disk_files')
    BY <1>1, <1>2, <1>4, <1>5, <1>6
    DEF Sound, ByteToShow, ReadInv, WriteInv, OnImage
<1>8. HostInv'
    BY <1>2, <1>3, <1>7 DEF Powered, HostInv, DiskFilesOK, Kept
<1>9. CurrentByte(disk') = CurrentByte(disk)
    BY <1>5 DEF CurrentByte
<1>10. QED
    BY <1>2, <1>3, <1>5, <1>8, <1>9 DEF Powered, Shows, Quiet, Lines

\* IInv is inductive.
LEMMA TargetNextInv ==
    ASSUME ScsiAssumption, TargetInv, [ScsiNext]_scsivars
    PROVE  TargetInv'
<1>1. CASE UNCHANGED scsivars
    BY <1>1 DEF scsivars, TargetInv, DiskFilesOK, Kept
<1>2. CASE ScsiNext
    <2>1. disk_power /\ Powered
        BY <1>2 DEF ScsiNext, TargetInv, Powered, HostInv
    <2>2. ASSUME Powered', disk_power' = disk_power PROVE TargetInv'
        BY <2>1, <2>2 DEF TargetInv, Powered, HostInv
    <2>3. ASSUME NEW i \in Image \cup {NoImage}, NEW mode \in {"ro", "rw"},
                 DiskAttached(i, mode), swapped' = TRUE /\ bus' = bus
          PROVE  Powered'
        BY <2>1, <2>3, AttachedInv DEF Powered, Quiet
    <2>4. ASSUME EjectScsiRom PROVE Powered'
        BY <2>1, <2>4, AttachedInv, ClearedLines DEF EjectScsiRom, Powered
    <2>5. ASSUME EjectScsiDisk PROVE Powered'
        BY <2>3, <2>5 DEF EjectScsiDisk
    <2>6. ASSUME MountScsiDisk PROVE Powered'
        BY <2>3, <2>6 DEF MountScsiDisk
    <2>7. ASSUME ScsiGuest PROVE Powered'
        BY <2>1, <2>7, SelectInv, SelectionReleasedInv, AckAssertInv,
           AckReleaseInv, ModeWriteInv, WriteTargetCommandInv, StartDmaInv,
           DmaReadInv, DmaWriteInv DEF ScsiGuest
    <2>8. CASE ScsiDestroy
        <3>1. /\ disk' = NewDisk /\ bus' = ControllerCleared /\ ~disk_power'
              /\ swapped' = FALSE /\ UNCHANGED <<disk_files, disk_unsynced>>
            BY <2>8 DEF ScsiDestroy
        <3>2. /\ NewDisk.phase = "bus_free" /\ ~NewDisk.transfer_read
              /\ ~NewDisk.transfer_write
            BY DEF NewDisk
        <3>3. Sound(NewDisk, disk_files)
            BY <3>2, NewTarget DEF Sound, ByteToShow, ReadInv, WriteInv
        <3>4. disk_power' \in BOOLEAN
            BY <2>8 DEF ScsiDestroy
        <3>5. DiskFilesOK' /\ disk_unsynced' \subseteq Image \X Nat
            BY <3>1 DEF TargetInv, DiskFilesOK
        <3>6. QED
            BY <3>1, <3>2, <3>3, <3>4, <3>5, ClearedLines DEF TargetInv
    <2>9. QED
        BY <1>2, <2>1, <2>2, <2>4, <2>5, <2>6, <2>7, <2>8, ResetInv,
           FlushDiskInv DEF ScsiNext, ScsiUser
<1>3. QED
    BY <1>1, <1>2

LEMMA TargetInitInv ==
    ASSUME ScsiInit
    PROVE  TargetInv
<1>1. /\ NewDisk.phase = "bus_free" /\ ~NewDisk.transfer_read
      /\ ~NewDisk.transfer_write
    BY DEF NewDisk
<1>2. Sound(disk, disk_files)
    BY <1>1, NewTarget DEF Sound, ByteToShow, ReadInv, WriteInv, ScsiInit, TargetInit
<1>3. QED
    BY <1>1, <1>2, ClearedLines DEF ScsiInit, TargetInit, TargetInv, Kept

\* The invariant: the target is sound, the lines of the bus consistent, the
\* controller shows the target unless the user changed the disk under it,
\* and every unsynced change belongs to the mounted, dirty image.
THEOREM TargetInvariant ==
    ASSUME ScsiAssumption
    PROVE  ScsiSpec => []TargetInv
<1>1. ScsiInit => TargetInv
    BY TargetInitInv
<1>2. TargetInv /\ [ScsiNext]_scsivars => TargetInv'
    BY TargetNextInv
<1>3. QED
    BY <1>1, <1>2, PTL DEF ScsiSpec

\* The controller can always go on, and shows the target's phase and byte.
THEOREM InStep ==
    ASSUME ScsiAssumption
    PROVE  ScsiSpec => []BusInStep
<1>1. TargetInv => BusInStep
    BY DEF TargetInv, Sound, ReadInv, Lines, Shows, BusInStep
<1>2. QED
    BY <1>1, TargetInvariant, PTL

\* No change on an image is forgotten before the shutdown.
THEOREM TargetForgetsNothing ==
    ASSUME ScsiAssumption
    PROVE  ScsiSpec => []DiskChangesKept
<1>1. TargetInv => DiskChangesKept
    BY DEF TargetInv, Kept, DiskChangesKept
<1>2. QED
    BY <1>1, TargetInvariant, PTL

---------------------------------------------------------------------------
(* The refinement.                                                         *)

AbstractStep == PlainDisk!Next \/ UNCHANGED PlainDisk!dvars

JobOf(d) ==
    IF d.transfer_write
    THEN [kind |-> "write", lba |-> d.transfer_lba,
          left |-> d.blocks_remaining, given |-> Len(d.buffer),
          words |-> d.buffer]
    ELSE IF d.transfer_read
    THEN [kind |-> "read", lba |-> d.transfer_lba,
          left |-> d.blocks_remaining, given |-> d.buffer_offset,
          words |-> <<>>]
    ELSE [kind |-> "none", lba |-> 0, left |-> 0, given |-> 0, words |-> <<>>]

LEMMA JobHere == TargetJob = JobOf(disk)
BY DEF TargetJob, JobOf

LEMMA JobThere == TargetJob' = JobOf(disk')
BY DEF TargetJob, JobOf

LEMMA NoWords == <<>> = [k \in 1..0 |-> 0]
<1>1. [k \in 1..0 |-> 0] \in Seq({0}) /\ Len([k \in 1..0 |-> 0]) = 0
    OBVIOUS
<1>2. QED
    BY <1>1

LEMMA NoJobOf ==
    ASSUME NEW d, ~d.transfer_read, ~d.transfer_write
    PROVE  JobOf(d) = PlainDisk!NoJob
BY NoWords DEF JobOf, PlainDisk!NoJob

\* A transfer that has just begun, or is at a new block.
LEMMA FreshJob ==
    ASSUME NEW d, Fresh(d), d.transfer_read => ~d.transfer_write
    PROVE  /\ d.transfer_write =>
                 JobOf(d) = PlainDisk!SectorStart("write", d.transfer_lba,
                                                 d.blocks_remaining)
           /\ d.transfer_read =>
                 JobOf(d) = PlainDisk!SectorStart("read", d.transfer_lba,
                                                 d.blocks_remaining)
BY NoWords DEF Fresh, JobOf, PlainDisk!SectorStart, PlainDisk!Job

\* A transfer is given up, or none is begun, and what was changed before may
\* reach stable storage with it.
LEMMA DropStep ==
    ASSUME ~disk'.transfer_read, ~disk'.transfer_write,
           disk'.image = disk.image, disk_files' = disk_files,
           disk_unsynced' \in {disk_unsynced, {}}
    PROVE  AbstractStep
<1>1. TargetJob' = PlainDisk!NoJob
    BY JobThere, NoJobOf
<1>2. PlainDisk!Drop \/ PlainDisk!DropAndSync
    BY <1>1 DEF PlainDisk!Drop, PlainDisk!DropAndSync
<1>3. QED
    BY <1>2 DEF AbstractStep, PlainDisk!Next

LEMMA BeginStep ==
    ASSUME ScsiAssumption, Sound(disk', disk_files'), Fresh(disk'),
           disk'.image = disk.image, disk_files' = disk_files, disk_unsynced' = disk_unsynced,
           disk'.transfer_read \/ disk'.transfer_write
    PROVE  AbstractStep
<1> DEFINE kind == IF disk'.transfer_write THEN "write" ELSE "read"
           l == disk'.transfer_lba
           n == disk'.blocks_remaining
<1>1. /\ disk.image \in Image /\ n > 0 /\ l + n <= Size[disk.image]
      /\ l \in Nat /\ n \in Nat /\ (disk'.transfer_read => ~disk'.transfer_write)
    BY DEF Sound, ReadInv, WriteInv, OnImage, Targets
<1>2. TargetJob' = PlainDisk!SectorStart(kind, l, n)
    BY <1>1, JobThere, FreshJob
<1>3. PlainDisk!Begin(kind, l, n)
    BY <1>1, <1>2 DEF PlainDisk!Begin
<1>4. /\ disk.image # NoImage /\ l \in 0..Size[disk.image]
      /\ n \in 1..Size[disk.image] /\ kind \in {"read", "write"}
    BY <1>1, TargetConstants
<1> HIDE DEF kind, l, n
<1>5. QED
    BY <1>3, <1>4 DEF AbstractStep, PlainDisk!Next

\* Nothing the plain disk knows of has changed.
LEMMA StutterStep ==
    ASSUME JobOf(disk') = JobOf(disk), disk'.image = disk.image,
           UNCHANGED <<disk_files, disk_unsynced>>
    PROVE  AbstractStep
BY JobHere, JobThere DEF AbstractStep, PlainDisk!dvars

\* The bytes given so far and the new one are the front of a sector.
LEMMA GivenWords ==
    ASSUME disk.transfer_write, disk.buffer \in Seq(Word), NEW w \in Word
    PROVE  /\ TargetJob.kind = "write" /\ TargetJob.lba = disk.transfer_lba
           /\ TargetJob.left = disk.blocks_remaining
           /\ TargetJob.given = Len(disk.buffer)
           /\ PlainDisk!Given(w) = Append(disk.buffer, w)
<1> DEFINE s == disk.buffer
           n == Len(disk.buffer)
           given == [k \in 1..(n + 1) |-> IF k <= n THEN s[k] ELSE w]
<1>1. TargetJob = [kind |-> "write", lba |-> disk.transfer_lba,
          left |-> disk.blocks_remaining, given |-> n, words |-> s]
    BY JobHere DEF JobOf
<1>2. PlainDisk!Given(w) = given
    BY <1>1 DEF PlainDisk!Given
<1>3. n \in Nat /\ \A k \in 1..n : s[k] \in Word
    OBVIOUS
<1>4. given \in Seq(Word) /\ Len(given) = n + 1
    BY <1>3
<1>5. Append(s, w) \in Seq(Word) /\ Len(Append(s, w)) = n + 1
    BY <1>3
<1>6. \A k \in 1..(n + 1) : given[k] = Append(s, w)[k]
    BY <1>3
<1>7. given = Append(s, w)
    BY <1>4, <1>5, <1>6, SeqEqual
<1>8. QED
    BY <1>1, <1>2, <1>7

LEMMA StoreBlockStep ==
    ASSUME ScsiAssumption, HostInv, disk.transfer_write, NEW w \in Word,
           Len(disk.buffer) + 1 = SectorWords,
           StoreBlock(disk, Append(disk.buffer, w))
    PROVE  AbstractStep
<1> DEFINE block == Append(disk.buffer, w)
<1>1. PICK k \in 0..SectorWords :
         /\ disk_files' = Stored(disk, block, k)
         /\ disk_unsynced' = IF k = 0 THEN disk_unsynced
                             ELSE disk_unsynced \cup {<<disk.image, disk.transfer_lba>>}
         /\ disk' = IF k = SectorWords THEN NextBlock(disk)
                    ELSE scsi_status([disk EXCEPT !.dirty = @ \/ k > 0])
    BY DEF StoreBlock, Stored
<1>2. /\ disk \in Targets /\ Sound(disk, disk_files) /\ OnImage(disk)
      /\ disk.buffer \in Seq(Word) /\ disk.transfer_lba \in Nat
    BY DEF HostInv, Sound, WriteInv, Targets
<1>3. /\ TargetJob.kind = "write" /\ TargetJob.lba = disk.transfer_lba
      /\ TargetJob.left = disk.blocks_remaining
      /\ TargetJob.given = Len(disk.buffer) /\ PlainDisk!Given(w) = block
    BY <1>2, GivenWords
<1>4. block \in Seq(Word) /\ Len(block) = SectorWords
    BY <1>2
<1>5. disk'.image = disk.image
    BY <1>4, StoreBlockInv
<1> HIDE DEF block
<1>6. CASE k = SectorWords
    <2>1. /\ Fresh(disk') /\ ~disk'.transfer_read
          /\ disk.blocks_remaining = 1 => ~disk'.transfer_write
          /\ disk.blocks_remaining # 1 =>
                /\ disk'.transfer_write
                /\ disk'.transfer_lba = disk.transfer_lba + 1
                /\ disk'.blocks_remaining = disk.blocks_remaining - 1
        BY <1>1, <1>2, <1>6, NextBlockSound
    <2>2. TargetJob' = PlainDisk!NextSector
        <3>1. CASE disk.blocks_remaining = 1
            BY <1>3, <2>1, <3>1, JobThere, NoJobOf DEF PlainDisk!NextSector
        <3>2. CASE disk.blocks_remaining # 1
            <4>1. JobOf(disk') = PlainDisk!SectorStart("write",
                     disk.transfer_lba + 1, disk.blocks_remaining - 1)
                BY <2>1, <3>2, FreshJob
            <4>2. QED
                BY <1>3, <3>2, <4>1, JobThere DEF PlainDisk!NextSector
        <3>3. QED
            BY <3>1, <3>2
    <2>3. \A old : [j \in 1..SectorWords |->
                       IF j <= k THEN block[j] ELSE old[j]] = block
        <3> SUFFICES ASSUME NEW old
                     PROVE  [j \in 1..SectorWords |->
                                IF j <= k THEN block[j] ELSE old[j]] = block
            OBVIOUS
        <3>1. \A j \in 1..SectorWords : j <= k
            BY <1>6, TargetConstants
        <3>2. block = [j \in 1..SectorWords |-> block[j]]
            BY <1>4
        <3>3. QED
            BY <3>1, <3>2
    <2>4. disk_files' = [disk_files EXCEPT ![disk.image][disk.transfer_lba] = block]
        BY <1>1, <2>3 DEF Stored
    <2>5. disk_unsynced' = disk_unsynced \cup {<<disk.image, disk.transfer_lba>>}
        BY <1>1, <1>6, TargetConstants
    <2>6. PlainDisk!PutLast(w)
        BY <1>3, <1>5, <2>2, <2>4, <2>5 DEF PlainDisk!PutLast
    <2>7. QED
        BY <2>6 DEF AbstractStep, PlainDisk!Next
<1>7. CASE k # SectorWords
    <2> DEFINE t == [disk EXCEPT !.dirty = @ \/ k > 0]
    <2>1. t \in Targets
        BY <1>2 DEF Targets
    <2>2. disk' = scsi_status(t)
        BY <1>1, <1>7
    <2> HIDE DEF t
    <2>3. TargetJob' = PlainDisk!NoJob
        BY <2>1, <2>2, StatusTarget, JobThere, NoJobOf
    <2>4. disk_files' = [disk_files EXCEPT ![disk.image][TargetJob.lba] =
                     [j \in 1..SectorWords |->
                         IF j <= k THEN PlainDisk!Given(w)[j] ELSE @[j]]]
        BY <1>1, <1>3 DEF Stored
    <2>5. k \in 0..(SectorWords - 1)
        BY <1>7, TargetConstants
    <2>6. PlainDisk!PutFails(w, k)
        BY <1>1, <1>3, <1>5, <2>3, <2>4 DEF PlainDisk!PutFails
    <2>7. QED
        BY <2>5, <2>6 DEF AbstractStep, PlainDisk!Next
<1>8. QED
    BY <1>6, <1>7

LEMMA AcceptDataStep ==
    ASSUME ScsiAssumption, HostInv, NEW w \in Word, disk.phase = "data_out",
           AcceptData(disk, w)
    PROVE  AbstractStep
<1>1. disk \in Targets /\ Sound(disk, disk_files)
    BY DEF HostInv, Sound
<1>2. CASE ~disk.transfer_write
    <2>1. UNCHANGED <<disk_files, disk_unsynced>>
        BY <1>2 DEF AcceptData
    <2>2. CASE disk' = disk
        BY <2>1, <2>2, StutterStep
    <2>3. CASE disk' = scsi_status(disk)
        BY <1>1, <2>1, <2>3, StatusTarget, DropStep
    <2>4. QED
        BY <1>2, <2>2, <2>3 DEF AcceptData
<1>3. CASE disk.transfer_write /\ Len(disk.buffer) + 1 < SectorWords
    <2>1. /\ disk' = [disk EXCEPT !.buffer = Append(@, w)]
          /\ UNCHANGED <<disk_files, disk_unsynced>>
        BY <1>3 DEF AcceptData
    <2>2. disk.buffer \in Seq(Word)
        BY <1>1, <1>3 DEF Sound, WriteInv
    <2>3. /\ disk'.image = disk.image /\ disk'.transfer_write
          /\ disk'.transfer_lba = disk.transfer_lba
          /\ disk'.blocks_remaining = disk.blocks_remaining
          /\ disk'.buffer = Append(disk.buffer, w)
        BY <1>1, <1>3, <2>1, AppendedSound
    <2>4. Len(Append(disk.buffer, w)) = Len(disk.buffer) + 1
        BY <2>2
    <2>5. TargetJob' = PlainDisk!Job("write", disk.transfer_lba,
              disk.blocks_remaining, Len(disk.buffer) + 1,
              Append(disk.buffer, w))
        BY <2>3, <2>4, JobThere DEF JobOf, PlainDisk!Job
    <2>6. PlainDisk!Put(w)
        BY <1>3, <2>1, <2>2, <2>3, <2>5, GivenWords DEF PlainDisk!Put
    <2>7. QED
        BY <2>6 DEF AbstractStep, PlainDisk!Next
<1>4. CASE disk.transfer_write /\ ~(Len(disk.buffer) + 1 < SectorWords)
    <2>1. disk.buffer \in Seq(Word) /\ Len(disk.buffer) < SectorWords
        BY <1>1, <1>4 DEF Sound, WriteInv
    <2>2. Len(disk.buffer) + 1 = SectorWords
        BY <1>4, <2>1, TargetConstants
    <2>3. StoreBlock(disk, Append(disk.buffer, w))
        BY <1>4 DEF AcceptData
    <2>4. QED
        BY <1>4, <2>2, <2>3, StoreBlockStep
<1>5. QED
    BY <1>2, <1>3, <1>4

LEMMA AcceptStep ==
    ASSUME ScsiAssumption, HostInv, NEW w \in Word,
           scsi_disk_accept_byte(disk, w)
    PROVE  AbstractStep
<1>1. disk \in Targets /\ Sound(disk, disk_files)
    BY DEF HostInv, Sound
<1>2. ASSUME disk.phase \in {"message_out", "command"}
      PROVE  ~disk.transfer_read /\ ~disk.transfer_write
    BY <1>1, <1>2 DEF Sound, ReadInv, WriteInv
<1>3. CASE disk.phase = "message_out"
    <2>1. /\ disk' = [disk EXCEPT !.phase = "command"]
          /\ UNCHANGED <<disk_files, disk_unsynced>>
        BY <1>3 DEF scsi_disk_accept_byte
    <2>2. disk'.image = disk.image
        BY <1>1, <2>1 DEF Targets
    <2>3. ~disk'.transfer_read /\ ~disk'.transfer_write
        BY <1>1, <1>2, <1>3, <2>1 DEF Targets
    <2>4. QED
        BY <2>1, <2>2, <2>3, DropStep
<1>4. CASE disk.phase = "command" /\ disk.cdb = "none"
    <2>1. PICK operation \in Operations :
             disk' = [disk EXCEPT !.cdb = operation]
        BY <1>4 DEF scsi_disk_accept_byte, AcceptCommand
    <2>2. UNCHANGED <<disk_files, disk_unsynced>>
        BY <1>4 DEF scsi_disk_accept_byte, AcceptCommand
    <2>3. disk'.image = disk.image
        BY <1>1, <2>1 DEF Targets
    <2>4. ~disk'.transfer_read /\ ~disk'.transfer_write
        BY <1>1, <1>2, <1>4, <2>1 DEF Targets
    <2>5. QED
        BY <2>2, <2>3, <2>4, DropStep
<1>5. CASE disk.phase = "command" /\ disk.cdb # "none"
    <2>1. scsi_execute(disk)
        BY <1>5 DEF scsi_disk_accept_byte, AcceptCommand
    <2>2. /\ HostInv' /\ disk'.image = disk.image /\ Fresh(disk')
          /\ disk_files' = disk_files /\ disk_unsynced' \in {disk_unsynced, {}}
          /\ disk_unsynced' # disk_unsynced => ~disk'.transfer_read
                                               /\ ~disk'.transfer_write
        BY <2>1, ExecuteInv
    <2>3. Sound(disk', disk_files')
        BY <2>2 DEF HostInv
    <2>4. CASE ~disk'.transfer_read /\ ~disk'.transfer_write
        BY <2>2, <2>4, DropStep
    <2>5. CASE disk'.transfer_read \/ disk'.transfer_write
        BY <2>2, <2>3, <2>5, BeginStep
    <2>6. QED
        BY <2>4, <2>5
<1>6. CASE disk.phase = "data_out"
    BY <1>6, AcceptDataStep DEF scsi_disk_accept_byte
<1>7. CASE disk.phase \notin {"message_out", "command", "data_out"}
    BY <1>7, StutterStep DEF scsi_disk_accept_byte
<1>8. QED
    BY <1>3, <1>4, <1>5, <1>6, <1>7

\* A read under way: the job, and a block that is a whole sector.
LEMMA ReadJob ==
    ASSUME ScsiAssumption, DiskFilesOK, disk \in Targets, Sound(disk, disk_files),
           disk.transfer_read
    PROVE  /\ TargetJob.kind = "read" /\ TargetJob.lba = disk.transfer_lba
           /\ TargetJob.left = disk.blocks_remaining
           /\ TargetJob.given = disk.buffer_offset
           /\ TargetJob.words = <<>> /\ Len(disk.buffer) = SectorWords
           /\ disk.phase = "data_in"
<1>1. /\ OnImage(disk) /\ ~disk.transfer_write /\ disk.phase = "data_in"
      /\ disk.buffer = disk_files[disk.image][disk.transfer_lba]
    BY DEF Sound, ReadInv
<1>2. TargetJob = [kind |-> "read", lba |-> disk.transfer_lba,
          left |-> disk.blocks_remaining, given |-> disk.buffer_offset,
          words |-> <<>>]
    BY <1>1, JobHere DEF JobOf
<1>3. /\ disk.image \in Image /\ disk.transfer_lba \in Nat
      /\ disk.transfer_lba < Size[disk.image]
    BY <1>1, TargetConstants DEF OnImage, Targets
<1>4. Len(disk.buffer) = SectorWords
    BY <1>1, <1>3, DiskSector
<1>5. QED
    BY <1>1, <1>2, <1>4

LEMMA NextByteStep ==
    ASSUME ScsiAssumption, HostInv, disk.phase = "data_in",
           disk.buffer_offset + 1 < Len(disk.buffer),
           disk' = [disk EXCEPT !.buffer_offset = @ + 1],
           UNCHANGED <<disk_files, disk_unsynced>>
    PROVE  AbstractStep
<1>1. disk \in Targets /\ Sound(disk, disk_files) /\ DiskFilesOK
    BY DEF HostInv, Sound
<1>2. /\ disk'.image = disk.image /\ ~disk'.transfer_write
      /\ disk'.transfer_read = disk.transfer_read
      /\ disk'.transfer_lba = disk.transfer_lba
      /\ disk'.blocks_remaining = disk.blocks_remaining
      /\ disk'.buffer_offset = disk.buffer_offset + 1
    BY <1>1, NextByteKeeps DEF Keeps
<1>3. CASE disk.transfer_read
    <2>1. /\ TargetJob.kind = "read" /\ TargetJob.lba = disk.transfer_lba
          /\ TargetJob.left = disk.blocks_remaining
          /\ TargetJob.given = disk.buffer_offset
          /\ TargetJob.words = <<>> /\ Len(disk.buffer) = SectorWords
        BY <1>1, <1>3, ReadJob
    <2>2. TargetJob' = PlainDisk!Job("read", disk.transfer_lba,
              disk.blocks_remaining, disk.buffer_offset + 1, <<>>)
        BY <1>2, <1>3, JobThere DEF JobOf, PlainDisk!Job
    <2>3. PlainDisk!Get
        BY <1>2, <2>1, <2>2 DEF PlainDisk!Get
    <2>4. QED
        BY <2>3 DEF AbstractStep, PlainDisk!Next
<1>4. CASE ~disk.transfer_read
    BY <1>2, <1>4, DropStep
<1>5. QED
    BY <1>3, <1>4

LEMMA NextLoadedStep ==
    ASSUME ScsiAssumption, HostInv, disk.phase = "data_in",
           ~(disk.buffer_offset + 1 < Len(disk.buffer)), NEW r,
           disk' = NextLoaded(disk, r), UNCHANGED <<disk_files, disk_unsynced>>
    PROVE  AbstractStep
<1>1. disk \in Targets /\ Sound(disk, disk_files) /\ DiskFilesOK
    BY DEF HostInv, Sound
<1>2. ASSUME NEW t \in Targets, t.image = disk.image, disk' = scsi_status(t)
      PROVE  AbstractStep
    BY <1>2, StatusTarget, DropStep
<1>3. CASE ~(disk.transfer_read /\ disk.blocks_remaining > 1)
    BY <1>1, <1>2, <1>3 DEF NextLoaded
<1>4. CASE disk.transfer_read /\ disk.blocks_remaining > 1
    <2> DEFINE t == NextOf(disk)
    <2>1. /\ t \in Targets /\ OnImage(t) /\ t.phase = "data_in"
          /\ ~t.transfer_write /\ t.transfer_read
          /\ t.image = disk.image
          /\ t.transfer_lba = disk.transfer_lba + 1
          /\ t.blocks_remaining = disk.blocks_remaining - 1
        BY <1>1, <1>4, NextOfRead
    <2>2. disk' = scsi_load_sector(t, t.transfer_lba, r)
        BY <1>4, <2>1 DEF NextLoaded, NextOf
    <2> HIDE DEF t
    <2>3. CASE r # "ok"
        BY <1>2, <2>1, <2>2, <2>3 DEF scsi_load_sector
    <2>4. CASE r = "ok"
        <3> DEFINE block == disk_files[t.image][t.transfer_lba]
        <3>1. Keeps(disk', t) /\ Fresh(disk')
            BY <1>1, <2>1, <2>2, LoadKeeps
        <3>2. disk' = [t EXCEPT !.buffer = block, !.buffer_offset = 0]
            BY <2>2, <2>4 DEF scsi_load_sector
        <3> HIDE DEF block
        <3>3. /\ disk'.image = disk.image /\ disk'.transfer_lba = t.transfer_lba
              /\ disk'.blocks_remaining = t.blocks_remaining
            BY <2>1, <3>2 DEF Targets
        <3>4. disk'.transfer_read /\ ~disk'.transfer_write
            BY <2>1, <3>2 DEF Targets
        <3>5. TargetJob' = PlainDisk!SectorStart("read",
                  disk.transfer_lba + 1, disk.blocks_remaining - 1)
            BY <2>1, <3>1, <3>3, <3>4, JobThere, FreshJob
        <3>6. /\ TargetJob.kind = "read" /\ TargetJob.lba = disk.transfer_lba
              /\ TargetJob.left = disk.blocks_remaining
              /\ TargetJob.given = disk.buffer_offset
              /\ Len(disk.buffer) = SectorWords
            BY <1>1, <1>4, ReadJob
        <3>7. TargetJob' = PlainDisk!NextSector
            BY <1>4, <3>5, <3>6 DEF PlainDisk!NextSector, Targets
        <3>8. PlainDisk!Get
            BY <3>3, <3>6, <3>7 DEF PlainDisk!Get
        <3>9. QED
            BY <3>8 DEF AbstractStep, PlainDisk!Next
    <2>5. QED
        BY <2>3, <2>4
<1>5. QED
    BY <1>3, <1>4

LEMMA AdvanceStep ==
    ASSUME ScsiAssumption, HostInv, NEW r,
           disk' = scsi_disk_advance_byte(disk, r),
           UNCHANGED <<disk_files, disk_unsynced>>
    PROVE  AbstractStep
<1>1. disk \in Targets /\ Sound(disk, disk_files)
    BY DEF HostInv, Sound
<1>2. CASE disk.phase = "data_in" /\ disk.buffer_offset + 1 < Len(disk.buffer)
    <2>1. ~(disk.buffer_offset + 1 >= Len(disk.buffer))
        BY <1>1, <1>2 DEF Targets
    <2>2. disk' = [disk EXCEPT !.buffer_offset = @ + 1]
        BY <1>2, <2>1 DEF scsi_disk_advance_byte
    <2>3. QED
        BY <1>2, <2>2, NextByteStep
<1>3. CASE /\ disk.phase = "data_in"
           /\ ~(disk.buffer_offset + 1 < Len(disk.buffer))
    <2>1. disk.buffer_offset + 1 >= Len(disk.buffer)
        BY <1>1, <1>3 DEF Targets
    <2>2. disk' = NextLoaded(disk, r)
        BY <1>3, <2>1 DEF scsi_disk_advance_byte
    <2>3. QED
        BY <1>3, <2>2, NextLoadedStep
<1>4. ASSUME disk.phase \in {"status", "message_in"},
             NEW phase \in {"message_in", "bus_free"},
             disk' = [disk EXCEPT !.phase = phase]
      PROVE  AbstractStep
    BY <1>1, <1>4, NextPhaseKeeps, DropStep DEF Keeps
<1>5. CASE disk.phase = "status"
    <2>1. disk' = [disk EXCEPT !.phase = "message_in"]
        BY <1>5 DEF scsi_disk_advance_byte
    <2>2. QED
        BY <1>4, <1>5, <2>1
<1>6. CASE disk.phase = "message_in"
    <2>1. disk' = [disk EXCEPT !.phase = "bus_free"]
        BY <1>6 DEF scsi_disk_advance_byte
    <2>2. QED
        BY <1>4, <1>6, <2>1
<1>7. CASE disk.phase \notin {"data_in", "status", "message_in"}
    BY <1>7, StutterStep DEF scsi_disk_advance_byte
<1>8. QED
    BY <1>2, <1>3, <1>5, <1>6, <1>7

LEMMA TargetGuestStep ==
    ASSUME ScsiAssumption, Powered, ScsiGuest
    PROVE  AbstractStep
<1>0. HostInv /\ disk \in Targets
    BY DEF Powered, HostInv, Sound
<1>1. ASSUME UNCHANGED <<disk_files, disk_unsynced, disk>> PROVE AbstractStep
    BY <1>1, StutterStep
<1>2. ASSUME NEW w \in Given, scsi_disk_accept_byte(disk, w)
      PROVE  AbstractStep
    BY <1>0, <1>2, AcceptStep DEF Given
<1>3. CASE Select
    <2>1. UNCHANGED <<disk_files, disk_unsynced>>
        BY <1>3 DEF Select
    <2>2. CASE UNCHANGED disk
        BY <1>1, <2>1, <2>2
    <2>3. ASSUME NEW attention \in BOOLEAN,
                 disk' = scsi_disk_select(disk, attention)
          PROVE  AbstractStep
        <3> DEFINE phase == IF attention THEN "message_out" ELSE "command"
        <3>1. disk' = [scsi_clear_transfer(disk) EXCEPT !.phase = phase]
            BY <2>3 DEF scsi_disk_select
        <3>2. phase \in (Phases \cup {"bus_free"}) \ {"data_in"}
            BY DEF Phases, Outputs
        <3> HIDE DEF phase
        <3>3. QED
            BY <1>0, <2>1, <3>1, <3>2, InPhase, DropStep
    <2>4. QED
        BY <1>3, <2>2, <2>3 DEF Select
<1>4. CASE selection_released \/ mode_write \/ WriteTargetCommand \/ start_dma
    BY <1>1, <1>4 DEF selection_released, mode_write, WriteTargetCommand,
       start_dma
<1>5. CASE programmed_ack_assert
    BY <1>1, <1>2, <1>5 DEF programmed_ack_assert
<1>6. CASE programmed_ack_release
    <2>1. UNCHANGED <<disk_files, disk_unsynced>>
        BY <1>6 DEF programmed_ack_release
    <2>2. PICK r : disk' = IF bus.pending_input_advance
                           THEN scsi_disk_advance_byte(disk, r) ELSE disk
        BY <1>6 DEF programmed_ack_release
    <2>3. QED
        BY <1>0, <1>1, <2>1, <2>2, AdvanceStep
<1>7. CASE dma_read
    BY <1>0, <1>7, AdvanceStep DEF dma_read
<1>8. CASE dma_write
    BY <1>2, <1>8 DEF dma_write
<1>9. QED
    BY <1>3, <1>4, <1>5, <1>6, <1>7, <1>8 DEF ScsiGuest

LEMMA TargetUserStep ==
    ASSUME Powered, ScsiUser
    PROVE  AbstractStep
<1>0. HostInv /\ disk \in Targets
    BY DEF Powered, HostInv, Sound
<1>1. ASSUME NEW i \in Image \cup {NoImage}, NEW mode \in {"ro", "rw"},
             DiskAttached(i, mode)
      PROVE  AbstractStep
    <2>1. /\ disk_unsynced' = {} /\ ~disk'.transfer_read /\ ~disk'.transfer_write
          /\ disk'.image = i /\ disk_files' = disk_files
        BY <1>0, <1>1, AttachedInv DEF DiskAttached
    <2>2. PlainDisk!Change(i)
        BY <2>1, JobThere, NoJobOf DEF PlainDisk!Change
    <2>3. QED
        BY <2>2 DEF AbstractStep, PlainDisk!Next
<1>2. CASE ScsiReset
    <2>1. disk' = [scsi_clear_transfer(disk) EXCEPT !.phase = "bus_free"]
        BY <1>2 DEF ScsiReset, ControllerClear, scsi_disk_bus_reset
    <2>2. "bus_free" \in (Phases \cup {"bus_free"}) \ {"data_in"}
        OBVIOUS
    <2>3. QED
        BY <1>0, <1>2, <2>1, <2>2, InPhase, DropStep DEF ScsiReset
<1>3. CASE EjectScsiDisk \/ EjectScsiRom
    BY <1>1, <1>3 DEF EjectScsiDisk, EjectScsiRom
<1>4. CASE MountScsiDisk
    BY <1>1, <1>4 DEF MountScsiDisk
<1>5. CASE FlushScsiDisk
    <2>1. disk_unsynced' = {}
        BY <1>5, FlushDiskInv
    <2>2. disk' = [disk EXCEPT !.dirty = FALSE] /\ disk_files' = disk_files
        BY <1>5 DEF FlushScsiDisk
    <2>3. JobOf(disk') = JobOf(disk) /\ disk'.image = disk.image
        BY <1>0, <2>2 DEF JobOf, Targets
    <2>4. PlainDisk!Sync
        BY <2>1, <2>2, <2>3, JobHere, JobThere DEF PlainDisk!Sync
    <2>5. QED
        BY <2>4 DEF AbstractStep, PlainDisk!Next
<1>6. QED
    BY <1>2, <1>3, <1>4, <1>5 DEF ScsiUser

LEMMA TargetDestroyStep ==
    ASSUME ScsiDestroy
    PROVE  AbstractStep
<1>1. /\ disk' = NewDisk /\ UNCHANGED <<disk_files, disk_unsynced>>
    BY DEF ScsiDestroy
<1>2. /\ disk'.image = NoImage /\ ~disk'.transfer_read
      /\ ~disk'.transfer_write
    BY <1>1 DEF NewDisk
<1>3. PlainDisk!PowerOff
    BY <1>1, <1>2, JobThere, NoJobOf DEF PlainDisk!PowerOff
<1>4. QED
    BY <1>3 DEF AbstractStep, PlainDisk!Next

\* Through phases, handshakes, DMA, resets, failing host calls and disks
\* changed in mid-transfer the target implements the plain disk.
THEOREM TargetRefinement ==
    ASSUME ScsiAssumption
    PROVE  ScsiSpec => ScsiImplementsDisk
<1>1. ScsiInit => PlainDisk!Init
    <2> SUFFICES ASSUME ScsiInit PROVE PlainDisk!Init
        OBVIOUS
    <2>1. disk = NewDisk /\ disk_unsynced = {} /\ DiskFilesOK
        BY DEF ScsiInit, TargetInit
    <2>2. /\ disk.image = NoImage /\ ~disk.transfer_read
          /\ ~disk.transfer_write
        BY <2>1 DEF NewDisk
    <2>3. TargetJob = PlainDisk!NoJob
        BY <2>2, JobHere, NoJobOf
    <2>4. QED
        BY <2>1, <2>2, <2>3 DEF PlainDisk!Init, DiskFilesOK, Sector
<1>2. TargetInv /\ [ScsiNext]_scsivars => [PlainDisk!Next]_PlainDisk!dvars
    <2> SUFFICES ASSUME TargetInv, [ScsiNext]_scsivars PROVE AbstractStep
        BY DEF AbstractStep
    <2>1. CASE UNCHANGED scsivars
        BY <2>1, StutterStep DEF scsivars
    <2>2. CASE ScsiNext
        <3>1. Powered
            BY <2>2 DEF ScsiNext, TargetInv, Powered, HostInv
        <3>2. QED
            BY <2>2, <3>1, TargetGuestStep, TargetUserStep, TargetDestroyStep DEF ScsiNext
    <2>3. QED
        BY <2>1, <2>2
<1>3. QED
    BY <1>1, <1>2, TargetInvariant, PTL DEF ScsiSpec, ScsiImplementsDisk, PlainDisk!Spec
=============================================================================
