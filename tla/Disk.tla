-------------------------------- MODULE Disk --------------------------------
(***************************************************************************)
(* What a raw hard-disk image is promised by the interface in front of it: *)
(* a guest reads whole sectors as they are, a sector changes only when its *)
(* last word has arrived and then to exactly the words that were given,    *)
(* and an image is never let go of with a change that did not reach stable *)
(* storage.  There are no registers, no status and no buffer here;         *)
(* Sunrise implements it.                                                  *)
(***************************************************************************)
EXTENDS Naturals

CONSTANTS Image, NoImage, Size, SectorWords, Word

VARIABLES
    inserted,       \* the image in the drive
    medium,         \* the sectors of every image, as a reader finds them
    unsynced,       \* <<image, sector>> changed since the last good sync
    job             \* the transfer in progress

dvars == <<inserted, medium, unsynced, job>>

NoJob == [kind |-> "none", lba |-> 0, left |-> 0, given |-> 0,
          words |-> [k \in 1..0 |-> 0]]
Job(kind, lba, left, given, words) ==
    [kind |-> kind, lba |-> lba, left |-> left, given |-> given,
     words |-> words]
SectorStart(kind, lba, left) == Job(kind, lba, left, 0, [k \in 1..0 |-> 0])
NextSector == IF job.left = 1 THEN NoJob
              ELSE SectorStart(job.kind, job.lba + 1, job.left - 1)

Init ==
    /\ inserted = NoImage /\ unsynced = {} /\ job = NoJob
    /\ DOMAIN medium = Image
    /\ \A i \in Image :
          medium[i] \in [0..(Size[i] - 1) -> [1..SectorWords -> Word]]

\* Let go of the image, or replace it: every change is on stable storage.
Change(i) ==
    /\ inserted' = i /\ job' = NoJob /\ unsynced' = {}
    /\ UNCHANGED medium

Begin(kind, lba, left) ==
    /\ lba + left <= Size[inserted]
    /\ job' = SectorStart(kind, lba, left)
    /\ UNCHANGED <<inserted, medium, unsynced>>

\* A reset, a new command or a host error: what was given of an incomplete
\* sector is forgotten.
Drop == job' = NoJob /\ UNCHANGED <<inserted, medium, unsynced>>

Get ==
    /\ job.kind = "read"
    /\ job' = IF job.given + 1 < SectorWords
              THEN Job("read", job.lba, job.left, job.given + 1, job.words)
              ELSE NextSector
    /\ UNCHANGED <<inserted, medium, unsynced>>

Given(w) == [k \in 1..(job.given + 1) |->
                IF k <= job.given THEN job.words[k] ELSE w]

Put(w) ==
    /\ job.kind = "write" /\ job.given + 1 < SectorWords
    /\ job' = Job("write", job.lba, job.left, job.given + 1, Given(w))
    /\ UNCHANGED <<inserted, medium, unsynced>>

PutLast(w) ==
    /\ job.kind = "write" /\ job.given + 1 = SectorWords
    /\ medium' = [medium EXCEPT ![inserted][job.lba] = Given(w)]
    /\ unsynced' = unsynced \cup {<<inserted, job.lba>>}
    /\ job' = NextSector
    /\ UNCHANGED inserted

\* The host wrote only the first k words, and the guest is told so.
PutFails(w, k) ==
    /\ job.kind = "write" /\ job.given + 1 = SectorWords
    /\ medium' = [medium EXCEPT ![inserted][job.lba] =
                     [j \in 1..SectorWords |->
                         IF j <= k THEN Given(w)[j] ELSE @[j]]]
    /\ unsynced' = IF k = 0 THEN unsynced
                   ELSE unsynced \cup {<<inserted, job.lba>>}
    /\ job' = NoJob
    /\ UNCHANGED inserted

Sync == unsynced' = {} /\ UNCHANGED <<inserted, medium, job>>

\* A flush command may end a transfer and sync in one step.
DropAndSync == job' = NoJob /\ unsynced' = {} /\ UNCHANGED <<inserted, medium>>

\* Shutdown is the only moment at which a change can be lost.
PowerOff == inserted' = NoImage /\ job' = NoJob /\ UNCHANGED <<medium, unsynced>>

Next ==
    \/ \E i \in Image \cup {NoImage} : Change(i)
    \/ /\ inserted # NoImage
       /\ \E kind \in {"read", "write"}, lba \in 0..Size[inserted],
             left \in 1..Size[inserted] : Begin(kind, lba, left)
    \/ Drop \/ Get \/ Sync \/ DropAndSync \/ PowerOff
    \/ \E w \in Word : \/ Put(w) \/ PutLast(w)
                       \/ \E k \in 0..(SectorWords - 1) : PutFails(w, k)

Spec == Init /\ [][Next]_dvars
=============================================================================
