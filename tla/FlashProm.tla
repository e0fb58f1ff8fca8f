----------------------------- MODULE FlashProm -----------------------------
(***************************************************************************)
(* FlashPROM (src/src/config/FlashPROM.cpp): the config area of flash, the *)
(* copy of it in RAM (writeCache) that the firmware edits, the commit that *)
(* is waiting for its delay, and the sector by sector write of the area.   *)
(*                                                                         *)
(* An image is a main config block and an aux block (the Bluetooth         *)
(* pairings).  It sits against the end of the area, behind it only the     *)
(* footer that describes it.  Sizes are counted in units; a sector holds   *)
(* UnitsPerSector of them, and the footer, a few bytes of the last sector, *)
(* takes none.  A CRC that matches is modelled by data that is the image   *)
(* the footer was made for.                                                *)
(***************************************************************************)
EXTENDS Integers

CONSTANTS
    Configs,         \* main config blocks the tool can upload
    EmptyMain,       \* the main block of a config with no data
    Pairings,        \* contents the aux block can have
    NoPairings,      \* the aux block of a device nothing is paired with
    MainSize,        \* size of each main block
    AuxSize,         \* size of each aux block
    NSectors,        \* EEPROM_SIZE_BYTES / FLASH_SECTOR_SIZE
    UnitsPerSector,
    NoFooter,        \* no footer: the magic isn't there
    Torn,            \* data no footer describes (staged chunks, two images mixed)
    Zero,            \* the cleared part of the area
    Erased           \* 0xFF

Mains == Configs \union {EmptyMain}
Image == [main : Mains, aux : Pairings]
EmptyImage == [main |-> EmptyMain, aux |-> NoPairings]
Sectors == 1..NSectors
\* MAX_DATA_SIZE: the most data that fits in front of the footer
Capacity == NSectors * UnitsPerSector

ASSUME SizesAssumption ==
    /\ MainSize \in [Mains -> Nat]
    /\ AuxSize \in [Pairings -> Nat]
    /\ NoPairings \in Pairings
    /\ EmptyMain \notin Configs
    /\ NSectors \in Nat \ {0}
    /\ UnitsPerSector \in Nat \ {0}
    /\ \A m \in Mains : MainSize[m] = 0 <=> m = EmptyMain
    /\ AuxSize[NoPairings] = 0

ASSUME MarkersAssumption ==
    /\ NoFooter \notin Image
    /\ {Torn, Zero, Erased} \intersect Image = {}
    /\ Torn # Zero /\ Torn # Erased /\ Zero # Erased

\* What one sector holds.  Only the last one holds the footer.
Piece == [foot : Image \union {NoFooter}, data : Image \union {Torn, Zero, Erased}]
Area == [Sectors -> Piece]

VARIABLES
    flash,   \* the area in flash
    cache,   \* writeCache
    commit,  \* should_commit_at and m_writer: what is waiting to be committed
    job      \* the write_range in progress, and what its caller does after it

flashVars == <<flash, cache, commit, job>>

-----------------------------------------------------------------------------
Size(image) == MainSize[image.main] + AuxSize[image.aux]

\* The sector has some of an image of this size, which ends at the area's end
Covers(size, sector) == size > (NSectors - sector) * UnitsPerSector

\* An image laid out against the footer, the rest of the area cleared
Layout(image) ==
    [s \in Sectors |->
        [foot |-> IF s = NSectors THEN image ELSE NoFooter,
         data |-> IF Covers(Size(image), s) THEN image ELSE Zero]]

Footer(area) == area[NSectors].foot

\* read_image: the magic is there and the data's CRC is the one in the footer
Readable(area) ==
    /\ Footer(area) # NoFooter
    /\ \A s \in Sectors :
           Covers(Size(Footer(area)), s) => area[s].data = Footer(area)

-----------------------------------------------------------------------------
(* commit, flush and write_range *)

Commits == {"none", "cache", "aux"}

\* FlashPROM::commit without a writer: the whole cache
CommitCache == "cache"

\* FlashPROM::commit with a writer: dropped if the whole cache is waiting
CommitWriter == IF commit = "cache" THEN "cache" ELSE "aux"

ErasedPiece == [foot |-> NoFooter, data |-> Erased]

(* A write goes through the sectors from job.from: those below it are done  *)
(* with, and from > NSectors is a write with nothing left to do.  It reads  *)
(* the cache itself as it goes (live), or an image its caller built before, *)
(* which only replaces the sectors an image of size span has some of.       *)
Job(live, image, span, from) ==
    [live |-> live, image |-> image, span |-> span, from |-> from, erased |-> FALSE]
NoJob == Job(FALSE, EmptyImage, 0, NSectors + 1)
CacheJob == Job(TRUE, EmptyImage, 0, 1)
Jobs == [live : BOOLEAN, image : Image, span : Nat,
         from : 1..(NSectors + 1), erased : BOOLEAN]

Target(sector) ==
    CASE job.live -> cache[sector]
      [] ~job.live /\ (sector = NSectors \/ Covers(job.span, sector)) ->
             Layout(job.image)[sector]
      [] OTHER -> flash[sector]

\* Sectors that already match are skipped
NextSector(sector) ==
    /\ sector \in job.from..NSectors
    /\ flash[sector] # Target(sector)
    /\ \A s \in job.from..(sector - 1) : flash[s] = Target(s)

WriteDone == ~job.erased /\ \A s \in job.from..NSectors : flash[s] = Target(s)

EraseSector ==
    /\ ~job.erased
    /\ \E s \in Sectors :
           /\ NextSector(s)
           /\ flash' = [flash EXCEPT ![s] = ErasedPiece]
           /\ job' = [job EXCEPT !.from = s, !.erased = TRUE]
    /\ UNCHANGED <<cache, commit>>

\* Mutant: the sector after the programmed one is passed over
ProgramSectorSkipping ==
    /\ job.erased
    /\ flash' = [flash EXCEPT ![job.from] = Target(job.from)]
    /\ job' = [job EXCEPT !.from = job.from + 2, !.erased = FALSE]
    /\ UNCHANGED <<cache, commit>>

ProgramSector ==
    /\ job.erased
    /\ flash' = [flash EXCEPT ![job.from] = Target(job.from)]
    /\ job' = [job EXCEPT !.from = job.from + 1, !.erased = FALSE]
    /\ UNCHANGED <<cache, commit>>

FlashTypeOK ==
    /\ flash \in Area
    /\ cache \in Area
    /\ commit \in Commits
    /\ job \in Jobs
=============================================================================
