--------------------------- MODULE ConfigStorage ---------------------------
(***************************************************************************)
(* ConfigStorage (src/src/config/config_storage.cpp): uploads staged in    *)
(* the cache, the footer they replace, the aux block rewritten in place,   *)
(* and which of the cache may reach flash.                                 *)
(*                                                                         *)
(* Each operation is given as the values it leaves: the callers in config.cpp *)
(* (module ConfigSystem) put them together with their own state.           *)
(***************************************************************************)
EXTENDS FlashProm

CONSTANT NoPrevious   \* m_have_previous_footer is false

ASSUME NoPreviousAssumption == NoPrevious \notin Image \union {NoFooter}

VARIABLES
    upload,    \* m_upload_active
    previous,  \* m_previous_footer, once m_have_previous_footer
    preserve,  \* m_preserve_flash
    staged     \* units of the upload received, they are at the front of the cache

storageVars == <<upload, previous, preserve, staged>>

StorageTypeOK ==
    /\ upload \in BOOLEAN
    /\ previous \in Image \union {NoFooter, NoPrevious}
    /\ preserve \in BOOLEAN
    /\ staged \in Nat

-----------------------------------------------------------------------------
WithFooter(area, footer) == [area EXCEPT ![NSectors].foot = footer]

\* Everything in front of data of this size cleared
ClearFront(area, size) ==
    [s \in Sectors |->
        IF Covers(size, s) THEN area[s] ELSE [area[s] EXCEPT !.data = Zero]]

(* The first units of the cache overwritten with an upload's.  A sector     *)
(* with some of an image keeps it until the upload gets as far as the image. *)
Staged(area, units) ==
    [s \in Sectors |->
        IF /\ units > (s - 1) * UnitsPerSector
           /\ area[s].data \in Image => units > Capacity - Size(area[s].data)
        THEN [area[s] EXCEPT !.data = Torn]
        ELSE area[s]]

-----------------------------------------------------------------------------
(* write_info, past its flush: the upload's footer replaces the cached one,  *)
(* and a config with no data is complete as it is                           *)
AcceptInfo(image) ==
    /\ cache' = WithFooter(cache, image)
    /\ upload' = (Size(image) # 0)
    /\ previous' = CASE Size(image) = 0 -> NoPrevious
                     [] Size(image) # 0 /\ previous = NoPrevious -> Footer(cache)
                     [] OTHER -> previous
    /\ staged' = 0
    /\ UNCHANGED preserve

\* write_info turns down an image that doesn't fit and leaves everything alone
InfoFits(image) == Size(image) <= Capacity

(* write_chunk, for a chunk that isn't the last: one more unit is staged    *)
ChunkInProgress ==
    /\ upload
    /\ staged + 1 < Size(Footer(cache))
    /\ cache' = Staged(cache, staged + 1)
    /\ staged' = staged + 1
    /\ UNCHANGED <<upload, previous, preserve>>

(* write_chunk, for the last chunk with a CRC that matches: the data is     *)
(* moved against the footer                                                 *)
ChunkDone ==
    /\ upload
    /\ staged + 1 = Size(Footer(cache))
    /\ cache' = Layout(Footer(cache))
    /\ upload' = FALSE
    /\ previous' = NoPrevious
    /\ preserve' = FALSE
    /\ staged' = 0

\* The cache a failed last chunk leaves: staged, but not moved
CacheAfterBadChunk == Staged(cache, staged + 1)

\* Mutant: the restored config isn't checked before it is kept
AbortWriteUnchecked(area) ==
    /\ cache' = IF previous = NoPrevious THEN area
                ELSE ClearFront(WithFooter(area, previous), Size(previous))
    /\ upload' = FALSE
    /\ previous' = NoPrevious
    /\ staged' = 0
    /\ UNCHANGED preserve

(* abort_write over the given cache: put the footer back, and if the upload *)
(* had already overwritten what it describes, go back to flash              *)
AbortWrite(area) ==
    LET restored == WithFooter(area, previous)
    IN  /\ cache' = CASE previous = NoPrevious -> area
                      [] previous # NoPrevious /\ Readable(restored) ->
                             ClearFront(restored, Size(previous))
                      [] OTHER -> flash
        /\ upload' = FALSE
        /\ previous' = NoPrevious
        /\ staged' = 0
        /\ UNCHANGED preserve

-----------------------------------------------------------------------------
(* update_auxiliary.  The new aux block is built in the free space in front *)
(* of the data, so it has to fit beside the one it replaces.                *)

\* Mutant: m_upload_active isn't checked
ResignableDuringUpload == Readable(cache)

Resignable == ~upload /\ Readable(cache)
AuxFits(aux) == AuxSize[aux] <= Capacity - Size(Footer(cache))
AuxUpdates(aux) == Resignable /\ AuxFits(aux)

CacheAfterUpdate(aux) ==
    CASE AuxUpdates(aux) -> Layout([main |-> Footer(cache).main, aux |-> aux])
      [] Resignable /\ ~AuxFits(aux) -> ClearFront(cache, Size(Footer(cache)))
      [] OTHER -> cache

\* The cached main config is the one in flash
CacheIsSaved == Readable(flash) /\ Footer(flash).main = Footer(cache).main

\* Mutants: the whole cache is committed whatever it holds, and whatever flash holds
CommitCacheAfterUpdate(aux) ==
    IF AuxUpdates(aux) /\ ~preserve THEN CommitCache ELSE commit
CommitOverPreserved(aux) ==
    CASE AuxUpdates(aux) /\ CacheIsSaved -> CommitCache
      [] AuxUpdates(aux) /\ ~CacheIsSaved -> CommitWriter
      [] OTHER -> commit

\* The commit update_auxiliary asks for, if it is to commit
CommitAfterUpdate(aux) ==
    CASE AuxUpdates(aux) /\ ~preserve /\ CacheIsSaved -> CommitCache
      [] AuxUpdates(aux) /\ ~preserve /\ ~CacheIsSaved -> CommitWriter
      [] OTHER -> commit

(* commit_auxiliary: the saved main config with the cached aux block        *)
AuxCommittable ==
    /\ ~upload
    /\ Readable(flash)
    /\ Readable(cache)
    /\ MainSize[Footer(flash).main] + AuxSize[Footer(cache).aux] <= Capacity

\* Mutant: the main config is taken from the cache with the aux block
AuxJobOfCache == Job(FALSE, Footer(cache), Size(Footer(cache)), 1)

AuxJob ==
    LET image == [main |-> Footer(flash).main, aux |-> Footer(cache).aux]
        larger == IF Size(image) > Size(Footer(flash)) THEN image ELSE Footer(flash)
    IN  Job(FALSE, image, Size(larger), 1)

\* FlashPROM::flush: the write the waiting commit comes to
FlushJob ==
    CASE commit = "cache" -> CacheJob
      [] commit = "aux" /\ AuxCommittable -> AuxJob
      [] OTHER -> NoJob
=============================================================================
