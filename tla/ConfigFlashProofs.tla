-------------------------- MODULE ConfigFlashProofs --------------------------
(***************************************************************************)
(* What reaches flash: nothing over a config that is kept, nothing that    *)
(* wasn't saved, a save held back, and the pairings in the end.            *)
(*                                                                         *)
(* ConfigSystemProofs shows what holds while power stays on during writes. *)
(* Here the device may start from blank flash and lose power within a      *)
(* write as well, but for the theorem about the pairings.                  *)
(***************************************************************************)
EXTENDS ConfigSystemProofs

\* What a step that isn't one leaves alone
LEMMA Stutter ==
    ASSUME UNCHANGED vars
    PROVE  UNCHANGED <<flash, cache, commit, job, upload, previous, preserve, staged, pc, after,
                       working, reinit, reloading, loadedAny, auxPending, auxCommitPending,
                       configCommitPending, saveAfterUpload, memory, btLoaded, running, asked, left>>
BY DEF vars, flashVars, storageVars, loopVars, managerVars, pendingVars, runVars, historyVars

-----------------------------------------------------------------------------
(* A config that is kept *)

\* While a config in flash is kept there is nothing to commit
Kept == preserve => commit = "none" /\ pc # "write"

LEMMA KeptAtFirst ==
    ASSUME InitFresh
    PROVE  Kept
BY DEF InitFresh, InitFrom, Boot, Kept

LEMMA KeptStays ==
    ASSUME Kept, [Next]_vars
    PROVE  Kept'
<1>1. CASE WriteConfigInfo \/ EndInfoFlush
    BY <1>1 DEF Kept, WriteConfigInfo, EndInfoFlush, EndWrite, InfoAccepted, AcceptInfo, StartWrite,
       loopVars, storageVars, Servicing
<1>2. CASE WriteChunkInProgress \/ WriteChunkDone
    BY <1>2 DEF Kept, WriteChunkInProgress, WriteChunkDone, ChunkInProgress, ChunkDone, loopVars
<1>3. CASE WriteChunkInvalid \/ UploadStalled
    BY <1>3 DEF Kept, WriteChunkInvalid, UploadStalled, AbortConfigWrite, AbortWrite, Goto, loopVars
<1>4. CASE SaveConfig \/ FlushSave
    BY <1>4 DEF Kept, SaveConfig, FlushSave, StartWrite, flashVars, loopVars
<1>5. CASE ChangePairings \/ UpdateInputState
    BY <1>5 DEF Kept, ChangePairings, UpdateInputState, UpdateAuxiliary, CommitAfterUpdate,
       storageVars, loopVars
<1>6. CASE FlushAux
    BY <1>6 DEF Kept, FlushAux, CommitAfterUpdate, storageVars, Goto
<1>7. CASE WriteStep \/ EndSave \/ EndFlushSave \/ EndCommit
    BY <1>7 DEF Kept, WriteStep, EndSave, EndFlushSave, EndCommit, EndWrite, storageVars, loopVars
<1>8. CASE \/ Serviced \/ RequestReload \/ ReloadDue \/ ModeChanged \/ NoReload
           \/ BeginReinit \/ LoadConfig \/ WaitForUpload \/ NothingToFlush
           \/ Updated \/ NoCommit \/ CommitDue
    BY <1>8 DEF Kept, Serviced, RequestReload, ReloadDue, ModeChanged, NoReload, BeginReinit,
       LoadConfig, WaitForUpload, NothingToFlush, Updated, NoCommit, CommitDue, StartWrite, Goto,
       Servicing, flashVars, storageVars, loopVars
<1>9. CASE PowerCut
    BY <1>9 DEF Kept, PowerCut
<1>10. CASE UNCHANGED vars
    BY <1>10, Stutter DEF Kept
<1> QED
    BY <1>1, <1>2, <1>3, <1>4, <1>5, <1>6, <1>7, <1>8, <1>9, <1>10
       DEF Next, Tool, Flash, Loop, Environment

\* A step that leaves a config kept writes nothing
LEMMA KeptUntouched ==
    ASSUME Kept, [Next]_vars, preserve
    PROVE  flash' = flash
<1>1. pc # "write"
    BY DEF Kept
<1>2. CASE Tool
    BY <1>1, <1>2 DEF Tool, WriteConfigInfo, WriteChunkInProgress, WriteChunkDone,
       WriteChunkInvalid, SaveConfig, flashVars
<1>3. CASE Flash
    BY <1>1, <1>3 DEF Flash, WriteStep, EndInfoFlush, EndSave, EndFlushSave, EndCommit, EndWrite
<1>4. CASE Loop
    BY <1>4 DEF Loop, Serviced, ReloadDue, ModeChanged, NoReload, BeginReinit, LoadConfig,
       WaitForUpload, UploadStalled, NothingToFlush, FlushSave, FlushAux, Updated, CommitDue,
       NoCommit, flashVars
<1>5. CASE Environment
    BY <1>5 DEF Environment, ChangePairings, UpdateInputState, RequestReload, PowerCut, flashVars
<1>6. CASE UNCHANGED vars
    BY <1>6, Stutter
<1> QED
    BY <1>2, <1>3, <1>4, <1>5, <1>6 DEF Next

(* A config this firmware couldn't load stays in flash as it is until an    *)
(* upload completes or a save, whatever flash held at first, wherever       *)
(* Bluetooth's callbacks come from and whenever power goes                  *)
(* (ConfigStorage::m_preserve_flash).                                       *)
THEOREM PreservedAlwaysLeftAlone == SpecFresh => PreservedLeftAlone
<1>1. InitFresh => Kept
    BY KeptAtFirst
<1>2. Kept /\ [Next]_vars => Kept'
    BY KeptStays
<1>3. Kept /\ [Next]_vars => [preserve /\ preserve' => flash' = flash]_vars
    BY KeptUntouched
<1> QED
    BY <1>1, <1>2, <1>3, PTL DEF SpecFresh, PreservedLeftAlone

-----------------------------------------------------------------------------
(* Types, wherever Bluetooth's callbacks come from and whenever power goes *)

\* A sector is erased within the area, and an upload has a footer
Typed ==
    /\ TypeOK
    /\ job.erased => job.from \in Sectors
    /\ upload => Footer(cache) # NoFooter

LEMMA TypedAreas ==
    ASSUME Typed
    PROVE  /\ flash \in Area /\ cache \in Area /\ commit \in Commits /\ job \in Jobs
           /\ pc \in PCs /\ after.back \in PCs \ {"write"} /\ after.image \in Image
           /\ previous \in Image \union {NoFooter, NoPrevious} /\ staged \in Nat
           /\ memory \in Pairings /\ left \in [Uses -> Nat]
           /\ Footer(flash) # NoFooter => Footer(flash) \in Image
           /\ Footer(cache) # NoFooter => Footer(cache) \in Image
BY FooterType DEF Typed, TypeOK, FlashTypeOK, StorageTypeOK

\* What updating the aux block leaves, whatever is cached
LEMMA UpdateKeepsMain ==
    ASSUME Typed, NEW aux \in Pairings
    PROVE  /\ CacheAfterUpdate(aux) \in Area
           /\ Footer(CacheAfterUpdate(aux)) = NoFooter <=> Footer(cache) = NoFooter
           /\ MainOf(CacheAfterUpdate(aux)) = MainOf(cache)
           /\ upload => CacheAfterUpdate(aux) = cache /\ CommitAfterUpdate(aux) = commit
           /\ Readable(cache) => Readable(CacheAfterUpdate(aux))
           /\ ~Readable(cache) => CacheAfterUpdate(aux) = cache
           /\ CommitAfterUpdate(aux) \in Commits
           /\ AuxUpdates(aux) \in BOOLEAN
<1> DEFINE image == [main |-> Footer(cache).main, aux |-> aux]
<1>1. cache \in Area /\ commit \in Commits /\ (Footer(cache) # NoFooter => Footer(cache) \in Image)
    BY TypedAreas
<1>2. CommitAfterUpdate(aux) \in Commits /\ (upload => CommitAfterUpdate(aux) = commit)
    BY <1>1 DEF CommitAfterUpdate, AuxUpdates, Resignable, CommitCache, CommitWriter, Commits
<1>3. AuxUpdates(aux) \in BOOLEAN
    BY DEF AuxUpdates, Resignable, AuxFits
<1>4. CASE AuxUpdates(aux)
  <2>1. CacheAfterUpdate(aux) = Layout(image)
      BY <1>4 DEF CacheAfterUpdate, AuxUpdates
  <2>2. ~upload /\ Readable(cache) /\ Footer(cache) # NoFooter
      BY <1>4 DEF AuxUpdates, Resignable, Readable
  <2>3. image \in Image /\ image # NoFooter
      BY <1>1, <2>2, MarkersAssumption DEF Image
  <2>4. Layout(image) \in Area /\ Footer(Layout(image)) = image /\ Readable(Layout(image))
      BY <2>3, LayoutReadable
  <2> HIDE DEF image
  <2>5. MainOf(Layout(image)) = MainOf(cache)
      BY <2>2, <2>3, <2>4 DEF MainOf, image
  <2> QED
      BY <1>2, <1>3, <2>1, <2>2, <2>3, <2>4, <2>5
<1>5. CASE ~AuxUpdates(aux) /\ Resignable
  <2>1. CacheAfterUpdate(aux) = ClearFront(cache, Size(Footer(cache)))
      BY <1>5 DEF CacheAfterUpdate, AuxUpdates
  <2>2. ~upload /\ Readable(cache)
      BY <1>5 DEF Resignable
  <2> QED
      BY <1>1, <1>2, <1>3, <2>1, <2>2, ClearFrontType, ClearFrontReadable DEF MainOf
<1>6. CASE ~Resignable
  <2>1. CacheAfterUpdate(aux) = cache
      BY <1>6 DEF CacheAfterUpdate, AuxUpdates
  <2> QED
      BY <1>1, <1>2, <1>3, <2>1
<1> QED
    BY <1>4, <1>5, <1>6

LEMMA SpendTyped ==
    ASSUME Typed, NEW use \in Uses, May(use), Spend(use)
    PROVE  left' \in [Uses -> Nat]
<1>1. left \in [Uses -> Nat] /\ left[use] > 0
    BY TypedAreas DEF May
<1>2. left[use] - 1 \in Nat
    BY <1>1
<1> QED
    BY <1>1, <1>2 DEF Spend

\* The jobs a write starts with
LEMMA JobTypes ==
    ASSUME Typed
    PROVE  /\ NoJob \in Jobs /\ ~NoJob.erased /\ NoJob.from = NSectors + 1 /\ ~NoJob.live
           /\ CacheJob \in Jobs /\ ~CacheJob.erased /\ CacheJob.from = 1 /\ CacheJob.live
           /\ AuxCommittable =>
                 /\ AuxJob \in Jobs /\ ~AuxJob.erased /\ AuxJob.from = 1 /\ ~AuxJob.live
                 /\ AuxJob.image = [main |-> Footer(flash).main, aux |-> Footer(cache).aux]
                 /\ AuxJob.image \in Image
           /\ FlushJob \in Jobs /\ ~FlushJob.erased
<1>1. /\ NoJob \in Jobs /\ ~NoJob.erased /\ NoJob.from = NSectors + 1 /\ ~NoJob.live
      /\ CacheJob \in Jobs /\ ~CacheJob.erased /\ CacheJob.from = 1 /\ CacheJob.live
    BY EmptyImageType, SizesAssumption DEF NoJob, CacheJob, Job, Jobs
<1>2. ASSUME AuxCommittable
      PROVE  /\ AuxJob \in Jobs /\ ~AuxJob.erased /\ AuxJob.from = 1 /\ ~AuxJob.live
             /\ AuxJob.image = [main |-> Footer(flash).main, aux |-> Footer(cache).aux]
             /\ AuxJob.image \in Image
  <2> DEFINE image == [main |-> Footer(flash).main, aux |-> Footer(cache).aux]
             larger == IF Size(image) > Size(Footer(flash)) THEN image ELSE Footer(flash)
  <2>1. Footer(flash) \in Image /\ Footer(cache) \in Image
      BY <1>2, TypedAreas DEF AuxCommittable, Readable
  <2>2. image \in Image
      BY <2>1 DEF Image
  <2>3. Size(larger) \in Nat
      BY <2>1, <2>2, SizeNat
  <2>4. AuxJob = Job(FALSE, image, Size(larger), 1)
      BY DEF AuxJob
  <2> HIDE DEF image, larger
  <2>5. 1 \in 1..(NSectors + 1)
      BY SizesAssumption
  <2>6. Job(FALSE, image, Size(larger), 1) \in Jobs
      BY <2>2, <2>3, <2>5 DEF Job, Jobs
  <2>7. /\ AuxJob \in Jobs /\ ~AuxJob.erased /\ AuxJob.from = 1 /\ ~AuxJob.live
        /\ AuxJob.image = image
      BY <2>4, <2>6 DEF Job
  <2> QED
      BY <2>2, <2>7 DEF image
<1> QED
    BY <1>1, <1>2 DEF FlushJob

LEMMA TypedAtFirst ==
    ASSUME InitFresh
    PROVE  Typed
<1>1. PICK area \in SavedAreas \union {BlankArea} : Boot(area) /\ asked = MainOf(area)
    BY DEF InitFresh, InitFrom
<1>2. area \in Area
  <2>1. CASE area = BlankArea
      BY <2>1 DEF BlankArea, ErasedPiece, Area, Piece
  <2>2. CASE area \in SavedAreas
      BY <2>2, LayoutReadable DEF SavedAreas
  <2> QED
      BY <1>1, <2>1, <2>2
<1>3. /\ Footer(area) # NoFooter => Footer(area) \in Image
      /\ WithFooter(area, EmptyImage) \in Area
    BY <1>2, FooterType, WithFooterType, EmptyImageType
<1>4. FlashTypeOK
  <2>1. NoJob \in Jobs
      BY EmptyImageType, SizesAssumption DEF NoJob, Job, Jobs
  <2> QED
      BY <1>1, <1>2, <1>3, <2>1 DEF Boot, FlashTypeOK, Commits
<1>5. StorageTypeOK
    BY <1>1 DEF Boot, StorageTypeOK, Boots
<1>6. NoAfter \in [then : Nexts, back : PCs \ {"write"}, image : Image]
    BY EmptyImageType DEF NoAfter, After, Nexts, PCs
<1>7. asked \subseteq Mains
    BY <1>1, <1>2, MainOfType
<1>8. left \in [Uses -> Nat]
    BY SystemAssumption DEF InitFresh, InitFrom, Uses
<1>9. memory \in Pairings /\ running \in Mains
    BY <1>1, <1>3, SizesAssumption DEF Boot, Readable, Image, Mains
<1>10. Boots(area) \in BOOLEAN /\ Readable(area) \in BOOLEAN
    BY DEF Boots, Readable
<1>11. TypeOK
    BY <1>1, <1>4, <1>5, <1>6, <1>7, <1>8, <1>9, <1>10 DEF TypeOK, Boot, PCs
<1> QED
    BY <1>1, <1>11 DEF Typed, Boot, NoJob, Job

LEMMA TypedWrite ==
    ASSUME Typed, WriteStep
    PROVE  Typed'
<1>1. /\ UNCHANGED <<storageVars, loopVars, managerVars, pendingVars, runVars, historyVars>>
      /\ UNCHANGED <<cache, commit>>
    BY DEF WriteStep, EraseSector, ProgramSector
<1>2. flash \in Area /\ cache \in Area /\ job \in Jobs
    BY TypedAreas
<1>3. flash' \in Area /\ job' \in Jobs /\ (job'.erased => job'.from \in Sectors)
  <2>1. CASE EraseSector
    <3>1. PICK s \in Sectors : /\ flash' = [flash EXCEPT ![s] = ErasedPiece]
                                /\ job' = [job EXCEPT !.from = s, !.erased = TRUE]
        BY <2>1 DEF EraseSector
    <3>2. s \in 1..(NSectors + 1)
        BY SizesAssumption DEF Sectors
    <3>3. ErasedPiece \in Piece
        BY DEF ErasedPiece, Piece
    <3> QED
        BY <1>2, <3>1, <3>2, <3>3 DEF Area, Jobs
  <2>2. CASE ProgramSector
    <3>1. /\ job.from \in Sectors
          /\ flash' = [flash EXCEPT ![job.from] = Target(job.from)]
          /\ job' = [job EXCEPT !.from = job.from + 1, !.erased = FALSE]
        BY <2>2 DEF ProgramSector, Typed
    <3>2. job.from + 1 \in 1..(NSectors + 1)
        BY <3>1, SizesAssumption DEF Sectors
    <3>3. Layout(job.image) \in Area
        BY <1>2, LayoutReadable DEF Jobs
    <3>4. Target(job.from) \in Piece
        BY <1>2, <3>1, <3>3 DEF Target, Area
    <3> QED
        BY <1>2, <3>1, <3>2, <3>4 DEF Area, Jobs
  <2> QED
      BY <2>1, <2>2 DEF WriteStep
<1> QED
    BY <1>1, <1>3 DEF Typed, TypeOK, FlashTypeOK, StorageTypeOK, storageVars, loopVars,
       managerVars, pendingVars, runVars, historyVars, Footer

LEMMA TypedLoop ==
    ASSUME Typed, \/ Serviced \/ RequestReload \/ ReloadDue \/ ModeChanged \/ NoReload
                  \/ BeginReinit \/ LoadConfig \/ WaitForUpload \/ NothingToFlush
                  \/ Updated \/ NoCommit
    PROVE  Typed'
<1>1. /\ pc' \in PCs /\ after' = after
      /\ UNCHANGED <<flash, cache, commit, job, upload, previous, preserve, staged>>
      /\ UNCHANGED <<working, auxPending, auxCommitPending, configCommitPending,
                     saveAfterUpload, asked>>
    BY DEF Serviced, RequestReload, ReloadDue, ModeChanged, NoReload, BeginReinit, LoadConfig,
       WaitForUpload, NothingToFlush, Updated, NoCommit, Goto, Servicing, PCs, flashVars,
       storageVars, loopVars, managerVars, pendingVars, historyVars
<1>2. left' \in [Uses -> Nat]
  <2>1. CASE UNCHANGED left
      BY <2>1, TypedAreas
  <2>2. CASE Spend("reloads") /\ May("reloads")
      BY <2>2, SpendTyped DEF Uses
  <2> QED
      BY <2>1, <2>2 DEF Serviced, RequestReload, ReloadDue, ModeChanged, NoReload, BeginReinit,
         LoadConfig, WaitForUpload, NothingToFlush, Updated, NoCommit, historyVars
<1>3. reinit' \in BOOLEAN /\ reloading' \in BOOLEAN
    BY DEF Serviced, RequestReload, ReloadDue, ModeChanged, NoReload, BeginReinit, LoadConfig,
       WaitForUpload, NothingToFlush, Updated, NoCommit, managerVars, Typed, TypeOK
<1>4. loadedAny' \in BOOLEAN /\ memory' \in Pairings /\ btLoaded' \in BOOLEAN /\ running' \in Mains
  <2>1. CASE UNCHANGED <<loadedAny, memory, btLoaded, running>>
      BY <2>1 DEF Typed, TypeOK
  <2>2. CASE LoadConfig /\ Readable(cache)
    <3>1. Footer(cache).main \in Mains /\ Footer(cache).aux \in Pairings
        BY <2>2, TypedAreas DEF Readable, Image
    <3> QED
        BY <2>2, <3>1 DEF LoadConfig, Typed, TypeOK
  <2> QED
      BY <2>1, <2>2 DEF Serviced, RequestReload, ReloadDue, ModeChanged, NoReload, BeginReinit,
         LoadConfig, WaitForUpload, NothingToFlush, Updated, NoCommit, managerVars, runVars
<1> QED
    BY <1>1, <1>2, <1>3, <1>4 DEF Typed, TypeOK, FlashTypeOK, StorageTypeOK, Footer

LEMMA AcceptTyped ==
    ASSUME Typed, NEW image \in Image, AcceptInfo(image)
    PROVE  /\ cache' \in Area /\ Footer(cache') = image /\ image # NoFooter
           /\ upload' \in BOOLEAN /\ staged' \in Nat /\ preserve' = preserve
           /\ previous' \in Image \union {NoFooter, NoPrevious}
           /\ ~upload' => Readable(cache')
<1>1. cache \in Area /\ Footer(cache) \in Image \union {NoFooter}
    BY TypedAreas
<1>2. /\ cache' = WithFooter(cache, image) /\ upload' = (Size(image) # 0)
      /\ staged' = 0 /\ preserve' = preserve
    BY DEF AcceptInfo
<1>3. cache' \in Area /\ Footer(cache') = image /\ image # NoFooter
    BY <1>1, <1>2, WithFooterType, MarkersAssumption
<1>4. ~upload' => Readable(cache')
    BY <1>1, <1>2, EmptyReadable
<1>5. previous' \in Image \union {NoFooter, NoPrevious}
    BY <1>1, TypedAreas DEF AcceptInfo
<1> QED
    BY <1>2, <1>3, <1>4, <1>5

LEMMA TypedInfo ==
    ASSUME Typed, WriteConfigInfo \/ EndInfoFlush
    PROVE  Typed'
<1>1. /\ UNCHANGED <<flash, reinit, reloading, loadedAny, auxPending, auxCommitPending,
                     configCommitPending, saveAfterUpload, memory, btLoaded, running, asked>>
    BY DEF WriteConfigInfo, EndInfoFlush, EndWrite, StartWrite, pendingVars, runVars, historyVars
<1>2. left' \in [Uses -> Nat]
    BY SpendTyped, TypedAreas DEF WriteConfigInfo, EndInfoFlush, historyVars, Uses
<1>3. NoAfter \in [then : Nexts, back : PCs \ {"write"}, image : Image]
    BY EmptyImageType DEF NoAfter, After, Nexts, PCs
<1>4. CASE \E image \in Image : /\ InfoAccepted(image) /\ commit' = commit
                                /\ \/ UNCHANGED <<job, loopVars>>
                                   \/ EndWrite("info")
  <2>1. PICK image \in Image : InfoAccepted(image)
      BY <1>4
  <2>2. /\ cache' \in Area /\ Footer(cache') # NoFooter
        /\ upload' \in BOOLEAN /\ staged' \in Nat /\ preserve' = preserve
        /\ previous' \in Image \union {NoFooter, NoPrevious}
      BY <2>1, AcceptTyped DEF InfoAccepted
  <2>3. working' \in BOOLEAN
      BY <2>1 DEF InfoAccepted, Typed, TypeOK
  <2>4. /\ job' \in Jobs /\ (job'.erased => job'.from \in Sectors)
        /\ pc' \in PCs /\ after' \in [then : Nexts, back : PCs \ {"write"}, image : Image]
      BY <1>3, <1>4, JobTypes DEF EndWrite, loopVars, Typed, TypeOK, FlashTypeOK
  <2> QED
      BY <1>1, <1>2, <1>4, <2>2, <2>3, <2>4 DEF Typed, TypeOK, FlashTypeOK, StorageTypeOK
<1>5. CASE WriteConfigInfo /\ ~(upload \/ commit = "none")
  <2>1. PICK image \in Image : StartWrite(FlushJob, "info", pc, image)
      BY <1>5 DEF WriteConfigInfo
  <2>2. /\ pc \in PCs \ {"write"} /\ commit' = "none" /\ pc' = "write"
        /\ UNCHANGED <<cache, upload, previous, preserve, staged, working>>
      BY <1>5, <2>1 DEF WriteConfigInfo, Servicing, PCs, storageVars, StartWrite
  <2>3. after' \in [then : Nexts, back : PCs \ {"write"}, image : Image]
      BY <2>1, <2>2 DEF StartWrite, After, Nexts
  <2>4. job' \in Jobs /\ ~job'.erased
      BY <2>1, JobTypes DEF StartWrite
  <2> QED
      BY <1>1, <1>2, <2>2, <2>3, <2>4 DEF Typed, TypeOK, FlashTypeOK, StorageTypeOK, Commits, PCs, Footer
<1>6. CASE EndInfoFlush
    BY <1>4, <1>6, TypedAreas DEF EndInfoFlush
<1> QED
    BY <1>4, <1>5, <1>6 DEF WriteConfigInfo

LEMMA AbortTyped ==
    ASSUME Typed, NEW area \in Area, AbortWrite(area)
    PROVE  /\ cache' \in Area /\ upload' = FALSE /\ previous' = NoPrevious
           /\ staged' \in Nat /\ preserve' = preserve
           /\ previous = NoPrevious => cache' = area
           /\ previous # NoPrevious /\ ~Readable(cache') => cache' = flash
<1> DEFINE restored == WithFooter(area, previous)
<1>1. /\ upload' = FALSE /\ previous' = NoPrevious /\ staged' \in Nat /\ preserve' = preserve
    BY DEF AbortWrite
<1>2. CASE previous = NoPrevious
    BY <1>1, <1>2 DEF AbortWrite
<1>3. CASE previous # NoPrevious /\ Readable(restored)
  <2>1. cache' = ClearFront(restored, Size(previous))
      BY <1>3 DEF AbortWrite
  <2>2. restored \in Area /\ Footer(restored) = previous
      BY <1>3, WithFooterType, TypedAreas
  <2> HIDE DEF restored
  <2> QED
      BY <1>1, <1>3, <2>1, <2>2, ClearFrontType, ClearFrontReadable
<1>4. CASE previous # NoPrevious /\ ~Readable(restored)
    BY <1>1, <1>4, TypedAreas DEF AbortWrite
<1> QED
    BY <1>2, <1>3, <1>4

LEMMA TypedChunk ==
    ASSUME Typed, WriteChunkInProgress \/ WriteChunkDone
    PROVE  Typed'
<1>1. /\ UNCHANGED <<flash, commit, job, pc, after, reloading, loadedAny, auxCommitPending,
                     memory, btLoaded, running, asked, left>>
      /\ working' \in BOOLEAN /\ reinit' \in BOOLEAN /\ auxPending' \in BOOLEAN
      /\ configCommitPending' \in BOOLEAN /\ saveAfterUpload' \in BOOLEAN
    BY DEF WriteChunkInProgress, WriteChunkDone, loopVars, pendingVars, runVars, historyVars,
       Typed, TypeOK
<1>2. cache \in Area /\ upload /\ Footer(cache) \in Image /\ Footer(cache) # NoFooter
    BY TypedAreas DEF Typed, WriteChunkInProgress, WriteChunkDone, ChunkInProgress, ChunkDone
<1>3. /\ cache' \in Area /\ Footer(cache') = Footer(cache)
      /\ upload' \in BOOLEAN /\ previous' \in Image \union {NoFooter, NoPrevious}
      /\ preserve' \in BOOLEAN /\ staged' \in Nat
  <2>1. CASE WriteChunkInProgress
    <3>1. /\ cache' = Staged(cache, staged + 1) /\ staged' = staged + 1
          /\ UNCHANGED <<upload, previous, preserve>>
        BY <2>1 DEF WriteChunkInProgress, ChunkInProgress
    <3> QED
        BY <1>2, <3>1, StagedType DEF Typed, TypeOK, StorageTypeOK
  <2>2. CASE WriteChunkDone
    <3>1. /\ cache' = Layout(Footer(cache)) /\ staged' = 0
          /\ upload' = FALSE /\ previous' = NoPrevious /\ preserve' = FALSE
        BY <2>2 DEF WriteChunkDone, ChunkDone
    <3> QED
        BY <1>2, <3>1, LayoutReadable
  <2> QED
      BY <2>1, <2>2
<1> QED
    BY <1>1, <1>2, <1>3 DEF Typed, TypeOK, FlashTypeOK, StorageTypeOK

LEMMA TypedAbort ==
    ASSUME Typed, WriteChunkInvalid \/ UploadStalled
    PROVE  Typed'
<1>1. PICK area \in Area : AbortConfigWrite(area)
    BY StagedType, TypedAreas DEF WriteChunkInvalid, UploadStalled, CacheAfterBadChunk
<1>2. /\ cache' \in Area /\ upload' = FALSE /\ previous' = NoPrevious
      /\ staged' \in Nat /\ preserve' = preserve
    BY <1>1, AbortTyped DEF AbortConfigWrite
<1>3. /\ UNCHANGED <<flash, commit, job, reinit, reloading, loadedAny, memory, btLoaded,
                     running, asked, auxCommitPending, configCommitPending>>
      /\ auxPending' = TRUE /\ saveAfterUpload' = FALSE /\ working' = FALSE
      /\ pc' \in PCs /\ after' = after
    BY <1>1, TypedAreas DEF WriteChunkInvalid, UploadStalled, AbortConfigWrite, Goto, PCs,
       loopVars, runVars, historyVars
<1>4. left' \in [Uses -> Nat]
  <2>1. CASE left' = left
      BY <2>1, TypedAreas
  <2>2. CASE May("uploads") /\ left' = [left EXCEPT !["uploads"] = @ - 1]
      BY <2>2, SpendTyped DEF Uses, Spend
  <2> QED
      BY <2>1, <2>2 DEF WriteChunkInvalid, UploadStalled, historyVars
<1> QED
    BY <1>2, <1>3, <1>4 DEF Typed, TypeOK, FlashTypeOK, StorageTypeOK

LEMMA TypedAux ==
    ASSUME Typed, ChangePairings \/ UpdateInputState \/ FlushAux
    PROVE  Typed'
<1>1. /\ pc' \in PCs /\ after' = after
      /\ UNCHANGED <<flash, job, upload, previous, preserve, staged, working, reinit, reloading,
                     loadedAny, saveAfterUpload, btLoaded, running, asked, left>>
      /\ configCommitPending' \in BOOLEAN /\ memory' \in Pairings
    BY DEF ChangePairings, UpdateInputState, FlushAux, ClearPending, Goto, PCs,
       storageVars, loopVars, managerVars, pendingVars, runVars, historyVars, Typed, TypeOK
<1>2. memory \in Pairings /\ cache \in Area /\ commit \in Commits
    BY TypedAreas
<1>3. /\ \/ cache' = cache
         \/ \E aux \in Pairings : cache' = CacheAfterUpdate(aux)
      /\ commit' \in Commits
      /\ auxPending' \in BOOLEAN /\ auxCommitPending' \in BOOLEAN
  <2>1. CASE ChangePairings
    <3>1. PICK aux \in Pairings :
            IF CanWriteAux
            THEN /\ UpdateAuxiliary(aux, TRUE)
                 /\ auxPending' = (auxPending \/ ~AuxUpdates(aux))
                 /\ auxCommitPending' = (auxCommitPending \/ ~AuxUpdates(aux))
            ELSE /\ auxPending' = TRUE
                 /\ auxCommitPending' = TRUE
                 /\ UNCHANGED <<cache, commit>>
        BY <2>1 DEF ChangePairings
    <3> QED
        BY <1>2, <3>1, UpdateKeepsMain DEF UpdateAuxiliary
  <2>2. CASE UpdateInputState
      BY <1>2, <2>2, UpdateKeepsMain
         DEF UpdateInputState, UpdateAuxiliary, pendingVars, Typed, TypeOK
  <2>3. CASE FlushAux
    <3>1. CommitAfterUpdate(memory) \in Commits /\ CommitCache \in Commits
        BY <1>2, UpdateKeepsMain DEF CommitCache, Commits
    <3>2. commit' \in Commits
        BY <1>2, <2>3, <3>1 DEF FlushAux
    <3> QED
        BY <1>2, <2>3, <3>2 DEF FlushAux, ClearPending
  <2> QED
      BY <2>1, <2>2, <2>3
<1>4. cache' \in Area /\ (Footer(cache') = NoFooter <=> Footer(cache) = NoFooter)
    BY <1>2, <1>3, UpdateKeepsMain
<1> QED
    BY <1>1, <1>3, <1>4 DEF Typed, TypeOK, FlashTypeOK, StorageTypeOK

LEMMA TypedSave ==
    ASSUME Typed, SaveConfig \/ FlushSave
    PROVE  Typed'
<1>1. /\ pc \in PCs \ {"write"}
      /\ UNCHANGED <<flash, upload, previous, staged, working, reloading, loadedAny,
                     auxPending, auxCommitPending, memory, btLoaded, running>>
      /\ reinit' \in BOOLEAN /\ preserve' \in BOOLEAN
      /\ configCommitPending' \in BOOLEAN /\ saveAfterUpload' \in BOOLEAN
    BY DEF SaveConfig, FlushSave, Servicing, PCs, flashVars, managerVars, pendingVars, runVars,
       historyVars, Typed, TypeOK, StorageTypeOK
<1>2. left' \in [Uses -> Nat]
    BY SpendTyped, TypedAreas DEF SaveConfig, FlushSave, historyVars, Uses
<1>3. asked' \subseteq Mains
  <2>1. MainOf(cache) \subseteq Mains /\ asked \subseteq Mains
      BY MainOfType, TypedAreas DEF Typed, TypeOK
  <2> QED
      BY <2>1 DEF SaveConfig, FlushSave, historyVars
<1>4. /\ cache' = cache \/ cache' = CacheAfterUpdate(memory)
      /\ commit' = commit
      /\ \/ UNCHANGED <<job, pc, after>>
         \/ \E then \in {"save", "flush"}, back \in PCs \ {"write"} :
                StartWrite(CacheJob, then, back, EmptyImage)
    BY <1>1 DEF SaveConfig, FlushSave, UpdateAuxiliary, flashVars, loopVars, PCs
<1>5. cache' \in Area /\ (Footer(cache') = NoFooter <=> Footer(cache) = NoFooter)
    BY <1>4, UpdateKeepsMain, TypedAreas
<1>6. /\ job' \in Jobs /\ (job'.erased => job'.from \in Sectors)
      /\ pc' \in PCs /\ after' \in [then : Nexts, back : PCs \ {"write"}, image : Image]
  <2>1. CASE UNCHANGED <<job, pc, after>>
      BY <2>1 DEF Typed, TypeOK, FlashTypeOK
  <2>2. CASE \E then \in {"save", "flush"}, back \in PCs \ {"write"} :
                 StartWrite(CacheJob, then, back, EmptyImage)
      BY <2>2, JobTypes, EmptyImageType DEF StartWrite, After, Nexts, PCs
  <2> QED
      BY <1>4, <2>1, <2>2
<1> QED
    BY <1>1, <1>2, <1>3, <1>4, <1>5, <1>6 DEF Typed, TypeOK, FlashTypeOK, StorageTypeOK

LEMMA TypedCommit ==
    ASSUME Typed, CommitDue
    PROVE  Typed'
<1>1. /\ pc' = "write" /\ commit' = "none"
      /\ UNCHANGED <<flash, cache, storageVars, managerVars, pendingVars, runVars, historyVars>>
      /\ job' = FlushJob /\ after' = After("tick", "usb", EmptyImage)
    BY DEF CommitDue, StartWrite
<1>2. /\ after' \in [then : Nexts, back : PCs \ {"write"}, image : Image]
      /\ job' \in Jobs /\ ~job'.erased
    BY <1>1, EmptyImageType, JobTypes DEF After, Nexts, PCs
<1> QED
    BY <1>1, <1>2 DEF Typed, TypeOK, FlashTypeOK, StorageTypeOK, storageVars,
       managerVars, pendingVars, runVars, historyVars, Commits, PCs, Footer

LEMMA TypedEnd ==
    ASSUME Typed, EndSave \/ EndFlushSave \/ EndCommit
    PROVE  Typed'
<1>1. /\ job' = NoJob /\ after' = NoAfter /\ pc' = after.back
      /\ UNCHANGED <<flash, cache, commit, storageVars, runVars, left>>
      /\ UNCHANGED <<working, reloading, loadedAny, saveAfterUpload>>
      /\ asked' = asked \/ asked' = MainOf(flash)
      /\ reinit' \in BOOLEAN /\ auxPending' \in BOOLEAN /\ auxCommitPending' \in BOOLEAN
      /\ configCommitPending' \in BOOLEAN
    BY DEF EndSave, EndFlushSave, EndCommit, EndWrite, ClearPending, pendingVars, managerVars,
       historyVars, Typed, TypeOK
<1>2. /\ NoAfter \in [then : Nexts, back : PCs \ {"write"}, image : Image]
      /\ NoJob \in Jobs /\ ~NoJob.erased /\ after.back \in PCs
    BY EmptyImageType, JobTypes, TypedAreas DEF NoAfter, After, Nexts, PCs
<1>3. asked' \subseteq Mains
    BY <1>1, MainOfType, TypedAreas DEF Typed, TypeOK
<1> QED
    BY <1>1, <1>2, <1>3 DEF Typed, TypeOK, FlashTypeOK, StorageTypeOK, storageVars, runVars, Footer

LEMMA TypedCut ==
    ASSUME Typed, PowerCut
    PROVE  Typed'
<1>1. flash' = flash /\ flash \in Area /\ (Footer(flash) # NoFooter => Footer(flash) \in Image)
    BY TypedAreas DEF PowerCut
<1>2. /\ pc' = "usb" /\ after' = NoAfter /\ job' = NoJob /\ commit' = "none"
      /\ cache' = IF Boots(flash) THEN flash ELSE WithFooter(flash, EmptyImage)
      /\ upload' = FALSE /\ previous' = NoPrevious /\ staged' = 0
      /\ preserve' = ~Boots(flash)
      /\ working' = FALSE /\ reinit' = FALSE /\ reloading' = FALSE
      /\ loadedAny' = Boots(flash)
      /\ auxPending' = FALSE /\ auxCommitPending' = FALSE
      /\ configCommitPending' = FALSE /\ saveAfterUpload' = FALSE
      /\ memory' = (IF Readable(flash) THEN Footer(flash).aux ELSE NoPairings)
      /\ btLoaded' = Readable(flash)
      /\ running' = (IF Readable(flash) THEN Footer(flash).main ELSE EmptyMain)
      /\ asked' = MainOf(flash)
    BY DEF PowerCut
<1>3. memory' \in Pairings /\ running' \in Mains
    BY <1>1, <1>2, SizesAssumption DEF Readable, Image, Mains
<1>4. cache' \in Area
    BY <1>1, <1>2, EmptyImageType, WithFooterType
<1>5. left' \in [Uses -> Nat]
    BY SpendTyped DEF PowerCut, Uses
<1>6. Boots(flash) \in BOOLEAN /\ Readable(flash) \in BOOLEAN
    BY DEF Boots, Readable
<1>7. /\ NoAfter \in [then : Nexts, back : PCs \ {"write"}, image : Image]
      /\ NoJob \in Jobs /\ ~NoJob.erased
    BY EmptyImageType, JobTypes DEF NoAfter, After, Nexts, PCs
<1>8. asked' \subseteq Mains
    BY <1>1, <1>2, MainOfType
<1> QED
    BY <1>1, <1>2, <1>3, <1>4, <1>5, <1>6, <1>7, <1>8
       DEF Typed, TypeOK, FlashTypeOK, StorageTypeOK, Commits, PCs

LEMMA TypedStays ==
    ASSUME Typed, [Next]_vars
    PROVE  Typed'
<1>1. CASE Tool
    BY <1>1, TypedInfo, TypedChunk, TypedAbort, TypedSave DEF Tool
<1>2. CASE Flash
    BY <1>2, TypedWrite, TypedInfo, TypedEnd DEF Flash
<1>3. CASE Loop
    BY <1>3, TypedLoop, TypedAbort, TypedSave, TypedAux, TypedCommit DEF Loop
<1>4. CASE Environment
    BY <1>4, TypedAux, TypedLoop, TypedCut DEF Environment
<1>5. CASE UNCHANGED vars
    BY <1>5, Stutter DEF Typed, TypeOK, FlashTypeOK, StorageTypeOK, Footer
<1> QED
    BY <1>1, <1>2, <1>3, <1>4, <1>5 DEF Next

(* Every variable keeps its type from whatever flash held at first, wherever *)
(* Bluetooth's callbacks come from and whenever power goes, a write included. *)
THEOREM TypeAlwaysCorrect == SpecFresh => []TypeOK
<1>1. InitFresh => Typed
    BY TypedAtFirst
<1>2. Typed /\ [Next]_vars => Typed'
    BY TypedStays
<1>3. Typed => TypeOK
    BY DEF Typed
<1> QED
    BY <1>1, <1>2, <1>3, PTL DEF SpecFresh

-----------------------------------------------------------------------------
(* Where what is in flash comes from *)

\* Any two aux blocks fit beside any config: update_auxiliary always has room
AuxAlwaysFits ==
    \A image \in Image, aux \in Pairings : Size(image) + AuxSize[aux] <= Capacity

\* The main config in the cache is one there may be in flash
CacheAsked == MainOf(cache) \subseteq asked

(* What is in flash was asked for, and so is what may be written next: by a *)
(* commit of the cache, by the fallback of flush_pending_aux on a cache it  *)
(* can't read, by a save held back, and by the write in progress.           *)
Origins ==
    /\ NoCommitOverUpload
    /\ PreviousForUpload
    /\ MainOf(flash) \subseteq asked
    /\ commit = "cache" => CacheAsked
    /\ ~upload /\ ~Readable(cache) => CacheAsked
    /\ configCommitPending => ~upload /\ CacheAsked
    /\ saveAfterUpload => upload /\ CacheAsked
    /\ pc = "write" =>
           /\ after.then = "info" => commit = "none" /\ ~configCommitPending
           /\ after.then \in {"save", "flush"} => job.live
           /\ job.live => CacheAsked
           /\ ~job.live /\ job # NoJob => job.image.main \in asked
           /\ job.live /\ job.from > NSectors => Footer(flash) = Footer(cache)

\* A write that copies the cache ends with the cached footer in flash
LEMMA DoneCopied ==
    ASSUME Typed, Origins, pc = "write", WriteDone, job.live
    PROVE  Footer(flash) = Footer(cache)
<1>1. job \in Jobs
    BY TypedAreas
<1>2. CASE job.from > NSectors
    BY <1>2 DEF Origins
<1>3. CASE ~(job.from > NSectors)
  <2>1. NSectors \in job.from..NSectors
      BY <1>1, <1>3, SizesAssumption DEF Jobs
  <2>2. flash[NSectors] = Target(NSectors) /\ Target(NSectors) = cache[NSectors]
      BY <2>1 DEF WriteDone, Target
  <2> QED
      BY <2>2 DEF Footer
<1> QED
    BY <1>2, <1>3

\* Steps between writes
LEMMA OriginsFrame ==
    ASSUME Origins, pc # "write", pc' # "write", UNCHANGED flash,
           asked \subseteq asked',
           upload' => commit' = "none",
           upload' <=> previous' # NoPrevious,
           commit' = "cache" => CacheAsked',
           ~upload' /\ ~Readable(cache') => CacheAsked',
           configCommitPending' => ~upload' /\ CacheAsked',
           saveAfterUpload' => upload' /\ CacheAsked'
    PROVE  Origins'
BY DEF Origins, NoCommitOverUpload, PreviousForUpload, MainOf, Footer, Readable

\* and of those the ones that leave the cache and what is pending alone
LEMMA OriginsSame ==
    ASSUME Origins, pc # "write", pc' # "write",
           UNCHANGED <<flash, cache, commit, upload, previous, configCommitPending,
                       saveAfterUpload, asked>>
    PROVE  Origins'
BY DEF Origins, NoCommitOverUpload, PreviousForUpload, MainOf, Footer, Readable, CacheAsked

\* A write that starts
LEMMA OriginsStart ==
    ASSUME Typed, Origins, pc # "write", pc' = "write", ~upload,
           UNCHANGED <<flash, upload, previous, configCommitPending, saveAfterUpload>>,
           asked \subseteq asked', MainOf(cache') = MainOf(cache),
           ~Readable(cache') => cache' = cache,
           commit' = "none" \/ commit' = commit,
           after'.then = "info" => commit' = "none" /\ ~configCommitPending,
           \/ job' = CacheJob /\ CacheAsked'
           \/ job' = FlushJob /\ cache' = cache /\ after'.then \notin {"save", "flush"}
    PROVE  Origins'
<1>1. CacheAsked => CacheAsked'
    BY DEF CacheAsked
<1>2. /\ after'.then \in {"save", "flush"} => job'.live
      /\ job'.live => CacheAsked'
      /\ ~job'.live /\ job' # NoJob => job'.image.main \in asked'
      /\ job'.live => ~(job'.from > NSectors)
  <2>1. CASE job' = CacheJob /\ CacheAsked'
      BY <2>1, JobTypes, SizesAssumption
  <2>2. CASE job' = FlushJob /\ commit = "cache" /\ cache' = cache /\ after'.then \notin {"save", "flush"}
    <3>1. job' = CacheJob /\ CacheAsked
        BY <2>2 DEF FlushJob, Origins
    <3> QED
        BY <1>1, <2>2, <3>1, JobTypes, SizesAssumption
  <2>3. CASE job' = AuxJob /\ AuxCommittable /\ after'.then \notin {"save", "flush"}
    <3>1. AuxJob.image.main = Footer(flash).main /\ ~AuxJob.live
        BY <2>3, JobTypes
    <3>2. Footer(flash).main \in asked'
        BY <2>3 DEF Origins, MainOf, AuxCommittable, Readable
    <3> QED
        BY <2>3, <3>1, <3>2
  <2>4. CASE job' = NoJob /\ after'.then \notin {"save", "flush"}
      BY <2>4, JobTypes
  <2> QED
      BY <2>1, <2>2, <2>3, <2>4 DEF FlushJob
<1>3. /\ commit' = "cache" => CacheAsked'
      /\ ~upload' /\ ~Readable(cache') => CacheAsked'
      /\ configCommitPending' => ~upload' /\ CacheAsked'
      /\ saveAfterUpload' => upload' /\ CacheAsked'
    BY <1>1 DEF Origins
<1> QED
    BY <1>2, <1>3 DEF Origins, NoCommitOverUpload, PreviousForUpload, MainOf, Footer, Readable

LEMMA OriginsAtFirst ==
    ASSUME InitFresh
    PROVE  Origins
<1>1. PICK area \in SavedAreas \union {BlankArea} : Boot(area) /\ asked = MainOf(area)
    BY DEF InitFresh, InitFrom
<1>2. area \in Area
    BY <1>1, TypedAtFirst, TypedAreas DEF Boot
<1>3. /\ Readable(cache)
    BY <1>1, <1>2, EmptyImageType, EmptyReadable DEF Boot, Boots
<1> QED
    BY <1>1, <1>3 DEF Boot, Origins, NoCommitOverUpload, PreviousForUpload

LEMMA OriginsLoop ==
    ASSUME Origins, \/ Serviced \/ RequestReload \/ ReloadDue \/ ModeChanged \/ NoReload
                    \/ BeginReinit \/ LoadConfig \/ WaitForUpload \/ NothingToFlush
                    \/ Updated \/ NoCommit
    PROVE  Origins'
<1>1. /\ pc # "write" /\ pc' # "write"
      /\ UNCHANGED <<flash, cache, commit, upload, previous, configCommitPending,
                     saveAfterUpload, asked>>
    BY DEF Serviced, RequestReload, ReloadDue, ModeChanged, NoReload, BeginReinit, LoadConfig,
       WaitForUpload, NothingToFlush, Updated, NoCommit, Goto, Servicing, flashVars,
       storageVars, loopVars, pendingVars, historyVars
<1> QED
    BY <1>1, OriginsSame

LEMMA OriginsWrite ==
    ASSUME Typed, Origins, WriteStep
    PROVE  Origins'
<1>1. /\ pc = "write" /\ pc' = "write"
      /\ UNCHANGED <<after, cache, commit, upload, previous, configCommitPending,
                     saveAfterUpload, asked>>
    BY DEF WriteStep, EraseSector, ProgramSector, storageVars, loopVars, pendingVars, historyVars
<1>2. flash \in Area /\ cache \in Area /\ job \in Jobs
    BY TypedAreas
<1>3. /\ MainOf(flash') \subseteq asked
      /\ job'.live = job.live /\ job'.image = job.image /\ job # NoJob
      /\ job.live /\ job'.from > NSectors => Footer(flash') = Footer(cache)
  <2>1. CASE EraseSector
    <3>1. PICK s \in Sectors : /\ NextSector(s)
                                /\ flash' = [flash EXCEPT ![s] = ErasedPiece]
                                /\ job' = [job EXCEPT !.from = s, !.erased = TRUE]
        BY <2>1 DEF EraseSector
    <3>2. job # NoJob
        BY <3>1, JobTypes, SizesAssumption DEF NextSector
    <3>3. job'.live = job.live /\ job'.image = job.image /\ job'.from = s /\ ~(s > NSectors)
        BY <1>2, <3>1, SizesAssumption DEF Jobs, Sectors
    <3>4. Footer(flash') = NoFooter \/ Footer(flash') = Footer(flash)
        BY <1>2, <3>1, LastSector DEF Footer, Area, ErasedPiece
    <3> QED
        BY <3>2, <3>3, <3>4 DEF MainOf, Origins
  <2>2. CASE ProgramSector
    <3>1. /\ job.from \in Sectors
          /\ flash' = [flash EXCEPT ![job.from] = Target(job.from)]
          /\ job' = [job EXCEPT !.from = job.from + 1, !.erased = FALSE]
        BY <2>2 DEF ProgramSector, Typed
    <3>2. job # NoJob
        BY <3>1, JobTypes, SizesAssumption DEF Sectors
    <3>3. job'.live = job.live /\ job'.image = job.image /\ job'.from = job.from + 1
        BY <1>2, <3>1 DEF Jobs
    <3>4. CASE job.from # NSectors
      <4>1. Footer(flash') = Footer(flash)
          BY <1>2, <3>1, <3>4, LastSector DEF Footer, Area
      <4>2. ~(job'.from > NSectors)
          BY <3>1, <3>3, <3>4, SizesAssumption DEF Sectors
      <4> QED
          BY <3>2, <3>3, <4>1, <4>2 DEF MainOf, Origins
    <3>5. CASE job.from = NSectors
      <4>1. Footer(flash') = Target(NSectors).foot
          BY <1>2, <3>1, <3>5, LastSector DEF Footer, Area
      <4>2. CASE job.live
        <5>1. Footer(flash') = Footer(cache)
            BY <4>1, <4>2 DEF Target, Footer
        <5> QED
            BY <1>1, <3>2, <3>3, <4>2, <5>1 DEF Origins, CacheAsked, MainOf
      <4>3. CASE ~job.live
        <5>1. Footer(flash') = job.image
            BY <1>2, <4>1, <4>3, LayoutReadable DEF Target, Footer, Jobs
        <5>2. job.image.main \in asked
            BY <1>1, <3>2, <4>3 DEF Origins
        <5> QED
            BY <3>2, <3>3, <4>3, <5>1, <5>2 DEF MainOf
      <4> QED
          BY <4>2, <4>3
    <3> QED
        BY <3>4, <3>5
  <2> QED
      BY <2>1, <2>2 DEF WriteStep
<1> QED
    BY <1>1, <1>3 DEF Origins, NoCommitOverUpload, PreviousForUpload, CacheAsked, MainOf,
       Footer, Readable

LEMMA OriginsInfo ==
    ASSUME PatientTool, Typed, Origins, WriteConfigInfo \/ EndInfoFlush
    PROVE  Origins'
<1>1. UNCHANGED <<flash, configCommitPending, saveAfterUpload, asked>>
    BY DEF WriteConfigInfo, EndInfoFlush, pendingVars, historyVars
<1>2. ~saveAfterUpload /\ ~configCommitPending
    BY DEF WriteConfigInfo, EndInfoFlush, EndWrite, Origins, NoCommitOverUpload
<1>3. ASSUME NEW image \in Image, AcceptInfo(image), pc' # "write", commit' = "none"
      PROVE  Origins'
  <2>1. ~upload' => Readable(cache')
      BY <1>3, AcceptTyped
  <2>2. upload' <=> previous' # NoPrevious
      BY <1>3, TypedAreas, NoPreviousAssumption DEF AcceptInfo
  <2> QED
      BY <1>1, <1>2, <1>3, <2>1, <2>2 DEF Origins, NoCommitOverUpload, PreviousForUpload, MainOf, Footer
<1>4. CASE WriteConfigInfo /\ (upload \/ commit = "none")
  <2>1. PICK image \in Image : AcceptInfo(image)
      BY <1>4 DEF WriteConfigInfo, InfoAccepted
  <2>2. pc' # "write" /\ commit' = "none"
      BY <1>4 DEF WriteConfigInfo, Servicing, loopVars, Origins, NoCommitOverUpload
  <2> QED
      BY <1>3, <2>1, <2>2
<1>5. CASE WriteConfigInfo /\ ~(upload \/ commit = "none")
  <2>1. PICK image \in Image : StartWrite(FlushJob, "info", pc, image)
      BY <1>5 DEF WriteConfigInfo
  <2>2. /\ pc # "write" /\ pc' = "write" /\ ~upload /\ commit' = "none" /\ cache' = cache
        /\ UNCHANGED <<upload, previous>> /\ job' = FlushJob /\ after'.then = "info"
      BY <1>5, <2>1 DEF WriteConfigInfo, Servicing, storageVars, StartWrite, After
  <2> QED
      BY <1>1, <1>2, <2>2, OriginsStart
<1>6. CASE EndInfoFlush
  <2>1. AcceptInfo(after.image) /\ after.image \in Image
      BY <1>6, TypedAreas DEF EndInfoFlush, InfoAccepted
  <2>2. pc' # "write" /\ commit' = "none"
      BY <1>6, TypedAreas DEF EndInfoFlush, EndWrite, Origins
  <2> QED
      BY <1>3, <2>1, <2>2
<1> QED
    BY <1>4, <1>5, <1>6

LEMMA OriginsChunk ==
    ASSUME Typed, Origins, WriteChunkInProgress \/ WriteChunkDone
    PROVE  Origins'
<1>1. /\ pc # "write" /\ pc' # "write" /\ upload /\ commit' = "none" /\ commit = "none"
      /\ UNCHANGED <<flash, asked>>
    BY DEF WriteChunkInProgress, WriteChunkDone, ChunkInProgress, ChunkDone, Servicing, loopVars,
       historyVars, Origins, NoCommitOverUpload
<1>2. cache \in Area /\ Footer(cache) \in Image /\ ~configCommitPending
    BY <1>1, TypedAreas DEF Typed, Origins
<1>3. CASE WriteChunkInProgress
  <2>1. /\ cache' = Staged(cache, staged + 1)
        /\ UNCHANGED <<upload, previous, configCommitPending, saveAfterUpload>>
      BY <1>3 DEF WriteChunkInProgress, ChunkInProgress, pendingVars
  <2>2. MainOf(cache') = MainOf(cache)
      BY <1>2, <2>1, StagedType DEF MainOf
  <2> QED
      BY <1>1, <1>2, <2>1, <2>2, OriginsFrame DEF Origins, PreviousForUpload, CacheAsked
<1>4. CASE WriteChunkDone
  <2>1. /\ cache' = Layout(Footer(cache)) /\ upload' = FALSE /\ previous' = NoPrevious
        /\ (configCommitPending' => saveAfterUpload) /\ saveAfterUpload' = FALSE
      BY <1>2, <1>4 DEF WriteChunkDone, ChunkDone
  <2>2. Footer(cache') = Footer(cache) /\ Readable(cache')
      BY <1>2, <2>1, LayoutReadable
  <2>3. MainOf(cache') = MainOf(cache)
      BY <2>2 DEF MainOf
  <2> QED
      BY <1>1, <2>1, <2>2, <2>3, OriginsFrame DEF Origins, CacheAsked
<1> QED
    BY <1>3, <1>4

LEMMA OriginsAbort ==
    ASSUME Typed, Origins, WriteChunkInvalid \/ UploadStalled
    PROVE  Origins'
<1>1. PICK area \in Area : /\ AbortConfigWrite(area)
                           /\ ~upload => area = cache
    BY StagedType, TypedAreas DEF WriteChunkInvalid, UploadStalled, CacheAfterBadChunk
<1>2. /\ upload' = FALSE /\ previous' = NoPrevious
      /\ previous = NoPrevious => cache' = area
      /\ previous # NoPrevious /\ ~Readable(cache') => cache' = flash
    BY <1>1, AbortTyped DEF AbortConfigWrite
<1>3. /\ UNCHANGED <<flash, commit, asked, configCommitPending>> /\ saveAfterUpload' = FALSE
      /\ pc # "write" /\ pc' # "write"
    BY <1>1 DEF WriteChunkInvalid, UploadStalled, AbortConfigWrite, Goto, Servicing, loopVars,
       historyVars
<1>4. CASE ~upload
  <2>1. cache' = cache
      BY <1>1, <1>2, <1>4 DEF Origins, PreviousForUpload
  <2> QED
      BY <1>2, <1>3, <1>4, <2>1, OriginsFrame DEF Origins, CacheAsked
<1>5. CASE upload
  <2>1. commit' = "none" /\ ~configCommitPending' /\ previous # NoPrevious
      BY <1>3, <1>5 DEF Origins, NoCommitOverUpload, PreviousForUpload
  <2>2. ~Readable(cache') => CacheAsked'
      BY <1>2, <1>3, <2>1 DEF Origins, CacheAsked
  <2> QED
      BY <1>2, <1>3, <2>1, <2>2, OriginsFrame
<1> QED
    BY <1>4, <1>5

LEMMA OriginsAux ==
    ASSUME BtInIrq = FALSE, AuxAlwaysFits, Typed, Origins,
           ChangePairings \/ UpdateInputState \/ FlushAux
    PROVE  Origins'
<1>1. /\ pc # "write" /\ pc' # "write"
      /\ UNCHANGED <<flash, upload, previous, saveAfterUpload, asked>>
      /\ configCommitPending' = configCommitPending \/ configCommitPending' = FALSE
    BY DEF ChangePairings, UpdateInputState, FlushAux, ClearPending, Goto, Servicing,
       storageVars, loopVars, pendingVars, historyVars
<1>2. memory \in Pairings
    BY TypedAreas
<1>3. /\ \/ cache' = cache
         \/ \E aux \in Pairings : cache' = CacheAfterUpdate(aux)
      /\ \/ commit' = commit
         \/ \E aux \in Pairings : commit' = CommitAfterUpdate(aux)
         \/ commit' = "cache" /\ ~upload /\ ~AuxUpdates(memory)
  <2>1. CASE ChangePairings
    <3>1. PICK aux \in Pairings : UpdateAuxiliary(aux, TRUE) \/ UNCHANGED <<cache, commit>>
        BY <2>1 DEF ChangePairings
    <3> QED
        BY <3>1 DEF UpdateAuxiliary
  <2>2. CASE UpdateInputState
      BY <1>2, <2>2 DEF UpdateInputState, UpdateAuxiliary
  <2>3. CASE FlushAux
      BY <1>2, <2>3 DEF FlushAux, CanWriteAux, CommitCache
  <2> QED
      BY <2>1, <2>2, <2>3
<1>4. MainOf(cache') = MainOf(cache) /\ (~Readable(cache') => ~Readable(cache))
    BY <1>3, UpdateKeepsMain
<1>5. CacheAsked => CacheAsked'
    BY <1>1, <1>4 DEF CacheAsked
<1>6. commit' = "cache" => CacheAsked'
  <2>1. CASE commit' = commit
      BY <1>5, <2>1 DEF Origins
  <2>2. CASE \E aux \in Pairings : commit' = CommitAfterUpdate(aux)
    <3>1. PICK aux \in Pairings : commit' = CommitAfterUpdate(aux)
        BY <2>2
    <3>2. ASSUME AuxUpdates(aux), CacheIsSaved
          PROVE  CacheAsked
      <4>1. /\ Footer(flash) # NoFooter /\ Footer(cache) # NoFooter
            /\ Footer(flash).main = Footer(cache).main
          BY <3>2 DEF AuxUpdates, Resignable, Readable, CacheIsSaved
      <4> QED
          BY <4>1 DEF Origins, MainOf, CacheAsked
    <3>3. commit' = "cache" => CacheAsked
        BY <3>1, <3>2 DEF CommitAfterUpdate, CommitWriter, Origins
    <3> QED
        BY <1>5, <3>3
  <2>3. CASE commit' = "cache" /\ ~upload /\ ~AuxUpdates(memory)
    <3>1. ASSUME Readable(cache)
          PROVE  AuxUpdates(memory)
      <4>1. Footer(cache) \in Image
          BY <3>1, TypedAreas DEF Readable
      <4>2. /\ Size(Footer(cache)) \in Nat /\ AuxSize[memory] \in Nat /\ Capacity \in Int
            /\ Size(Footer(cache)) + AuxSize[memory] <= Capacity
          BY <1>2, <4>1, SizeNat, SizesAssumption DEF AuxAlwaysFits, Capacity
      <4> QED
          BY <2>3, <3>1, <4>2 DEF AuxUpdates, Resignable, AuxFits
    <3> QED
        BY <1>5, <2>3, <3>1 DEF Origins
  <2> QED
      BY <1>3, <2>1, <2>2, <2>3
<1>7. upload => commit' = "none"
    BY <1>3, UpdateKeepsMain DEF Origins, NoCommitOverUpload
<1> QED
    BY <1>1, <1>4, <1>5, <1>6, <1>7, OriginsFrame DEF Origins, PreviousForUpload

LEMMA OriginsSave ==
    ASSUME Typed, Origins, SaveConfig \/ FlushSave
    PROVE  Origins'
<1>1. /\ pc # "write"
      /\ UNCHANGED <<flash, commit, upload, previous>>
      /\ asked \subseteq asked'
    BY DEF SaveConfig, FlushSave, Servicing, UpdateAuxiliary, flashVars, historyVars
<1>2. CASE SaveConfig /\ (upload \/ auxPending)
  <2>1. /\ UNCHANGED <<cache, pc>> /\ CacheAsked'
        /\ configCommitPending' => configCommitPending \/ ~upload
        /\ saveAfterUpload' => saveAfterUpload \/ upload
      BY <1>2 DEF SaveConfig, flashVars, loopVars, CacheAsked
  <2> QED
      BY <1>1, <2>1, OriginsFrame DEF Origins, NoCommitOverUpload, PreviousForUpload
<1>3. CASE SaveConfig /\ ~upload /\ ~auxPending
  <2>1. /\ pc' = "write" /\ after'.then = "save" /\ job' = CacheJob /\ CacheAsked'
        /\ UNCHANGED <<cache, configCommitPending, saveAfterUpload>>
      BY <1>3 DEF SaveConfig, StartWrite, After, CacheAsked
  <2> QED
      BY <1>1, <1>3, <2>1, OriginsStart
<1>4. CASE FlushSave
  <2>1. /\ pc' = "write" /\ after'.then = "flush" /\ job' = CacheJob /\ ~upload
        /\ UNCHANGED <<configCommitPending, saveAfterUpload, asked>>
        /\ cache' = CacheAfterUpdate(memory) /\ configCommitPending
      BY <1>4 DEF FlushSave, StartWrite, After, CanWriteAux, UpdateAuxiliary, pendingVars, historyVars
  <2>2. MainOf(cache') = MainOf(cache) /\ (~Readable(cache') => cache' = cache)
      BY <2>1, UpdateKeepsMain, TypedAreas
  <2>3. CacheAsked'
      BY <2>1, <2>2 DEF Origins, CacheAsked
  <2> QED
      BY <1>1, <2>1, <2>2, <2>3, OriginsStart
<1> QED
    BY <1>2, <1>3, <1>4

LEMMA OriginsCommit ==
    ASSUME Typed, Origins, CommitDue
    PROVE  Origins'
<1>1. /\ pc # "write" /\ pc' = "write" /\ commit' = "none" /\ ~upload
      /\ job' = FlushJob /\ after'.then = "tick"
      /\ UNCHANGED <<flash, cache, upload, previous, configCommitPending, saveAfterUpload, asked>>
    BY DEF CommitDue, StartWrite, After, storageVars, pendingVars, historyVars, Origins,
       NoCommitOverUpload
<1> QED
    BY <1>1, OriginsStart

LEMMA OriginsEnd ==
    ASSUME Typed, Origins, EndSave \/ EndFlushSave \/ EndCommit
    PROVE  Origins'
<1>1. /\ pc = "write" /\ WriteDone /\ pc' # "write" /\ ~upload
      /\ UNCHANGED <<flash, cache, commit, upload, previous, saveAfterUpload>>
      /\ configCommitPending' => configCommitPending
    BY TypedAreas DEF EndSave, EndFlushSave, EndCommit, EndWrite, ClearPending, storageVars,
       pendingVars, Origins, NoCommitOverUpload
<1>2. CASE EndCommit
  <2>1. asked' = asked /\ configCommitPending' = configCommitPending
      BY <1>2 DEF EndCommit, historyVars, pendingVars
  <2> QED
      BY <1>1, <2>1 DEF Origins, NoCommitOverUpload, PreviousForUpload, CacheAsked, MainOf,
         Footer, Readable
<1>3. CASE EndSave \/ EndFlushSave
  <2>1. after.then \in {"save", "flush"} /\ asked' = MainOf(flash)
      BY <1>3 DEF EndSave, EndFlushSave, EndWrite
  <2>2. Footer(flash) = Footer(cache)
      BY <1>1, <2>1, DoneCopied DEF Origins
  <2>3. CacheAsked' /\ MainOf(flash)' \subseteq asked'
      BY <1>1, <2>1, <2>2 DEF CacheAsked, MainOf, Footer
  <2> QED
      BY <1>1, <2>3 DEF Origins, NoCommitOverUpload, PreviousForUpload
<1> QED
    BY <1>2, <1>3

LEMMA OriginsCut ==
    ASSUME Typed, Origins, PowerCut
    PROVE  Origins'
<1>1. /\ flash' = flash /\ flash \in Area /\ asked' = MainOf(flash)
      /\ pc' = "usb" /\ commit' = "none" /\ upload' = FALSE /\ previous' = NoPrevious
      /\ cache' = IF Boots(flash) THEN flash ELSE WithFooter(flash, EmptyImage)
      /\ configCommitPending' = FALSE /\ saveAfterUpload' = FALSE
    BY TypedAreas DEF PowerCut
<1>2. Readable(cache')
    BY <1>1, EmptyImageType, EmptyReadable DEF Boots
<1> QED
    BY <1>1, <1>2 DEF Origins, NoCommitOverUpload, PreviousForUpload, MainOf, Footer, Readable

LEMMA OriginsStay ==
    ASSUME BtInIrq = FALSE, PatientTool, AuxAlwaysFits, Typed, Origins, [Next]_vars
    PROVE  Origins'
<1>1. CASE Tool
    BY <1>1, OriginsInfo, OriginsChunk, OriginsAbort, OriginsSave DEF Tool
<1>2. CASE Flash
    BY <1>2, OriginsWrite, OriginsInfo, OriginsEnd DEF Flash
<1>3. CASE Loop
    BY <1>3, OriginsLoop, OriginsAbort, OriginsSave, OriginsAux, OriginsCommit DEF Loop
<1>4. CASE Environment
    BY <1>4, OriginsAux, OriginsLoop, OriginsCut DEF Environment
<1>5. CASE UNCHANGED vars
    BY <1>5, Stutter DEF Origins, NoCommitOverUpload, PreviousForUpload, CacheAsked, MainOf,
       Footer, Readable, NoJob, Job
<1> QED
    BY <1>1, <1>2, <1>3, <1>4, <1>5 DEF Next

(* The main config in flash is one that was saved or asked to be since, from *)
(* whatever flash held at first and whenever power goes, for a tool that     *)
(* waits for its saves and a config that leaves room for the pairings: never *)
(* an upload that is only tried out, whatever is committed for the pairings  *)
(* meanwhile.                                                                *)
THEOREM OnlySavedEverReachesFlash ==
    ASSUME BtInIrq = FALSE, PatientTool, AuxAlwaysFits
    PROVE  SpecFresh => []OnlySavedReachesFlash
<1>1. InitFresh => Typed /\ Origins
    BY TypedAtFirst, OriginsAtFirst
<1>2. Typed /\ Origins /\ [Next]_vars => (Typed /\ Origins)'
    BY TypedStays, OriginsStay
<1>3. Origins => OnlySavedReachesFlash
    BY DEF Origins, OnlySavedReachesFlash, MainOf
<1> QED
    BY <1>1, <1>2, <1>3, PTL DEF SpecFresh

-----------------------------------------------------------------------------
(* A save held back *)

\* What a step makes of a save that is held back
LEMMA HeldSaveStep ==
    ASSUME PatientTool, Typed, Origins, configCommitPending, Next, ~PowerCut
    PROVE  /\ MainOf(cache') = MainOf(cache)
           /\ configCommitPending' \/ MainOf(flash') = MainOf(cache)
<1>1. ~upload /\ previous = NoPrevious
    BY DEF Origins, PreviousForUpload
<1>2. CASE WriteConfigInfo \/ EndInfoFlush
    BY <1>2 DEF WriteConfigInfo, EndInfoFlush, EndWrite, Origins
<1>3. CASE WriteChunkInProgress \/ WriteChunkDone
    BY <1>1, <1>3 DEF WriteChunkInProgress, WriteChunkDone, ChunkInProgress, ChunkDone
<1>4. CASE WriteChunkInvalid \/ UploadStalled
  <2>1. cache' = cache /\ configCommitPending' = configCommitPending
      BY <1>1, <1>4 DEF WriteChunkInvalid, UploadStalled, AbortConfigWrite, AbortWrite
  <2> QED
      BY <2>1
<1>5. CASE SaveConfig
  <2>1. cache' = cache /\ (configCommitPending' = TRUE \/ configCommitPending' = configCommitPending)
      BY <1>1, <1>5 DEF SaveConfig, flashVars
  <2> QED
      BY <2>1
<1>6. CASE ChangePairings \/ UpdateInputState
  <2>1. cache' = cache \/ \E aux \in Pairings : cache' = CacheAfterUpdate(aux)
      BY <1>6, TypedAreas DEF ChangePairings, UpdateInputState, UpdateAuxiliary
  <2>2. configCommitPending' = configCommitPending
      BY <1>6 DEF ChangePairings, UpdateInputState, pendingVars
  <2> QED
      BY <2>1, <2>2, UpdateKeepsMain
<1>7. CASE FlushAux
    BY <1>7 DEF FlushAux
<1>8. CASE FlushSave
  <2>1. cache' = CacheAfterUpdate(memory) /\ configCommitPending' = configCommitPending
      BY <1>8 DEF FlushSave, UpdateAuxiliary, pendingVars
  <2> QED
      BY <2>1, UpdateKeepsMain, TypedAreas
<1>9. CASE EndFlushSave
  <2>1. UNCHANGED <<flash, cache>> /\ pc = "write" /\ WriteDone /\ job.live
      BY <1>9 DEF EndFlushSave, EndWrite, Origins
  <2> QED
      BY <2>1, DoneCopied DEF MainOf, Footer
<1>10. CASE WriteStep \/ EndSave \/ EndCommit \/ CommitDue
  <2>1. cache' = cache /\ configCommitPending' = configCommitPending
      BY <1>10 DEF WriteStep, EraseSector, ProgramSector, EndSave, EndCommit, CommitDue, pendingVars
  <2> QED
      BY <2>1
<1>11. CASE \/ Serviced \/ RequestReload \/ ReloadDue \/ ModeChanged \/ NoReload
            \/ BeginReinit \/ LoadConfig \/ WaitForUpload \/ NothingToFlush
            \/ Updated \/ NoCommit
  <2>1. cache' = cache /\ configCommitPending' = configCommitPending
      BY <1>11 DEF Serviced, RequestReload, ReloadDue, ModeChanged, NoReload, BeginReinit,
         LoadConfig, WaitForUpload, NothingToFlush, Updated, NoCommit, flashVars, pendingVars
  <2> QED
      BY <2>1
<1> QED
    BY <1>2, <1>3, <1>4, <1>5, <1>6, <1>7, <1>8, <1>9, <1>10, <1>11
       DEF Next, Tool, Flash, Loop, Environment

(* A save held back is never carried out with another config than the one it *)
(* was for, and never forgotten before flash has that config, whatever comes *)
(* between: the safety part of SaveReachesFlash.                             *)
THEOREM HeldSaveAlwaysKept ==
    ASSUME BtInIrq = FALSE, PatientTool, AuxAlwaysFits
    PROVE  SpecFresh => HeldSaveKept
<1>1. InitFresh => Typed /\ Origins
    BY TypedAtFirst, OriginsAtFirst
<1>2. Typed /\ Origins /\ [Next]_vars => (Typed /\ Origins)'
    BY TypedStays, OriginsStay
<1>3. Typed /\ Origins /\ [Next]_vars =>
          [configCommitPending /\ ~PowerCut =>
               /\ MainOf(cache') = MainOf(cache)
               /\ configCommitPending' \/ MainOf(flash') = MainOf(cache)]_vars
    BY HeldSaveStep
<1> QED
    BY <1>1, <1>2, <1>3, PTL DEF SpecFresh, HeldSaveKept

-----------------------------------------------------------------------------
(* What flush_pending_aux waits for *)

(* A save held back, or a change of the pairings that is to be committed,    *)
(* has the flag flush_pending_aux looks at.  Nothing it can meet there stays *)
(* for good: an upload is one hid_task watches for a tool that went away,    *)
(* and m_reloading is set only within a reload.                              *)
Unblocked ==
    /\ upload => working
    /\ reloading => pc = "loading"
    /\ configCommitPending \/ auxCommitPending => auxPending

(* When hid_task gets there, such a save or change is flushed at once, but   *)
(* for a reload that is due or an upload that isn't over.                    *)
PendingFlushed ==
    pc = "hid" /\ (configCommitPending \/ auxCommitPending) =>
        working \/ reinit \/ (auxPending /\ CanWriteAux)

LEMMA UnblockedAtFirst ==
    ASSUME InitFresh
    PROVE  Unblocked
BY DEF InitFresh, InitFrom, Boot, Unblocked

\* What the tool does to an upload
LEMMA UnblockedTool ==
    ASSUME Unblocked, Tool
    PROVE  Unblocked'
<1>1. CASE WriteConfigInfo
    BY <1>1 DEF Unblocked, WriteConfigInfo, InfoAccepted, AcceptInfo, StartWrite, Servicing,
       loopVars, storageVars, pendingVars
<1>2. CASE WriteChunkInProgress \/ WriteChunkDone
    BY <1>2 DEF Unblocked, WriteChunkInProgress, WriteChunkDone, ChunkInProgress, ChunkDone,
       loopVars, pendingVars
<1>3. CASE WriteChunkInvalid
    BY <1>3 DEF Unblocked, WriteChunkInvalid, AbortConfigWrite, AbortWrite, loopVars
<1>4. CASE SaveConfig
    BY <1>4 DEF Unblocked, SaveConfig, StartWrite, Servicing, loopVars
<1> QED
    BY <1>1, <1>2, <1>3, <1>4 DEF Tool

\* What a write that goes on or ends does
LEMMA UnblockedFlash ==
    ASSUME Unblocked, Flash
    PROVE  Unblocked'
<1>1. CASE WriteStep \/ EndSave \/ EndCommit
    BY <1>1 DEF Unblocked, WriteStep, EndSave, EndCommit, EndWrite, storageVars, loopVars,
       managerVars, pendingVars
<1>2. CASE EndInfoFlush
    BY <1>2 DEF Unblocked, EndInfoFlush, EndWrite, InfoAccepted, AcceptInfo, pendingVars
<1>3. CASE EndFlushSave
    BY <1>3 DEF Unblocked, EndFlushSave, EndWrite, ClearPending, storageVars, managerVars
<1> QED
    BY <1>1, <1>2, <1>3 DEF Flash

\* The main loop, which ends a reload before it goes on
LEMMA UnblockedLoop ==
    ASSUME Unblocked, Loop
    PROVE  Unblocked'
<1>1. CASE \/ Serviced \/ ReloadDue \/ ModeChanged \/ NoReload \/ WaitForUpload
           \/ NothingToFlush \/ Updated \/ CommitDue \/ NoCommit
    BY <1>1 DEF Unblocked, Serviced, ReloadDue, ModeChanged, NoReload, WaitForUpload,
       NothingToFlush, Updated, CommitDue, NoCommit, StartWrite, Goto, storageVars, managerVars,
       pendingVars
<1>2. CASE BeginReinit \/ LoadConfig
    BY <1>2 DEF Unblocked, BeginReinit, LoadConfig, Goto, storageVars, pendingVars
<1>3. CASE UploadStalled
    BY <1>3 DEF Unblocked, UploadStalled, AbortConfigWrite, AbortWrite, Goto
<1>4. CASE FlushSave \/ FlushAux
    BY <1>4 DEF Unblocked, FlushSave, FlushAux, UpdateAuxiliary, ClearPending, StartWrite, Goto,
       storageVars, managerVars, pendingVars
<1> QED
    BY <1>1, <1>2, <1>3, <1>4 DEF Loop

\* The pairings, the devices and power
LEMMA UnblockedOutside ==
    ASSUME Unblocked, Environment
    PROVE  Unblocked'
<1>1. CASE ChangePairings
    BY <1>1 DEF Unblocked, ChangePairings, storageVars, loopVars, managerVars
<1>2. CASE UpdateInputState \/ RequestReload
    BY <1>2 DEF Unblocked, UpdateInputState, UpdateAuxiliary, RequestReload, storageVars, loopVars,
       managerVars, pendingVars
<1>3. CASE PowerCut
    BY <1>3 DEF Unblocked, PowerCut
<1> QED
    BY <1>1, <1>2, <1>3 DEF Environment

LEMMA UnblockedStays ==
    ASSUME Unblocked, [Next]_vars
    PROVE  Unblocked'
<1>1. CASE UNCHANGED vars
    BY <1>1, Stutter DEF Unblocked
<1> QED
    BY <1>1, UnblockedTool, UnblockedFlash, UnblockedLoop, UnblockedOutside DEF Next

(* A save held back and a change of the pairings always get to the flush     *)
(* that carries them out, whatever uploads, aborts, reloads and restarts     *)
(* come between: the safety part of what SaveReachesFlash and PairingsSettle *)
(* wait for, wherever Bluetooth's callbacks come from (config.cpp, hid_task  *)
(* and flush_pending_aux).                                                   *)
THEOREM PendingAlwaysFlushed == SpecFresh => []PendingFlushed
<1>1. InitFresh => Unblocked
    BY UnblockedAtFirst
<1>2. Unblocked /\ [Next]_vars => Unblocked'
    BY UnblockedStays
<1>3. Unblocked => PendingFlushed
    BY DEF Unblocked, PendingFlushed, CanWriteAux
<1> QED
    BY <1>1, <1>2, <1>3, PTL DEF SpecFresh

-----------------------------------------------------------------------------
(* The pairings in memory on their way to flash *)

\* What the firmware can run from: every config decodes, and has data
Plain == Loadable = Mains /\ EmptyUploads = FALSE

(* The cache follows the pairings in memory but for a change that is pending, *)
(* and flash follows the cache but for a commit that waits or is being        *)
(* written; a change that is to be committed once it is in the cache is       *)
(* pending until then.                                                        *)
PairingsFollowed ==
    /\ ~preserve /\ btLoaded
    /\ ~upload /\ ~auxPending => Footer(cache).aux = memory
    /\ auxCommitPending => auxPending
    /\ commit = "none" /\ ~auxCommitPending /\ pc # "write" => Footer(flash).aux = memory
    /\ commit # "none" /\ ~auxCommitPending => Footer(cache).aux = memory
    /\ pc = "write" =>
           /\ after.then = "info" => Size(after.image) # 0
           /\ after.then \in {"save", "flush"} \/ ~auxCommitPending => Footer(cache).aux = memory
           /\ job.live \/ job.image.aux = Footer(cache).aux
           /\ job.from > NSectors => Footer(flash).aux = Footer(cache).aux

\* Whatever is cached outside an upload is signed again with the pairings given
LEMMA UpdateSigns ==
    ASSUME AuxAlwaysFits, IInv, ~upload, NEW aux \in Pairings
    PROVE  /\ AuxUpdates(aux)
           /\ Footer(cache) \in Image
           /\ CacheAfterUpdate(aux) = Layout([main |-> Footer(cache).main, aux |-> aux])
           /\ Footer(CacheAfterUpdate(aux)) = [main |-> Footer(cache).main, aux |-> aux]
           /\ Footer(CacheAfterUpdate(aux)).aux = aux
           /\ ~preserve => CommitAfterUpdate(aux) # "none"
<1> DEFINE image == [main |-> Footer(cache).main, aux |-> aux]
<1>1. Readable(cache) /\ cache \in Area /\ Footer(cache) \in Image
    BY FooterType DEF IInv, SafeInv, CacheReadable, CacheSigned, TypeOK, FlashTypeOK
<1>2. AuxUpdates(aux)
  <2>1. /\ Size(Footer(cache)) \in Nat /\ AuxSize[aux] \in Nat /\ Capacity \in Int
        /\ Size(Footer(cache)) + AuxSize[aux] <= Capacity
      BY <1>1, SizeNat, SizesAssumption DEF AuxAlwaysFits, Capacity
  <2> QED
      BY <1>1, <2>1 DEF AuxUpdates, Resignable, AuxFits
<1>3. image \in Image
    BY <1>1 DEF Image
<1>4. CacheAfterUpdate(aux) = Layout(image)
    BY <1>2 DEF CacheAfterUpdate, AuxUpdates
<1>5. Footer(Layout(image)) = image /\ image.aux = aux
    BY <1>3, LayoutReadable
<1>6. ~preserve => CommitAfterUpdate(aux) # "none"
    BY <1>2 DEF CommitAfterUpdate, CommitCache, CommitWriter
<1> QED
    BY <1>1, <1>2, <1>4, <1>5, <1>6

\* Nor is there a commit of the aux block that can't be written
LEMMA AuxCommits ==
    ASSUME AuxAlwaysFits, IInv, pc # "write", ~upload
    PROVE  /\ AuxCommittable /\ Footer(flash) \in Image /\ Footer(cache) \in Image
           /\ commit # "none" => FlushJob = CacheJob \/ FlushJob = AuxJob
<1>1. /\ Readable(cache) /\ cache \in Area /\ Footer(cache) \in Image
      /\ Readable(flash) /\ flash \in Area /\ Footer(flash) \in Image /\ commit \in Commits
    BY FooterType DEF IInv, SafeInv, CacheReadable, FlashStaysReadable, TypeOK, FlashTypeOK, Readable
<1>2. /\ MainSize[Footer(flash).main] \in Nat /\ AuxSize[Footer(flash).aux] \in Nat
      /\ AuxSize[Footer(cache).aux] \in Nat /\ Footer(cache).aux \in Pairings /\ Capacity \in Int
    BY <1>1, SizesAssumption DEF Image, Capacity
<1>3. MainSize[Footer(flash).main] + AuxSize[Footer(flash).aux] + AuxSize[Footer(cache).aux] <= Capacity
    BY <1>1, <1>2 DEF AuxAlwaysFits, Size
<1>4. MainSize[Footer(flash).main] + AuxSize[Footer(cache).aux] <= Capacity
    BY <1>2, <1>3
<1> QED
    BY <1>1, <1>4 DEF AuxCommittable, FlushJob, Commits

\* A write that is done has stored the cached pairings
LEMMA DoneFollows ==
    ASSUME Typed, PairingsFollowed, pc = "write", WriteDone
    PROVE  Footer(flash).aux = Footer(cache).aux
<1>1. job \in Jobs
    BY TypedAreas
<1>2. CASE job.from > NSectors
    BY <1>2 DEF PairingsFollowed
<1>3. CASE ~(job.from > NSectors)
  <2>1. NSectors \in job.from..NSectors
      BY <1>1, <1>3, SizesAssumption DEF Jobs
  <2>2. flash[NSectors] = Target(NSectors)
      BY <2>1 DEF WriteDone
  <2>3. CASE job.live
      BY <2>2, <2>3 DEF Target, Footer
  <2>4. CASE ~job.live
    <3>1. Footer(flash) = job.image
        BY <1>1, <2>2, <2>4, LayoutReadable DEF Target, Footer, Jobs
    <3> QED
        BY <2>4, <3>1 DEF PairingsFollowed
  <2> QED
      BY <2>3, <2>4
<1> QED
    BY <1>2, <1>3

LEMMA FollowedAtFirst ==
    ASSUME Plain, Init
    PROVE  PairingsFollowed
<1>1. PICK area \in SavedAreas : Boot(area)
    BY DEF Init, InitFrom
<1>2. PICK image \in Image : area = Layout(image)
    BY <1>1 DEF SavedAreas
<1>3. Readable(area) /\ Footer(area) = image /\ image.main \in Mains
    BY <1>2, LayoutReadable DEF Image
<1>4. Boots(area)
    BY <1>3 DEF Boots, Plain
<1> QED
    BY <1>1, <1>3, <1>4 DEF Boot, PairingsFollowed

LEMMA FollowedLoop ==
    ASSUME PairingsFollowed, \/ Serviced \/ RequestReload \/ ReloadDue \/ ModeChanged \/ NoReload
                             \/ BeginReinit \/ LoadConfig \/ WaitForUpload \/ NothingToFlush
                             \/ Updated \/ NoCommit
    PROVE  PairingsFollowed'
<1>1. /\ pc # "write" /\ pc' # "write"
      /\ UNCHANGED <<flash, cache, commit, upload, preserve, auxPending, auxCommitPending>>
    BY DEF Serviced, RequestReload, ReloadDue, ModeChanged, NoReload, BeginReinit, LoadConfig,
       WaitForUpload, NothingToFlush, Updated, NoCommit, Goto, Servicing, flashVars,
       storageVars, loopVars, pendingVars
<1>2. memory' = memory /\ btLoaded'
    BY DEF Serviced, RequestReload, ReloadDue, ModeChanged, NoReload, BeginReinit, LoadConfig,
       WaitForUpload, NothingToFlush, Updated, NoCommit, runVars, PairingsFollowed
<1> QED
    BY <1>1, <1>2 DEF PairingsFollowed, Footer

LEMMA FollowedWrite ==
    ASSUME Typed, PairingsFollowed, WriteStep
    PROVE  PairingsFollowed'
<1>1. /\ pc = "write" /\ pc' = "write"
      /\ UNCHANGED <<after, cache, commit, upload, preserve, auxPending, auxCommitPending,
                     memory, btLoaded>>
    BY DEF WriteStep, EraseSector, ProgramSector, storageVars, loopVars, pendingVars, runVars
<1>2. flash \in Area /\ cache \in Area /\ job \in Jobs
    BY TypedAreas
<1>3. /\ job'.live = job.live /\ job'.image = job.image
      /\ job'.from > NSectors => Footer(flash').aux = Footer(cache).aux
  <2>1. CASE EraseSector
      BY <1>2, <2>1, SizesAssumption DEF EraseSector, Jobs, Sectors
  <2>2. CASE ProgramSector
    <3>1. /\ job.from \in Sectors
          /\ flash' = [flash EXCEPT ![job.from] = Target(job.from)]
          /\ job' = [job EXCEPT !.from = job.from + 1, !.erased = FALSE]
        BY <2>2 DEF ProgramSector, Typed
    <3>2. job'.live = job.live /\ job'.image = job.image /\ job'.from = job.from + 1
        BY <1>2, <3>1 DEF Jobs
    <3>3. CASE job.from # NSectors
        BY <3>1, <3>2, <3>3, SizesAssumption DEF Sectors
    <3>4. CASE job.from = NSectors
      <4>1. Footer(flash') = Target(NSectors).foot
          BY <1>2, <3>1, <3>4, LastSector DEF Footer, Area
      <4>2. CASE job.live
          BY <3>2, <4>1, <4>2 DEF Target, Footer
      <4>3. CASE ~job.live
        <5>1. Footer(flash') = job.image
            BY <1>2, <4>1, <4>3, LayoutReadable DEF Target, Footer, Jobs
        <5> QED
            BY <1>1, <3>2, <4>3, <5>1 DEF PairingsFollowed
      <4> QED
          BY <4>2, <4>3
    <3> QED
        BY <3>3, <3>4
  <2> QED
      BY <2>1, <2>2 DEF WriteStep
<1> QED
    BY <1>1, <1>3 DEF PairingsFollowed, Size, Footer

LEMMA FollowedInfo ==
    ASSUME Plain, AuxAlwaysFits, IInv, Typed, PairingsFollowed, WriteConfigInfo \/ EndInfoFlush
    PROVE  PairingsFollowed'
<1>1. UNCHANGED <<flash, preserve, auxPending, auxCommitPending, memory, btLoaded>>
    BY DEF WriteConfigInfo, EndInfoFlush, InfoAccepted, AcceptInfo, pendingVars, runVars, storageVars
<1>2. CASE WriteConfigInfo /\ (upload \/ commit = "none")
  <2>1. pc # "write" /\ pc' # "write" /\ commit = "none" /\ commit' = "none" /\ upload'
      BY <1>2 DEF WriteConfigInfo, InfoAccepted, AcceptInfo, Servicing, loopVars, Plain, IInv,
         SafeInv, NoCommitOverUpload
  <2> QED
      BY <1>1, <2>1 DEF PairingsFollowed
<1>3. CASE WriteConfigInfo /\ ~(upload \/ commit = "none")
  <2>1. PICK image \in Image : StartWrite(FlushJob, "info", pc, image) /\ Size(image) # 0
      BY <1>3 DEF WriteConfigInfo, Plain
  <2>2. /\ pc # "write" /\ pc' = "write" /\ ~upload /\ commit # "none" /\ commit' = "none"
        /\ UNCHANGED <<cache, upload>> /\ job' = FlushJob
        /\ after'.then = "info" /\ after'.image = image
      BY <1>3, <2>1 DEF WriteConfigInfo, Servicing, storageVars, StartWrite, After
  <2>3. /\ job'.live \/ job'.image.aux = Footer(cache).aux
        /\ ~(job'.from > NSectors)
      BY <2>2, AuxCommits, JobTypes, SizesAssumption
  <2> QED
      BY <1>1, <2>1, <2>2, <2>3 DEF PairingsFollowed, Size
<1>4. CASE EndInfoFlush
  <2>1. AcceptInfo(after.image) /\ Size(after.image) # 0
      BY <1>4 DEF EndInfoFlush, EndWrite, InfoAccepted, PairingsFollowed
  <2>2. /\ pc = "write" /\ WriteDone /\ pc' # "write" /\ upload' /\ commit = "none" /\ commit' = "none"
      BY <1>4, <2>1, TypedAreas DEF EndInfoFlush, EndWrite, AcceptInfo, IInv, SafeInv, WriteInv
  <2>3. Footer(flash).aux = Footer(cache).aux
      BY <2>2, DoneFollows
  <2> QED
      BY <1>1, <2>2, <2>3 DEF PairingsFollowed
<1> QED
    BY <1>2, <1>3, <1>4

LEMMA FollowedChunk ==
    ASSUME IInv, PairingsFollowed, WriteChunkInProgress \/ WriteChunkDone
    PROVE  PairingsFollowed'
<1>1. /\ pc # "write" /\ pc' # "write" /\ upload /\ commit = "none" /\ commit' = "none"
      /\ UNCHANGED <<flash, auxCommitPending, memory, btLoaded>>
    BY DEF WriteChunkInProgress, WriteChunkDone, ChunkInProgress, ChunkDone, Servicing, loopVars,
       pendingVars, runVars, IInv, SafeInv, NoCommitOverUpload
<1>2. CASE WriteChunkInProgress
  <2>1. UNCHANGED <<auxPending, upload, preserve>>
      BY <1>2 DEF WriteChunkInProgress, ChunkInProgress, pendingVars
  <2> QED
      BY <1>1, <2>1 DEF PairingsFollowed, Footer
<1>3. CASE WriteChunkDone
  <2>1. auxPending' = TRUE /\ upload' = FALSE /\ preserve' = FALSE
      BY <1>3 DEF WriteChunkDone, ChunkDone
  <2> QED
      BY <1>1, <2>1 DEF PairingsFollowed, Footer
<1> QED
    BY <1>2, <1>3

LEMMA FollowedAbort ==
    ASSUME Typed, IInv, PairingsFollowed, WriteChunkInvalid \/ UploadStalled
    PROVE  PairingsFollowed'
<1>1. /\ UNCHANGED <<flash, commit, preserve, auxCommitPending, memory, btLoaded>>
      /\ pc # "write" /\ pc' # "write" /\ auxPending' = TRUE
      /\ ~upload => cache' = cache
    BY DEF WriteChunkInvalid, UploadStalled, AbortConfigWrite, AbortWrite, Goto, Servicing,
       loopVars, runVars, IInv, SafeInv, PreviousForUpload
<1> QED
    BY <1>1 DEF PairingsFollowed, IInv, SafeInv, NoCommitOverUpload

LEMMA FollowedAux ==
    ASSUME Polled, AuxAlwaysFits, IInv, PairingsFollowed,
           ChangePairings \/ UpdateInputState \/ FlushAux
    PROVE  PairingsFollowed'
<1>1. /\ pc # "write" /\ pc' # "write"
      /\ UNCHANGED <<flash, upload, preserve, btLoaded>>
    BY DEF Polled, ChangePairings, UpdateInputState, FlushAux, ClearPending, Goto, Servicing,
       storageVars, loopVars, runVars
<1>2. memory \in Pairings
    BY DEF IInv, TypeOK
<1>3. CASE ChangePairings
  <2>1. PICK aux \in Pairings :
          /\ memory' = aux
          /\ IF CanWriteAux
             THEN /\ UpdateAuxiliary(aux, TRUE)
                  /\ auxPending' = (auxPending \/ ~AuxUpdates(aux))
                  /\ auxCommitPending' = (auxCommitPending \/ ~AuxUpdates(aux))
             ELSE /\ auxPending' = TRUE
                  /\ auxCommitPending' = TRUE
                  /\ UNCHANGED <<cache, commit>>
      BY <1>3 DEF ChangePairings
  <2>2. CASE CanWriteAux
    <3>1. /\ ~upload /\ cache' = CacheAfterUpdate(aux) /\ commit' = CommitAfterUpdate(aux)
          /\ auxPending' = (auxPending \/ ~AuxUpdates(aux))
          /\ auxCommitPending' = (auxCommitPending \/ ~AuxUpdates(aux))
        BY <2>1, <2>2 DEF UpdateAuxiliary, CanWriteAux
    <3>2. AuxUpdates(aux) /\ Footer(cache').aux = aux /\ commit' # "none"
        BY <3>1, UpdateSigns DEF PairingsFollowed
    <3>3. (auxPending' <=> auxPending) /\ (auxCommitPending' <=> auxCommitPending)
        BY <3>1, <3>2
    <3> QED
        BY <1>1, <2>1, <3>2, <3>3 DEF PairingsFollowed
  <2>3. CASE ~CanWriteAux
      BY <1>1, <2>1, <2>3 DEF PairingsFollowed
  <2> QED
      BY <2>2, <2>3
<1>4. CASE UpdateInputState
  <2>1. /\ cache' = CacheAfterUpdate(memory) /\ commit' = CommitAfterUpdate(memory)
        /\ UNCHANGED <<memory, auxPending, auxCommitPending>>
      BY <1>4 DEF UpdateInputState, UpdateAuxiliary, runVars, pendingVars
  <2>2. CASE upload
    <3>1. ~AuxUpdates(memory) /\ ~Resignable
        BY <2>2 DEF AuxUpdates, Resignable
    <3>2. cache' = cache /\ commit' = commit
        BY <2>1, <3>1 DEF CacheAfterUpdate, CommitAfterUpdate
    <3> QED
        BY <1>1, <2>1, <3>2 DEF PairingsFollowed, Footer
  <2>3. CASE ~upload
    <3>1. Footer(cache').aux = memory /\ commit' # "none"
        BY <1>2, <2>1, <2>3, UpdateSigns DEF PairingsFollowed
    <3> QED
        BY <1>1, <2>1, <3>1 DEF PairingsFollowed
  <2> QED
      BY <2>2, <2>3
<1>5. CASE FlushAux
  <2>1. /\ ~upload /\ cache' = CacheAfterUpdate(memory) /\ memory' = memory
        /\ auxPending' = FALSE /\ auxCommitPending' = FALSE
        /\ commit' = CASE auxCommitPending /\ AuxUpdates(memory) -> CommitAfterUpdate(memory)
                       [] auxCommitPending /\ ~AuxUpdates(memory) /\ ~preserve -> CommitCache
                       [] OTHER -> commit
      BY <1>5 DEF FlushAux, CanWriteAux, ClearPending, runVars
  <2>2. AuxUpdates(memory) /\ Footer(cache').aux = memory /\ CommitAfterUpdate(memory) # "none"
      BY <1>2, <2>1, UpdateSigns DEF PairingsFollowed
  <2>3. commit' = "none" => ~auxCommitPending /\ commit = "none"
      BY <2>1, <2>2
  <2> QED
      BY <1>1, <2>1, <2>2, <2>3 DEF PairingsFollowed, Footer
<1> QED
    BY <1>3, <1>4, <1>5

LEMMA FollowedSave ==
    ASSUME AuxAlwaysFits, Typed, IInv, PairingsFollowed, SaveConfig \/ FlushSave
    PROVE  PairingsFollowed'
<1>1. /\ pc # "write" /\ ~preserve'
      /\ UNCHANGED <<flash, upload, commit, auxPending, auxCommitPending, memory, btLoaded>>
    BY DEF SaveConfig, FlushSave, Servicing, UpdateAuxiliary, flashVars, pendingVars, runVars,
       PairingsFollowed
<1>2. CASE SaveConfig /\ (upload \/ auxPending)
  <2>1. UNCHANGED <<cache, pc>>
      BY <1>2 DEF SaveConfig, flashVars, loopVars
  <2> QED
      BY <1>1, <2>1 DEF PairingsFollowed, Footer
<1>3. CASE (SaveConfig /\ ~upload /\ ~auxPending) \/ FlushSave
  <2>1. /\ pc' = "write" /\ job' = CacheJob /\ after'.then \in {"save", "flush"}
    <3>1. CASE SaveConfig /\ ~upload /\ ~auxPending
        BY <3>1 DEF SaveConfig, StartWrite, After
    <3>2. CASE FlushSave
        BY <3>2 DEF FlushSave, StartWrite, After
    <3> QED
        BY <1>3, <3>1, <3>2
  <2>2. Footer(cache').aux = memory /\ ~upload
    <3>1. CASE SaveConfig /\ ~upload /\ ~auxPending
        BY <3>1 DEF SaveConfig, PairingsFollowed, Footer
    <3>2. CASE FlushSave
      <4>1. ~upload /\ cache' = CacheAfterUpdate(memory) /\ memory \in Pairings
          BY <3>2, TypedAreas DEF FlushSave, CanWriteAux, UpdateAuxiliary
      <4> QED
          BY <4>1, UpdateSigns
    <3> QED
        BY <1>3, <3>1, <3>2
  <2>3. job'.live /\ ~(job'.from > NSectors)
      BY <2>1, JobTypes, SizesAssumption
  <2> QED
      BY <1>1, <2>1, <2>2, <2>3 DEF PairingsFollowed, Footer
<1> QED
    BY <1>2, <1>3

LEMMA FollowedCommit ==
    ASSUME AuxAlwaysFits, Typed, IInv, PairingsFollowed, CommitDue
    PROVE  PairingsFollowed'
<1>1. /\ pc # "write" /\ pc' = "write" /\ commit # "none" /\ commit' = "none" /\ ~upload
      /\ job' = FlushJob /\ after'.then = "tick"
      /\ UNCHANGED <<flash, cache, upload, preserve, auxPending, auxCommitPending, memory, btLoaded>>
    BY DEF CommitDue, StartWrite, After, storageVars, pendingVars, runVars, IInv, SafeInv,
       NoCommitOverUpload
<1>2. /\ job'.live \/ job'.image.aux = Footer(cache).aux
      /\ ~(job'.from > NSectors)
    BY <1>1, AuxCommits, JobTypes, SizesAssumption
<1> QED
    BY <1>1, <1>2 DEF PairingsFollowed, Footer

LEMMA FollowedEnd ==
    ASSUME Typed, IInv, PairingsFollowed, EndSave \/ EndFlushSave \/ EndCommit
    PROVE  PairingsFollowed'
<1>1. /\ pc = "write" /\ WriteDone /\ pc' # "write"
      /\ UNCHANGED <<flash, cache, commit, upload, preserve, memory, btLoaded>>
    BY TypedAreas DEF EndSave, EndFlushSave, EndCommit, EndWrite, storageVars, runVars
<1>2. Footer(flash).aux = Footer(cache).aux
    BY <1>1, DoneFollows
<1>3. CASE EndCommit \/ EndSave
  <2>1. UNCHANGED <<auxPending, auxCommitPending>>
      BY <1>3 DEF EndCommit, EndSave, pendingVars
  <2> QED
      BY <1>1, <1>2, <2>1 DEF PairingsFollowed, Footer
<1>4. CASE EndFlushSave
  <2>1. auxPending' = FALSE /\ auxCommitPending' = FALSE /\ Footer(cache).aux = memory
      BY <1>4 DEF EndFlushSave, EndWrite, ClearPending, PairingsFollowed
  <2> QED
      BY <1>1, <1>2, <2>1 DEF PairingsFollowed, Footer
<1> QED
    BY <1>3, <1>4

LEMMA FollowedCut ==
    ASSUME Polled, Plain, IInv, Typed, PowerCut
    PROVE  PairingsFollowed'
<1>1. Readable(flash) /\ Footer(flash) \in Image
    BY TypedAreas DEF Polled, PowerCut, IInv, SafeInv, FlashStaysReadable, Readable
<1>2. Boots(flash)
    BY <1>1 DEF Boots, Plain, Image
<1>3. /\ flash' = flash /\ cache' = flash /\ commit' = "none" /\ pc' = "usb"
      /\ ~preserve' /\ btLoaded' /\ ~auxPending' /\ ~auxCommitPending'
      /\ memory' = Footer(flash).aux
    BY <1>1, <1>2 DEF PowerCut
<1> QED
    BY <1>3 DEF PairingsFollowed

LEMMA FollowedStays ==
    ASSUME Polled, Plain, AuxAlwaysFits, IInv, Typed, PairingsFollowed, [Next]_vars
    PROVE  PairingsFollowed'
<1>1. CASE Tool
    BY <1>1, FollowedInfo, FollowedChunk, FollowedAbort, FollowedSave DEF Tool
<1>2. CASE Flash
    BY <1>2, FollowedWrite, FollowedInfo, FollowedEnd DEF Flash
<1>3. CASE Loop
    BY <1>3, FollowedLoop, FollowedAbort, FollowedSave, FollowedAux, FollowedCommit DEF Loop
<1>4. CASE Environment
    BY <1>4, FollowedAux, FollowedLoop, FollowedCut DEF Environment
<1>5. CASE UNCHANGED vars
    BY <1>5, Stutter DEF PairingsFollowed, Footer, Size
<1> QED
    BY <1>1, <1>2, <1>3, <1>4, <1>5 DEF Next

\* Flash with a saved config is one of the ways the device may start
LEMMA SavedIsFresh == Init => InitFresh
BY DEF Init, InitFresh, InitFrom

(* The pairings in memory get to flash: whenever nothing of them is pending  *)
(* or waiting to be committed flash has them, in whatever order uploads,     *)
(* aborts, reloads, saves and further changes came between.                  *)
THEOREM PairingsAlwaysReachFlash ==
    ASSUME Polled, Plain, AuxAlwaysFits
    PROVE  Spec => []PairingsReachFlash
<1>1. Init => Typed /\ PairingsFollowed
    BY SavedIsFresh, TypedAtFirst, FollowedAtFirst
<1>2. IInv /\ Typed /\ PairingsFollowed /\ [Next]_vars => (Typed /\ PairingsFollowed)'
    BY TypedStays, FollowedStays
<1>3. Typed /\ PairingsFollowed => PairingsReachFlash
    BY DEF PairingsFollowed, PairingsReachFlash
<1>4. Spec => []IInv
    BY SystemSafe
<1> QED
    BY <1>1, <1>2, <1>3, <1>4, PTL DEF Spec
=============================================================================
