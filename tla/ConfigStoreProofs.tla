-------------------------- MODULE ConfigStoreProofs --------------------------
(***************************************************************************)
(* ConfigSystem implements ConfigStore: whatever the cache, the delays and *)
(* the sectors do, the device has one stored config that changes as a      *)
(* whole, and only as ConfigStore has it.                                  *)
(*                                                                         *)
(* Every step of ConfigSystem is one of ConfigStore's or none.  Most are   *)
(* none: they move the main loop, the upload or a sector.  That a write,   *)
(* seen as a whole from its start, is a Save or a StorePairings takes the  *)
(* invariants of ConfigSystemProofs and ConfigFlashProofs and one more     *)
(* (StoreInv): a commit of the cache is only ever of the config flash has, *)
(* and what is cached without a reload to come is a config that was saved, *)
(* asked to be or is the one that runs.                                    *)
(***************************************************************************)
EXTENDS MCConfigSystem, ConfigFlashProofs

\* The device ConfigStore describes
Described == Polled /\ Plain /\ PatientTool /\ AuxAlwaysFits

\* The configs a save without a question may store
Known == asked \union {running}

\* An image in the area's last sector is the one of this footer
Own(area, footer) == area[NSectors].data \in Image => area[NSectors].data = footer

\* The footer the write in progress ends with
Written == IF job.live THEN Footer(cache) ELSE job.image

StoreInv ==
    /\ reloading => pc = "loading"
    /\ commit = "cache" =>
           IF pc = "write" THEN job.live ELSE Footer(cache).main = Footer(flash).main
    /\ ~upload /\ (~auxPending \/ (~reinit /\ ~reloading)) => Footer(cache).main \in Known
    /\ upload => /\ previous \in Image /\ previous.main \in Known
                 /\ Size(Footer(cache)) # 0
                 /\ Own(cache, previous)
    /\ ~upload => Own(cache, Footer(cache))
    /\ Own(flash, Footer(flash))
    /\ pc = "write" => /\ after.then = "info" => ~reinit
                       /\ job.from > NSectors => Footer(flash) = Written

\* What the earlier proofs show
Established == IInv /\ Typed /\ Origins /\ PairingsFollowed

LEMMA EstablishedFacts ==
    ASSUME Established
    PROVE  /\ flash \in Area /\ cache \in Area /\ job \in Jobs /\ memory \in Pairings
           /\ commit \in Commits
           /\ Footer(cache) \in Image /\ MainOf(cache) = {Footer(cache).main}
           /\ pc # "write" => Footer(flash) \in Image /\ MainOf(flash) = {Footer(flash).main}
                              /\ Footer(flash).main \in asked /\ Readable(flash)
           /\ ~upload => Readable(cache) /\ previous = NoPrevious
           /\ upload => commit = "none" /\ pc # "write" /\ previous # NoPrevious
<1>1. /\ flash \in Area /\ cache \in Area /\ job \in Jobs /\ memory \in Pairings
      /\ commit \in Commits
    BY TypedAreas DEF Established
<1>2. Footer(cache) \in Image /\ Footer(cache) # NoFooter
    BY <1>1, FooterType DEF Established, IInv, SafeInv, CacheSigned
<1>3. pc # "write" => Footer(flash) \in Image /\ Footer(flash) # NoFooter /\ Readable(flash)
    BY <1>1, FooterType DEF Established, IInv, SafeInv, FlashStaysReadable, Readable
<1>4. MainOf(flash) \subseteq asked
    BY DEF Established, Origins
<1>5. ~upload => Readable(cache) /\ previous = NoPrevious
    BY DEF Established, IInv, SafeInv, CacheReadable, PreviousForUpload
<1>6. upload => commit = "none" /\ pc # "write" /\ previous # NoPrevious
    BY DEF Established, IInv, SafeInv, NoCommitOverUpload, PreviousForUpload
<1> QED
    BY <1>1, <1>2, <1>3, <1>4, <1>5, <1>6 DEF MainOf

\* A write that is done has stored what it was to
LEMMA DoneWritten ==
    ASSUME Established, StoreInv, pc = "write", WriteDone
    PROVE  Footer(flash) = Written
<1>1. job \in Jobs
    BY EstablishedFacts
<1>2. CASE job.from > NSectors
    BY <1>2 DEF StoreInv
<1>3. CASE ~(job.from > NSectors)
  <2>1. NSectors \in job.from..NSectors
      BY <1>1, <1>3, SizesAssumption DEF Jobs
  <2>2. flash[NSectors] = Target(NSectors)
      BY <2>1 DEF WriteDone
  <2>3. CASE job.live
      BY <2>2, <2>3 DEF Target, Footer, Written
  <2>4. CASE ~job.live
      BY <1>1, <2>2, <2>4, LayoutReadable DEF Target, Footer, Jobs, Written
  <2> QED
      BY <2>3, <2>4
<1> QED
    BY <1>2, <1>3

-----------------------------------------------------------------------------
(* Whose data the last sector has *)

LEMMA OwnLayout ==
    ASSUME NEW image \in Image
    PROVE  Own(Layout(image), image)
BY LastSector, MarkersAssumption DEF Own, Layout

\* Staging, clearing and signing put no image of their own into an area
LEMMA OwnKept ==
    ASSUME NEW area \in Area, NEW footer, Own(area, footer)
    PROVE  /\ \A units : Own(Staged(area, units), footer)
           /\ \A size : Own(ClearFront(area, size), footer)
           /\ \A foot : Own(WithFooter(area, foot), footer)
<1>1. ASSUME NEW units
      PROVE  Own(Staged(area, units), footer)
  <2>1. \/ Staged(area, units)[NSectors] = area[NSectors]
        \/ Staged(area, units)[NSectors] = [area[NSectors] EXCEPT !.data = Torn]
      BY LastSector DEF Staged
  <2> QED
      BY <2>1, LastSector, MarkersAssumption DEF Own, Area, Piece
<1>2. ASSUME NEW size
      PROVE  Own(ClearFront(area, size), footer)
  <2>1. \/ ClearFront(area, size)[NSectors] = area[NSectors]
        \/ ClearFront(area, size)[NSectors] = [area[NSectors] EXCEPT !.data = Zero]
      BY LastSector DEF ClearFront
  <2> QED
      BY <2>1, LastSector, MarkersAssumption DEF Own, Area, Piece
<1>3. ASSUME NEW foot
      PROVE  Own(WithFooter(area, foot), footer)
  <2>1. WithFooter(area, foot)[NSectors].data = area[NSectors].data
      BY LastSector DEF WithFooter, Area, Piece
  <2> QED
      BY <2>1 DEF Own
<1> QED
    BY <1>1, <1>2, <1>3

\* An area that reads as an image with data has that image in its last sector
LEMMA OwnRead ==
    ASSUME NEW area \in Area, NEW footer, Own(area, footer), Readable(area),
           Size(Footer(area)) # 0
    PROVE  Footer(area) = footer
<1>1. Footer(area) \in Image
    BY FooterType DEF Readable
<1>2. Size(Footer(area)) \in Nat
    BY <1>1, SizeNat
<1>3. (NSectors - NSectors) * UnitsPerSector = 0
    BY SizesAssumption
<1>4. Covers(Size(Footer(area)), NSectors)
    BY <1>2, <1>3 DEF Covers
<1>5. area[NSectors].data = Footer(area)
    BY <1>4, LastSector DEF Readable
<1> QED
    BY <1>1, <1>5 DEF Own

-----------------------------------------------------------------------------
(* StoreInv is kept *)

\* Steps between writes
LEMMA StoreFrame ==
    ASSUME StoreInv, pc # "write", pc' # "write", UNCHANGED flash,
           reloading' => pc' = "loading",
           commit' = "cache" => Footer(cache').main = Footer(flash).main,
           ~upload' /\ (~auxPending' \/ (~reinit' /\ ~reloading')) => Footer(cache').main \in Known',
           upload' => /\ previous' \in Image /\ previous'.main \in Known'
                      /\ Size(Footer(cache')) # 0
                      /\ Own(cache', previous'),
           ~upload' => Own(cache', Footer(cache'))
    PROVE  StoreInv'
BY DEF StoreInv, Own, Footer, Size

LEMMA StoreAtFirst ==
    ASSUME Plain, Init
    PROVE  StoreInv
<1>1. PICK area \in SavedAreas : Boot(area) /\ asked = MainOf(area)
    BY DEF Init, InitFrom
<1>2. PICK image \in Image : area = Layout(image)
    BY <1>1 DEF SavedAreas
<1>3. /\ Readable(area) /\ Footer(area) = image /\ image.main \in Mains /\ image # NoFooter
      /\ Own(area, image)
    BY <1>2, LayoutReadable, OwnLayout, MarkersAssumption DEF Image
<1>4. Boots(area)
    BY <1>3 DEF Boots, Plain
<1>5. /\ flash = area /\ cache = area /\ pc = "usb" /\ commit = "none" /\ upload = FALSE
      /\ reloading = FALSE /\ running = image.main
    BY <1>1, <1>3, <1>4 DEF Boot
<1> QED
    BY <1>3, <1>5 DEF StoreInv, Known

LEMMA StoreLoop ==
    ASSUME Established, StoreInv,
           \/ Serviced \/ RequestReload \/ ReloadDue \/ ModeChanged \/ NoReload
           \/ BeginReinit \/ LoadConfig \/ WaitForUpload \/ NothingToFlush
           \/ Updated \/ NoCommit
    PROVE  StoreInv'
<1>1. /\ pc # "write" /\ pc' # "write"
      /\ UNCHANGED <<flash, cache, commit, upload, previous, auxPending, asked>>
    BY DEF Serviced, RequestReload, ReloadDue, ModeChanged, NoReload, BeginReinit,
       LoadConfig, WaitForUpload, NothingToFlush, Updated, NoCommit, Goto, Servicing, flashVars,
       storageVars, loopVars, pendingVars, historyVars
<1>2. CASE \/ Serviced \/ ReloadDue \/ ModeChanged \/ NoReload
           \/ WaitForUpload \/ NothingToFlush \/ Updated \/ NoCommit
  <2>1. pc # "loading" /\ UNCHANGED <<reinit, reloading, running>>
      BY <1>2 DEF Serviced, ReloadDue, ModeChanged, NoReload, WaitForUpload, NothingToFlush,
         Updated, NoCommit, managerVars, runVars
  <2> QED
      BY <1>1, <2>1 DEF StoreInv, Own, Known, Footer, Size
<1>3. CASE RequestReload
  <2>1. pc # "loading" /\ reinit' = TRUE /\ UNCHANGED <<reloading, running>>
      BY <1>3 DEF RequestReload, Servicing, runVars
  <2> QED
      BY <1>1, <2>1 DEF StoreInv, Own, Known, Footer, Size
<1>4. CASE BeginReinit
  <2>1. pc' = "loading" /\ reloading' = TRUE /\ running' = running
      BY <1>4 DEF BeginReinit, Goto, runVars
  <2> QED
      BY <1>1, <2>1 DEF StoreInv, Own, Known, Footer, Size
<1>5. CASE LoadConfig
  <2>1. /\ reloading' = FALSE /\ reinit' = reinit
        /\ IF Readable(cache) THEN running' = Footer(cache).main ELSE running' = running
      BY <1>5 DEF LoadConfig, runVars
  <2>2. CASE upload /\ Readable(cache)
    <3>1. Footer(cache) = previous
        BY <2>2, OwnRead, EstablishedFacts DEF StoreInv
    <3>2. previous.main \in Known'
        BY <2>1, <2>2, <3>1 DEF Known
    <3> QED
        BY <1>1, <2>1, <2>2, <3>2 DEF StoreInv, Own, Footer, Size
  <2>3. CASE upload /\ ~Readable(cache)
      BY <1>1, <2>1, <2>3 DEF StoreInv, Own, Known, Footer, Size
  <2>4. CASE ~upload
    <3>1. running' = Footer(cache).main
        BY <2>1, <2>4, EstablishedFacts
    <3>2. Footer(cache).main \in Known'
        BY <3>1 DEF Known
    <3> QED
        BY <1>1, <2>1, <2>4, <3>2 DEF StoreInv, Own, Footer
  <2> QED
      BY <2>2, <2>3, <2>4
<1> QED
    BY <1>2, <1>3, <1>4, <1>5

LEMMA StoreWrite ==
    ASSUME Established, StoreInv, WriteStep
    PROVE  StoreInv'
<1>1. /\ pc = "write" /\ pc' = "write"
      /\ UNCHANGED <<after, cache, commit, upload, previous, auxPending, reinit, reloading,
                     asked, running>>
    BY DEF WriteStep, EraseSector, ProgramSector, storageVars, loopVars, managerVars, pendingVars,
       runVars, historyVars
<1>2. flash \in Area /\ cache \in Area /\ job \in Jobs /\ job.image \in Image /\ ~upload
    BY <1>1, EstablishedFacts DEF Jobs
<1>3. /\ job'.live = job.live /\ job'.image = job.image
      /\ job'.from > NSectors => Footer(flash') = Written
      /\ Own(flash', Footer(flash'))
  <2>1. CASE EraseSector
    <3>1. PICK s \in Sectors : /\ flash' = [flash EXCEPT ![s] = ErasedPiece]
                                /\ job' = [job EXCEPT !.from = s, !.erased = TRUE]
        BY <2>1 DEF EraseSector
    <3>2. /\ job'.live = job.live /\ job'.image = job.image /\ ~(job'.from > NSectors)
        BY <1>2, <3>1, SizesAssumption DEF Jobs, Sectors
    <3>3. flash'[NSectors] = ErasedPiece \/ flash'[NSectors] = flash[NSectors]
        BY <1>2, <3>1, LastSector DEF Area
    <3>4. Own(flash', Footer(flash'))
        BY <3>3, MarkersAssumption DEF StoreInv, Own, Footer, ErasedPiece
    <3> QED
        BY <3>2, <3>4
  <2>2. CASE ProgramSector
    <3>1. /\ job.from \in Sectors
          /\ flash' = [flash EXCEPT ![job.from] = Target(job.from)]
          /\ job' = [job EXCEPT !.from = job.from + 1, !.erased = FALSE]
        BY <2>2 DEF ProgramSector, Established, Typed
    <3>2. job'.live = job.live /\ job'.image = job.image /\ job'.from = job.from + 1
        BY <1>2, <3>1 DEF Jobs
    <3>3. CASE job.from # NSectors
      <4>1. flash'[NSectors] = flash[NSectors]
          BY <1>2, <3>1, <3>3, LastSector DEF Area
      <4>2. ~(job'.from > NSectors)
          BY <3>1, <3>2, <3>3, SizesAssumption DEF Sectors
      <4> QED
          BY <3>2, <4>1, <4>2 DEF StoreInv, Own, Footer
    <3>4. CASE job.from = NSectors
      <4>1. flash'[NSectors] = Target(NSectors)
          BY <1>2, <3>1, <3>4, LastSector DEF Area
      <4>2. CASE job.live
        <5>1. flash'[NSectors] = cache[NSectors]
            BY <4>1, <4>2 DEF Target
        <5> QED
            BY <1>2, <3>2, <4>2, <5>1 DEF StoreInv, Own, Footer, Written
      <4>3. CASE ~job.live
        <5>1. flash'[NSectors] = Layout(job.image)[NSectors]
            BY <4>1, <4>3 DEF Target
        <5>2. Footer(Layout(job.image)) = job.image /\ Own(Layout(job.image), job.image)
            BY <1>2, LayoutReadable, OwnLayout
        <5>3. Footer(flash') = job.image
            BY <5>1, <5>2 DEF Footer
        <5>4. Own(flash', Footer(flash'))
            BY <5>1, <5>2, <5>3 DEF Own
        <5> QED
            BY <3>2, <4>3, <5>3, <5>4 DEF Written
      <4> QED
          BY <4>2, <4>3
    <3> QED
        BY <3>3, <3>4
  <2> QED
      BY <2>1, <2>2 DEF WriteStep
<1>4. Written' = Written
    BY <1>1, <1>3 DEF Written, Footer
<1> QED
    BY <1>1, <1>2, <1>3, <1>4 DEF StoreInv, Own, Known, Footer

\* A config is known as long as no reload is to come
LEMMA CachedKnown ==
    ASSUME Established, StoreInv, ~upload, ~reinit, pc # "loading"
    PROVE  Footer(cache).main \in Known
BY DEF StoreInv

LEMMA StoreAccept ==
    ASSUME Plain, Established, StoreInv, NEW image \in Image, AcceptInfo(image),
           Size(image) # 0, ~reinit, pc # "loading",
           UNCHANGED <<flash, asked, running>>
    PROVE  /\ upload' /\ previous' \in Image /\ previous'.main \in Known'
           /\ Size(Footer(cache')) # 0
           /\ Own(cache', previous')
<1>1. /\ cache' = WithFooter(cache, image) /\ upload' = (Size(image) # 0)
      /\ previous' = IF previous = NoPrevious THEN Footer(cache) ELSE previous
    BY DEF AcceptInfo
<1>2. cache \in Area /\ Footer(cache) \in Image /\ Footer(cache') = image
    BY <1>1, EstablishedFacts, WithFooterType
<1>3. /\ previous' \in Image /\ previous'.main \in Known /\ Own(cache, previous')
  <2>1. CASE upload
    <3>1. previous' = previous
        BY <1>1, <2>1, EstablishedFacts
    <3> QED
        BY <2>1, <3>1 DEF StoreInv
  <2>2. CASE ~upload
    <3>1. previous' = Footer(cache)
        BY <1>1, <2>2, EstablishedFacts
    <3> QED
        BY <1>2, <2>2, <3>1, CachedKnown DEF StoreInv
  <2> QED
      BY <2>1, <2>2
<1>4. Own(cache', previous')
    BY <1>1, <1>2, <1>3, OwnKept
<1> QED
    BY <1>1, <1>2, <1>3, <1>4 DEF Known, Size

LEMMA StoreInfo ==
    ASSUME PatientTool, Plain, AuxAlwaysFits, Established, StoreInv, WriteConfigInfo \/ EndInfoFlush
    PROVE  StoreInv'
<1>1. UNCHANGED <<flash, asked, running, reinit, reloading, auxPending>>
    BY DEF WriteConfigInfo, EndInfoFlush, pendingVars, runVars, historyVars
<1>2. CASE WriteConfigInfo /\ (upload \/ commit = "none")
  <2>1. PICK image \in Image : AcceptInfo(image) /\ Size(image) # 0
      BY <1>2 DEF WriteConfigInfo, InfoAccepted, Plain
  <2>2. pc # "write" /\ pc' # "write" /\ pc # "loading" /\ ~reinit /\ commit' = "none"
      BY <1>2, EstablishedFacts DEF WriteConfigInfo, Servicing, loopVars
  <2>3. ~reloading
      BY <2>2 DEF StoreInv
  <2>4. /\ upload' /\ previous' \in Image /\ previous'.main \in Known'
        /\ Size(Footer(cache')) # 0 /\ Own(cache', previous')
      BY <1>1, <2>1, <2>2, StoreAccept
  <2> QED
      BY <1>1, <2>2, <2>3, <2>4, StoreFrame
<1>3. CASE WriteConfigInfo /\ ~(upload \/ commit = "none")
  <2>1. PICK image \in Image : StartWrite(FlushJob, "info", pc, image)
      BY <1>3 DEF WriteConfigInfo
  <2>2. /\ pc # "write" /\ pc # "loading" /\ pc' = "write" /\ ~upload /\ commit # "none"
        /\ commit' = "none" /\ UNCHANGED <<cache, upload, previous>> /\ job' = FlushJob /\ ~reinit
      BY <1>3, <2>1 DEF WriteConfigInfo, Servicing, storageVars, StartWrite
  <2>3. ~(job'.from > NSectors)
      BY <2>2, AuxCommits, JobTypes, SizesAssumption DEF Established
  <2> QED
      BY <1>1, <2>2, <2>3 DEF StoreInv, Own, Known, Footer
<1>4. CASE EndInfoFlush
  <2>1. AcceptInfo(after.image) /\ after.image \in Image /\ Size(after.image) # 0
      BY <1>4, TypedAreas DEF EndInfoFlush, EndWrite, InfoAccepted, Established, PairingsFollowed
  <2>2. pc = "write" /\ after.then = "info" /\ WriteDone /\ commit' = "none" /\ pc' # "write"
      BY <1>4, TypedAreas DEF EndInfoFlush, EndWrite, Established, IInv, SafeInv, WriteInv
  <2>3. ~reloading /\ ~reinit
      BY <2>2 DEF StoreInv
  <2>4. /\ upload' /\ previous' \in Image /\ previous'.main \in Known'
        /\ Size(Footer(cache')) # 0 /\ Own(cache', previous')
      BY <1>1, <2>1, <2>2, <2>3, StoreAccept
  <2> QED
      BY <1>1, <2>2, <2>3, <2>4 DEF StoreInv, Own, Footer
<1> QED
    BY <1>2, <1>3, <1>4

LEMMA StoreChunk ==
    ASSUME Established, StoreInv, WriteChunkInProgress \/ WriteChunkDone
    PROVE  StoreInv'
<1>1. /\ pc # "write" /\ pc' # "write" /\ pc # "loading" /\ upload /\ commit' = "none"
      /\ UNCHANGED <<flash, asked, running, reloading>>
    BY EstablishedFacts DEF WriteChunkInProgress, WriteChunkDone, ChunkInProgress, ChunkDone,
       Servicing, loopVars, runVars, historyVars
<1>2. ~reloading /\ cache \in Area /\ Footer(cache) \in Image
    BY <1>1, EstablishedFacts DEF StoreInv
<1>3. CASE WriteChunkInProgress
  <2>1. cache' = Staged(cache, staged + 1) /\ UNCHANGED <<upload, previous>>
      BY <1>3 DEF WriteChunkInProgress, ChunkInProgress
  <2>2. Footer(cache') = Footer(cache) /\ Own(cache', previous)
      BY <1>1, <1>2, <2>1, StagedType, OwnKept DEF StoreInv
  <2> QED
      BY <1>1, <1>2, <2>1, <2>2, StoreFrame DEF StoreInv, Known, Size
<1>4. CASE WriteChunkDone
  <2>1. cache' = Layout(Footer(cache)) /\ upload' = FALSE /\ auxPending' = TRUE /\ reinit' = TRUE
      BY <1>4 DEF WriteChunkDone, ChunkDone
  <2>2. Footer(cache') = Footer(cache) /\ Own(cache', Footer(cache'))
      BY <1>2, <2>1, LayoutReadable, OwnLayout
  <2> QED
      BY <1>1, <1>2, <2>1, <2>2, StoreFrame
<1> QED
    BY <1>3, <1>4

LEMMA StoreAbort ==
    ASSUME Established, StoreInv, WriteChunkInvalid \/ UploadStalled
    PROVE  StoreInv'
<1>1. PICK area \in Area : /\ AbortConfigWrite(area)
                           /\ ~upload => area = cache
                           /\ upload => Own(area, previous)
    BY StagedType, OwnKept, EstablishedFacts
       DEF WriteChunkInvalid, UploadStalled, CacheAfterBadChunk, StoreInv
<1>2. /\ UNCHANGED <<flash, commit, asked, running, reloading, reinit>>
      /\ auxPending' = TRUE /\ upload' = FALSE
      /\ pc # "write" /\ pc' # "write" /\ pc # "loading"
    BY <1>1 DEF WriteChunkInvalid, UploadStalled, AbortConfigWrite, AbortWrite, Goto, Servicing,
       loopVars, runVars, historyVars
<1>3. ~reloading
    BY <1>2 DEF StoreInv
<1>4. CASE ~upload
  <2>1. cache' = cache
      BY <1>1, <1>4, EstablishedFacts DEF AbortConfigWrite, AbortWrite
  <2> QED
      BY <1>2, <1>3, <1>4, <2>1, StoreFrame DEF StoreInv, Known
<1>5. CASE upload
  <2> DEFINE restored == WithFooter(area, previous)
  <2>1. /\ previous # NoPrevious /\ previous \in Image /\ previous.main \in Known
        /\ Own(area, previous) /\ commit = "none"
        /\ Footer(flash).main \in asked
      BY <1>1, <1>2, <1>5, EstablishedFacts DEF StoreInv
  <2>2. restored \in Area /\ Footer(restored) = previous /\ Own(restored, previous)
      BY <2>1, WithFooterType, OwnKept
  <2>3. CASE Readable(restored)
    <3>1. cache' = ClearFront(restored, Size(previous))
        BY <1>1, <2>1, <2>3 DEF AbortConfigWrite, AbortWrite
    <3> HIDE DEF restored
    <3>2. Footer(cache') = previous /\ Own(cache', previous)
        BY <2>2, <3>1, ClearFrontType, OwnKept
    <3> QED
        BY <1>2, <1>3, <2>1, <3>2, StoreFrame DEF Known
  <2>4. CASE ~Readable(restored)
    <3>1. cache' = flash
        BY <1>1, <2>1, <2>4 DEF AbortConfigWrite, AbortWrite
    <3> QED
        BY <1>2, <1>3, <2>1, <3>1, StoreFrame DEF StoreInv, Known
  <2> QED
      BY <2>3, <2>4
<1> QED
    BY <1>4, <1>5

\* What signing the cache again leaves of it
LEMMA SignedStays ==
    ASSUME AuxAlwaysFits, Established, StoreInv, ~upload, NEW aux \in Pairings
    PROVE  /\ Footer(CacheAfterUpdate(aux)).main = Footer(cache).main
           /\ Footer(CacheAfterUpdate(aux)).aux = aux
           /\ Footer(CacheAfterUpdate(aux)) \in Image
           /\ Own(CacheAfterUpdate(aux), Footer(CacheAfterUpdate(aux)))
<1> DEFINE image == [main |-> Footer(cache).main, aux |-> aux]
<1>1. Footer(cache) \in Image
    BY EstablishedFacts
<1>2. image \in Image /\ image.main = Footer(cache).main /\ image.aux = aux
    BY <1>1 DEF Image
<1>3. CacheAfterUpdate(aux) = Layout(image)
    BY UpdateSigns DEF Established
<1> HIDE DEF image
<1>4. Footer(Layout(image)) = image /\ Own(Layout(image), image)
    BY <1>2, LayoutReadable, OwnLayout
<1> QED
    BY <1>2, <1>3, <1>4

LEMMA StoreAux ==
    ASSUME Polled, AuxAlwaysFits, Established, StoreInv,
           ChangePairings \/ UpdateInputState \/ FlushAux
    PROVE  StoreInv'
<1>1. /\ pc # "write" /\ pc' # "write" /\ pc # "loading"
      /\ UNCHANGED <<flash, upload, previous, asked, running, reinit, reloading>>
    BY DEF Polled, ChangePairings, UpdateInputState, FlushAux, ClearPending, Goto, Servicing,
       storageVars, loopVars, managerVars, runVars, historyVars
<1>2. memory \in Pairings /\ ~reloading
    BY <1>1, EstablishedFacts DEF StoreInv
<1>3. /\ \/ cache' = cache
         \/ \E aux \in Pairings : cache' = CacheAfterUpdate(aux)
      /\ \/ commit' = commit
         \/ \E aux \in Pairings : commit' = CommitAfterUpdate(aux)
  <2>1. CASE ChangePairings
    <3>1. PICK aux \in Pairings : UpdateAuxiliary(aux, TRUE) \/ UNCHANGED <<cache, commit>>
        BY <2>1 DEF ChangePairings
    <3> QED
        BY <3>1 DEF UpdateAuxiliary
  <2>2. CASE UpdateInputState
      BY <1>2, <2>2 DEF UpdateInputState, UpdateAuxiliary
  <2>3. CASE FlushAux
    <3>1. ~upload
        BY <2>3 DEF FlushAux, CanWriteAux
    <3>2. AuxUpdates(memory)
        BY <1>2, <3>1, UpdateSigns DEF Established
    <3> QED
        BY <1>2, <2>3, <3>2 DEF FlushAux
  <2> QED
      BY <2>1, <2>2, <2>3
<1>4. CASE upload
  <2>1. \A aux \in Pairings : CacheAfterUpdate(aux) = cache /\ CommitAfterUpdate(aux) = commit
      BY <1>4, UpdateKeepsMain DEF Established
  <2>2. cache' = cache /\ commit' = commit
      BY <1>3, <2>1
  <2> QED
      BY <1>1, <1>2, <1>4, <2>2, StoreFrame DEF StoreInv, Known
<1>5. CASE ~upload
  <2>1. Footer(cache').main = Footer(cache).main /\ Own(cache', Footer(cache'))
      BY <1>3, <1>5, SignedStays DEF StoreInv
  <2>2. commit' = "cache" => Footer(cache).main = Footer(flash).main
    <3>1. CASE commit' = commit
        BY <1>1, <3>1 DEF StoreInv
    <3>2. CASE \E aux \in Pairings : commit' = CommitAfterUpdate(aux)
        BY <1>1, <3>2 DEF CommitAfterUpdate, CommitWriter, CacheIsSaved, StoreInv
    <3> QED
        BY <1>3, <3>1, <3>2
  <2>3. ~reinit => Footer(cache).main \in Known
      BY <1>1, <1>5, CachedKnown
  <2>4. ~auxPending => Footer(cache).main \in Known
      BY <1>5 DEF StoreInv
  <2>5. ~auxPending' => ~auxPending \/ ~reinit
    <3>1. CASE ChangePairings \/ UpdateInputState
        BY <3>1 DEF ChangePairings, UpdateInputState, pendingVars
    <3>2. CASE FlushAux
        BY <3>2 DEF FlushAux, CanWriteAux
    <3> QED
        BY <3>1, <3>2
  <2> QED
      BY <1>1, <1>2, <1>5, <2>1, <2>2, <2>3, <2>4, <2>5, StoreFrame DEF Known
<1> QED
    BY <1>4, <1>5

LEMMA StoreSave ==
    ASSUME AuxAlwaysFits, Established, StoreInv, SaveConfig \/ FlushSave
    PROVE  StoreInv'
<1>1. /\ pc # "write" /\ pc # "loading" /\ asked \subseteq asked'
      /\ UNCHANGED <<flash, upload, previous, commit, auxPending, running, reloading>>
      /\ reinit' = reinit \/ reinit' = TRUE
    BY DEF SaveConfig, FlushSave, Servicing, UpdateAuxiliary, flashVars, managerVars, pendingVars,
       runVars, historyVars
<1>2. ~reloading
    BY <1>1 DEF StoreInv
<1>3. CASE SaveConfig /\ (upload \/ auxPending)
  <2>1. UNCHANGED <<cache, pc>>
      BY <1>3 DEF SaveConfig, flashVars, loopVars
  <2> QED
      BY <1>1, <1>2, <2>1, StoreFrame DEF StoreInv, Known
<1>4. CASE SaveConfig /\ ~upload /\ ~auxPending
  <2>1. /\ pc' = "write" /\ job' = CacheJob /\ cache' = cache /\ after'.then = "save"
      BY <1>4 DEF SaveConfig, StartWrite, After
  <2>2. job'.live /\ ~(job'.from > NSectors)
      BY <2>1, JobTypes, SizesAssumption DEF Established
  <2> QED
      BY <1>1, <1>2, <1>4, <2>1, <2>2 DEF StoreInv, Own, Footer, Known
<1>5. CASE FlushSave
  <2>1. /\ pc' = "write" /\ job' = CacheJob /\ ~upload /\ cache' = CacheAfterUpdate(memory)
        /\ after'.then = "flush" /\ ~reinit /\ reinit' = reinit
      BY <1>5 DEF FlushSave, StartWrite, After, CanWriteAux, UpdateAuxiliary, managerVars
  <2>2. job'.live /\ ~(job'.from > NSectors)
      BY <2>1, JobTypes, SizesAssumption DEF Established
  <2>3. Footer(cache').main = Footer(cache).main /\ Own(cache', Footer(cache'))
      BY <2>1, SignedStays, EstablishedFacts
  <2>4. Footer(cache).main \in Known'
      BY <1>1, <2>1, CachedKnown DEF Known
  <2> QED
      BY <1>1, <1>2, <2>1, <2>2, <2>3, <2>4 DEF StoreInv, Own, Footer
<1> QED
    BY <1>3, <1>4, <1>5

LEMMA StoreCommit ==
    ASSUME AuxAlwaysFits, Established, StoreInv, CommitDue
    PROVE  StoreInv'
<1>1. /\ pc # "write" /\ pc # "loading" /\ pc' = "write" /\ commit # "none" /\ commit' = "none"
      /\ job' = FlushJob /\ after'.then = "tick" /\ ~upload
      /\ UNCHANGED <<flash, cache, upload, previous, auxPending, asked, running, reinit, reloading>>
    BY EstablishedFacts DEF CommitDue, StartWrite, After, storageVars, managerVars, pendingVars,
       runVars, historyVars
<1>2. ~(job'.from > NSectors)
    BY <1>1, AuxCommits, JobTypes, SizesAssumption DEF Established
<1> QED
    BY <1>1, <1>2 DEF StoreInv, Own, Footer, Known

LEMMA StoreEnd ==
    ASSUME Established, StoreInv, EndSave \/ EndFlushSave \/ EndCommit
    PROVE  StoreInv'
<1>1. /\ pc = "write" /\ WriteDone /\ pc' # "write" /\ ~upload
      /\ UNCHANGED <<flash, cache, commit, upload, previous, running, reloading>>
    BY TypedAreas, EstablishedFacts DEF EndSave, EndFlushSave, EndCommit, EndWrite, storageVars,
       managerVars, runVars, Established
<1>2. ~reloading /\ Footer(flash) = Written
    BY <1>1, DoneWritten DEF StoreInv
<1>3. commit = "cache" => Footer(cache).main = Footer(flash).main
    BY <1>1, <1>2 DEF StoreInv, Written
<1>4. CASE EndCommit
  <2>1. UNCHANGED <<auxPending, reinit, asked>>
      BY <1>4 DEF EndCommit, pendingVars, managerVars, historyVars
  <2> QED
      BY <1>1, <1>2, <1>3, <2>1 DEF StoreInv, Own, Footer, Known
<1>5. CASE EndSave \/ EndFlushSave
  <2>1. asked' = MainOf(flash) /\ job.live
      BY <1>1, <1>5 DEF EndSave, EndFlushSave, EndWrite, Established, Origins
  <2>2. Footer(flash) = Footer(cache)
      BY <1>2, <2>1 DEF Written
  <2>3. Footer(cache').main \in Known'
      BY <1>1, <2>1, <2>2, EstablishedFacts DEF Known, MainOf, Footer
  <2> QED
      BY <1>1, <1>2, <1>3, <2>3 DEF StoreInv, Own, Footer
<1> QED
    BY <1>4, <1>5

LEMMA StoreCut ==
    ASSUME Polled, Plain, Established, StoreInv, PowerCut
    PROVE  StoreInv'
<1>1. /\ pc # "write" /\ flash' = flash
      /\ Readable(flash) /\ Footer(flash) \in Image /\ MainOf(flash) = {Footer(flash).main}
    BY EstablishedFacts DEF Polled, PowerCut
<1>2. Boots(flash)
    BY <1>1 DEF Boots, Plain, Image
<1>3. /\ cache' = flash /\ commit' = "none" /\ pc' = "usb" /\ upload' = FALSE
      /\ reloading' = FALSE /\ asked' = MainOf(flash)
    BY <1>1, <1>2 DEF PowerCut
<1> QED
    BY <1>1, <1>3 DEF StoreInv, Known, Own, Footer

LEMMA StoreStays ==
    ASSUME Described, Established, StoreInv, [Next]_vars
    PROVE  StoreInv'
<1> USE DEF Described
<1>1. CASE Tool
    BY <1>1, StoreInfo, StoreChunk, StoreAbort, StoreSave DEF Tool
<1>2. CASE Flash
    BY <1>2, StoreWrite, StoreInfo, StoreEnd DEF Flash
<1>3. CASE Loop
    BY <1>3, StoreLoop, StoreAbort, StoreSave, StoreAux, StoreCommit DEF Loop
<1>4. CASE Environment
    BY <1>4, StoreAux, StoreLoop, StoreCut DEF Environment
<1>5. CASE UNCHANGED vars
    BY <1>5, Stutter DEF StoreInv, Own, Footer, Known, Written, Size
<1> QED
    BY <1>1, <1>2, <1>3, <1>4, <1>5 DEF Next

-----------------------------------------------------------------------------
(* The steps of ConfigStore, in terms of ConfigSystem's variables *)

\* The pairings the next stored image is to have
Keeping == IF commit = "none" THEN memory ELSE Footer(cache).aux

LEMMA AsNothing ==
    ASSUME UNCHANGED <<Stored, running, memory, Keeping, asked>>
    PROVE  UNCHANGED Store!vars
BY DEF Keeping, Store!vars

LEMMA AsPreview ==
    ASSUME running' \in Mains, UNCHANGED <<Stored, memory, Keeping, asked>>
    PROVE  Store!Next
BY DEF Keeping, Store!Next, Store!Preview

LEMMA AsPair ==
    ASSUME memory' \in Pairings, Keeping' = Keeping \/ Keeping' = memory',
           UNCHANGED <<Stored, running, asked>>
    PROVE  Store!Next
BY DEF Keeping, Store!Next, Store!Pair

LEMMA AsAsk ==
    ASSUME NEW main \in Mains, asked' = asked \union {main},
           UNCHANGED <<Stored, running, memory, Keeping>>
    PROVE  Store!Next
BY DEF Keeping, Store!Next, Store!Ask

LEMMA AsSave ==
    ASSUME NEW main \in Known, asked' = asked \union {main},
           Stored' = [main |-> main, aux |-> memory], Keeping' = memory,
           UNCHANGED <<running, memory>>
    PROVE  Store!Next
BY DEF Known, Keeping, Store!Next, Store!Save

LEMMA AsForget ==
    ASSUME asked' = {Stored.main}, UNCHANGED <<Stored, running, memory, Keeping>>
    PROVE  Store!Next
BY DEF Keeping, Store!Next, Store!Forget

LEMMA AsStorePairings ==
    ASSUME Stored \in Image, Stored' = [main |-> Stored.main, aux |-> Keeping], Keeping' = memory,
           UNCHANGED <<running, memory, asked>>
    PROVE  Store!Next
<1>1. Stored' = [Stored EXCEPT !.aux = Keeping]
    BY DEF Image
<1> QED
    BY <1>1 DEF Keeping, Store!Next, Store!StorePairings

LEMMA AsRestart ==
    ASSUME running' = Stored.main, memory' = Stored.aux, Keeping' = memory',
           asked' = {Stored.main}, UNCHANGED Stored
    PROVE  Store!Next
BY DEF Keeping, Store!Next, Store!Restart

\* What is stored is in flash, or what the write in progress ends with
LEMMA StoredIs ==
    /\ StoreInv => Stored = IF pc = "write" THEN Written ELSE Footer(flash)
    /\ StoreInv' => Stored' = IF pc' = "write" THEN Written' ELSE Footer(flash')
<1>1. NoJob.from > NSectors
    BY SizesAssumption DEF NoJob, Job
<1>2. StoreInv => Stored = IF pc = "write" THEN Written ELSE Footer(flash)
    BY <1>1 DEF StoreInv, Stored, Written
<1>3. StoreInv' => Stored' = IF pc' = "write" THEN Written' ELSE Footer(flash')
    BY <1>1 DEF StoreInv, Stored, Written, NoJob, Job, EmptyImage
<1> QED
    BY <1>2, <1>3

-----------------------------------------------------------------------------
(* Every step of ConfigSystem is one of them or none *)

\* A waiting commit, when it is started, stores the pairings and nothing else
LEMMA FlushStores ==
    ASSUME AuxAlwaysFits, Established, StoreInv, StoreInv', pc # "write", pc' = "write",
           ~upload, commit # "none", commit' = "none", job' = FlushJob,
           UNCHANGED <<flash, cache, running, memory, asked>>
    PROVE  Store!Next
<1>1. Footer(flash) \in Image /\ Footer(cache) \in Image
    BY EstablishedFacts
<1>2. Stored = Footer(flash) /\ Stored' = Written'
    BY StoredIs
<1>3. Keeping = Footer(cache).aux /\ Keeping' = memory
    BY DEF Keeping
<1>4. Written' = [main |-> Footer(flash).main, aux |-> Footer(cache).aux]
  <2>1. CASE commit = "cache"
    <3>1. job'.live /\ Footer(cache).main = Footer(flash).main
        BY <2>1, JobTypes DEF FlushJob, StoreInv, Established
    <3>2. Written' = Footer(cache)
        BY <3>1 DEF Written, Footer
    <3> QED
        BY <1>1, <3>1, <3>2 DEF Image
  <2>2. CASE commit # "cache"
    <3>1. AuxCommittable /\ job' = AuxJob
        BY <2>2, AuxCommits, EstablishedFacts DEF FlushJob, Established, Commits
    <3>2. ~AuxJob.live /\ AuxJob.image = [main |-> Footer(flash).main, aux |-> Footer(cache).aux]
        BY <3>1, JobTypes DEF Established
    <3> QED
        BY <3>1, <3>2 DEF Written
  <2> QED
      BY <2>1, <2>2
<1> QED
    BY <1>1, <1>2, <1>3, <1>4, AsStorePairings

LEMMA InfoMaps ==
    ASSUME AuxAlwaysFits, Established, StoreInv, StoreInv', WriteConfigInfo \/ EndInfoFlush
    PROVE  Store!Next \/ UNCHANGED Store!vars
<1>1. UNCHANGED <<flash, running, memory, asked>>
    BY DEF WriteConfigInfo, EndInfoFlush, runVars, historyVars
<1>2. CASE WriteConfigInfo /\ (upload \/ commit = "none")
  <2>1. pc # "write" /\ pc' # "write" /\ commit = "none" /\ commit' = "none"
      BY <1>2, EstablishedFacts DEF WriteConfigInfo, Servicing, loopVars
  <2>2. Stored' = Stored /\ Keeping' = Keeping
      BY <1>1, <2>1, StoredIs DEF Keeping, Footer
  <2> QED
      BY <1>1, <2>2, AsNothing
<1>3. CASE WriteConfigInfo /\ ~(upload \/ commit = "none")
  <2>1. PICK image \in Image : StartWrite(FlushJob, "info", pc, image)
      BY <1>3 DEF WriteConfigInfo
  <2>2. /\ pc # "write" /\ pc' = "write" /\ commit' = "none" /\ cache' = cache /\ job' = FlushJob
      BY <1>3, <2>1 DEF WriteConfigInfo, Servicing, StartWrite
  <2> QED
      BY <1>1, <1>3, <2>2, FlushStores
<1>4. CASE EndInfoFlush
  <2>1. pc = "write" /\ pc' # "write" /\ WriteDone /\ commit = "none" /\ commit' = "none"
      BY <1>4, TypedAreas DEF EndInfoFlush, EndWrite, Established, IInv, SafeInv, WriteInv
  <2>2. Stored' = Stored /\ Keeping' = Keeping
      BY <1>1, <2>1, StoredIs, DoneWritten DEF Keeping, Footer
  <2> QED
      BY <1>1, <2>2, AsNothing
<1> QED
    BY <1>2, <1>3, <1>4

\* Chunks, and uploads that fail, store nothing
LEMMA UploadMaps ==
    ASSUME Established, StoreInv, StoreInv',
           WriteChunkInProgress \/ WriteChunkDone \/ WriteChunkInvalid \/ UploadStalled
    PROVE  UNCHANGED Store!vars
<1>1. /\ pc # "write" /\ pc' # "write"
      /\ UNCHANGED <<flash, commit, running, memory, asked>>
    BY DEF WriteChunkInProgress, WriteChunkDone, WriteChunkInvalid, UploadStalled, Servicing,
       Goto, loopVars, runVars, historyVars
<1>2. upload \/ cache' = cache
    BY EstablishedFacts DEF WriteChunkInProgress, WriteChunkDone, ChunkInProgress, ChunkDone,
       WriteChunkInvalid, UploadStalled, AbortConfigWrite, AbortWrite
<1>3. Keeping' = Keeping
    BY <1>1, <1>2, EstablishedFacts DEF Keeping, Footer
<1>4. Stored' = Stored
    BY <1>1, StoredIs DEF Footer
<1> QED
    BY <1>1, <1>3, <1>4, AsNothing

LEMMA WriteMaps ==
    ASSUME Established, StoreInv, StoreInv', WriteStep
    PROVE  UNCHANGED Store!vars
<1>1. /\ pc = "write" /\ pc' = "write"
      /\ UNCHANGED <<cache, commit, running, memory, asked>>
    BY DEF WriteStep, EraseSector, ProgramSector, loopVars, runVars, historyVars
<1>2. job'.live = job.live /\ job'.image = job.image
    BY EstablishedFacts DEF WriteStep, EraseSector, ProgramSector, Jobs
<1>3. Stored' = Stored /\ Keeping' = Keeping
    BY <1>1, <1>2, StoredIs DEF Written, Keeping, Footer
<1> QED
    BY <1>1, <1>3, AsNothing

LEMMA SaveMaps ==
    ASSUME AuxAlwaysFits, Established, StoreInv, StoreInv', SaveConfig \/ FlushSave
    PROVE  Store!Next \/ UNCHANGED Store!vars
<1>1. pc # "write" /\ UNCHANGED <<flash, upload, commit, running, memory>>
    BY DEF SaveConfig, FlushSave, Servicing, UpdateAuxiliary, flashVars, runVars
<1>2. Footer(cache) \in Image /\ MainOf(cache) = {Footer(cache).main} /\ Footer(cache).main \in Mains
    BY EstablishedFacts DEF Image
<1>3. CASE SaveConfig /\ (upload \/ auxPending)
  <2>1. UNCHANGED <<cache, pc>> /\ asked' = asked \union {Footer(cache).main}
      BY <1>2, <1>3 DEF SaveConfig, flashVars, loopVars
  <2>2. Stored' = Stored /\ Keeping' = Keeping
      BY <1>1, <2>1, StoredIs DEF Keeping, Footer
  <2> QED
      BY <1>1, <1>2, <2>1, <2>2, AsAsk
<1>4. CASE SaveConfig /\ ~upload /\ ~auxPending
  <2>1. /\ pc' = "write" /\ job' = CacheJob /\ cache' = cache
        /\ asked' = asked \union {Footer(cache).main}
      BY <1>2, <1>4 DEF SaveConfig, StartWrite
  <2>2. Footer(cache).aux = memory /\ Footer(cache).main \in Known
      BY <1>4 DEF Established, PairingsFollowed, StoreInv
  <2>3. Stored' = Footer(cache)
      BY <2>1, StoredIs, JobTypes DEF Written, Footer, Established
  <2>4. Stored' = [main |-> Footer(cache).main, aux |-> memory]
      BY <1>2, <2>2, <2>3 DEF Image
  <2>5. Keeping' = memory
      BY <1>1, <2>1, <2>2 DEF Keeping, Footer
  <2> QED
      BY <1>1, <2>1, <2>2, <2>4, <2>5, AsSave
<1>5. CASE FlushSave
  <2>1. /\ pc' = "write" /\ job' = CacheJob /\ ~upload /\ configCommitPending
        /\ cache' = CacheAfterUpdate(memory) /\ asked' = asked /\ memory \in Pairings
      BY <1>5, EstablishedFacts DEF FlushSave, StartWrite, CanWriteAux, UpdateAuxiliary, historyVars
  <2>2. Footer(cache).main \in asked
      BY <1>2, <2>1 DEF Established, Origins, CacheAsked
  <2>3. /\ Footer(cache').main = Footer(cache).main /\ Footer(cache').aux = memory
        /\ Footer(cache') \in Image
      BY <2>1, SignedStays
  <2>4. Stored' = Footer(cache')
      BY <2>1, StoredIs, JobTypes DEF Written, Footer, Established
  <2>5. Stored' = [main |-> Footer(cache).main, aux |-> memory]
      BY <2>3, <2>4 DEF Image
  <2>6. Keeping' = memory
      BY <1>1, <2>3 DEF Keeping, Footer
  <2>7. asked' = asked \union {Footer(cache).main} /\ Footer(cache).main \in Known
      BY <2>1, <2>2 DEF Known
  <2> QED
      BY <1>1, <2>5, <2>6, <2>7, AsSave
<1> QED
    BY <1>3, <1>4, <1>5

LEMMA EndMaps ==
    ASSUME Established, StoreInv, StoreInv', EndSave \/ EndFlushSave \/ EndCommit
    PROVE  Store!Next \/ UNCHANGED Store!vars
<1>1. /\ pc = "write" /\ WriteDone /\ pc' # "write"
      /\ UNCHANGED <<flash, cache, commit, running, memory>>
    BY TypedAreas DEF EndSave, EndFlushSave, EndCommit, EndWrite, runVars, Established
<1>2. Stored' = Stored /\ Keeping' = Keeping /\ Stored = Footer(flash)
    BY <1>1, StoredIs, DoneWritten DEF Keeping, Footer
<1>3. CASE EndCommit
  <2>1. asked' = asked
      BY <1>3 DEF EndCommit, historyVars
  <2> QED
      BY <1>1, <1>2, <2>1, AsNothing
<1>4. CASE EndSave \/ EndFlushSave
  <2>1. asked' = MainOf(flash) /\ job.live
      BY <1>1, <1>4 DEF EndSave, EndFlushSave, EndWrite, Established, Origins
  <2>2. Footer(flash) = Footer(cache)
      BY <1>1, <2>1, DoneWritten DEF Written
  <2>3. asked' = {Stored.main}
      BY <1>2, <2>1, <2>2, EstablishedFacts DEF MainOf
  <2> QED
      BY <1>1, <1>2, <2>3, AsForget
<1> QED
    BY <1>3, <1>4

\* The aux block rewritten in the cache: the device's pairings
LEMMA AuxMaps ==
    ASSUME Polled, AuxAlwaysFits, Established, StoreInv, StoreInv',
           ChangePairings \/ UpdateInputState \/ FlushAux
    PROVE  Store!Next \/ UNCHANGED Store!vars
<1>1. /\ pc # "write" /\ pc' # "write" /\ UNCHANGED <<flash, upload, running, asked>>
    BY DEF Polled, ChangePairings, UpdateInputState, FlushAux, Goto, Servicing, storageVars,
       loopVars, runVars, historyVars
<1>2. Stored' = Stored /\ memory \in Pairings
    BY <1>1, StoredIs, EstablishedFacts DEF Footer
<1>3. CASE ChangePairings
  <2>1. PICK aux \in Pairings :
          /\ memory' = aux
          /\ IF CanWriteAux THEN UpdateAuxiliary(aux, TRUE) ELSE UNCHANGED <<cache, commit>>
      BY <1>3 DEF ChangePairings
  <2>2. Keeping' = Keeping \/ Keeping' = memory'
    <3>1. CASE CanWriteAux
      <4>1. ~upload /\ cache' = CacheAfterUpdate(aux)
          BY <2>1, <3>1 DEF CanWriteAux, UpdateAuxiliary
      <4>2. Footer(cache').aux = aux
          BY <2>1, <4>1, SignedStays
      <4> QED
          BY <2>1, <4>2 DEF Keeping, Footer
    <3>2. CASE ~CanWriteAux
        BY <2>1, <3>2 DEF Keeping, Footer
    <3> QED
        BY <3>1, <3>2
  <2> QED
      BY <1>1, <1>2, <2>1, <2>2, AsPair
<1>4. CASE UpdateInputState \/ FlushAux
  <2>1. cache' = CacheAfterUpdate(memory) /\ memory' = memory
      BY <1>4 DEF UpdateInputState, FlushAux, UpdateAuxiliary, runVars
  <2>2. CASE ~upload
    <3>1. Footer(cache').aux = memory
        BY <1>2, <2>1, <2>2, SignedStays
    <3>2. Keeping' = memory'
        BY <2>1, <3>1 DEF Keeping, Footer
    <3> QED
        BY <1>1, <1>2, <2>1, <3>2, AsPair
  <2>3. CASE upload
    <3>1. UpdateInputState
        BY <1>4, <2>3 DEF FlushAux, CanWriteAux
    <3>2. cache' = cache /\ commit' = commit
        BY <1>2, <2>1, <2>3, <3>1, UpdateKeepsMain
           DEF UpdateInputState, UpdateAuxiliary, Established
    <3>3. Keeping' = Keeping
        BY <2>1, <3>2 DEF Keeping, Footer
    <3> QED
        BY <1>1, <1>2, <2>1, <3>3, AsNothing
  <2> QED
      BY <2>2, <2>3
<1> QED
    BY <1>3, <1>4

LEMMA LoopMaps ==
    ASSUME Established, StoreInv, StoreInv',
           \/ Serviced \/ RequestReload \/ ReloadDue \/ ModeChanged \/ NoReload
           \/ BeginReinit \/ LoadConfig \/ WaitForUpload \/ NothingToFlush
           \/ Updated \/ NoCommit
    PROVE  Store!Next \/ UNCHANGED Store!vars
<1>1. /\ pc # "write" /\ pc' # "write" /\ UNCHANGED <<flash, cache, commit, asked>>
    BY DEF Serviced, RequestReload, ReloadDue, ModeChanged, NoReload, BeginReinit,
       LoadConfig, WaitForUpload, NothingToFlush, Updated, NoCommit, Goto, Servicing, flashVars,
       loopVars, historyVars
<1>2. memory' = memory
    BY DEF Serviced, RequestReload, ReloadDue, ModeChanged, NoReload, BeginReinit, LoadConfig,
       WaitForUpload, NothingToFlush, Updated, NoCommit, runVars, Established, PairingsFollowed
<1>3. Stored' = Stored /\ Keeping' = Keeping
    BY <1>1, <1>2, StoredIs DEF Keeping, Footer
<1>4. running' = running \/ running' \in Mains
  <2>1. Footer(cache).main \in Mains
      BY EstablishedFacts DEF Image
  <2> QED
      BY <2>1 DEF Serviced, RequestReload, ReloadDue, ModeChanged, NoReload, BeginReinit,
         LoadConfig, WaitForUpload, NothingToFlush, Updated, NoCommit, runVars
<1> QED
    BY <1>1, <1>2, <1>3, <1>4, AsNothing, AsPreview

LEMMA CutMaps ==
    ASSUME Polled, Plain, Established, StoreInv, StoreInv', PowerCut
    PROVE  Store!Next
<1>1. /\ pc # "write" /\ flash' = flash /\ pc' = "usb" /\ commit' = "none"
      /\ Readable(flash) /\ Footer(flash) \in Image /\ MainOf(flash) = {Footer(flash).main}
      /\ asked' = MainOf(flash)
    BY EstablishedFacts DEF Polled, PowerCut
<1>2. memory' = Footer(flash).aux /\ running' = Footer(flash).main
    BY <1>1 DEF PowerCut
<1>3. Stored = Footer(flash) /\ Stored' = Stored
    BY <1>1, StoredIs DEF Footer
<1>4. Keeping' = memory'
    BY <1>1 DEF Keeping
<1> QED
    BY <1>1, <1>2, <1>3, <1>4, AsRestart

LEMMA StepMaps ==
    ASSUME Described, Established, StoreInv, StoreInv', [Next]_vars
    PROVE  [Store!Next]_(Store!vars)
<1> USE DEF Described
<1>1. CASE Tool
    BY <1>1, InfoMaps, UploadMaps, SaveMaps DEF Tool
<1>2. CASE Flash
    BY <1>2, WriteMaps, InfoMaps, EndMaps DEF Flash
<1>3. CASE CommitDue
  <2>1. /\ pc # "write" /\ pc' = "write" /\ commit # "none" /\ commit' = "none"
        /\ job' = FlushJob /\ ~upload /\ UNCHANGED <<flash, cache, running, memory, asked>>
      BY <1>3, EstablishedFacts DEF CommitDue, StartWrite, runVars, historyVars
  <2> QED
      BY <2>1, FlushStores
<1>4. CASE Loop
    BY <1>3, <1>4, LoopMaps, UploadMaps, SaveMaps, AuxMaps DEF Loop
<1>5. CASE Environment
    BY <1>5, AuxMaps, LoopMaps, CutMaps DEF Environment
<1>6. CASE UNCHANGED vars
  <2>1. Stored' = Stored /\ Keeping' = Keeping
      BY <1>6, Stutter DEF Stored, Keeping, Footer, NoJob, Job, EmptyImage
  <2> QED
      BY <1>6, <2>1, Stutter, AsNothing
<1> QED
    BY <1>1, <1>2, <1>4, <1>5, <1>6 DEF Next

LEMMA InitMaps ==
    ASSUME Plain, Init
    PROVE  Store!Init
<1>1. PICK area \in SavedAreas : Boot(area) /\ asked = MainOf(area)
    BY DEF Init, InitFrom
<1>2. PICK image \in Image : area = Layout(image)
    BY <1>1 DEF SavedAreas
<1>3. /\ Readable(area) /\ Footer(area) = image /\ image.main \in Mains /\ image # NoFooter
    BY <1>2, LayoutReadable, MarkersAssumption DEF Image
<1>4. Stored = image
    BY <1>1, <1>3 DEF Boot, Stored
<1>5. running = image.main /\ memory = image.aux /\ commit = "none" /\ asked = {image.main}
    BY <1>1, <1>3 DEF Boot, MainOf
<1> QED
    BY <1>4, <1>5 DEF Store!Init, Image

(* The detailed system implements the abstract one: the stored config the    *)
(* user sees changes as a whole, by a save of a config that was asked for or *)
(* by the device's pairings, however uploads, aborts, reloads, delayed       *)
(* commits and restarts meet, for every set of configs, layout and bound.    *)
THEOREM SystemImplementsStore ==
    ASSUME Described
    PROVE  Spec => ImplementsConfigStore
<1>1. Init => Typed /\ Origins /\ PairingsFollowed /\ StoreInv
    BY SavedIsFresh, TypedAtFirst, OriginsAtFirst, FollowedAtFirst, StoreAtFirst DEF Described
<1>2. /\ IInv /\ Typed /\ Origins /\ PairingsFollowed /\ StoreInv /\ [Next]_vars
            => (Typed /\ Origins /\ PairingsFollowed /\ StoreInv)'
    BY TypedStays, OriginsStay, FollowedStays, StoreStays DEF Described, Polled, Established
<1>3. Spec => []IInv
    BY SystemSafe DEF Described
<1>4. Init => Store!Init
    BY InitMaps DEF Described
<1>5. IInv /\ Typed /\ Origins /\ PairingsFollowed /\ StoreInv /\ StoreInv' /\ [Next]_vars
          => [Store!Next]_(Store!vars)
    BY StepMaps DEF Established
<1> QED
    BY <1>1, <1>2, <1>3, <1>4, <1>5, PTL DEF Spec, ImplementsConfigStore, Store!Spec
=============================================================================
