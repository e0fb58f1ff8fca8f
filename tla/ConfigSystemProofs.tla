------------------------- MODULE ConfigSystemProofs -------------------------
(***************************************************************************)
(* Safety of ConfigSystem for every configuration, layout and bound, when  *)
(* Bluetooth is polled from the main loop and power stays on during flash  *)
(* writes.                                                                 *)
(*                                                                         *)
(* None of the three safety invariants is inductive on its own.  Flash     *)
(* stays readable because a write copies a cache that is readable, the     *)
(* cache is readable because an aborted upload falls back to a flash that  *)
(* is, and both hold because no commit is waiting while an upload is going *)
(* on, not even the one flushed before the upload is accepted (WriteInv).  *)
(***************************************************************************)
EXTENDS ConfigSystem, TLAPS

-----------------------------------------------------------------------------
(* The operators on areas of flash and of the cache: what each of them      *)
(* returns, and what it leaves readable.                                    *)

\* What lies behind a sector is a number of units
LEMMA BehindNat ==
    ASSUME NEW s \in Sectors
    PROVE  (NSectors - s) * UnitsPerSector \in Nat
<1>1. NSectors - s \in Nat
    BY SizesAssumption DEF Sectors
<1> DEFINE n == NSectors - s
<1>2. \A k \in Nat, u \in Nat : k * u \in Nat
    OBVIOUS
<1> QED
    BY <1>1, <1>2, SizesAssumption

LEMMA SizeNat ==
    ASSUME NEW image \in Image
    PROVE  Size(image) \in Nat
BY SizesAssumption DEF Size, Image

LEMMA LastSector == NSectors \in Sectors
BY SizesAssumption DEF Sectors

LEMMA EmptyImageType == EmptyImage \in Image /\ Size(EmptyImage) = 0
BY SizesAssumption DEF EmptyImage, Image, Mains, Size

\* Data of no size covers no sector
LEMMA CoversNothing ==
    ASSUME NEW s \in Sectors
    PROVE  ~Covers(0, s)
<1>1. (NSectors - s) * UnitsPerSector \in Nat
    BY BehindNat
<1> QED
    BY <1>1 DEF Covers

\* The footer of an area is a footer
LEMMA FooterType ==
    ASSUME NEW area \in Area
    PROVE  /\ Footer(area) \in Image \union {NoFooter}
           /\ Footer(area) # NoFooter => Footer(area) \in Image
BY LastSector DEF Footer, Area, Piece

\* An image laid out against the end of the area is readable, and it is that image
LEMMA LayoutReadable ==
    ASSUME NEW image \in Image
    PROVE  /\ Layout(image) \in Area
           /\ Footer(Layout(image)) = image
           /\ Readable(Layout(image))
<1>1. Layout(image) \in Area
    BY DEF Layout, Area, Piece
<1>2. Footer(Layout(image)) = image
    BY LastSector DEF Layout, Footer
<1>3. \A s \in Sectors : Covers(Size(image), s) => Layout(image)[s].data = image
    BY DEF Layout
<1> QED
    BY <1>1, <1>2, <1>3, MarkersAssumption DEF Readable

LEMMA WithFooterType ==
    ASSUME NEW area \in Area, NEW footer \in Image \union {NoFooter}
    PROVE  /\ WithFooter(area, footer) \in Area
           /\ Footer(WithFooter(area, footer)) = footer
           /\ \A s \in Sectors : WithFooter(area, footer)[s].data = area[s].data
BY LastSector DEF WithFooter, Footer, Area, Piece

\* The footer of an image with no data makes any area readable
LEMMA EmptyReadable ==
    ASSUME NEW area \in Area, NEW image \in Image, Size(image) = 0
    PROVE  Readable(WithFooter(area, image))
BY WithFooterType, CoversNothing, MarkersAssumption DEF Readable

LEMMA ClearFrontType ==
    ASSUME NEW area \in Area, NEW size
    PROVE  /\ ClearFront(area, size) \in Area
           /\ Footer(ClearFront(area, size)) = Footer(area)
<1>1. \A s \in Sectors : /\ ClearFront(area, size)[s] \in Piece
                         /\ ClearFront(area, size)[s].foot = area[s].foot
    BY DEF ClearFront, Area, Piece
<1> QED
    BY <1>1, LastSector DEF Footer, Area, ClearFront

\* Clearing what is in front of the data leaves the data readable
LEMMA ClearFrontReadable ==
    ASSUME NEW area \in Area, Readable(area)
    PROVE  Readable(ClearFront(area, Size(Footer(area))))
<1> DEFINE size == Size(Footer(area))
           cleared == ClearFront(area, size)
<1>1. Footer(cleared) = Footer(area)
    BY ClearFrontType
<1>2. \A s \in Sectors : Covers(size, s) => cleared[s] = area[s]
    BY DEF ClearFront
<1> QED
    BY <1>1, <1>2 DEF Readable

LEMMA StagedType ==
    ASSUME NEW area \in Area, NEW units
    PROVE  /\ Staged(area, units) \in Area
           /\ Footer(Staged(area, units)) = Footer(area)
<1>1. \A s \in Sectors : /\ Staged(area, units)[s] \in Piece
                         /\ Staged(area, units)[s].foot = area[s].foot
  <2> SUFFICES ASSUME NEW s \in Sectors
               PROVE  /\ Staged(area, units)[s] \in Piece
                      /\ Staged(area, units)[s].foot = area[s].foot
      OBVIOUS
  <2>1. Staged(area, units)[s] = area[s] \/ Staged(area, units)[s] = [area[s] EXCEPT !.data = Torn]
      BY DEF Staged
  <2> QED
      BY <2>1 DEF Area, Piece
<1> QED
    BY <1>1, LastSector DEF Footer, Area, Staged

-----------------------------------------------------------------------------
(* The invariant *)

Polled == BtInIrq = FALSE /\ CutMidWrite = FALSE

\* The cache always has a footer
CacheSigned == Footer(cache) # NoFooter

(* What a write in progress has done: the sectors behind job.from are as    *)
(* they should be, unless there was nothing to write.                       *)
WriteInv ==
    pc = "write" =>
        /\ after.then = "info" => commit = "none"
        /\ \/ job = NoJob /\ Readable(flash)
           \/ /\ \A s \in 1..(job.from - 1) : flash[s] = Target(s)
              /\ ~job.live => job.span \in Nat /\ Size(job.image) <= job.span
        /\ job.erased => job.from \in Sectors

SafeInv ==
    /\ CacheSigned
    /\ NoCommitOverUpload
    /\ CacheReadable
    /\ FlashStaysReadable
    /\ PreviousForUpload
    /\ WriteInv

IInv == TypeOK /\ SafeInv

-----------------------------------------------------------------------------
\* Steps that leave flash alone, between writes
LEMMA Frame ==
    ASSUME SafeInv, pc # "write", pc' # "write", flash' = flash,
           Footer(cache') # NoFooter,
           ~upload' => Readable(cache'),
           upload' => commit' = "none",
           upload' <=> previous' # NoPrevious
    PROVE  SafeInv'
BY DEF SafeInv, CacheSigned, NoCommitOverUpload, CacheReadable, FlashStaysReadable,
       PreviousForUpload, WriteInv, Footer, Readable

\* and of those the ones that leave the cache and the upload alone as well
LEMMA FrameSame ==
    ASSUME SafeInv, pc # "write", pc' # "write",
           UNCHANGED <<flash, cache, commit, upload, previous>>
    PROVE  SafeInv'
BY DEF SafeInv, CacheSigned, NoCommitOverUpload, CacheReadable, FlashStaysReadable,
       PreviousForUpload, WriteInv, Footer, Readable

\* A write that is done has left a readable image
LEMMA DoneReadable ==
    ASSUME IInv, pc = "write", WriteDone
    PROVE  Readable(flash)
<1> USE DEF IInv
<1>1. flash \in Area /\ cache \in Area /\ job \in Jobs
    BY DEF TypeOK, FlashTypeOK
<1>2. CASE job = NoJob /\ Readable(flash)
    BY <1>2
<1>3. CASE /\ \A s \in 1..(job.from - 1) : flash[s] = Target(s)
           /\ ~job.live => job.span \in Nat /\ Size(job.image) <= job.span
  <2>1. \A s \in Sectors : flash[s] = Target(s)
      BY <1>1, <1>3, SizesAssumption DEF WriteDone, Sectors, Jobs
  <2>2. CASE job.live
    <3>1. \A s \in Sectors : flash[s] = cache[s]
        BY <2>1, <2>2 DEF Target
    <3>2. Readable(cache)
        BY DEF SafeInv, NoCommitOverUpload, CacheReadable
    <3> QED
        BY <3>1, <3>2, LastSector DEF Readable, Footer
  <2>3. CASE ~job.live
    <3>1. job.image \in Image
        BY <1>1 DEF Jobs
    <3>2. Size(job.image) \in Nat /\ job.span \in Nat /\ Size(job.image) <= job.span
        BY <1>3, <2>3, <3>1, SizeNat
    <3>3. \A s \in Sectors : Covers(Size(job.image), s) => Covers(job.span, s)
      <4> SUFFICES ASSUME NEW s \in Sectors, Covers(Size(job.image), s)
                   PROVE  Covers(job.span, s)
          OBVIOUS
      <4>1. (NSectors - s) * UnitsPerSector \in Nat
          BY BehindNat
      <4> QED
          BY <3>2, <4>1 DEF Covers
    <3>4. \A s \in Sectors : s = NSectors \/ Covers(Size(job.image), s)
                                 => flash[s] = Layout(job.image)[s]
        BY <2>1, <2>3, <3>3 DEF Target
    <3>5. Footer(flash) = job.image
        BY <3>1, <3>4, LastSector, LayoutReadable DEF Footer
    <3>6. \A s \in Sectors : Covers(Size(job.image), s) => Layout(job.image)[s].data = job.image
        BY DEF Layout
    <3> QED
        BY <3>1, <3>4, <3>5, <3>6, MarkersAssumption DEF Readable
  <2> QED
      BY <2>2, <2>3
<1> QED
    BY <1>2, <1>3 DEF SafeInv, WriteInv

-----------------------------------------------------------------------------
(* The initial states *)

\* The config a footer names is one there is
LEMMA MainOfType ==
    ASSUME NEW area \in Area
    PROVE  MainOf(area) \subseteq Mains
BY FooterType DEF MainOf, Image

\* Flash that holds an image, or power on over it, starts safely
LEMMA InitSafe ==
    ASSUME Init
    PROVE  IInv
<1>1. PICK area \in SavedAreas : Boot(area) /\ asked = MainOf(area)
    BY DEF Init, InitFrom
<1>2. PICK image \in Image : area = Layout(image)
    BY <1>1 DEF SavedAreas
<1>3. area \in Area /\ Readable(area) /\ Footer(area) \in Image
    BY <1>2, LayoutReadable
<1>4. /\ cache \in Area /\ Readable(cache) /\ Footer(cache) # NoFooter
  <2>1. WithFooter(area, EmptyImage) \in Area /\ Readable(WithFooter(area, EmptyImage))
      BY <1>3, EmptyReadable, EmptyImageType, WithFooterType
  <2> QED
      BY <1>1, <1>3, <2>1 DEF Boot, Readable
<1>5. TypeOK
  <2>1. NoJob \in Jobs
      BY EmptyImageType, SizesAssumption DEF NoJob, Job, Jobs
  <2>2. FlashTypeOK
      BY <1>1, <1>3, <1>4, <2>1 DEF Boot, FlashTypeOK, Commits
  <2>3. StorageTypeOK
      BY <1>1 DEF Boot, StorageTypeOK, Boots
  <2>4. NoAfter \in [then : Nexts, back : PCs \ {"write"}, image : Image]
      BY EmptyImageType DEF NoAfter, After, Nexts, PCs
  <2>5. Footer(area).main \in Mains /\ Footer(area).aux \in Pairings
      BY <1>3 DEF Image
  <2>6. asked \subseteq Mains
      BY <1>1, <1>3, MainOfType
  <2>7. left \in [Uses -> Nat]
      BY SystemAssumption DEF Init, InitFrom, Uses
  <2> QED
      BY <1>1, <1>3, <2>2, <2>3, <2>4, <2>5, <2>6, <2>7 DEF TypeOK, Boot, Boots, PCs
<1>6. SafeInv
    BY <1>1, <1>3, <1>4 DEF SafeInv, CacheSigned, NoCommitOverUpload, CacheReadable,
       FlashStaysReadable, PreviousForUpload, WriteInv, Boot
<1> QED
    BY <1>5, <1>6 DEF IInv

-----------------------------------------------------------------------------
(* Flash writes *)

\* A write never starts but over a readable cache, or with an image that fits its span
LEMMA StartSafe ==
    ASSUME IInv, pc # "write", pc' = "write", ~upload, UNCHANGED <<flash, upload, previous>>,
           cache' \in Area, Readable(cache'), after'.then = "info" => commit' = "none",
           job' = NoJob \/ job' = CacheJob \/ (job' = AuxJob /\ AuxCommittable)
    PROVE  job' \in Jobs /\ SafeInv'
<1>1. flash \in Area /\ cache \in Area
    BY DEF IInv, TypeOK, FlashTypeOK
<1>2. CASE job' = NoJob
  <2>1. NoJob \in Jobs /\ ~NoJob.erased
      BY EmptyImageType, SizesAssumption DEF NoJob, Job, Jobs
  <2>2. Readable(flash)
      BY DEF IInv, SafeInv, FlashStaysReadable
  <2> QED
      BY <1>2, <2>1, <2>2 DEF IInv, SafeInv, CacheSigned, NoCommitOverUpload, CacheReadable,
         FlashStaysReadable, PreviousForUpload, WriteInv, Readable, Footer
<1>3. CASE job' = CacheJob
  <2>1. CacheJob \in Jobs /\ CacheJob.live /\ CacheJob.from = 1 /\ ~CacheJob.erased
      BY EmptyImageType, SizesAssumption DEF CacheJob, Job, Jobs
  <2> QED
      BY <1>3, <2>1 DEF IInv, SafeInv, CacheSigned, NoCommitOverUpload, CacheReadable,
         FlashStaysReadable, PreviousForUpload, WriteInv, Readable, Footer
<1>4. CASE job' = AuxJob /\ AuxCommittable
  <2> DEFINE image == [main |-> Footer(flash).main, aux |-> Footer(cache).aux]
             larger == IF Size(image) > Size(Footer(flash)) THEN image ELSE Footer(flash)
  <2>1. Footer(flash) \in Image /\ Footer(cache) \in Image
      BY <1>1, <1>4, FooterType DEF AuxCommittable, Readable
  <2>2. image \in Image
      BY <2>1 DEF Image
  <2>3. Size(image) \in Nat /\ Size(Footer(flash)) \in Nat
      BY <2>1, <2>2, SizeNat
  <2>4. Size(larger) \in Nat /\ Size(image) <= Size(larger)
      BY <2>3
  <2>5. AuxJob = Job(FALSE, image, Size(larger), 1)
      BY DEF AuxJob
  <2>6. /\ AuxJob \in Jobs /\ AuxJob.from = 1 /\ ~AuxJob.erased
        /\ AuxJob.image = image /\ AuxJob.span = Size(larger)
      BY <2>2, <2>4, <2>5, SizesAssumption DEF Job, Jobs
  <2>7. Size(job'.image) = Size(image)
      BY <1>4, <2>6
  <2>8. WriteInv'
      BY <1>4, <2>4, <2>6, <2>7 DEF WriteInv, Size
  <2> QED
      BY <1>4, <2>6, <2>8 DEF IInv, SafeInv, CacheSigned, NoCommitOverUpload, CacheReadable,
         FlashStaysReadable, PreviousForUpload, Readable, Footer
<1> QED
    BY <1>2, <1>3, <1>4

\* A sector erased or programmed
LEMMA WriteStepSafe ==
    ASSUME IInv, WriteStep
    PROVE  IInv'
<1> USE DEF IInv
<1>1. /\ pc = "write" /\ pc' = "write"
      /\ UNCHANGED <<storageVars, loopVars, managerVars, pendingVars, runVars, historyVars>>
      /\ UNCHANGED <<cache, commit>>
    BY DEF WriteStep, EraseSector, ProgramSector, loopVars
<1>2. flash \in Area /\ cache \in Area /\ job \in Jobs /\ job.from \in 1..(NSectors + 1)
    BY DEF TypeOK, FlashTypeOK, Jobs
<1>3. /\ flash' \in Area /\ job' \in Jobs /\ WriteInv'
  <2>1. CASE EraseSector
    <3>1. PICK s \in Sectors : /\ NextSector(s)
                                /\ flash' = [flash EXCEPT ![s] = ErasedPiece]
                                /\ job' = [job EXCEPT !.from = s, !.erased = TRUE]
        BY <2>1 DEF EraseSector
    <3>2. s \in job.from..NSectors /\ \A t \in job.from..(s - 1) : flash[t] = Target(t)
        BY <3>1 DEF NextSector
    <3>3. job # NoJob
        BY <1>2, <3>2, SizesAssumption DEF NoJob, Job
    <3>4. \A t \in 1..(s - 1) : flash[t] = Target(t)
        BY <1>1, <1>2, <3>2, <3>3, SizesAssumption DEF SafeInv, WriteInv, Sectors
    <3>5. \A t \in 1..(s - 1) : flash'[t] = flash[t] /\ Target(t)' = Target(t)
      <4> SUFFICES ASSUME NEW t \in 1..(s - 1)
                   PROVE  flash'[t] = flash[t] /\ Target(t)' = Target(t)
          OBVIOUS
      <4>1. t # s /\ t \in Sectors
          BY <3>2, SizesAssumption DEF Sectors
      <4>2. flash'[t] = flash[t]
          BY <1>2, <3>1, <4>1 DEF Area
      <4>3. job'.live = job.live /\ job'.image = job.image /\ job'.span = job.span
          BY <1>2, <3>1 DEF Jobs
      <4> QED
          BY <1>1, <4>2, <4>3 DEF Target, Layout, Size, Covers
    <3>6. /\ flash' \in Area
        BY <1>2, <3>1, MarkersAssumption DEF Area, Piece, ErasedPiece
    <3>7. /\ job' \in Jobs /\ job'.from = s
          /\ job'.live = job.live /\ job'.image = job.image /\ job'.span = job.span
      <4>1. s \in 1..(NSectors + 1)
          BY SizesAssumption DEF Sectors
      <4>2. job' = [live |-> job.live, image |-> job.image, span |-> job.span,
                    from |-> s, erased |-> TRUE]
          BY <1>2, <3>1 DEF Jobs
      <4> QED
          BY <1>2, <4>1, <4>2 DEF Jobs
    <3>8. ~job.live => job.span \in Nat /\ Size(job.image) <= job.span
        BY <1>1, <3>3 DEF SafeInv, WriteInv
    <3> QED
        BY <1>1, <3>4, <3>5, <3>6, <3>7, <3>8 DEF WriteInv, SafeInv, loopVars, Size
  <2>2. CASE ProgramSector
    <3> DEFINE s == job.from
    <3>1. /\ s \in Sectors /\ job # NoJob
        BY <1>1, <2>2 DEF ProgramSector, SafeInv, WriteInv, NoJob, Job
    <3>2. /\ flash' = [flash EXCEPT ![s] = Target(s)]
          /\ job' = [job EXCEPT !.from = s + 1, !.erased = FALSE]
        BY <2>2 DEF ProgramSector
    <3>3. /\ job' \in Jobs /\ job'.from = s + 1 /\ ~job'.erased
          /\ job'.live = job.live /\ job'.image = job.image /\ job'.span = job.span
      <4>1. s + 1 \in 1..(NSectors + 1)
          BY <3>1, SizesAssumption DEF Sectors
      <4>2. job' = [live |-> job.live, image |-> job.image, span |-> job.span,
                    from |-> s + 1, erased |-> FALSE]
          BY <1>2, <3>2 DEF Jobs
      <4> QED
          BY <1>2, <4>1, <4>2 DEF Jobs
    <3>4. Target(s) \in Piece
      <4>1. job.image \in Image
          BY <1>2 DEF Jobs
      <4>2. Layout(job.image) \in Area
          BY <4>1, LayoutReadable
      <4> QED
          BY <1>2, <3>1, <4>2 DEF Target, Area
    <3>5. flash' \in Area
        BY <1>2, <3>1, <3>2, <3>4 DEF Area
    <3>6. \A t \in 1..(s - 1) : flash[t] = Target(t)
        BY <1>1, <3>1 DEF SafeInv, WriteInv
    <3>7. \A t \in 1..s : flash'[t] = Target(t)'
      <4> SUFFICES ASSUME NEW t \in 1..s
                   PROVE  flash'[t] = Target(t)'
          OBVIOUS
      <4>1. t \in Sectors
          BY <3>1, SizesAssumption DEF Sectors
      <4>2. flash'[t] = IF t = s THEN Target(s) ELSE flash[t]
          BY <1>2, <3>2, <4>1 DEF Area
      <4>3. flash'[t] = Target(t)
          BY <3>1, <3>6, <4>2, SizesAssumption DEF Sectors
      <4> QED
          BY <1>1, <3>3, <4>3 DEF Target, Layout, Size, Covers
    <3>8. ~job.live => job.span \in Nat /\ Size(job.image) <= job.span
        BY <1>1, <3>1 DEF SafeInv, WriteInv
    <3>9. 1..(job'.from - 1) = 1..s
        BY <3>1, <3>3 DEF Sectors
    <3> QED
        BY <1>1, <3>3, <3>5, <3>7, <3>8, <3>9 DEF WriteInv, SafeInv, loopVars, Size
  <2> QED
      BY <2>1, <2>2 DEF WriteStep
<1>4. TypeOK'
    BY <1>1, <1>3 DEF TypeOK, FlashTypeOK, StorageTypeOK, storageVars, loopVars, managerVars,
       pendingVars, runVars, historyVars
<1>5. SafeInv'
    BY <1>1, <1>3 DEF SafeInv, CacheSigned, NoCommitOverUpload, CacheReadable,
       FlashStaysReadable, PreviousForUpload, Footer, Readable, storageVars, loopVars
<1> QED
    BY <1>4, <1>5

-----------------------------------------------------------------------------
(* What the operations of ConfigStorage leave *)

LEMMA UpdateLeaves ==
    ASSUME IInv, NEW aux \in Pairings
    PROVE  /\ CacheAfterUpdate(aux) \in Area
           /\ Footer(CacheAfterUpdate(aux)) # NoFooter
           /\ ~upload => Readable(CacheAfterUpdate(aux))
           /\ upload => CommitAfterUpdate(aux) = commit
           /\ CommitAfterUpdate(aux) \in Commits
           /\ AuxUpdates(aux) \in BOOLEAN
<1> DEFINE image == [main |-> Footer(cache).main, aux |-> aux]
<1>1. /\ cache \in Area /\ Footer(cache) # NoFooter /\ Footer(cache) \in Image
      /\ commit \in Commits
      /\ ~upload => Readable(cache)
    BY FooterType DEF IInv, TypeOK, FlashTypeOK, SafeInv, CacheSigned, CacheReadable
<1>2. image \in Image
    BY <1>1 DEF Image
<1>3. AuxUpdates(aux) \in BOOLEAN
    BY DEF AuxUpdates, Resignable, AuxFits
<1>4. CASE AuxUpdates(aux)
  <2>1. CacheAfterUpdate(aux) = Layout(image)
      BY <1>4 DEF CacheAfterUpdate, AuxUpdates
  <2>2. ~upload
      BY <1>4 DEF AuxUpdates, Resignable
  <2>3. CommitAfterUpdate(aux) \in Commits
      BY <1>1, <1>4 DEF CommitAfterUpdate, CommitCache, CommitWriter, Commits
  <2> QED
      BY <1>2, <1>3, <2>1, <2>2, <2>3, LayoutReadable, MarkersAssumption
<1>5. CASE ~AuxUpdates(aux) /\ Resignable /\ ~AuxFits(aux)
  <2>1. CacheAfterUpdate(aux) = ClearFront(cache, Size(Footer(cache)))
      BY <1>5 DEF CacheAfterUpdate
  <2>2. CommitAfterUpdate(aux) = commit
      BY <1>5 DEF CommitAfterUpdate
  <2> QED
      BY <1>1, <1>3, <1>5, <2>1, <2>2, ClearFrontType, ClearFrontReadable DEF Resignable
<1>6. CASE ~AuxUpdates(aux) /\ ~(Resignable /\ ~AuxFits(aux))
  <2>1. CacheAfterUpdate(aux) = cache /\ CommitAfterUpdate(aux) = commit
      BY <1>6 DEF CacheAfterUpdate, CommitAfterUpdate
  <2> QED
      BY <1>1, <1>3, <2>1
<1> QED
    BY <1>4, <1>5, <1>6

LEMMA AbortLeaves ==
    ASSUME IInv, pc # "write", NEW area \in Area, Footer(area) # NoFooter,
           previous = NoPrevious => Readable(area), AbortWrite(area)
    PROVE  /\ cache' \in Area /\ Readable(cache')
           /\ ~upload' /\ upload' \in BOOLEAN /\ previous' = NoPrevious
           /\ staged' \in Nat /\ preserve' = preserve
<1> DEFINE restored == WithFooter(area, previous)
<1>1. flash \in Area /\ Readable(flash)
    BY DEF IInv, TypeOK, FlashTypeOK, SafeInv, FlashStaysReadable
<1>2. /\ upload' = FALSE /\ previous' = NoPrevious /\ staged' = 0 /\ preserve' = preserve
    BY DEF AbortWrite
<1>3. CASE previous = NoPrevious
  <2>1. cache' = area
      BY <1>3 DEF AbortWrite
  <2> QED
      BY <1>2, <1>3, <2>1
<1>4. CASE previous # NoPrevious /\ Readable(restored)
  <2>1. cache' = ClearFront(restored, Size(previous))
      BY <1>4 DEF AbortWrite
  <2>2. restored \in Area /\ Footer(restored) = previous
      BY <1>4, WithFooterType DEF IInv, TypeOK, StorageTypeOK
  <2> HIDE DEF restored
  <2> QED
      BY <1>2, <1>4, <2>1, <2>2, ClearFrontType, ClearFrontReadable
<1>5. CASE previous # NoPrevious /\ ~Readable(restored)
  <2>1. cache' = flash
      BY <1>5 DEF AbortWrite
  <2> QED
      BY <1>1, <1>2, <2>1
<1> QED
    BY <1>3, <1>4, <1>5

LEMMA InfoLeaves ==
    ASSUME IInv, NEW image \in Image, AcceptInfo(image)
    PROVE  /\ cache' \in Area /\ Footer(cache') # NoFooter
           /\ upload' \in BOOLEAN
           /\ ~upload' => Readable(cache')
           /\ upload' <=> previous' # NoPrevious
           /\ previous' \in Image \union {NoFooter, NoPrevious}
           /\ staged' \in Nat /\ preserve' = preserve
<1>1. cache \in Area /\ Footer(cache) \in Image \union {NoFooter}
    BY FooterType DEF IInv, TypeOK, FlashTypeOK
<1>2. /\ cache' = WithFooter(cache, image) /\ upload' = (Size(image) # 0)
      /\ staged' = 0 /\ preserve' = preserve
    BY DEF AcceptInfo
<1>3. cache' \in Area /\ Footer(cache') = image /\ image # NoFooter
    BY <1>1, <1>2, WithFooterType, MarkersAssumption
<1>4. ~upload' => Readable(cache')
    BY <1>1, <1>2, EmptyReadable
<1>5. /\ upload' <=> previous' # NoPrevious
      /\ previous' \in Image \union {NoFooter, NoPrevious}
    BY <1>1, <1>2, NoPreviousAssumption DEF AcceptInfo, IInv, TypeOK, StorageTypeOK
<1> QED
    BY <1>2, <1>3, <1>4, <1>5

-----------------------------------------------------------------------------
(* One lemma for each kind of step *)

\* The environment's bounds stay natural numbers
LEMMA SpendType ==
    ASSUME IInv, NEW use \in Uses, May(use), Spend(use)
    PROVE  left' \in [Uses -> Nat]
<1>1. left \in [Uses -> Nat] /\ left[use] > 0
    BY DEF IInv, TypeOK, May
<1>2. left[use] - 1 \in Nat
    BY <1>1
<1> QED
    BY <1>1, <1>2 DEF Spend

\* Steps of the main loop that only move it along
LEMMA LoopSafe ==
    ASSUME IInv, \/ Serviced \/ RequestReload \/ ReloadDue \/ ModeChanged \/ NoReload
                 \/ BeginReinit \/ LoadConfig \/ WaitForUpload \/ NothingToFlush
                 \/ Updated \/ NoCommit
    PROVE  IInv'
<1>1. /\ pc # "write" /\ pc' \in PCs \ {"write"} /\ after' = after
      /\ UNCHANGED <<flash, cache, commit, job, upload, previous, preserve, staged>>
      /\ UNCHANGED <<working, auxPending, auxCommitPending, configCommitPending,
                     saveAfterUpload, asked>>
    BY DEF Serviced, RequestReload, ReloadDue, ModeChanged, NoReload, BeginReinit, LoadConfig,
       WaitForUpload, NothingToFlush, Updated, NoCommit, Goto, Servicing, PCs, flashVars,
       storageVars, loopVars, managerVars, pendingVars, historyVars, IInv, TypeOK
<1>2. SafeInv'
    BY <1>1, FrameSame DEF IInv
<1>3. left' \in [Uses -> Nat]
  <2>1. CASE UNCHANGED left
      BY <2>1 DEF IInv, TypeOK
  <2>2. CASE Spend("reloads") /\ May("reloads")
      BY <2>2, SpendType DEF Uses
  <2> QED
      BY <2>1, <2>2 DEF Serviced, RequestReload, ReloadDue, ModeChanged, NoReload, BeginReinit,
         LoadConfig, WaitForUpload, NothingToFlush, Updated, NoCommit, historyVars
<1>4. reinit' \in BOOLEAN /\ reloading' \in BOOLEAN
    BY DEF Serviced, RequestReload, ReloadDue, ModeChanged, NoReload, BeginReinit, LoadConfig,
       WaitForUpload, NothingToFlush, Updated, NoCommit, managerVars, IInv, TypeOK
<1>5. loadedAny' \in BOOLEAN /\ memory' \in Pairings /\ btLoaded' \in BOOLEAN /\ running' \in Mains
  <2>1. CASE UNCHANGED <<loadedAny, memory, btLoaded, running>>
      BY <2>1 DEF IInv, TypeOK
  <2>2. CASE LoadConfig /\ Readable(cache)
    <3>1. Footer(cache).main \in Mains /\ Footer(cache).aux \in Pairings
        BY <2>2, FooterType DEF IInv, TypeOK, FlashTypeOK, Readable, Image
    <3> QED
        BY <2>2, <3>1 DEF LoadConfig, IInv, TypeOK
  <2> QED
      BY <2>1, <2>2 DEF Serviced, RequestReload, ReloadDue, ModeChanged, NoReload, BeginReinit,
         LoadConfig, WaitForUpload, NothingToFlush, Updated, NoCommit, managerVars, runVars
<1> QED
    BY <1>1, <1>2, <1>3, <1>4, <1>5 DEF IInv, TypeOK, FlashTypeOK, StorageTypeOK

\* An upload that fails, stalls or is given up
LEMMA AbortSafe ==
    ASSUME IInv, WriteChunkInvalid \/ UploadStalled
    PROVE  IInv'
<1>1. PICK area \in Area : /\ AbortConfigWrite(area) /\ pc # "write"
                           /\ Footer(area) # NoFooter
                           /\ previous = NoPrevious => Readable(area)
  <2>1. /\ cache \in Area /\ Footer(cache) # NoFooter
        /\ previous = NoPrevious => ~upload /\ Readable(cache)
      BY DEF IInv, TypeOK, FlashTypeOK, SafeInv, CacheSigned, PreviousForUpload, CacheReadable
  <2>2. CASE UploadStalled \/ (WriteChunkInvalid /\ ~upload)
      BY <2>1, <2>2 DEF UploadStalled, WriteChunkInvalid, Servicing
  <2>3. CASE WriteChunkInvalid /\ upload
    <3>1. AbortConfigWrite(CacheAfterBadChunk) /\ pc # "write"
        BY <2>3 DEF WriteChunkInvalid, Servicing
    <3>2. CacheAfterBadChunk \in Area /\ Footer(CacheAfterBadChunk) = Footer(cache)
        BY <2>1, StagedType DEF CacheAfterBadChunk
    <3> QED
        BY <2>1, <2>3, <3>1, <3>2
  <2> QED
      BY <2>2, <2>3
<1>2. /\ cache' \in Area /\ Readable(cache')
      /\ ~upload' /\ upload' \in BOOLEAN /\ previous' = NoPrevious
      /\ staged' \in Nat /\ preserve' = preserve
    BY <1>1, AbortLeaves DEF AbortConfigWrite
<1>3. /\ UNCHANGED <<flash, commit, job, reinit, reloading, loadedAny, memory, btLoaded,
                     running, asked, auxCommitPending, configCommitPending>>
      /\ auxPending' = TRUE /\ saveAfterUpload' = FALSE /\ working' = FALSE
      /\ pc' \in PCs \ {"write"} /\ after' = after
    BY <1>1 DEF WriteChunkInvalid, UploadStalled, AbortConfigWrite, Goto, PCs, IInv, TypeOK,
       loopVars, runVars, historyVars
<1>4. left' \in [Uses -> Nat]
  <2>1. CASE left' = left
      BY <2>1 DEF IInv, TypeOK
  <2>2. CASE May("uploads") /\ left' = [left EXCEPT !["uploads"] = @ - 1]
      BY <2>2, SpendType DEF Uses, Spend
  <2> QED
      BY <2>1, <2>2 DEF WriteChunkInvalid, UploadStalled, historyVars
<1>5. SafeInv'
    BY <1>1, <1>2, <1>3, Frame DEF IInv, Readable
<1> QED
    BY <1>2, <1>3, <1>4, <1>5 DEF IInv, TypeOK, FlashTypeOK, StorageTypeOK

\* A chunk staged, or the last one moved into place
LEMMA ChunkSafe ==
    ASSUME IInv, WriteChunkInProgress \/ WriteChunkDone
    PROVE  IInv'
<1>1. /\ pc # "write" /\ pc' = pc /\ after' = after
      /\ UNCHANGED <<flash, commit, job, reloading, loadedAny, auxCommitPending,
                     memory, btLoaded, running, asked, left>>
      /\ working' \in BOOLEAN /\ reinit' \in BOOLEAN /\ auxPending' \in BOOLEAN
      /\ configCommitPending' \in BOOLEAN /\ saveAfterUpload' \in BOOLEAN
    BY DEF WriteChunkInProgress, WriteChunkDone, Servicing, loopVars, pendingVars, runVars,
       historyVars, IInv, TypeOK
<1>2. cache \in Area /\ Footer(cache) \in Image /\ Footer(cache) # NoFooter
    BY FooterType DEF IInv, TypeOK, FlashTypeOK, SafeInv, CacheSigned
<1>3. upload /\ commit = "none"
    BY DEF WriteChunkInProgress, WriteChunkDone, ChunkInProgress, ChunkDone,
       IInv, SafeInv, NoCommitOverUpload
<1>4. /\ cache' \in Area /\ Footer(cache') # NoFooter
      /\ ~upload' => Readable(cache')
      /\ upload' <=> previous' # NoPrevious
      /\ upload' \in BOOLEAN /\ previous' \in Image \union {NoFooter, NoPrevious}
      /\ preserve' \in BOOLEAN /\ staged' \in Nat
  <2>1. CASE WriteChunkInProgress
    <3>1. /\ cache' = Staged(cache, staged + 1) /\ staged' = staged + 1
          /\ UNCHANGED <<upload, previous, preserve>>
        BY <2>1 DEF WriteChunkInProgress, ChunkInProgress
    <3> QED
        BY <1>2, <1>3, <3>1, StagedType DEF IInv, TypeOK, StorageTypeOK, SafeInv, PreviousForUpload
  <2>2. CASE WriteChunkDone
    <3>1. /\ cache' = Layout(Footer(cache)) /\ staged' = 0
          /\ upload' = FALSE /\ previous' = NoPrevious /\ preserve' = FALSE
        BY <2>2 DEF WriteChunkDone, ChunkDone
    <3> QED
        BY <1>2, <3>1, LayoutReadable
  <2> QED
      BY <2>1, <2>2
<1>5. SafeInv'
    BY <1>1, <1>3, <1>4, Frame DEF IInv
<1> QED
    BY <1>1, <1>4, <1>5 DEF IInv, TypeOK, FlashTypeOK, StorageTypeOK

\* The aux block rewritten in the cache
LEMMA AuxSafe ==
    ASSUME Polled, IInv, ChangePairings \/ UpdateInputState \/ FlushAux
    PROVE  IInv'
<1>1. /\ pc # "write" /\ pc' \in PCs \ {"write"} /\ after' = after
      /\ UNCHANGED <<flash, job, upload, previous, preserve, staged, working, reinit, reloading,
                     loadedAny, saveAfterUpload, btLoaded, running, asked, left>>
      /\ configCommitPending' \in BOOLEAN /\ memory' \in Pairings
    BY DEF Polled, ChangePairings, UpdateInputState, FlushAux, ClearPending, Goto, Servicing, PCs,
       storageVars, loopVars, managerVars, pendingVars, runVars, historyVars, IInv, TypeOK
<1>2. memory \in Pairings /\ cache \in Area /\ commit \in Commits
    BY DEF IInv, TypeOK, FlashTypeOK
<1>3. /\ \/ cache' = cache
         \/ \E aux \in Pairings : cache' = CacheAfterUpdate(aux)
      /\ commit' \in Commits
      /\ upload => commit' = commit
      /\ auxPending' \in BOOLEAN /\ auxCommitPending' \in BOOLEAN
  <2>1. CASE ChangePairings
    <3>1. PICK aux \in Pairings :
            IF CanWriteAux
            THEN /\ UpdateAuxiliary(aux, TRUE)
                 /\ auxPending' = (auxPending \/ ~AuxUpdates(aux))
                 /\ auxCommitPending' = (auxCommitPending \/ ~AuxUpdates(aux))
            ELSE /\ auxPending' = TRUE
                 /\ auxCommitPending' = TRUE
                 /\ UNCHANGED <<cache, commit>>
        BY <2>1 DEF ChangePairings
    <3> QED
        BY <1>2, <3>1, UpdateLeaves DEF UpdateAuxiliary, CanWriteAux
  <2>2. CASE UpdateInputState
      BY <1>2, <2>2, UpdateLeaves DEF UpdateInputState, UpdateAuxiliary, pendingVars, IInv, TypeOK
  <2>3. CASE FlushAux
    <3>1. ~upload
        BY <2>3 DEF FlushAux, CanWriteAux
    <3>2. CommitAfterUpdate(memory) \in Commits /\ CommitCache \in Commits
        BY <1>2, UpdateLeaves DEF CommitCache, Commits
    <3>3. commit' \in Commits
        BY <1>2, <2>3, <3>2 DEF FlushAux
    <3> QED
        BY <1>2, <2>3, <3>1, <3>3 DEF FlushAux, ClearPending
  <2> QED
      BY <2>1, <2>2, <2>3
<1>4. cache' \in Area /\ Footer(cache') # NoFooter /\ (~upload => Readable(cache'))
    BY <1>2, <1>3, UpdateLeaves DEF IInv, SafeInv, CacheSigned, CacheReadable
<1>5. SafeInv'
    BY <1>1, <1>3, <1>4, Frame DEF IInv, SafeInv, NoCommitOverUpload, PreviousForUpload
<1> QED
    BY <1>1, <1>3, <1>4, <1>5 DEF IInv, TypeOK, FlashTypeOK, StorageTypeOK

\* An upload accepted, or one whose waiting commit is flushed first
LEMMA InfoSafe ==
    ASSUME IInv, WriteConfigInfo \/ EndInfoFlush
    PROVE  IInv'
<1>1. /\ UNCHANGED <<flash, reinit, reloading, loadedAny, auxPending, auxCommitPending,
                     configCommitPending, saveAfterUpload, memory, btLoaded, running, asked>>
      /\ pc' \in PCs
    BY DEF WriteConfigInfo, EndInfoFlush, EndWrite, StartWrite, pendingVars, runVars, historyVars,
       loopVars, PCs, IInv, TypeOK
<1>2. left' \in [Uses -> Nat]
    BY SpendType DEF WriteConfigInfo, EndInfoFlush, EndWrite, historyVars, Uses, IInv, TypeOK
<1>3. CASE \E image \in Image : /\ InfoAccepted(image) /\ UNCHANGED <<commit, job, loopVars>>
                                /\ pc # "write" /\ (upload \/ commit = "none")
  <2>1. PICK image \in Image : InfoAccepted(image)
      BY <1>3
  <2>2. /\ cache' \in Area /\ Footer(cache') # NoFooter
        /\ upload' \in BOOLEAN
        /\ ~upload' => Readable(cache')
        /\ upload' <=> previous' # NoPrevious
        /\ previous' \in Image \union {NoFooter, NoPrevious}
        /\ staged' \in Nat /\ preserve' = preserve
      BY <2>1, InfoLeaves DEF InfoAccepted
  <2>3. commit' = "none" /\ pc' # "write" /\ pc # "write"
      BY <1>3 DEF IInv, SafeInv, NoCommitOverUpload, loopVars
  <2>4. SafeInv'
      BY <1>1, <2>2, <2>3, Frame DEF IInv
  <2>5. working' \in BOOLEAN
      BY <2>1 DEF InfoAccepted, IInv, TypeOK
  <2> QED
      BY <1>1, <1>2, <1>3, <2>2, <2>4, <2>5
         DEF IInv, TypeOK, FlashTypeOK, StorageTypeOK, loopVars
<1>4. CASE /\ WriteConfigInfo /\ ~(upload \/ commit = "none")
  <2>1. PICK image \in Image : StartWrite(FlushJob, "info", pc, image)
      BY <1>4 DEF WriteConfigInfo
  <2>2. /\ pc # "write" /\ pc \in PCs /\ ~upload /\ commit' = "none" /\ pc' = "write"
        /\ UNCHANGED <<flash, cache, upload, previous, preserve, staged, working>>
      BY <1>4, <2>1 DEF WriteConfigInfo, Servicing, PCs, storageVars, StartWrite
  <2>3. Readable(cache) /\ cache \in Area
      BY <2>2 DEF IInv, SafeInv, CacheReadable, TypeOK, FlashTypeOK
  <2>4. job' = NoJob \/ job' = CacheJob \/ (job' = AuxJob /\ AuxCommittable)
      BY <2>1 DEF StartWrite, FlushJob
  <2>5. after' \in [then : Nexts, back : PCs \ {"write"}, image : Image]
      BY <2>1, <2>2 DEF StartWrite, After, Nexts
  <2>6. job' \in Jobs /\ SafeInv'
      BY <2>2, <2>3, <2>4, StartSafe
  <2> QED
      BY <1>1, <1>2, <2>2, <2>3, <2>5, <2>6 DEF IInv, TypeOK, FlashTypeOK, StorageTypeOK, Commits
<1>5. CASE EndInfoFlush
  <2>1. /\ AcceptInfo(after.image) /\ after.image \in Image /\ pc = "write" /\ WriteDone
        /\ after.then = "info" /\ job' = NoJob /\ after' = NoAfter /\ pc' = after.back
        /\ commit' = commit /\ working' \in BOOLEAN
      BY <1>5 DEF EndInfoFlush, EndWrite, InfoAccepted, IInv, TypeOK
  <2>2. /\ cache' \in Area /\ Footer(cache') # NoFooter
        /\ upload' \in BOOLEAN
        /\ ~upload' => Readable(cache')
        /\ upload' <=> previous' # NoPrevious
        /\ previous' \in Image \union {NoFooter, NoPrevious}
        /\ staged' \in Nat /\ preserve' = preserve
      BY <2>1, InfoLeaves
  <2>3. commit = "none" /\ pc' \in PCs \ {"write"}
      BY <2>1 DEF IInv, SafeInv, WriteInv, TypeOK
  <2>4. Readable(flash)
      BY <2>1, DoneReadable
  <2>5. SafeInv'
      BY <1>1, <2>1, <2>2, <2>3, <2>4 DEF SafeInv, CacheSigned, NoCommitOverUpload, CacheReadable,
         FlashStaysReadable, PreviousForUpload, WriteInv, Footer, Readable
  <2>6. NoJob \in Jobs /\ NoAfter \in [then : Nexts, back : PCs \ {"write"}, image : Image]
      BY EmptyImageType, SizesAssumption DEF NoJob, Job, Jobs, NoAfter, After, Nexts, PCs
  <2> QED
      BY <1>1, <1>2, <2>1, <2>2, <2>3, <2>5, <2>6
         DEF IInv, TypeOK, FlashTypeOK, StorageTypeOK
<1> QED
    BY <1>3, <1>4, <1>5 DEF WriteConfigInfo, Servicing

\* A save, at once, held back, or with the pairings it was held back for
LEMMA SaveSafe ==
    ASSUME IInv, SaveConfig \/ FlushSave
    PROVE  IInv'
<1>1. /\ pc # "write" /\ pc \in PCs
      /\ UNCHANGED <<flash, upload, previous, staged, working, reloading, loadedAny,
                     auxPending, auxCommitPending, memory, btLoaded, running>>
      /\ reinit' \in BOOLEAN /\ preserve' \in BOOLEAN
      /\ configCommitPending' \in BOOLEAN /\ saveAfterUpload' \in BOOLEAN
    BY DEF SaveConfig, FlushSave, Servicing, PCs, flashVars, managerVars, pendingVars, runVars,
       historyVars, IInv, TypeOK, StorageTypeOK
<1>2. left' \in [Uses -> Nat]
    BY SpendType DEF SaveConfig, FlushSave, historyVars, Uses, IInv, TypeOK
<1>3. asked' \subseteq Mains
  <2>1. MainOf(cache) \subseteq Mains
      BY MainOfType DEF IInv, TypeOK, FlashTypeOK
  <2>2. CASE SaveConfig
      BY <2>1, <2>2 DEF SaveConfig, IInv, TypeOK
  <2>3. CASE FlushSave
      BY <2>3 DEF FlushSave, historyVars, IInv, TypeOK
  <2> QED
      BY <2>2, <2>3
<1>4. cache \in Area /\ commit \in Commits /\ job \in Jobs /\ memory \in Pairings
    BY DEF IInv, TypeOK, FlashTypeOK
<1>5. CASE SaveConfig /\ (upload \/ auxPending)
  <2>1. UNCHANGED <<cache, commit, job, pc, after>>
      BY <1>5 DEF SaveConfig, flashVars, loopVars
  <2>2. SafeInv'
      BY <1>1, <2>1, FrameSame DEF IInv
  <2> QED
      BY <1>1, <1>2, <1>3, <2>1, <2>2 DEF IInv, TypeOK, FlashTypeOK, StorageTypeOK
<1>6. CASE (SaveConfig /\ ~upload /\ ~auxPending) \/ FlushSave
  <2>1. /\ ~upload /\ commit' = commit
        /\ \/ cache' = cache
           \/ cache' = CacheAfterUpdate(memory)
      BY <1>6 DEF SaveConfig, FlushSave, CanWriteAux, UpdateAuxiliary
  <2>2. cache' \in Area /\ Readable(cache')
    <3>1. CASE cache' = cache
        BY <1>4, <2>1, <3>1 DEF IInv, SafeInv, CacheReadable
    <3>2. CASE cache' = CacheAfterUpdate(memory)
        BY <1>4, <2>1, <3>2, UpdateLeaves
    <3> QED
        BY <2>1, <3>1, <3>2
  <2>3. \E then \in {"save", "flush"}, back \in PCs \ {"write"} :
            StartWrite(CacheJob, then, back, EmptyImage)
      BY <1>1, <1>6 DEF SaveConfig, FlushSave, PCs
  <2>4. /\ job' = CacheJob /\ pc' = "write" /\ after'.then # "info"
        /\ after' \in [then : Nexts, back : PCs \ {"write"}, image : Image]
      BY <2>3, EmptyImageType DEF StartWrite, After, Nexts
  <2>5. job' \in Jobs /\ SafeInv'
      BY <1>1, <2>1, <2>2, <2>4, StartSafe
  <2> QED
      BY <1>1, <1>2, <1>3, <1>4, <2>1, <2>2, <2>4, <2>5
         DEF IInv, TypeOK, FlashTypeOK, StorageTypeOK, PCs
<1> QED
    BY <1>5, <1>6

\* A commit whose delay is over
LEMMA CommitSafe ==
    ASSUME IInv, CommitDue
    PROVE  IInv'
<1>1. /\ pc # "write" /\ pc' = "write" /\ ~upload /\ commit' = "none"
      /\ UNCHANGED <<flash, cache, storageVars, managerVars, pendingVars, runVars, historyVars>>
      /\ job' = FlushJob /\ after' = After("tick", "usb", EmptyImage)
    BY DEF CommitDue, StartWrite, IInv, SafeInv, NoCommitOverUpload
<1>2. cache \in Area /\ Readable(cache)
    BY <1>1 DEF IInv, TypeOK, FlashTypeOK, SafeInv, CacheReadable
<1>3. job' = NoJob \/ job' = CacheJob \/ (job' = AuxJob /\ AuxCommittable)
    BY <1>1 DEF FlushJob
<1>4. /\ after' \in [then : Nexts, back : PCs \ {"write"}, image : Image]
      /\ after'.then # "info"
    BY <1>1, EmptyImageType DEF After, Nexts, PCs
<1>5. job' \in Jobs /\ SafeInv'
    BY <1>1, <1>2, <1>3, <1>4, StartSafe DEF storageVars
<1> QED
    BY <1>1, <1>2, <1>4, <1>5 DEF IInv, TypeOK, FlashTypeOK, StorageTypeOK, storageVars,
       managerVars, pendingVars, runVars, historyVars, Commits, PCs

\* The end of a write other than the one before an upload
LEMMA EndSafe ==
    ASSUME IInv, EndSave \/ EndFlushSave \/ EndCommit
    PROVE  IInv'
<1>1. /\ pc = "write" /\ WriteDone /\ job' = NoJob /\ after' = NoAfter /\ pc' = after.back
      /\ UNCHANGED <<flash, cache, commit, storageVars, runVars, left>>
      /\ UNCHANGED <<working, reloading, loadedAny, saveAfterUpload>>
      /\ asked' = asked \/ asked' = MainOf(flash)
      /\ reinit' \in BOOLEAN /\ auxPending' \in BOOLEAN /\ auxCommitPending' \in BOOLEAN
      /\ configCommitPending' \in BOOLEAN
    BY DEF EndSave, EndFlushSave, EndCommit, EndWrite, ClearPending, pendingVars, managerVars,
       historyVars, IInv, TypeOK
<1>2. pc' \in PCs \ {"write"}
    BY <1>1 DEF IInv, TypeOK
<1>3. Readable(flash)
    BY <1>1, DoneReadable
<1>4. SafeInv'
    BY <1>1, <1>2, <1>3 DEF IInv, SafeInv, CacheSigned, NoCommitOverUpload, CacheReadable,
       FlashStaysReadable, PreviousForUpload, WriteInv, Footer, Readable, storageVars
<1>5. NoJob \in Jobs /\ NoAfter \in [then : Nexts, back : PCs \ {"write"}, image : Image]
    BY EmptyImageType, SizesAssumption DEF NoJob, Job, Jobs, NoAfter, After, Nexts, PCs
<1>6. asked' \subseteq Mains
    BY <1>1, MainOfType DEF IInv, TypeOK, FlashTypeOK
<1> QED
    BY <1>1, <1>2, <1>4, <1>5, <1>6 DEF IInv, TypeOK, FlashTypeOK, StorageTypeOK, storageVars,
       runVars

\* Power going between writes
LEMMA CutSafe ==
    ASSUME Polled, IInv, PowerCut
    PROVE  IInv'
<1>1. /\ pc # "write" /\ flash' = flash /\ flash \in Area /\ Readable(flash)
    BY DEF Polled, PowerCut, IInv, TypeOK, FlashTypeOK, SafeInv, FlashStaysReadable
<1>2. /\ pc' = "usb" /\ after' = NoAfter /\ job' = NoJob /\ commit' = "none"
      /\ cache' = IF Boots(flash) THEN flash ELSE WithFooter(flash, EmptyImage)
      /\ upload' = FALSE /\ previous' = NoPrevious /\ staged' = 0
      /\ preserve' = ~Boots(flash)
      /\ working' = FALSE /\ reinit' = FALSE /\ reloading' = FALSE
      /\ loadedAny' = Boots(flash)
      /\ auxPending' = FALSE /\ auxCommitPending' = FALSE
      /\ configCommitPending' = FALSE /\ saveAfterUpload' = FALSE
      /\ memory' = Footer(flash).aux /\ btLoaded' = Readable(flash)
      /\ running' = Footer(flash).main /\ asked' = MainOf(flash)
    BY <1>1 DEF PowerCut
<1>3. Footer(flash).main \in Mains /\ Footer(flash).aux \in Pairings
    BY <1>1, FooterType DEF Readable, Image
<1>4. cache' \in Area /\ Readable(cache')
    BY <1>1, <1>2, EmptyReadable, EmptyImageType, WithFooterType
<1>5. left' \in [Uses -> Nat]
    BY SpendType DEF PowerCut, Uses
<1>6. Boots(flash) \in BOOLEAN /\ Readable(flash) \in BOOLEAN
    BY DEF Boots, Readable
<1>7. SafeInv'
    BY <1>1, <1>2, <1>4, Frame DEF IInv, Readable
<1>8. NoJob \in Jobs /\ NoAfter \in [then : Nexts, back : PCs \ {"write"}, image : Image]
    BY EmptyImageType, SizesAssumption DEF NoJob, Job, Jobs, NoAfter, After, Nexts, PCs
<1>9. asked' \subseteq Mains
    BY <1>1, <1>2, MainOfType
<1> QED
    BY <1>1, <1>2, <1>3, <1>4, <1>5, <1>6, <1>7, <1>8, <1>9
       DEF IInv, TypeOK, FlashTypeOK, StorageTypeOK, Commits, PCs

-----------------------------------------------------------------------------
(* The theorems *)

\* The invariant is inductive: Spec keeps to it, in whatever order things happen
THEOREM SystemSafe ==
    ASSUME Polled
    PROVE  Spec => []IInv
<1>1. Init => IInv
    BY InitSafe
<1>2. IInv /\ [Next]_vars => IInv'
  <2> SUFFICES ASSUME IInv, [Next]_vars
               PROVE  IInv'
      OBVIOUS
  <2>1. CASE Tool
      BY <2>1, InfoSafe, ChunkSafe, AbortSafe, SaveSafe DEF Tool
  <2>2. CASE Flash
      BY <2>2, WriteStepSafe, InfoSafe, EndSafe DEF Flash
  <2>3. CASE Loop
      BY <2>3, LoopSafe, AbortSafe, SaveSafe, AuxSafe, CommitSafe DEF Loop
  <2>4. CASE Environment
      BY <2>4, AuxSafe, LoopSafe, CutSafe DEF Environment
  <2>5. CASE UNCHANGED vars
    <3>1. UNCHANGED <<flash, cache, commit, job, upload, previous, preserve, staged, pc, after,
                      working, reinit, reloading, loadedAny, auxPending, auxCommitPending,
                      configCommitPending, saveAfterUpload, memory, btLoaded, running, asked, left>>
        BY <2>5 DEF vars, flashVars, storageVars, loopVars, managerVars, pendingVars, runVars,
           historyVars
    <3>2. TypeOK'
        BY <3>1 DEF IInv, TypeOK, FlashTypeOK, StorageTypeOK
    <3>3. SafeInv'
        BY <3>1 DEF IInv, SafeInv, CacheSigned, NoCommitOverUpload, CacheReadable,
           FlashStaysReadable, PreviousForUpload, WriteInv, Footer, Readable, Target, Layout
    <3> QED
        BY <3>2, <3>3 DEF IInv
  <2> QED
      BY <2>1, <2>2, <2>3, <2>4, <2>5 DEF Next
<1> QED
    BY <1>1, <1>2, PTL DEF Spec

\* Every variable keeps its type
THEOREM TypeCorrect ==
    ASSUME Polled
    PROVE  Spec => []TypeOK
<1>1. IInv => TypeOK
    BY DEF IInv
<1> QED
    BY <1>1, SystemSafe, PTL

(* Between writes flash always holds a whole image with its own footer, and *)
(* but for an upload going on so does the cache: no commit of FlashPROM, of *)
(* the cache or of the aux block, leaves the device without a config to     *)
(* start from, and write_chunk and abort_write leave nothing a reload or an *)
(* aux update couldn't read.                                                *)
THEOREM ImagesAlwaysReadable ==
    ASSUME Polled
    PROVE  Spec => []ImagesReadable
<1>1. IInv => ImagesReadable
    BY DEF IInv, SafeInv, ImagesReadable
<1> QED
    BY <1>1, SystemSafe, PTL

\* No commit waits or is written while an upload's footer is in the cache (write_info)
THEOREM CommitsKeepOffUploads ==
    ASSUME Polled
    PROVE  Spec => []NoCommitOverUpload
<1>1. IInv => NoCommitOverUpload
    BY DEF IInv, SafeInv
<1> QED
    BY <1>1, SystemSafe, PTL

\* A footer to go back to is kept exactly while an upload is going on (abort_write)
THEOREM PreviousOnlyForUpload ==
    ASSUME Polled
    PROVE  Spec => []PreviousForUpload
<1>1. IInv => PreviousForUpload
    BY DEF IInv, SafeInv
<1> QED
    BY <1>1, SystemSafe, PTL
=============================================================================
