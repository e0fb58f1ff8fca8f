---------------------------- MODULE ConfigSystem ----------------------------
(***************************************************************************)
(* The config as the firmware keeps it: what is in flash, what is cached,  *)
(* what is running and which Bluetooth pairings are in memory.  The part of *)
(* src/src/config/config.cpp that coordinates uploads, saves and aux       *)
(* updates, driven by the main loop of src/src/main.cpp and by the         *)
(* configuration tool, the Bluetooth stack, and power being cut.           *)
(*                                                                         *)
(* pc is where the main loop is.  Flash writes are synchronous: the loop is *)
(* at "write" until the write ends, then goes on as `after` says.  With    *)
(* BtInIrq the Bluetooth stack runs from the CYW43's background interrupt  *)
(* and its callbacks can come between any two steps of the loop; without,  *)
(* it is polled from the loop (a USB adapter, devices/bt/bluetooth_stack.cpp). *)
(***************************************************************************)
EXTENDS ConfigStorage

CONSTANTS
    Loadable,      \* the main blocks this firmware can decode
    BtInIrq,       \* Bluetooth callbacks run in an interrupt
    CutMidWrite,   \* power may go during a flash write
    PatientTool,   \* the tool starts no upload while a save is waiting
    EmptyUploads,  \* the tool may upload a config with no data
    MaxUploads, MaxSaves, MaxReloads, MaxCuts   \* how often the environment may act

ASSUME SystemAssumption ==
    /\ Loadable \subseteq Mains /\ EmptyMain \in Loadable
    /\ BtInIrq \in BOOLEAN /\ CutMidWrite \in BOOLEAN
    /\ PatientTool \in BOOLEAN /\ EmptyUploads \in BOOLEAN
    /\ MaxUploads \in Nat /\ MaxSaves \in Nat /\ MaxReloads \in Nat /\ MaxCuts \in Nat

VARIABLES
    pc, after,
    working,              \* ConfigManager::m_working
    reinit,               \* m_reinit_time is set
    reloading,            \* m_reloading
    loadedAny,            \* m_loaded_any
    auxPending,           \* aux_pending: the cached aux block is behind the memory
    auxCommitPending,     \* aux_commit_pending: and it is to be committed
    configCommitPending,  \* config_commit_pending: and so is the main config
    saveAfterUpload,      \* save_after_upload
    memory,               \* the pairings in memory (DeviceFactory, BtTlvStorage)
    btLoaded,             \* ConfigLoader::s_bluetooth_loaded
    running,              \* the main config last loaded
    asked,                \* history: the main config saved last and those a save was asked for since
    left                  \* what is left of the environment's bounds

loopVars == <<pc, after>>
managerVars == <<working, reinit, reloading, loadedAny>>
pendingVars == <<auxPending, auxCommitPending, configCommitPending, saveAfterUpload>>
runVars == <<memory, btLoaded, running>>
historyVars == <<asked, left>>
vars == <<flashVars, storageVars, loopVars, managerVars, pendingVars, runVars, historyVars>>

PCs == {"usb", "reload", "reloadEvent", "loading", "hid", "update", "tick", "write"}
Nexts == {"none", "tick", "flush", "save", "info"}
After(then, back, image) == [then |-> then, back |-> back, image |-> image]
NoAfter == After("none", "usb", EmptyImage)

Uses == {"uploads", "saves", "reloads", "cuts"}
May(use) == left[use] > 0
Spend(use) == left' = [left EXCEPT ![use] = @ - 1]

-----------------------------------------------------------------------------
(* Starting up: main() copies flash to the cache and loads it, or runs from *)
(* an empty config kept in the cache                                        *)

\* The main config an area's footer names, if it has one
MainOf(area) == IF Footer(area) = NoFooter THEN {} ELSE {Footer(area).main}

Boots(area) == Readable(area) /\ Footer(area).main \in Loadable

Boot(area) ==
    /\ pc = "usb" /\ after = NoAfter /\ job = NoJob /\ commit = "none"
    /\ flash = area
    /\ cache = IF Boots(area) THEN area ELSE WithFooter(area, EmptyImage)
    /\ upload = FALSE /\ previous = NoPrevious /\ staged = 0
    /\ preserve = ~Boots(area)
    /\ working = FALSE /\ reinit = FALSE /\ reloading = FALSE
    /\ loadedAny = Boots(area)
    /\ auxPending = FALSE /\ auxCommitPending = FALSE
    /\ configCommitPending = FALSE /\ saveAfterUpload = FALSE
    /\ memory = IF Readable(area) THEN Footer(area).aux ELSE NoPairings
    /\ btLoaded = Readable(area)
    /\ running = IF Readable(area) THEN Footer(area).main ELSE EmptyMain

\* Flash as made, and with a config some firmware saved
BlankArea == [s \in Sectors |-> ErasedPiece]
SavedAreas == {Layout(image) : image \in {i \in Image : Size(i) <= Capacity}}

InitFrom(areas) ==
    /\ \E area \in areas :
           /\ Boot(area)
           /\ asked = MainOf(area)
    /\ left = [u \in Uses |-> CASE u = "uploads" -> MaxUploads
                                [] u = "saves" -> MaxSaves
                                [] u = "reloads" -> MaxReloads
                                [] u = "cuts" -> MaxCuts]

Init == InitFrom(SavedAreas)
InitFresh == InitFrom(SavedAreas \union {BlankArea})

-----------------------------------------------------------------------------
(* Synchronous flash writes *)

StartWrite(write, then, back, image) ==
    /\ job' = write
    /\ after' = After(then, back, image)
    /\ pc' = "write"

WriteStep ==
    /\ pc = "write"
    /\ EraseSector \/ ProgramSector
    /\ UNCHANGED <<storageVars, loopVars, managerVars, pendingVars, runVars, historyVars>>

EndWrite(then) ==
    /\ pc = "write" /\ after.then = then /\ WriteDone
    /\ job' = NoJob /\ after' = NoAfter /\ pc' = after.back

-----------------------------------------------------------------------------
(* What the tool asks for.  Its reports are handled wherever the main loop  *)
(* services USB: tud_task itself, send_reload_event before a reload, and    *)
(* the events sent while updating the devices                               *)

Servicing == pc \in {"usb", "reloadEvent", "update"}

\* write_config_info, past the flush in write_info
InfoAccepted(image) ==
    /\ AcceptInfo(image)
    /\ working' = (working \/ Size(image) # 0)

\* Mutant: the waiting commit isn't flushed before the footer changes
WriteConfigInfoUnflushed ==
    /\ Servicing /\ May("uploads") /\ Spend("uploads")
    /\ PatientTool => ~saveAfterUpload /\ ~configCommitPending /\ ~reinit
    /\ \E image \in Image :
           /\ InfoFits(image)
           /\ Size(image) = 0 => EmptyUploads
           /\ InfoAccepted(image)
    /\ UNCHANGED <<flash, commit, job, loopVars, reinit, reloading, loadedAny,
                   pendingVars, runVars, asked>>

WriteConfigInfo ==
    /\ Servicing /\ May("uploads") /\ Spend("uploads")
    /\ PatientTool => ~saveAfterUpload /\ ~configCommitPending /\ ~reinit
    /\ \E image \in Image :
           /\ InfoFits(image)
           /\ Size(image) = 0 => EmptyUploads
           /\ IF upload \/ commit = "none"
              THEN /\ InfoAccepted(image)
                   /\ UNCHANGED <<flash, commit, job, loopVars>>
              ELSE \* the waiting commit is flushed first
                   /\ commit' = "none"
                   /\ StartWrite(FlushJob, "info", pc, image)
                   /\ UNCHANGED <<flash, cache, storageVars, working>>
    /\ UNCHANGED <<reinit, reloading, loadedAny, pendingVars, runVars, asked>>

EndInfoFlush ==
    /\ EndWrite("info")
    /\ InfoAccepted(after.image)
    /\ UNCHANGED <<flash, commit, reinit, reloading, loadedAny, pendingVars, runVars, historyVars>>

\* abort_config_write over the given cache
AbortConfigWrite(area) ==
    /\ AbortWrite(area)
    /\ saveAfterUpload' = FALSE
    /\ working' = FALSE
    /\ auxPending' = TRUE
    /\ UNCHANGED <<auxCommitPending, configCommitPending>>

\* write_config, by what write_chunk makes of the chunk
WriteChunkInProgress ==
    /\ Servicing
    /\ ChunkInProgress
    /\ working' = TRUE
    /\ UNCHANGED <<flash, commit, job, loopVars, reinit, reloading, loadedAny,
                   pendingVars, runVars, historyVars>>

\* Mutant: the upload's own copy of the pairings is left in the cache
WriteChunkDoneUntracked ==
    /\ Servicing
    /\ ChunkDone
    /\ configCommitPending' = (configCommitPending \/ saveAfterUpload)
    /\ saveAfterUpload' = FALSE
    /\ reinit' = TRUE
    /\ working' = FALSE
    /\ UNCHANGED <<flash, commit, job, loopVars, reloading, loadedAny,
                   auxPending, auxCommitPending, runVars, historyVars>>

WriteChunkDone ==
    /\ Servicing
    /\ ChunkDone
    /\ auxPending' = TRUE
    /\ configCommitPending' = (configCommitPending \/ saveAfterUpload)
    /\ saveAfterUpload' = FALSE
    /\ reinit' = TRUE
    /\ working' = FALSE
    /\ UNCHANGED <<flash, commit, job, loopVars, reloading, loadedAny,
                   auxCommitPending, runVars, historyVars>>

\* A last chunk with a CRC that doesn't match, or a chunk of no upload
WriteChunkInvalid ==
    /\ Servicing
    /\ \/ upload /\ staged + 1 = Size(Footer(cache)) /\ AbortConfigWrite(CacheAfterBadChunk)
       \/ ~upload /\ May("uploads") /\ AbortConfigWrite(cache)
    /\ left' = IF upload THEN left ELSE [left EXCEPT !["uploads"] = @ - 1]
    /\ UNCHANGED <<flash, commit, job, loopVars, reinit, reloading, loadedAny, runVars, asked>>

\* save_config
SaveConfig ==
    /\ Servicing /\ May("saves") /\ Spend("saves")
    /\ asked' = asked \union MainOf(cache)
    /\ CASE upload ->
              /\ saveAfterUpload' = TRUE
              /\ UNCHANGED <<flashVars, loopVars, preserve, reinit, configCommitPending>>
         [] ~upload /\ auxPending ->
              /\ configCommitPending' = TRUE
              /\ reinit' = TRUE
              /\ UNCHANGED <<flashVars, loopVars, preserve, saveAfterUpload>>
         [] OTHER ->
              /\ preserve' = FALSE
              /\ StartWrite(CacheJob, "save", pc, EmptyImage)
              /\ UNCHANGED <<flash, cache, commit, reinit, saveAfterUpload, configCommitPending>>
    /\ UNCHANGED <<upload, previous, staged, working, reloading, loadedAny,
                   auxPending, auxCommitPending, runVars>>

EndSave ==
    /\ EndWrite("save")
    /\ reinit' = TRUE
    /\ asked' = MainOf(flash)
    /\ UNCHANGED <<flash, cache, commit, storageVars, working, reloading, loadedAny,
                   pendingVars, runVars, left>>

-----------------------------------------------------------------------------
(* The aux block *)

CanWriteAux == ~reinit /\ ~reloading /\ ~upload

UpdateAuxiliary(aux, doCommit) ==
    /\ cache' = CacheAfterUpdate(aux)
    /\ commit' = IF doCommit THEN CommitAfterUpdate(aux) ELSE commit

\* Mutant: a change that can't be written right now is only kept in memory
ChangePairingsDropped ==
    /\ Servicing \/ BtInIrq
    /\ \E aux \in Pairings \ {memory} :
           /\ memory' = aux
           /\ IF CanWriteAux THEN UpdateAuxiliary(aux, TRUE) ELSE UNCHANGED <<cache, commit>>
    /\ UNCHANGED <<flash, job, storageVars, loopVars, managerVars, pendingVars,
                   btLoaded, running, historyVars>>

(* save_bluetooth_aux: a controller is paired or forgotten, or BTstack      *)
(* stores or deletes a bond                                                 *)
ChangePairings ==
    /\ Servicing \/ BtInIrq
    /\ \E aux \in Pairings \ {memory} :
           /\ memory' = aux
           /\ IF CanWriteAux
              THEN /\ UpdateAuxiliary(aux, TRUE)
                   /\ auxPending' = (auxPending \/ ~AuxUpdates(aux))
                   /\ auxCommitPending' = (auxCommitPending \/ ~AuxUpdates(aux))
              ELSE /\ auxPending' = TRUE
                   /\ auxCommitPending' = TRUE
                   /\ UNCHANGED <<cache, commit>>
    /\ UNCHANGED <<flash, job, storageVars, loopVars, managerVars, configCommitPending,
                   saveAfterUpload, btLoaded, running, historyVars>>

\* update_aux_cycle, and update_aux_toggle and update_aux_arcade_side
UpdateInputState ==
    /\ Servicing
    /\ loadedAny \/ ~reinit
    /\ UpdateAuxiliary(memory, TRUE)
    /\ UNCHANGED <<flash, job, storageVars, loopVars, managerVars, pendingVars, runVars, historyVars>>

-----------------------------------------------------------------------------
(* The main loop *)

Goto(at) == pc' = at /\ UNCHANGED after

\* tud_task and tuh_task are done with what they had
Serviced ==
    /\ pc = "usb" /\ Goto("reload")
    /\ UNCHANGED <<flashVars, storageVars, managerVars, pendingVars, runVars, historyVars>>

\* A host or a gated device comes or goes, or the tool asks for a reload
RequestReload ==
    /\ Servicing /\ May("reloads") /\ Spend("reloads")
    /\ reinit' = TRUE
    /\ UNCHANGED <<flashVars, storageVars, loopVars, working, reloading, loadedAny,
                   pendingVars, runVars, asked>>

\* reload_config: the reload is due, and the tool is told of it first
ReloadDue ==
    /\ pc = "reload" /\ ~working /\ reinit
    /\ Goto("reloadEvent")
    /\ UNCHANGED <<flashVars, storageVars, managerVars, pendingVars, runVars, historyVars>>

\* The host asked for another mode than the one the devices are loaded for
ModeChanged ==
    /\ pc = "reload" /\ ~working /\ May("reloads") /\ Spend("reloads")
    /\ Goto("reloadEvent")
    /\ UNCHANGED <<flashVars, storageVars, managerVars, pendingVars, runVars, asked>>

\* Nothing to reload, or not before the next millisecond
NoReload ==
    /\ pc = "reload" /\ Goto("hid")
    /\ UNCHANGED <<flashVars, storageVars, managerVars, pendingVars, runVars, historyVars>>

BeginReinit ==
    /\ pc = "reloadEvent" /\ Goto("loading")
    /\ reloading' = TRUE
    /\ reinit' = FALSE
    /\ UNCHANGED <<flashVars, storageVars, working, loadedAny, pendingVars, runVars, historyVars>>

\* Mutant: m_reloading is still set after the reload
LoadConfigUnfinished ==
    /\ pc = "loading" /\ Goto("tick")
    /\ IF Readable(cache)
       THEN /\ running' = Footer(cache).main
            /\ loadedAny' = (Footer(cache).main \in Loadable)
            /\ memory' = IF btLoaded THEN memory ELSE Footer(cache).aux
            /\ btLoaded' = TRUE
       ELSE UNCHANGED <<loadedAny, runVars>>
    /\ UNCHANGED <<flashVars, storageVars, working, reinit, reloading, pendingVars, historyVars>>

\* load, which leaves everything alone if the cache isn't readable
LoadConfig ==
    /\ pc = "loading" /\ Goto("tick")
    /\ reloading' = FALSE
    /\ IF Readable(cache)
       THEN /\ running' = Footer(cache).main
            /\ loadedAny' = (Footer(cache).main \in Loadable)
            /\ memory' = IF btLoaded THEN memory ELSE Footer(cache).aux
            /\ btLoaded' = TRUE
       ELSE UNCHANGED <<loadedAny, runVars>>
    /\ UNCHANGED <<flashVars, storageVars, working, reinit, pendingVars, historyVars>>

\* hid_task: the upload is still going, or the tool went away partway
WaitForUpload ==
    /\ pc = "hid" /\ working /\ Goto("tick")
    /\ UNCHANGED <<flashVars, storageVars, managerVars, pendingVars, runVars, historyVars>>

UploadStalled ==
    /\ pc = "hid" /\ working /\ Goto("tick")
    /\ AbortConfigWrite(cache)
    /\ UNCHANGED <<flash, commit, job, reinit, reloading, loadedAny, runVars, historyVars>>

ClearPending ==
    /\ auxPending' = FALSE
    /\ auxCommitPending' = FALSE
    /\ configCommitPending' = FALSE
    /\ UNCHANGED saveAfterUpload

\* flush_pending_aux
NothingToFlush ==
    /\ pc = "hid" /\ ~working /\ ~(auxPending /\ CanWriteAux)
    /\ Goto("update")
    /\ UNCHANGED <<flashVars, storageVars, managerVars, pendingVars, runVars, historyVars>>

\* Mutant: the save carried out stores the upload's own pairings
FlushSaveAsUploaded ==
    /\ pc = "hid" /\ ~working /\ auxPending /\ CanWriteAux /\ configCommitPending
    /\ preserve' = FALSE
    /\ StartWrite(CacheJob, "flush", "update", EmptyImage)
    /\ UNCHANGED <<flash, cache, commit, upload, previous, staged, managerVars, pendingVars,
                   runVars, historyVars>>

FlushSave ==
    /\ pc = "hid" /\ ~working /\ auxPending /\ CanWriteAux /\ configCommitPending
    /\ preserve' = FALSE
    /\ UpdateAuxiliary(memory, FALSE)
    /\ StartWrite(CacheJob, "flush", "update", EmptyImage)
    /\ UNCHANGED <<flash, upload, previous, staged, managerVars, pendingVars, runVars, historyVars>>

EndFlushSave ==
    /\ EndWrite("flush")
    /\ ClearPending
    /\ asked' = MainOf(flash)
    /\ UNCHANGED <<flash, cache, commit, storageVars, managerVars, runVars, left>>

FlushAux ==
    /\ pc = "hid" /\ ~working /\ auxPending /\ CanWriteAux /\ ~configCommitPending
    /\ cache' = CacheAfterUpdate(memory)
    /\ commit' = CASE auxCommitPending /\ AuxUpdates(memory) -> CommitAfterUpdate(memory)
                   [] auxCommitPending /\ ~AuxUpdates(memory) /\ ~preserve -> CommitCache
                   [] OTHER -> commit
    /\ ClearPending
    /\ Goto("update")
    /\ UNCHANGED <<flash, job, storageVars, managerVars, runVars, historyVars>>

\* update(), past the devices
Updated ==
    /\ pc = "update" /\ Goto("tick")
    /\ UNCHANGED <<flashVars, storageVars, managerVars, pendingVars, runVars, historyVars>>

\* FlashPROM::tick, once the waiting commit has waited long enough
CommitDue ==
    /\ pc = "tick" /\ commit # "none"
    /\ commit' = "none"
    /\ StartWrite(FlushJob, "tick", "usb", EmptyImage)
    /\ UNCHANGED <<flash, cache, storageVars, managerVars, pendingVars, runVars, historyVars>>

EndCommit ==
    /\ EndWrite("tick")
    /\ UNCHANGED <<flash, cache, commit, storageVars, managerVars, pendingVars, runVars, historyVars>>

NoCommit ==
    /\ pc = "tick" /\ Goto("usb")
    /\ UNCHANGED <<flashVars, storageVars, managerVars, pendingVars, runVars, historyVars>>

-----------------------------------------------------------------------------
\* Power goes, and the firmware starts again from what flash has
PowerCut ==
    /\ May("cuts") /\ Spend("cuts")
    /\ pc = "write" => CutMidWrite
    /\ flash' = flash
    /\ LET ok == Boots(flash)
       IN  /\ pc' = "usb" /\ after' = NoAfter /\ job' = NoJob /\ commit' = "none"
           /\ cache' = IF ok THEN flash ELSE WithFooter(flash, EmptyImage)
           /\ upload' = FALSE /\ previous' = NoPrevious /\ staged' = 0
           /\ preserve' = ~ok
           /\ working' = FALSE /\ reinit' = FALSE /\ reloading' = FALSE
           /\ loadedAny' = ok
           /\ auxPending' = FALSE /\ auxCommitPending' = FALSE
           /\ configCommitPending' = FALSE /\ saveAfterUpload' = FALSE
           /\ memory' = IF Readable(flash) THEN Footer(flash).aux ELSE NoPairings
           /\ btLoaded' = Readable(flash)
           /\ running' = IF Readable(flash) THEN Footer(flash).main ELSE EmptyMain
    /\ asked' = MainOf(flash)

Tool == WriteConfigInfo \/ WriteChunkInProgress \/ WriteChunkDone \/ WriteChunkInvalid \/ SaveConfig
Flash == WriteStep \/ EndInfoFlush \/ EndSave \/ EndFlushSave \/ EndCommit
Loop == \/ Serviced \/ ReloadDue \/ ModeChanged \/ NoReload \/ BeginReinit \/ LoadConfig
        \/ WaitForUpload \/ UploadStalled \/ NothingToFlush \/ FlushSave \/ FlushAux
        \/ Updated \/ CommitDue \/ NoCommit
Environment == ChangePairings \/ UpdateInputState \/ RequestReload \/ PowerCut

Next == Tool \/ Flash \/ Loop \/ Environment

Spec == Init /\ [][Next]_vars
SpecFresh == InitFresh /\ [][Next]_vars

-----------------------------------------------------------------------------
(* Fairness.  The main loop never stops.  The three waits it polls end:     *)
(* the millisecond a reload waits for, the CONFIG_WRITE_STALL_MS an upload  *)
(* may be silent for and the EEPROM_WRITE_WAIT of a commit.  Each of them   *)
(* starts again when there is another request, chunk or commit.            *)
Fairness ==
    /\ WF_vars(Loop \/ Flash)
    /\ SF_vars(ReloadDue)
    /\ SF_vars(UploadStalled)
    /\ SF_vars(CommitDue)

LiveSpec == Spec /\ Fairness

-----------------------------------------------------------------------------
(* Correctness *)

\* The type invariant of the config system: FlashPROM, ConfigStorage and config.cpp
TypeOK ==
    /\ FlashTypeOK /\ StorageTypeOK
    /\ pc \in PCs
    /\ after \in [then : Nexts, back : PCs \ {"write"}, image : Image]
    /\ working \in BOOLEAN /\ reinit \in BOOLEAN /\ reloading \in BOOLEAN /\ loadedAny \in BOOLEAN
    /\ auxPending \in BOOLEAN /\ auxCommitPending \in BOOLEAN
    /\ configCommitPending \in BOOLEAN /\ saveAfterUpload \in BOOLEAN
    /\ memory \in Pairings /\ btLoaded \in BOOLEAN /\ running \in Mains
    /\ asked \subseteq Mains
    /\ left \in [Uses -> Nat]

(* Whenever no write is in progress flash holds a whole image with a        *)
(* matching footer: no order of uploads, aborts, saves, aux updates and     *)
(* their delayed commits writes a footer over data it doesn't describe      *)
(* (the flush in ConfigStorage::write_info, commit_auxiliary).              *)
FlashStaysReadable == pc # "write" => Readable(flash)

(* Outside an upload the cache is a whole image too, so that the next       *)
(* reload finds a config and an aux update can sign it again: a finished,   *)
(* failed, stalled or restarted upload leaves no half config behind         *)
(* (ConfigStorage::write_chunk, abort_write).                               *)
CacheReadable == ~upload => Readable(cache)

(* The device always has a config to start from and one to load.            *)
ImagesReadable == FlashStaysReadable /\ CacheReadable

(* While the cache has an upload's footer over other data, no commit of the *)
(* cache is waiting for its delay or being written (the comment in          *)
(* ConfigStorage::write_info).                                              *)
NoCommitOverUpload == upload => commit = "none" /\ pc # "write"

(* Pairings are never lost by a race with an upload or a reload: once       *)
(* nothing is pending any more, flash has the ones in memory (config.cpp,   *)
(* save_bluetooth_aux, flush_pending_aux).                                  *)
PairingsReachFlash ==
    (~upload /\ ~auxPending /\ commit = "none" /\ pc # "write" /\ ~preserve)
        => Footer(flash).aux = memory

(* The main config in flash is one the tool asked to save, never an upload  *)
(* it only previews, whatever is committed along the way for the pairings   *)
(* (ConfigStorage::update_auxiliary, commit_auxiliary).                     *)
OnlySavedReachesFlash == Footer(flash) # NoFooter => Footer(flash).main \in asked

(* The footer an upload replaced is kept for just as long as the upload     *)
(* goes on: one left over would have a later abort bring back a config that *)
(* has been replaced since (ConfigStorage::m_have_previous_footer).         *)
PreviousForUpload == upload <=> previous # NoPrevious

(* A config in flash this firmware couldn't load stays as it is, through    *)
(* pairings and input states changing on the empty config run instead,      *)
(* until an upload completes or a save (ConfigStorage::m_preserve_flash).   *)
PreservedLeftAlone == [][preserve /\ preserve' => flash' = flash]_vars

(* A Save held back until the pairings are written into an upload is carried *)
(* out with the config that was to be saved: no other takes its place       *)
(* meanwhile, and it stops waiting only once flash has that config, unless   *)
(* power goes first (flush_pending_aux).                                    *)
HeldSaveKept ==
    [][configCommitPending /\ ~PowerCut =>
           /\ MainOf(cache') = MainOf(cache)
           /\ configCommitPending' \/ MainOf(flash') = MainOf(cache)]_vars

(* And it doesn't wait for ever: it is carried out after the reload.        *)
SaveReachesFlash == (configCommitPending ~> ~configCommitPending) /\ HeldSaveKept

(* Once pairings and input states stop changing, the last pairings get to   *)
(* flash and stay there, whatever upload, reload or save they met on the    *)
(* way (save_bluetooth_aux, flush_pending_aux, FlashPROM::tick).            *)
Quiet == <>[][~ChangePairings /\ ~UpdateInputState]_vars
PairingsSettle == Quiet => <>[](Footer(flash) # NoFooter /\ Footer(flash).aux = memory)
=============================================================================
