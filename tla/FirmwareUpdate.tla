--------------------------- MODULE FirmwareUpdate ---------------------------
(***************************************************************************)
(* A firmware update of the device itself, uploaded by the tool            *)
(* (src/src/emulation/usb/hid_config_device.cpp).  The firmware is written *)
(* block by block; before each the tool sends its metadata, and over       *)
(* Bluetooth the chunks of a block are streamed, so that any can be lost.  *)
(* An update that stalls is abandoned, and while it lasts the main loop    *)
(* does little else: a commit of the configuration waits.                  *)
(*                                                                         *)
(* Chunk c of block b is <<b, c>>: what the upload's position makes of it  *)
(* is data.  The tool may be any that sends a block's chunks once, in      *)
(* order, and only after its metadata was accepted.                        *)
(***************************************************************************)
EXTENDS Integers, Sequences

CONSTANTS
    Blocks,      \* blocks of the firmware
    Chunks,      \* chunks of a block
    LastChunks,  \* and of the last one
    MaxMetadata  \* metadata reports a run's tool sends

FirmwareAssumption ==
    /\ Blocks \in Nat \ {0} /\ Chunks \in Nat \ {0} /\ LastChunks \in 1..Chunks
    /\ MaxMetadata \in Nat

VARIABLES
    updating,    \* m_updating_firmware
    quiet,       \* firmware_update_stall_ms have passed since m_last_firmware_update
    offset,      \* update_state.offset, the block the upload is at
    buffer,      \* fw_update_tmp, up to update_state.chunkOffset
    slot,        \* the blocks of the download slot; <<>> is an erased one
    outcome,     \* of the update: "none", "sha failed", or "marked" valid and rebooting
    commit,      \* the configuration has a commit to do
    at, sent,    \* the tool: the block it has leave to send, and its chunks sent
    reports,     \* the tool: metadata reports so far
    resumed      \* history: an update was taken up again by metadata of a later block

deviceVars == <<updating, quiet, offset, buffer, slot, outcome, commit>>
toolVars == <<at, sent, reports>>
vars == <<deviceVars, toolVars, resumed>>

Block == 0..Blocks - 1
NoBlock == Blocks                  \* the tool has leave for no block
Size(b) == IF b = Blocks - 1 THEN LastChunks ELSE Chunks
Content(b) == [c \in 1..Size(b) |-> <<b, c>>]

\* The type invariant: the buffer never holds more than a block
TypeOK ==
    /\ updating \in BOOLEAN /\ quiet \in BOOLEAN /\ commit \in BOOLEAN /\ resumed \in BOOLEAN
    /\ offset \in Block
    /\ buffer \in Seq(Block \X (1..Chunks)) /\ Len(buffer) <= Chunks
    /\ slot \in [Block -> Seq(Block \X (1..Chunks))]
    /\ \A b \in Block : Len(slot[b]) <= Chunks
    /\ outcome \in {"none", "sha failed", "marked"}
    /\ at \in 0..Blocks /\ sent \in 0..Chunks /\ reports \in 0..MaxMetadata

Init ==
    /\ updating = FALSE /\ quiet = FALSE /\ offset = 0 /\ buffer = <<>>
    /\ slot = [b \in Block |-> <<>>] /\ outcome = "none" /\ commit = FALSE
    /\ at = NoBlock /\ sent = 0 /\ reports = 0 /\ resumed = FALSE

Running == outcome # "marked"   \* pfb_perform_update doesn't return

-----------------------------------------------------------------------------
(* Metadata *)

\* touch_firmware_update
Touch == updating' = TRUE /\ quiet' = FALSE

\* Mutant: the offset isn't checked
ExpectedAnything(b) == TRUE

\* A streamed upload's metadata, except for the first block's, has to be for the
\* block the upload is at; nothing is at any before it begins
Expected(b) == ~updating \/ b = 0 \/ b = offset

\* ReportIdUpdateFirmware is accepted for block b
Accept(b) ==
    /\ Expected(b)
    /\ offset' = b /\ buffer' = <<>>
    /\ slot' = IF b = 0 THEN [c \in Block |-> <<>>] ELSE slot
    /\ resumed' = ((~updating /\ b # 0) \/ (resumed /\ b # 0))

\* The answer may be lost, and then the tool doesn't know the block was accepted
Metadata(b) ==
    /\ Running /\ reports < MaxMetadata /\ reports' = reports + 1
    /\ Accept(b) /\ Touch
    /\ outcome' = "none"
    /\ at' \in {b, NoBlock} /\ sent' = 0
    /\ UNCHANGED commit

\* The slot can't be initialised: the update is over before it began
InitializeFailed ==
    /\ Running /\ reports < MaxMetadata /\ reports' = reports + 1
    /\ offset' = 0 /\ buffer' = <<>>
    /\ updating' = FALSE
    /\ \E erased \in SUBSET Block : slot' = [b \in Block |-> IF b \in erased THEN <<>> ELSE slot[b]]
    /\ outcome' = "none" /\ at' = NoBlock /\ sent' = 0 /\ resumed' = FALSE
    /\ UNCHANGED <<quiet, commit>>

\* What isn't valid metadata ends an update
InvalidMetadata ==
    /\ Running /\ reports < MaxMetadata /\ reports' = reports + 1
    /\ updating' = FALSE
    /\ at' = NoBlock /\ sent' = 0
    /\ UNCHANGED <<quiet, offset, buffer, slot, outcome, commit, resumed>>

\* Refused, or while a config is written or a reload is going on
MetadataRefused(b) ==
    /\ Running /\ reports < MaxMetadata /\ reports' = reports + 1
    /\ updating => ~Expected(b)
    /\ at' = NoBlock /\ sent' = 0
    /\ UNCHANGED <<deviceVars, resumed>>

-----------------------------------------------------------------------------
(* Data *)

\* The block is full, or the firmware's last
Complete(b, data) == Len(data) = Chunks \/ (b = Blocks - 1 /\ Len(data) = LastChunks)

\* finish_firmware_update
Finish == updating' = FALSE

\* pfb_firmware_sha256_check finds what isn't the firmware
Checked(written) == IF \A b \in Block : written[b] = Content(b) THEN "marked" ELSE "sha failed"

\* flash_write_begin .. flash_write_end: the last block is followed by the check
WriteBlock(data) ==
    /\ slot' = [slot EXCEPT ![offset] = data]
    /\ IF offset = Blocks - 1
       THEN /\ outcome' = Checked(slot')
            /\ Finish
            /\ UNCHANGED <<offset, buffer>>
       ELSE /\ offset' = offset + 1 /\ buffer' = <<>>
            /\ updating' = TRUE
            /\ UNCHANGED outcome

WriteFailed(data) ==
    /\ \E part \in {<<>>, slot[offset], data} : slot' = [slot EXCEPT ![offset] = part]
    /\ buffer' = data
    /\ Finish
    /\ UNCHANGED <<offset, outcome>>

\* ReportIdUploadFirmware: data before metadata is refused
Upload(chunk) ==
    IF ~updating
    THEN UNCHANGED <<updating, quiet, offset, buffer, slot, outcome>>
    ELSE /\ quiet' = FALSE
         /\ LET data == Append(buffer, chunk)
            IN  IF Complete(offset, data)
                THEN WriteBlock(data) \/ WriteFailed(data)
                ELSE /\ buffer' = data
                     /\ UNCHANGED <<updating, offset, slot, outcome>>

SendChunk ==
    /\ Running /\ at # NoBlock /\ sent < Size(at)
    /\ sent' = sent + 1
    /\ Upload(<<at, sent'>>)
    /\ UNCHANGED <<commit, at, reports, resumed>>

\* A write without response that the queue has no room for
ChunkLost ==
    /\ Running /\ at # NoBlock /\ sent < Size(at)
    /\ sent' = sent + 1
    /\ UNCHANGED <<deviceVars, at, reports, resumed>>

-----------------------------------------------------------------------------
(* The main loop *)

\* Mutant: a stalled update is only reported
TimeoutReported == quiet /\ updating /\ UNCHANGED vars

\* check_firmware_update_timeout
Timeout ==
    /\ quiet /\ updating /\ Running
    /\ Finish
    /\ UNCHANGED <<quiet, offset, buffer, slot, outcome, commit, toolVars, resumed>>

\* The configuration is saved by what still runs, Bluetooth's pairings, during an update
RequestCommit ==
    /\ Running /\ ~commit /\ commit' = TRUE
    /\ UNCHANGED <<updating, quiet, offset, buffer, slot, outcome, toolVars, resumed>>

\* EEPROM.tick
Tick ==
    /\ Running /\ ~updating /\ commit /\ commit' = FALSE
    /\ UNCHANGED <<updating, quiet, offset, buffer, slot, outcome, toolVars, resumed>>

TimePasses ==
    /\ Running /\ updating /\ ~quiet /\ quiet' = TRUE
    /\ UNCHANGED <<updating, offset, buffer, slot, outcome, commit, toolVars, resumed>>

-----------------------------------------------------------------------------
Tool == \/ \E b \in Block : Metadata(b) \/ MetadataRefused(b)
        \/ InitializeFailed \/ InvalidMetadata \/ SendChunk \/ ChunkLost

Next == Tool \/ Timeout \/ RequestCommit \/ Tick \/ TimePasses

Spec == Init /\ [][Next]_vars

\* The main loop comes round and time passes; a tool begins updates only so often
Fairness == WF_vars(Timeout) /\ WF_vars(TimePasses) /\ WF_vars(Tick)

LiveSpec == Spec /\ Fairness

-----------------------------------------------------------------------------
(* Whatever chunks and answers are lost and however often blocks are sent   *)
(* again, no block is taken for written but whole: the sha check never has  *)
(* to catch a hole - unless the update was abandoned and the tool took it   *)
(* up again in the middle ("the offset has to be where the upload is up     *)
(* to").                                                                    *)
BlocksWhole == ~resumed =>
    /\ updating => \A b \in 0..offset - 1 : slot[b] = Content(b)
    /\ outcome # "sha failed"

(* A commit that comes up, before an update or during one, is done in the   *)
(* end, unless the update ends in a reboot, which loses it: a tool that     *)
(* goes away, or only sends what is refused, doesn't keep the device        *)
(* updating ("fw update stalled, abandoning it").                           *)
CommitEnds == commit ~> (~commit \/ ~Running)
=============================================================================
