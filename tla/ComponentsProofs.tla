--------------------------- MODULE ComponentsProofs ---------------------------
(***************************************************************************)
(* The theorems of the small components.                                   *)
(***************************************************************************)
EXTENDS MCComponents, Sequences, TLAPS

(***************************************************************************)
(* FlashSof: mutual exclusion on the PIO USB bus.  Core 0 keeps its frames *)
(* off from before it asks core 1 for them until core 1 has cleared        *)
(* sof_running, and core 1 sends frames only in between, so HandInv is     *)
(* what the three flags say of where the other core is.                    *)
(***************************************************************************)

Quieted == {"request", "started", "write", "flash", "ended", "resume"}

HandInv ==
    /\ sofOnly <=> pc0 \in Quieted
    /\ requested <=> pc0 \in {"started", "write", "flash"}
    /\ running <=> pc1 \in {"loop", "due", "frame", "stopping"}
    /\ pc0 \in {"write", "flash"} => pc1 \in {"loop", "due", "frame"}
    /\ pc1 \in {"starting", "loop", "due", "frame", "stopping"} =>
           pc0 \in {"started", "write", "flash", "ended"}
    /\ pc1 \in {"stopping"} => pc0 = "ended"
    /\ pc1 = "starting" => pc0 = "started"
    /\ frame0 => ~sofOnly

SofInv == TypeOK /\ HandInv

LEMMA SofBegins == ASSUME Init PROVE SofInv
<1>1. TypeOK
  <2>1. 0 \in 0..MaxOps
      BY MaxOpsAssumption
  <2> QED
      BY <2>1, Zenon DEF Init, TypeOK, PC0, PC1
<1>2. HandInv
    BY Zenon DEF Init, HandInv, Quieted
<1> QED
    BY <1>1, <1>2 DEF SofInv

LEMMA SofStays == ASSUME SofInv, [Next]_vars PROVE SofInv'
<1> USE DEF SofInv, TypeOK, PC0, PC1, HandInv, Quieted
<1>1. CASE BeginWrite
    BY <1>1, MaxOpsAssumption DEF BeginWrite, Thread
<1>2. CASE SeeCore1Ready
    BY <1>2 DEF SeeCore1Ready, Thread
<1>3. CASE StopFrames
    BY <1>3 DEF StopFrames, Thread
<1>4. CASE RequestSof
    BY <1>4 DEF RequestSof, Thread
<1>5. CASE SeeSofRunning
    BY <1>5 DEF SeeSofRunning, Thread
<1>6. CASE StartOp
  <2>1. ops' \in 0..MaxOps
      BY <1>6, MaxOpsAssumption DEF StartOp
  <2> QED
      BY <1>6, <2>1 DEF StartOp, Thread
<1>7. CASE EndOp
    BY <1>7 DEF EndOp, Thread
<1>8. CASE ReleaseSof
    BY <1>8 DEF ReleaseSof, Thread
<1>9. CASE SeeSofStopped
    BY <1>9 DEF SeeSofStopped, Thread
<1>10. CASE ResumeFrames
    BY <1>10 DEF ResumeFrames, Thread
<1>11. CASE StartFrame
    BY <1>11 DEF StartFrame
<1>12. CASE EndFrame
    BY <1>12 DEF EndFrame
<1>13. CASE SetReady
    BY <1>13 DEF SetReady, Core1
<1>14. CASE SeeRequest
    BY <1>14 DEF SeeRequest, Core1
<1>15. CASE StartLoop
    BY <1>15 DEF StartLoop, Core1
<1>16. CASE FrameDue
    BY <1>16 DEF FrameDue, Core1
<1>17. CASE StartSof
    BY <1>17 DEF StartSof, Core1
<1>18. CASE EndSof
    BY <1>18 DEF EndSof, Core1
<1>19. CASE SeeRelease
    BY <1>19 DEF SeeRelease, Core1
<1>20. CASE LeaveLoop
    BY <1>20 DEF LeaveLoop, Core1
<1>21. CASE UNCHANGED vars
    BY <1>21 DEF vars
<1> QED
    BY <1>1, <1>2, <1>3, <1>4, <1>5, <1>6, <1>7, <1>8, <1>9, <1>10, <1>11, <1>12, <1>13,
       <1>14, <1>15, <1>16, <1>17, <1>18, <1>19, <1>20, <1>21
       DEF Next, Core0Steps, Core1Steps

\* The flags and the two cores' places agree, in whatever order the cores step
THEOREM HandsOver == Spec => []SofInv
BY SofBegins, SofStays, PTL DEF Spec

\* Core 0's frames and core 1's never overlap, and whenever core 0 is deaf
\* core 1 sends the starts of frame for it (flash_write_begin, flash_write_end)
THEOREM SofAlwaysDriven == Spec => []SofDriven
<1>1. SofInv => SofDriven
    BY DEF SofInv, HandInv, Quieted, OneDriver, SofDuringFlash, SofDriven
<1> QED
    BY <1>1, HandsOver, PTL

\* Core 0's thread waits for one of core 1's flags, and core 1 for core 0's
Core0Waits == (pc0 = "ready" /\ ~ready) \/ (pc0 = "started" /\ ~running) \/ (pc0 = "ended" /\ running)
Core1Waits == pc1 = "wait" /\ ~requested

\* The cores never wait for each other
NeverBothWait == Core0Waits => ~Core1Waits

LEMMA ReadyStays ==
    ASSUME ~ready => pc1 = "start", [Next]_vars
    PROVE  ~ready' => pc1' = "start"
<1>1. UNCHANGED <<ready, pc1>> \/ SetReady \/ (UNCHANGED ready /\ pc1 # "start")
    BY DEF Next, BeginWrite, Core0Steps, SeeCore1Ready, StopFrames, RequestSof, SeeSofRunning, StartOp,
           EndOp, ReleaseSof, SeeSofStopped, ResumeFrames, Thread, StartFrame, EndFrame, Core1Steps,
           SeeRequest, StartLoop, FrameDue, StartSof, EndSof, SeeRelease, LeaveLoop, Core1, vars
<1> QED
    BY <1>1 DEF SetReady

(* Whatever core 0 waits for, core 1 has a step to take: no order of the two *)
(* leaves both waiting, not even a write before core 1 has started            *)
(* (flash_write_begin, flash_write_end, flash_core1_loop)                     *)
THEOREM CoresNeverBothWait == Spec => []NeverBothWait
<1> DEFINE Ready == ~ready => pc1 = "start"
<1>1. Init => Ready
    BY DEF Init
<1>2. Ready /\ [Next]_vars => Ready'
    BY ReadyStays
<1>3. SofInv /\ Ready => NeverBothWait
    BY DEF SofInv, HandInv, Quieted, NeverBothWait, Core0Waits, Core1Waits
<1> QED
    BY <1>1, <1>2, <1>3, HandsOver, PTL DEF Spec

\* How much of the write core 0's thread has before it, an operation counting as
\* its two steps
Ahead ==
    2 * ops + [idle |-> 0, resume |-> 1, ended |-> 2, write |-> 3, flash |-> 4, started |-> 4,
               request |-> 5, quiet |-> 6, ready |-> 7][pc0]

\* How far core 1 is from what core 0's thread waits for
Away == [start |-> 3, wait |-> 2, starting |-> 1, due |-> 4, frame |-> 3, loop |-> 2, stopping |-> 1][pc1]

(* A write gets nearer to its end with each step of core 0's thread, which  *)
(* nothing sets back, and while that waits each step of core 1's ends the   *)
(* wait or brings its end nearer: the safe half of WriteEnds                *)
WriteAdvances ==
    [][/\ Core0Steps => Ahead' < Ahead
       /\ pc0 # "idle" /\ ~Core0Steps => UNCHANGED <<pc0, ops>>
       /\ Core1Steps /\ Core0Waits => ~Core0Waits' \/ Away' < Away]_vars

(* However the cores take turns, neither a flash operation nor a handshake   *)
(* is gone through twice in a write (flash_write_begin, flash_write_end)     *)
THEOREM WritesAlwaysAdvance == Spec => WriteAdvances
<1>1. ASSUME SofInv, Core0Steps PROVE Ahead' < Ahead
  <2>1. /\ ops \in Nat /\ ops' \in Nat
        /\ \/ /\ ops' = ops
              /\ <<pc0, pc0'>> \in {<<"ready", "quiet">>, <<"quiet", "request">>, <<"request", "started">>,
                                    <<"started", "write">>, <<"flash", "write">>, <<"write", "ended">>,
                                    <<"ended", "resume">>, <<"resume", "idle">>}
           \/ ops' = ops - 1 /\ pc0 = "write" /\ pc0' = "flash"
    <3>1. ops \in Nat
        BY <1>1, MaxOpsAssumption DEF SofInv, TypeOK
    <3>2. CASE StartOp
        BY <3>1, <3>2 DEF StartOp, Thread
    <3>3. CASE ~StartOp
        BY <1>1, <3>1, <3>3 DEF Core0Steps, SeeCore1Ready, StopFrames, RequestSof, SeeSofRunning, EndOp,
                                ReleaseSof, SeeSofStopped, ResumeFrames, Thread
    <3> QED
        BY <3>2, <3>3
  <2> QED
      BY <2>1 DEF Ahead
<1>2. ASSUME [Next]_vars, pc0 # "idle", ~Core0Steps PROVE UNCHANGED <<pc0, ops>>
    BY <1>2 DEF Next, BeginWrite, Thread, StartFrame, EndFrame, Core1Steps, SetReady, SeeRequest, StartLoop,
                FrameDue, StartSof, EndSof, SeeRelease, LeaveLoop, Core1, vars
<1>3. ASSUME SofInv, Core1Steps, Core0Waits, Core0Waits' PROVE Away' < Away
  <2>1. pc0' = pc0 /\ requested' = requested
      BY <1>3 DEF Core1Steps, SetReady, SeeRequest, StartLoop, FrameDue, StartSof, EndSof, SeeRelease,
                  LeaveLoop, Core1
  <2>2. ~StartLoop /\ ~FrameDue /\ ~LeaveLoop
    <3>1. ~StartLoop
        BY <1>3, <2>1 DEF StartLoop, Core1, Core0Waits, SofInv, HandInv
    <3>2. ~FrameDue
        BY <1>3 DEF FrameDue, Core1, Core0Waits, SofInv, HandInv, Quieted
    <3>3. ~LeaveLoop
        BY <1>3, <2>1 DEF LeaveLoop, Core1, Core0Waits, SofInv, HandInv
    <3> QED
        BY <3>1, <3>2, <3>3
  <2>3. <<pc1, pc1'>> \in {<<"start", "wait">>, <<"wait", "starting">>, <<"due", "frame">>,
                           <<"frame", "loop">>, <<"loop", "stopping">>}
      BY <1>3, <2>2 DEF Core1Steps, SetReady, SeeRequest, StartSof, EndSof, SeeRelease, Core1
  <2> QED
      BY <2>3 DEF Away
<1>4. SofInv /\ [Next]_vars =>
          [/\ Core0Steps => Ahead' < Ahead
           /\ pc0 # "idle" /\ ~Core0Steps => UNCHANGED <<pc0, ops>>
           /\ Core1Steps /\ Core0Waits => ~Core0Waits' \/ Away' < Away]_vars
    BY <1>1, <1>2, <1>3
<1> QED
    BY <1>4, HandsOver, PTL DEF Spec, WriteAdvances
-----------------------------------------------------------------------------
(***************************************************************************)
(* FirmwareUpdate: a streamed update that loses chunks takes no block for   *)
(* written but whole, for any size of firmware, of blocks and of the last   *)
(* block.  The argument: the buffer is never ahead of what the tool has     *)
(* sent of the block, and a block has exactly as many chunks as make it     *)
(* complete, so that a complete buffer has them all.                        *)
(***************************************************************************)
Chunk == Fw!Block \X (1..Chunks)

UpdateTypes ==
    /\ updating \in BOOLEAN /\ resumed \in BOOLEAN
    /\ offset \in Fw!Block
    /\ buffer \in Seq(Chunk)
    /\ slot \in [Fw!Block -> Seq(Chunk)]
    /\ at \in 0..Blocks /\ sent \in Nat

\* What has arrived of the block the tool has leave for: all it sent, or less
Arrived ==
    at # Fw!NoBlock =>
        /\ sent <= Fw!Size(at)
        /\ at # offset => sent = Fw!Size(at)
        /\ at = offset =>
               /\ Len(buffer) <= sent
               /\ Len(buffer) = sent => \A c \in 1..sent : buffer[c] = <<at, c>>

UpdateInv == UpdateTypes /\ Arrived /\ BlocksWhole

LEMMA SizeFits == ASSUME Fw!FirmwareAssumption, NEW b \in Fw!Block PROVE Fw!Size(b) \in 1..Chunks
BY DEF Fw!FirmwareAssumption, Fw!Block, Fw!Size

\* A chunk joins the buffer at the place it was sent from, or behind it
LEMMA ChunkFollows ==
    ASSUME Fw!FirmwareAssumption, UpdateInv, at \in Fw!Block, at = offset, sent < Fw!Size(at),
           NEW data, data = Append(buffer, <<at, sent + 1>>)
    PROVE  /\ <<at, sent + 1>> \in Chunk /\ data \in Seq(Chunk)
           /\ Len(data) <= sent + 1
           /\ Len(data) = sent + 1 => \A c \in 1..sent + 1 : data[c] = <<at, c>>
<1> USE DEF UpdateInv, UpdateTypes
<1>1. sent + 1 \in 1..Chunks
    BY SizeFits DEF Fw!FirmwareAssumption
<1>2. <<at, sent + 1>> \in Chunk
    BY <1>1 DEF Chunk
<1>3. data \in Seq(Chunk) /\ Len(data) = Len(buffer) + 1
    BY <1>2
<1>4. Len(buffer) <= sent /\ (Len(buffer) = sent => \A c \in 1..sent : buffer[c] = <<at, c>>)
    BY DEF Arrived, Fw!NoBlock, Fw!Block, Fw!FirmwareAssumption
<1>5. ASSUME Len(data) = sent + 1
      PROVE  \A c \in 1..sent + 1 : data[c] = <<at, c>>
  <2>1. \A c \in 1..Len(buffer) : data[c] = buffer[c]
      BY <1>2
  <2>2. data[Len(buffer) + 1] = <<at, sent + 1>>
      BY <1>2
  <2> QED
      BY <1>3, <1>4, <1>5, <2>1, <2>2
<1>6. Len(data) <= sent + 1
    BY <1>3, <1>4
<1> QED
    BY <1>2, <1>3, <1>5, <1>6, Zenon

\* A complete buffer is the block
LEMMA CompleteIsWhole ==
    ASSUME Fw!FirmwareAssumption, UpdateInv, at \in Fw!Block, at = offset, sent < Fw!Size(at),
           NEW data, data = Append(buffer, <<at, sent + 1>>), Fw!Complete(offset, data)
    PROVE  data = Fw!Content(at) /\ sent + 1 = Fw!Size(at)
<1>1. /\ data \in Seq(Chunk) /\ Len(data) <= sent + 1
      /\ Len(data) = sent + 1 => \A c \in 1..sent + 1 : data[c] = <<at, c>>
    BY ChunkFollows
<1>2. Len(data) >= Fw!Size(at)
    BY <1>1 DEF Fw!Complete, Fw!Size, Fw!FirmwareAssumption, Fw!Block
<1>3. Len(data) = sent + 1 /\ sent + 1 = Fw!Size(at)
    BY <1>1, <1>2, SizeFits DEF UpdateInv, UpdateTypes
<1>4. DOMAIN data = 1..Fw!Size(at) /\ data = [c \in DOMAIN data |-> data[c]]
    BY <1>1, <1>3
<1> QED
    BY <1>1, <1>3, <1>4 DEF Fw!Content

-----------------------------------------------------------------------------
(* The steps *)

LEMMA MetadataKeeps ==
    ASSUME Fw!FirmwareAssumption, UpdateInv, NEW b \in Fw!Block, Fw!Metadata(b)
    PROVE  UpdateInv'
<1> USE DEF UpdateInv, UpdateTypes, Fw!Metadata, Fw!Accept, Fw!Touch
<1>1. UpdateTypes'
  <2>1. at' \in 0..Blocks
      BY DEF Fw!Block, Fw!NoBlock, Fw!FirmwareAssumption
  <2>2. <<>> \in Seq(Chunk) /\ slot' \in [Fw!Block -> Seq(Chunk)]
      OBVIOUS
  <2>3. updating' \in BOOLEAN /\ resumed' \in BOOLEAN
      OBVIOUS
  <2> QED
      BY <2>1, <2>2, <2>3
<1>2. Arrived'
  <2>1. CASE at' = Fw!NoBlock
      BY <2>1 DEF Arrived, Fw!NoBlock
  <2>2. CASE at' = b
    <3>1. Fw!Size(b) \in 1..Chunks
        BY SizeFits
    <3> QED
        BY <2>2, <3>1 DEF Arrived, Fw!Size, Fw!FirmwareAssumption
  <2> QED
      BY <2>1, <2>2
<1>3. BlocksWhole'
  <2> SUFFICES ASSUME ~resumed'
               PROVE  BlocksWhole'
      BY DEF BlocksWhole, Fw!BlocksWhole
  <2>1. CASE b = 0
    <3>1. offset' = 0 /\ outcome' = "none"
        BY <2>1
    <3>2. \A c \in 0..offset' - 1 : FALSE
        BY <3>1
    <3> QED
        BY <3>1, <3>2, Zenon DEF BlocksWhole, Fw!BlocksWhole
  <2>2. CASE b # 0
    <3>1. updating /\ ~resumed /\ b = offset /\ slot' = slot
        BY <2>2 DEF Fw!Expected
    <3>2. \A c \in 0..offset' - 1 : slot'[c] = Fw!Content(c)
        BY <3>1 DEF BlocksWhole, Fw!BlocksWhole
    <3> QED
        BY <3>2 DEF BlocksWhole, Fw!BlocksWhole
  <2> QED
      BY <2>1, <2>2
<1> QED
    BY <1>1, <1>2, <1>3

\* What ends an update, and what is refused, leaves no block in the middle
LEMMA RefusalsKeep ==
    ASSUME Fw!FirmwareAssumption, UpdateInv,
           Fw!InitializeFailed \/ Fw!InvalidMetadata \/ (\E b \in Fw!Block : Fw!MetadataRefused(b))
    PROVE  UpdateInv'
<1> USE DEF UpdateInv, UpdateTypes
<1>1. 0 \in Fw!Block /\ Fw!NoBlock \in 0..Blocks
    BY DEF Fw!Block, Fw!NoBlock, Fw!FirmwareAssumption
<1>2. CASE Fw!InitializeFailed
  <2>1. slot' \in [Fw!Block -> Seq(Chunk)] /\ buffer' \in Seq(Chunk)
      BY <1>2 DEF Fw!InitializeFailed
  <2> QED
      BY <1>1, <1>2, <2>1 DEF Fw!InitializeFailed, Arrived, BlocksWhole, Fw!BlocksWhole, Fw!NoBlock
<1>3. CASE Fw!InvalidMetadata
    BY <1>1, <1>3 DEF Fw!InvalidMetadata, Arrived, BlocksWhole, Fw!BlocksWhole, Fw!NoBlock
<1>4. CASE \E b \in Fw!Block : Fw!MetadataRefused(b)
  <2>1. /\ UNCHANGED <<updating, offset, buffer, slot, outcome, resumed>>
        /\ at' = Fw!NoBlock /\ sent' = 0
      BY <1>4 DEF Fw!MetadataRefused, Fw!deviceVars
  <2>2. UpdateTypes' /\ Arrived'
      BY <1>1, <2>1 DEF Arrived, Fw!NoBlock
  <2>3. BlocksWhole'
      BY <2>1 DEF BlocksWhole, Fw!BlocksWhole
  <2> QED
      BY <2>2, <2>3
<1> QED
    BY <1>2, <1>3, <1>4

\* A chunk while the device is at the block the tool sends
LEMMA UploadKeeps ==
    ASSUME Fw!FirmwareAssumption, UpdateInv, Fw!SendChunk, updating
    PROVE  UpdateInv'
<1> DEFINE data == Append(buffer, <<at, sent + 1>>)
<1> USE DEF UpdateInv, UpdateTypes
<1>1. at \in Fw!Block /\ sent < Fw!Size(at) /\ Fw!Size(at) \in 1..Chunks
    BY SizeFits DEF Fw!SendChunk, Fw!NoBlock, Fw!Block, Fw!FirmwareAssumption
<1>2. at = offset
    BY <1>1 DEF Arrived, Fw!SendChunk, Fw!FirmwareAssumption
<1>3. /\ sent' = sent + 1 /\ UNCHANGED <<at, resumed>>
      /\ IF Fw!Complete(offset, data)
         THEN Fw!WriteBlock(data) \/ Fw!WriteFailed(data)
         ELSE buffer' = data /\ UNCHANGED <<updating, offset, slot, outcome>>
    BY DEF Fw!SendChunk, Fw!Upload
<1>4. /\ data \in Seq(Chunk) /\ Len(data) <= sent + 1
      /\ Len(data) = sent + 1 => \A c \in 1..sent + 1 : data[c] = <<at, c>>
    BY <1>1, <1>2, ChunkFollows
<1>5. Len(buffer) \in Nat /\ Len(buffer) <= sent /\ sent + 1 <= Fw!Size(at) /\ sent + 1 \in Nat
  <2>1. Len(buffer) \in Nat /\ sent \in Nat
      OBVIOUS
  <2>2. at # Fw!NoBlock
      BY DEF Fw!SendChunk
  <2>3. Len(buffer) <= sent
      BY <1>2, <2>2 DEF Arrived
  <2>4. sent + 1 \in Nat /\ sent + 1 <= Fw!Size(at)
      BY <1>1, <2>1 DEF Fw!FirmwareAssumption
  <2> QED
      BY <2>1, <2>3, <2>4
<1> HIDE DEF data
<1>6. CASE ~Fw!Complete(offset, data)
  <2>1. UpdateTypes'
      BY <1>3, <1>4, <1>5, <1>6
  <2>2. Arrived'
      BY <1>2, <1>3, <1>4, <1>5, <1>6 DEF Arrived, Fw!Size, Fw!NoBlock
  <2>3. BlocksWhole'
      BY <1>3, <1>6 DEF BlocksWhole, Fw!BlocksWhole
  <2> QED
      BY <2>1, <2>2, <2>3
<1>7. CASE Fw!Complete(offset, data) /\ Fw!WriteFailed(data)
  <2>1. UpdateTypes'
    <3>1. slot' \in [Fw!Block -> Seq(Chunk)]
      <4>1. PICK stub \in {<<>>, slot[offset], data} : slot' = [slot EXCEPT ![offset] = stub]
          BY <1>7 DEF Fw!WriteFailed
      <4>2. <<>> \in Seq(Chunk) /\ slot[offset] \in Seq(Chunk)
          OBVIOUS
      <4>3. stub \in Seq(Chunk)
          BY <1>4, <4>1, <4>2, Zenon
      <4> QED
          BY <4>1, <4>3
    <3> QED
        BY <1>3, <1>4, <1>5, <1>7, <3>1 DEF Fw!WriteFailed, Fw!Finish
  <2>2. Arrived'
      BY <1>2, <1>3, <1>4, <1>5, <1>7 DEF Arrived, Fw!Size, Fw!NoBlock, Fw!WriteFailed
  <2>3. BlocksWhole'
      BY <1>3, <1>7 DEF BlocksWhole, Fw!BlocksWhole, Fw!WriteFailed, Fw!Finish
  <2> QED
      BY <2>1, <2>2, <2>3
<1>8. CASE Fw!Complete(offset, data) /\ Fw!WriteBlock(data)
  <2>1. data = Fw!Content(at) /\ sent + 1 = Fw!Size(at)
      BY <1>1, <1>2, <1>8, CompleteIsWhole DEF data
  <2>2. slot' = [slot EXCEPT ![offset] = data] /\ slot' \in [Fw!Block -> Seq(Chunk)]
      BY <1>4, <1>8 DEF Fw!WriteBlock
  <2>3. \A b \in Fw!Block : b # offset => slot'[b] = slot[b]
      BY <2>2
  <2>4. slot'[offset] = Fw!Content(offset)
      BY <1>2, <2>1, <2>2
  <2>5. ASSUME ~resumed, NEW b \in 0..offset
        PROVE  slot'[b] = Fw!Content(b)
    <3>1. b \in Fw!Block /\ (b = offset \/ b \in 0..offset - 1)
        BY <2>5 DEF Fw!Block, Fw!FirmwareAssumption
    <3> QED
        BY <2>3, <2>4, <2>5, <3>1 DEF BlocksWhole, Fw!BlocksWhole
  <2>6. CASE offset = Blocks - 1
    <3>1. UNCHANGED <<offset, buffer>> /\ updating' = FALSE /\ outcome' = Fw!Checked(slot')
        BY <1>8, <2>6 DEF Fw!WriteBlock, Fw!Finish
    <3>2. UpdateTypes'
        BY <1>3, <1>5, <2>2, <3>1
    <3>3. Arrived'
        BY <1>2, <1>3, <1>5, <3>1 DEF Arrived, Fw!Size, Fw!NoBlock
    <3>4. ~resumed => outcome' = "marked"
        BY <2>5, <2>6, <3>1 DEF Fw!Checked, Fw!Block
    <3>5. BlocksWhole'
        BY <1>3, <3>1, <3>4 DEF BlocksWhole, Fw!BlocksWhole
    <3> QED
        BY <3>2, <3>3, <3>5
  <2>7. CASE offset # Blocks - 1
    <3>1. offset' = offset + 1 /\ buffer' = <<>> /\ updating' = TRUE /\ outcome' = outcome
        BY <1>8, <2>7 DEF Fw!WriteBlock
    <3>2. offset + 1 \in Fw!Block
        BY <2>7 DEF Fw!Block, Fw!FirmwareAssumption
    <3>3. UpdateTypes'
        BY <1>3, <1>5, <2>2, <3>1, <3>2
    <3>4. Arrived'
        BY <1>2, <1>3, <2>1, <3>1, <3>2 DEF Arrived, Fw!Size, Fw!NoBlock, Fw!Block
    <3>5. BlocksWhole'
      <4>1. 0..offset' - 1 = 0..offset
          BY <3>1 DEF Fw!Block
      <4> QED
          BY <1>3, <2>5, <3>1, <4>1 DEF BlocksWhole, Fw!BlocksWhole
    <3> QED
        BY <3>3, <3>4, <3>5
  <2> QED
      BY <2>6, <2>7
<1> QED
    BY <1>3, <1>6, <1>7, <1>8

\* A chunk that is lost, or that comes when the update is over
LEMMA LossKeeps ==
    ASSUME Fw!FirmwareAssumption, UpdateInv, Fw!ChunkLost \/ (Fw!SendChunk /\ ~updating)
    PROVE  UpdateInv'
<1> USE DEF UpdateInv, UpdateTypes
<1>1. /\ at # Fw!NoBlock /\ sent < Fw!Size(at) /\ sent' = sent + 1
      /\ UNCHANGED <<updating, offset, buffer, slot, outcome, at, resumed>>
    BY DEF Fw!ChunkLost, Fw!SendChunk, Fw!Upload, Fw!deviceVars
<1>2. at \in Fw!Block /\ Fw!Size(at) \in 1..Chunks
    BY <1>1, SizeFits DEF Fw!NoBlock, Fw!Block, Fw!FirmwareAssumption
<1>3. sent' \in Nat /\ sent' <= Fw!Size(at) /\ at = offset
    BY <1>1, <1>2 DEF Arrived, Fw!FirmwareAssumption
<1>4. Len(buffer) \in Nat /\ Len(buffer) <= sent
    BY <1>1, <1>3 DEF Arrived
<1>5. Arrived'
    BY <1>1, <1>2, <1>3, <1>4 DEF Arrived, Fw!Size, Fw!NoBlock
<1>6. BlocksWhole'
    BY <1>1 DEF BlocksWhole, Fw!BlocksWhole
<1>7. UpdateTypes'
    BY <1>1, <1>3
<1> QED
    BY <1>5, <1>6, <1>7

LEMMA LoopKeeps ==
    ASSUME UpdateInv,
           Fw!Timeout \/ Fw!RequestCommit \/ Fw!Tick \/ Fw!TimePasses \/ UNCHANGED Fw!vars
    PROVE  UpdateInv'
<1>1. /\ UNCHANGED <<offset, buffer, slot, outcome, at, sent, resumed>>
      /\ updating' \in {FALSE, updating}
    BY DEF Fw!Timeout, Fw!Finish, Fw!RequestCommit, Fw!Tick, Fw!TimePasses, Fw!vars,
           Fw!deviceVars, Fw!toolVars
<1>2. UpdateTypes'
    BY <1>1 DEF UpdateInv, UpdateTypes
<1>3. Arrived'
    BY <1>1 DEF UpdateInv, Arrived, Fw!Size, Fw!NoBlock
<1>4. BlocksWhole'
    BY <1>1 DEF UpdateInv, UpdateTypes, BlocksWhole, Fw!BlocksWhole
<1> QED
    BY <1>2, <1>3, <1>4 DEF UpdateInv

LEMMA UpdatesKeepInv ==
    ASSUME Fw!FirmwareAssumption, UpdateInv, [Fw!Next]_(Fw!vars)
    PROVE  UpdateInv'
BY MetadataKeeps, RefusalsKeep, UploadKeeps, LossKeeps, LoopKeeps DEF Fw!Next, Fw!Tool

LEMMA UpdatesBeginInv == ASSUME Fw!FirmwareAssumption, Fw!Init PROVE UpdateInv
<1>1. 0 \in Fw!Block /\ Fw!NoBlock \in 0..Blocks
    BY DEF Fw!Block, Fw!NoBlock, Fw!FirmwareAssumption
<1> QED
    BY <1>1 DEF Fw!Init, UpdateInv, UpdateTypes, Arrived, BlocksWhole, Fw!BlocksWhole

(* However chunks and answers are lost and blocks are sent again, a block   *)
(* counts as written only when it is whole (the update's report handler)    *)
THEOREM BlocksAlwaysWhole == Fw!Spec => []BlocksWhole
<1>1. Fw!Init => UpdateInv
    BY UpdatesBeginInv, ComponentsAssumption DEF ComponentsAssumption
<1>2. UpdateInv /\ [Fw!Next]_(Fw!vars) => UpdateInv'
    BY UpdatesKeepInv, ComponentsAssumption DEF ComponentsAssumption
<1>3. UpdateInv => BlocksWhole
    BY DEF UpdateInv
<1> QED
    BY <1>1, <1>2, <1>3, PTL DEF Fw!Spec

(* The same beside the other components, as the components run explores it  *)
COROLLARY BlocksWholeBesideOthers == PartsSpec => []BlocksWhole
<1>1. PartsInit => Fw!Init
    BY DEF PartsInit
<1>2. [PartsNext]_<<part, vars, btVars, fwVars, watchVars>> => [Fw!Next]_(Fw!vars)
    BY DEF PartsNext, fwVars, Fw!vars, Fw!deviceVars, Fw!toolVars
<1>3. PartsSpec => Fw!Spec
    BY <1>1, <1>2, PTL DEF PartsSpec, Fw!Spec
<1> QED
    BY <1>3, BlocksAlwaysWhole, PTL
-----------------------------------------------------------------------------
(***************************************************************************)
(* BtConfigService: every answer is that of its request.  While a client   *)
(* that came with nothing in hand is connected, a write that has to be     *)
(* acknowledged is the one request it waits for, and is in the queue, in   *)
(* hand or acknowledged, in one of these places only; and what a read has  *)
(* to see has been handled when it comes.                                  *)
(***************************************************************************)

\* Nothing is ahead of the writes that were made
Made ==
    /\ value <= made /\ hand.id <= made /\ request.id <= made /\ answer.request.id <= made
    /\ \A i \in DOMAIN writes : writes[i].id <= made
    /\ btPc \in {"acknowledge", "publish"} => hand.id = value
    /\ btPc = "acknowledge" => hand.needsAck

\* Writes are handled in the order they came, each once
InTurn ==
    /\ \A i \in DOMAIN writes : value < writes[i].id
    /\ \A i, j \in DOMAIN writes : i < j => writes[i].id < writes[j].id
    /\ btPc = "handle" => value < hand.id /\ \A i \in DOMAIN writes : hand.id < writes[i].id

\* Nothing is left of a client that has gone, but for what is in hand
GoneClean ==
    ~link => /\ request = Bt!NoRequest /\ asked = "none"
             /\ acked = Bt!NoAck /\ writes = <<>> /\ reading.state = "idle"

\* A write that is waited for
Awaited(w) ==
    /\ request.does = "write" /\ request.report = w.report /\ request.id = w.id
    /\ acked = Bt!NoAck /\ asked = "pending"

Held ==
    /\ request = Bt!NoRequest => asked = "none"
    /\ request.does = "write" => request.report \in Reports
    /\ \A i \in DOMAIN writes : writes[i].needsAck => Awaited(writes[i])
    /\ btPc \in {"handle", "acknowledge"} /\ hand.needsAck => Awaited(hand)
    /\ acked # Bt!NoAck =>
           /\ request.does = "write" /\ request.id <= value
           /\ acked.report = request.report /\ acked.result = request.id
    /\ request.does = "write" /\ asked = "ready" => acked # Bt!NoAck
    /\ reading.state \in {"queued", "ready"} =>
           request.does = "read" /\ reading.report = request.report
    /\ reading.state = "queued" => asked = "pending"
    /\ request.does = "read" => request.id <= value
    /\ reading.state = "ready" => request.id <= reading.data

\* What was answered was handled, too
AnswerSeen ==
    answer.request.does = "write" /\ answer.result # Bt!Refused => answer.request.id <= value

ServiceInv ==
    /\ Bt!TypeOK /\ Made /\ GoneClean /\ AnswersTrue
    /\ clean => InTurn /\ AnswerSeen
    /\ link /\ clean => Held

LEMMA QueueGrows ==
    ASSUME writes \in Seq(Bt!PendingWrites), NEW w \in Bt!PendingWrites,
           NEW q, q = Append(writes, w)
    PROVE  /\ q \in Seq(Bt!PendingWrites) /\ Len(q) = Len(writes) + 1
           /\ \A i \in DOMAIN q : \/ i \in DOMAIN writes /\ q[i] = writes[i]
                                  \/ i = Len(writes) + 1 /\ q[i] = w
           /\ \A i \in DOMAIN q : i \in Nat
           /\ \A i \in DOMAIN writes : i <= Len(writes)
OBVIOUS

LEMMA QueueMoves ==
    ASSUME writes \in Seq(Bt!PendingWrites), writes # <<>>, NEW q, q = Tail(writes)
    PROVE  /\ q \in Seq(Bt!PendingWrites) /\ Len(q) = Len(writes) - 1
           /\ 1 \in DOMAIN writes /\ Head(writes) = writes[1] /\ Head(writes) \in Bt!PendingWrites
           /\ \A i \in DOMAIN q : i \in Nat /\ i + 1 \in DOMAIN writes /\ 1 < i + 1 /\ q[i] = writes[i + 1]
OBVIOUS

LEMMA Constants ==
    ASSUME Bt!ServiceAssumption
    PROVE  /\ Bt!NoRequest \in Bt!Requests /\ Bt!NoWrite \in Bt!PendingWrites
           /\ Bt!NoAnswer \in [request : Bt!Requests, result : 0..Bt!Refused]
           /\ Bt!NotReading \in [state : {"idle", "queued", "ready", "serving"},
                                 report : Reports \union {None}, data : 0..MaxWrites]
           /\ Bt!NoAck \in [report : Reports \union {None}, result : 0..MaxWrites]
           /\ Bt!Refused \in Nat /\ Bt!Refused > MaxWrites /\ MaxWrites \in Nat /\ None \notin Reports
<1>1. 0 \in 0..MaxWrites /\ 0 \in 0..Bt!Refused
    BY DEF Bt!ServiceAssumption, Bt!Refused
<1>2. Bt!NoRequest \in Bt!Requests /\ Bt!NoWrite \in Bt!PendingWrites
    BY <1>1 DEF Bt!NoRequest, Bt!NoWrite, Bt!Requests, Bt!PendingWrites
<1>3. Bt!NoAnswer \in [request : Bt!Requests, result : 0..Bt!Refused]
    BY <1>1, <1>2 DEF Bt!NoAnswer
<1> QED
    BY <1>1, <1>2, <1>3 DEF Bt!NotReading, Bt!NoAck, Bt!ServiceAssumption, Bt!Refused

LEMMA ServiceBegins == ASSUME Bt!ServiceAssumption, Bt!Init PROVE ServiceInv
<1>1. Bt!TypeOK
  <2>1. writes \in Seq(Bt!PendingWrites) /\ Len(writes) <= QueueMax
      BY DEF Bt!Init, Bt!ServiceAssumption
  <2>2. 0 \in 0..MaxWrites /\ 0 \in 0..MaxLinks
      BY DEF Bt!ServiceAssumption
  <2> QED
      BY <2>1, <2>2, Constants, Zenon DEF Bt!Init, Bt!TypeOK
<1>2. Made /\ InTurn /\ GoneClean
    BY Constants DEF Bt!Init, Made, InTurn, GoneClean, Bt!NoRequest, Bt!NoAnswer, Bt!NotReading, Bt!NoWrite
<1>3. AnswerSeen /\ AnswersTrue
    BY DEF Bt!Init, AnswerSeen, AnswersTrue, Bt!AnswersTrue, Bt!NoAnswer, Bt!NoRequest
<1> QED
    BY <1>1, <1>2, <1>3 DEF ServiceInv, Bt!Init

\* A write joins the queue behind those made before it
LEMMA JoinsQueue ==
    ASSUME Bt!ServiceAssumption, Bt!TypeOK, Made, NEW w \in Bt!PendingWrites,
           writes' = Append(writes, w), ~Bt!Full, made' \in Nat, made <= made', w.id <= made',
           UNCHANGED <<value, hand, btPc>>, request'.id <= made',
           answer'.request.id <= made'
    PROVE  /\ writes' \in Seq(Bt!PendingWrites) /\ Len(writes') <= QueueMax
           /\ Made'
           /\ InTurn /\ w.id = made + 1 => InTurn'
<1> USE DEF Bt!TypeOK, Bt!ServiceAssumption
<1>1. /\ writes' \in Seq(Bt!PendingWrites) /\ Len(writes') = Len(writes) + 1
      /\ \A i \in DOMAIN writes' : \/ i \in DOMAIN writes /\ writes'[i] = writes[i]
                                   \/ i = Len(writes) + 1 /\ writes'[i] = w
      /\ \A i \in DOMAIN writes' : i \in Nat
      /\ \A i \in DOMAIN writes : i <= Len(writes)
    BY QueueGrows
<1>2. Len(writes') <= QueueMax
    BY <1>1 DEF Bt!Full
<1>3. value \in Nat /\ hand.id \in Nat /\ made \in Nat /\ \A i \in DOMAIN writes : writes[i].id \in Nat
  <2>1. \A v \in Bt!PendingWrites : v.id \in Nat
      BY DEF Bt!PendingWrites
  <2>2. \A i \in DOMAIN writes : writes[i] \in Bt!PendingWrites
      OBVIOUS
  <2> QED
      BY <2>1, <2>2
<1>4. Made'
  <2>1. value' <= made' /\ hand'.id <= made'
      BY <1>3 DEF Made
  <2>2. \A i \in DOMAIN writes : writes[i].id <= made'
      BY <1>3 DEF Made
  <2>3. \A i \in DOMAIN writes' : writes'[i].id <= made'
      BY <1>1, <2>2
  <2> QED
      BY <2>1, <2>3 DEF Made
<1>5. ASSUME InTurn, w.id = made + 1
      PROVE  InTurn'
  <2>1. \A i \in DOMAIN writes : value < writes[i].id /\ writes[i].id < w.id
      BY <1>3, <1>5 DEF InTurn, Made
  <2>2. value < w.id /\ hand.id < w.id
      BY <1>3, <1>5 DEF Made
  <2>3. \A i, j \in DOMAIN writes' : i < j => writes'[i].id < writes'[j].id
      BY <1>1, <1>5, <2>1 DEF InTurn
  <2>4. \A i \in DOMAIN writes' : value < writes'[i].id
      BY <1>1, <2>1, <2>2
  <2>5. btPc = "handle" => value < hand.id /\ \A i \in DOMAIN writes' : hand.id < writes'[i].id
      BY <1>1, <1>5, <2>2 DEF InTurn
  <2> QED
      BY <2>3, <2>4, <2>5 DEF InTurn
<1> QED
    BY <1>1, <1>2, <1>4, <1>5

LEMMA Numbers ==
    ASSUME Bt!ServiceAssumption, Bt!TypeOK
    PROVE  /\ value \in Nat /\ made \in Nat /\ MaxWrites \in Nat
           /\ hand \in Bt!PendingWrites /\ hand.id \in Nat
           /\ request.id \in Nat /\ answer.request.id \in Nat
           /\ writes \in Seq(Bt!PendingWrites)
           /\ \A i \in DOMAIN writes : writes[i] \in Bt!PendingWrites /\ writes[i].id \in Nat
<1>1. \A v \in Bt!PendingWrites : v.id \in Nat
    BY DEF Bt!PendingWrites, Bt!ServiceAssumption
<1>2. \A v \in Bt!Requests : v.id \in Nat
    BY DEF Bt!Requests, Bt!ServiceAssumption
<1>3. \A i \in DOMAIN writes : writes[i] \in Bt!PendingWrites
    BY DEF Bt!TypeOK
<1> QED
    BY <1>1, <1>2, <1>3 DEF Bt!TypeOK, Bt!ServiceAssumption

LEMMA WriteKeeps ==
    ASSUME Bt!ServiceAssumption, ServiceInv, NEW report \in Reports, Bt!Write(report)
    PROVE  ServiceInv'
<1> PICK r0 : r0 = [does |-> "write", report |-> report, id |-> made']
    OBVIOUS
<1> PICK w : w = [report |-> report, id |-> made', needsAck |-> TRUE]
    OBVIOUS
<1>1. /\ link /\ made < MaxWrites /\ made' = made + 1 /\ request = Bt!NoRequest
      /\ UNCHANGED <<link, links, clean, reading, prepared, btPc, hand, value>>
    BY DEF Bt!Write, Bt!NewWrite, Bt!loopVars
<1>2. \/ /\ acked.report = report /\ acked' = Bt!NoAck /\ writes' = writes
         /\ answer' = [request |-> r0, result |-> acked.result]
         /\ request' = Bt!NoRequest /\ asked' = "none"
      \/ /\ acked' = acked /\ writes' = writes
         /\ answer' = [request |-> r0, result |-> Bt!Refused]
         /\ request' = Bt!NoRequest /\ asked' = "none"
      \/ /\ acked.report # report /\ acked' = acked /\ ~Bt!Full /\ writes' = Append(writes, w)
         /\ answer' = answer /\ request' = r0 /\ asked' = "pending"
    BY DEF Bt!Write, Bt!WriteRequest, Bt!Answer, Bt!QueueWrite, Bt!HoldBack
<1>3. made \in Nat /\ made' \in 0..MaxWrites /\ Bt!NoRequest.id = 0
    BY <1>1 DEF ServiceInv, Bt!TypeOK, Bt!ServiceAssumption, Bt!NoRequest
<1>4. r0 \in Bt!Requests /\ w \in Bt!PendingWrites /\ r0.id = made' /\ w.id = made + 1
    BY <1>1, <1>3 DEF Bt!Requests, Bt!PendingWrites
<1>a. answer'.request.id <= made'
    BY <1>1, <1>2, <1>3, <1>4, Numbers DEF ServiceInv, Made
<1>5. /\ writes' \in Seq(Bt!PendingWrites) /\ Len(writes') <= QueueMax
      /\ Made' /\ (clean' => InTurn')
  <2>1. CASE writes' = writes
      BY <1>1, <1>2, <1>3, <1>4, <1>a, <2>1, Numbers DEF ServiceInv, Bt!TypeOK, Made, InTurn
  <2>2. CASE writes' = Append(writes, w) /\ ~Bt!Full /\ request' = r0
      BY <1>1, <1>2, <1>3, <1>4, <1>a, <2>2, JoinsQueue DEF ServiceInv, Bt!TypeOK
  <2> QED
      BY <1>2, <2>1, <2>2
<1>6. Bt!TypeOK'
  <2>1. request' \in Bt!Requests /\ asked' \in {"none", "pending", "ready"}
      BY <1>2, <1>4, Constants
  <2>2. answer' \in [request : Bt!Requests, result : 0..Bt!Refused]
    <3>1. acked.result \in 0..Bt!Refused /\ Bt!Refused \in 0..Bt!Refused
        BY Constants DEF ServiceInv, Bt!TypeOK, Bt!Refused
    <3> QED
        BY <1>2, <1>4, <3>1 DEF ServiceInv, Bt!TypeOK
  <2>3. acked' \in [report : Reports \union {None}, result : 0..MaxWrites]
      BY <1>2, Constants DEF ServiceInv, Bt!TypeOK
  <2> QED
      BY <1>1, <1>3, <1>5, <2>1, <2>2, <2>3 DEF ServiceInv, Bt!TypeOK
<1>7. GoneClean'
    BY <1>1 DEF GoneClean
<1>8. clean => acked = Bt!NoAck /\ acked.report # report
    BY <1>1, Constants DEF ServiceInv, Held, Bt!NoAck, Bt!NoRequest
<1>9. clean' => AnswerSeen' /\ AnswersTrue'
  <2>1. clean' => (btPc' = "handle" => hand'.id > value')
      BY <1>1, <1>3, <1>5, <1>6 DEF InTurn, Bt!TypeOK, Bt!PendingWrites
  <2>2. CASE answer' = [request |-> r0, result |-> Bt!Refused]
      BY <2>1, <2>2 DEF AnswerSeen, AnswersTrue, Bt!AnswersTrue
  <2>3. CASE answer' = answer
      BY <1>1, <2>1, <2>3 DEF ServiceInv, AnswerSeen, AnswersTrue, Bt!AnswersTrue
  <2> QED
      BY <1>1, <1>2, <1>8, <2>2, <2>3
<1>10. ASSUME clean'
       PROVE  Held'
  <2>1. Held /\ clean /\ acked = Bt!NoAck
      BY <1>1, <1>8, <1>10 DEF ServiceInv
  <2>2. ~Awaited(hand) /\ (\A i \in DOMAIN writes : ~Awaited(writes[i])) /\ reading.state \notin {"queued", "ready"}
      BY <1>1, <2>1 DEF Held, Awaited, Bt!NoRequest
  <2>3. CASE request' = Bt!NoRequest /\ asked' = "none" /\ writes' = writes /\ acked' = Bt!NoAck
      BY <1>1, <2>1, <2>2, <2>3 DEF Held, Awaited, Bt!NoRequest
  <2>4. CASE writes' = Append(writes, w) /\ request' = r0 /\ asked' = "pending" /\ acked' = acked
    <3>1. \A i \in DOMAIN writes' : \/ i \in DOMAIN writes /\ writes'[i] = writes[i]
                                    \/ writes'[i] = w
        BY <1>4, <2>4, QueueGrows, Numbers DEF ServiceInv
    <3>2. Awaited(w)'
        BY <2>1, <2>4 DEF Awaited
    <3>3. \A i \in DOMAIN writes : ~writes[i].needsAck
        BY <2>1, <2>2 DEF Held
    <3>4. \A i \in DOMAIN writes' : writes'[i].needsAck => Awaited(writes[i])'
        BY <3>1, <3>2, <3>3 DEF Awaited
    <3> QED
        BY <1>1, <2>1, <2>2, <2>4, <3>4 DEF Held, Bt!NoRequest
  <2> QED
      BY <1>2, <1>8, <2>1, <2>3, <2>4
<1> QED
    BY <1>1, <1>5, <1>6, <1>7, <1>9, <1>10 DEF ServiceInv, AnswersTrue, Bt!AnswersTrue

\* A write that isn't acknowledged: streamed, or one that was prepared
LEMMA UnacknowledgedKeeps ==
    ASSUME Bt!ServiceAssumption, ServiceInv, NEW report \in Reports, link, made < MaxWrites,
           made' = made + 1, Bt!QueueWrite(report, made', FALSE), prepared' \subseteq Reports,
           UNCHANGED <<link, links, clean, request, asked, answer, reading, acked, btPc, hand, value>>
    PROVE  ServiceInv'
<1> PICK w : w = [report |-> report, id |-> made', needsAck |-> FALSE]
    OBVIOUS
<1>1. writes' = writes \/ (writes' = Append(writes, w) /\ ~Bt!Full)
    BY DEF Bt!QueueWrite
<1>2. made \in Nat /\ made' \in 0..MaxWrites
    BY Numbers DEF ServiceInv, Bt!TypeOK, Bt!ServiceAssumption
<1>3. w \in Bt!PendingWrites /\ w.id = made + 1 /\ ~w.needsAck
    BY <1>2 DEF Bt!PendingWrites
<1>4. /\ writes' \in Seq(Bt!PendingWrites) /\ Len(writes') <= QueueMax
      /\ Made' /\ (clean' => InTurn')
  <2>1. CASE writes' = writes
      BY <1>2, <2>1, Numbers DEF ServiceInv, Bt!TypeOK, Made, InTurn
  <2>2. CASE writes' = Append(writes, w) /\ ~Bt!Full
    <3>1. request'.id <= made' /\ answer'.request.id <= made'
        BY <1>2, Numbers DEF ServiceInv, Made
    <3> QED
        BY <1>2, <1>3, <2>2, <3>1, JoinsQueue DEF ServiceInv
  <2> QED
      BY <1>1, <2>1, <2>2
<1>5. Bt!TypeOK'
    BY <1>2, <1>4 DEF ServiceInv, Bt!TypeOK
<1>6. GoneClean' /\ (clean' => AnswerSeen')
    BY DEF ServiceInv, GoneClean, AnswerSeen
<1>7. AnswersTrue'
    BY DEF ServiceInv, AnswersTrue, Bt!AnswersTrue
<1>8. ASSUME clean'
      PROVE  Held'
  <2>1. \A i \in DOMAIN writes' : writes'[i] = w \/ (i \in DOMAIN writes /\ writes'[i] = writes[i])
      BY <1>1, <1>3, QueueGrows, Numbers DEF ServiceInv
  <2>2. \A i \in DOMAIN writes' : writes'[i].needsAck => Awaited(writes[i])'
      BY <1>3, <1>8, <2>1 DEF ServiceInv, Held, Awaited
  <2>3. Awaited(hand)' <=> Awaited(hand)
      BY DEF Awaited
  <2> QED
      BY <1>8, <2>2, <2>3 DEF ServiceInv, Held
<1> QED
    BY <1>4, <1>5, <1>6, <1>7, <1>8 DEF ServiceInv

LEMMA StreamKeeps ==
    ASSUME Bt!ServiceAssumption, ServiceInv,
           (\E report \in Reports : Bt!Stream(report)) \/ Bt!Execute
    PROVE  ServiceInv'
<1>1. \E report \in Reports :
          /\ link /\ made < MaxWrites /\ made' = made + 1
          /\ Bt!QueueWrite(report, made', FALSE) /\ prepared' \subseteq Reports
          /\ UNCHANGED <<link, links, clean, request, asked, answer, reading, acked, btPc, hand, value>>
    BY DEF Bt!Stream, Bt!Execute, Bt!NewWrite, Bt!clientVars, Bt!loopVars, ServiceInv, Bt!TypeOK
<1> QED
    BY <1>1, UnacknowledgedKeeps

\* What only collects or forgets the parts of a long write
LEMMA PrepareKeeps ==
    ASSUME ServiceInv, (\E report \in Reports : Bt!Prepare(report)) \/ Bt!Cancel
    PROVE  ServiceInv'
<1>1. /\ prepared' \subseteq Reports
      /\ UNCHANGED <<link, links, clean, request, asked, answer, reading, writes, acked,
                     btPc, hand, value, made>>
    BY DEF Bt!Prepare, Bt!Cancel, Bt!clientVars, Bt!loopVars, ServiceInv, Bt!TypeOK
<1>2. Bt!TypeOK'
    BY <1>1 DEF ServiceInv, Bt!TypeOK
<1>3. Made' /\ GoneClean' /\ AnswersTrue' /\ (clean' => InTurn' /\ AnswerSeen')
    BY <1>1 DEF ServiceInv, Made, GoneClean, AnswersTrue, Bt!AnswersTrue, InTurn, AnswerSeen
<1>4. link' /\ clean' => Held'
    BY <1>1 DEF ServiceInv, Held, Awaited
<1> QED
    BY <1>2, <1>3, <1>4 DEF ServiceInv

LEMMA ConnectKeeps == ASSUME Bt!ServiceAssumption, ServiceInv, Bt!Connect PROVE ServiceInv'
<1>1. /\ ~link /\ links < MaxLinks /\ links' = links + 1
      /\ clean' = (btPc \notin {"handle", "acknowledge"}) /\ answer' = Bt!NoAnswer
      /\ UNCHANGED <<request, asked, reading, writes, acked, prepared, btPc, hand, value, made>>
    BY DEF Bt!Connect, Bt!serviceVars, Bt!loopVars
<1>2. /\ request = Bt!NoRequest /\ asked = "none" /\ acked = Bt!NoAck /\ writes = <<>>
      /\ reading.state = "idle"
    BY <1>1 DEF ServiceInv, GoneClean
<1>3. Bt!TypeOK'
  <2>1. links' \in 0..MaxLinks /\ link' \in BOOLEAN /\ clean' \in BOOLEAN
      BY <1>1 DEF ServiceInv, Bt!TypeOK, Bt!ServiceAssumption, Bt!Connect
  <2> QED
      BY <1>1, <2>1, Constants DEF ServiceInv, Bt!TypeOK
<1>4. Made' /\ GoneClean'
    BY <1>1, <1>2, Numbers DEF ServiceInv, Made, GoneClean, Bt!NoAnswer, Bt!NoRequest
<1>5. ASSUME clean'
      PROVE  InTurn' /\ AnswerSeen' /\ Held'
  <2>1. writes' = <<>> /\ (\A i \in DOMAIN writes' : FALSE) /\ btPc' \notin {"handle", "acknowledge"}
    <3>1. writes' = <<>>
        BY <1>1, <1>2
    <3>2. \A i \in DOMAIN <<>> : FALSE
        OBVIOUS
    <3> QED
        BY <1>1, <1>5, <3>1, <3>2
  <2>2. InTurn'
      BY <2>1 DEF InTurn
  <2>3. AnswerSeen'
      BY <1>1 DEF AnswerSeen, Bt!NoAnswer, Bt!NoRequest
  <2>4. Held'
      BY <1>1, <1>2, <2>1 DEF Held, Bt!NoRequest
  <2> QED
      BY <2>2, <2>3, <2>4
<1>6. AnswersTrue'
    BY <1>1 DEF AnswersTrue, Bt!AnswersTrue, Bt!NoAnswer, Bt!NoRequest
<1> QED
    BY <1>3, <1>4, <1>5, <1>6 DEF ServiceInv

LEMMA DisconnectKeeps == ASSUME Bt!ServiceAssumption, ServiceInv, Bt!Disconnect PROVE ServiceInv'
<1>1. /\ link' = FALSE /\ request' = Bt!NoRequest /\ asked' = "none"
      /\ reading' = Bt!NotReading /\ writes' = <<>> /\ prepared' = {} /\ acked' = Bt!NoAck
      /\ UNCHANGED <<links, clean, answer, btPc, hand, value, made>>
    BY DEF Bt!Disconnect, Bt!Disconnected, Bt!loopVars
<1>2. Bt!TypeOK'
  <2>1. writes' \in Seq(Bt!PendingWrites) /\ Len(writes') <= QueueMax
      BY <1>1 DEF Bt!ServiceAssumption
  <2> QED
      BY <1>1, <2>1, Constants DEF ServiceInv, Bt!TypeOK
<1>3. Made' /\ GoneClean'
    BY <1>1, Numbers DEF ServiceInv, Made, GoneClean, Bt!NoRequest, Bt!NotReading
<1>4. AnswersTrue' /\ (clean' => InTurn' /\ AnswerSeen')
    BY <1>1 DEF ServiceInv, AnswersTrue, Bt!AnswersTrue, InTurn, AnswerSeen
<1> QED
    BY <1>1, <1>2, <1>3, <1>4 DEF ServiceInv

LEMMA TakeWriteKeeps == ASSUME Bt!ServiceAssumption, ServiceInv, Bt!TakeWrite PROVE ServiceInv'
<1>1. /\ btPc = "writes" /\ btPc' = "handle" /\ writes # <<>>
      /\ hand' = Head(writes) /\ writes' = Tail(writes)
      /\ UNCHANGED <<link, links, clean, request, asked, answer, reading, acked, prepared, value, made>>
    BY DEF Bt!TakeWrite, Bt!clientVars
<1>2. /\ writes' \in Seq(Bt!PendingWrites) /\ Len(writes') = Len(writes) - 1
      /\ 1 \in DOMAIN writes /\ hand' = writes[1] /\ hand' \in Bt!PendingWrites
      /\ \A i \in DOMAIN writes' : /\ i \in Nat /\ i + 1 \in DOMAIN writes /\ 1 < i + 1
                                   /\ writes'[i] = writes[i + 1]
    BY <1>1, QueueMoves, Numbers DEF ServiceInv
<1>3. Bt!TypeOK'
  <2>1. Len(writes') <= QueueMax
      BY <1>2 DEF ServiceInv, Bt!TypeOK, Bt!ServiceAssumption
  <2> QED
      BY <1>1, <1>2, <2>1 DEF ServiceInv, Bt!TypeOK
<1>4. Made'
    BY <1>1, <1>2 DEF ServiceInv, Made
<1>5. GoneClean'
    BY <1>1 DEF ServiceInv, GoneClean
<1>6. clean' => InTurn' /\ AnswerSeen'
  <2> SUFFICES ASSUME clean
               PROVE  InTurn' /\ AnswerSeen'
      BY <1>1
  <2>1. \A i \in DOMAIN writes' : value < writes'[i].id /\ hand'.id < writes'[i].id
      BY <1>1, <1>2 DEF ServiceInv, InTurn
  <2>2. value < hand'.id
      BY <1>2 DEF ServiceInv, InTurn
  <2>3. \A i, j \in DOMAIN writes' : i < j => writes'[i].id < writes'[j].id
    <3> SUFFICES ASSUME NEW i \in DOMAIN writes', NEW j \in DOMAIN writes', i < j
                 PROVE  writes[i + 1].id < writes[j + 1].id
        BY <1>2
    <3>1. i + 1 \in DOMAIN writes /\ j + 1 \in DOMAIN writes /\ i + 1 < j + 1
        BY <1>2
    <3> QED
        BY <3>1 DEF ServiceInv, InTurn
  <2> QED
      BY <1>1, <2>1, <2>2, <2>3 DEF ServiceInv, InTurn, AnswerSeen
<1>7. AnswersTrue'
  <2>1. clean => hand'.id > value
    <3>1. hand'.id \in Nat /\ value \in Nat
        BY <1>2, Numbers DEF ServiceInv
    <3> QED
        BY <1>2, <3>1 DEF ServiceInv, InTurn
  <2> QED
      BY <1>1, <2>1 DEF ServiceInv, AnswersTrue, Bt!AnswersTrue
<1>8. link' /\ clean' => Held'
  <2> SUFFICES ASSUME link, clean
               PROVE  Held'
      BY <1>1
  <2>1. Held
      BY DEF ServiceInv
  <2>3. \A i \in DOMAIN writes' : writes'[i].needsAck => Awaited(writes[i])'
      BY <1>1, <1>2, <2>1 DEF Held, Awaited
  <2>4. hand'.needsAck => Awaited(hand)'
      BY <1>1, <1>2, <2>1 DEF Held, Awaited
  <2> QED
      BY <1>1, <2>1, <2>3, <2>4 DEF Held
<1> QED
    BY <1>3, <1>4, <1>5, <1>6, <1>7, <1>8 DEF ServiceInv

LEMMA HandleWriteKeeps == ASSUME Bt!ServiceAssumption, ServiceInv, Bt!HandleWrite PROVE ServiceInv'
<1>1. /\ btPc = "handle" /\ value' = hand.id
      /\ btPc' = IF hand.needsAck THEN "acknowledge" ELSE "writes"
      /\ UNCHANGED <<link, links, clean, request, asked, answer, reading, writes, acked, prepared,
                     hand, made>>
    BY DEF Bt!HandleWrite, Bt!clientVars, Bt!serviceVars
<1>2. /\ value \in Nat /\ hand.id \in 0..MaxWrites
      /\ \A i \in DOMAIN writes : writes[i].id \in Nat
      /\ request.id \in Nat /\ answer.request.id \in Nat
    BY Numbers DEF ServiceInv, Bt!TypeOK, Bt!Requests, Bt!PendingWrites, Bt!ServiceAssumption
<1>3. Bt!TypeOK'
    BY <1>1, <1>2 DEF ServiceInv, Bt!TypeOK
<1>4. Made' /\ GoneClean'
    BY <1>1, <1>2 DEF ServiceInv, Made, GoneClean
<1>5. clean => value < hand.id
    BY <1>1 DEF ServiceInv, InTurn
<1>6. clean' => InTurn' /\ AnswerSeen'
    BY <1>1, <1>2, <1>5 DEF ServiceInv, InTurn, AnswerSeen
<1>7. AnswersTrue'
    BY <1>1 DEF ServiceInv, AnswersTrue, Bt!AnswersTrue
<1>8. ASSUME link', clean'
      PROVE  Held'
    BY <1>1, <1>2, <1>5, <1>8 DEF ServiceInv, Held, Awaited
<1> QED
    BY <1>3, <1>4, <1>6, <1>7, <1>8 DEF ServiceInv

LEMMA AcknowledgeKeeps == ASSUME Bt!ServiceAssumption, ServiceInv, Bt!Acknowledge PROVE ServiceInv'
<1>1. /\ btPc = "acknowledge" /\ btPc' = "writes"
      /\ acked' = IF asked = "pending" THEN [report |-> hand.report, result |-> hand.id] ELSE Bt!NoAck
      /\ asked' = IF asked = "pending" THEN "ready" ELSE asked
      /\ UNCHANGED <<link, links, clean, request, answer, reading, writes, prepared, hand, value, made>>
    BY DEF Bt!Acknowledge, Bt!Ready
<1>2. hand.id = value /\ hand.needsAck
    BY <1>1 DEF ServiceInv, Made
<1>3. Bt!TypeOK'
  <2>1. acked' \in [report : Reports \union {None}, result : 0..MaxWrites]
      BY <1>1, Constants DEF ServiceInv, Bt!TypeOK, Bt!PendingWrites
  <2>2. asked' \in {"none", "pending", "ready"}
      BY <1>1 DEF ServiceInv, Bt!TypeOK
  <2> QED
      BY <1>1, <2>1, <2>2 DEF ServiceInv, Bt!TypeOK
<1>4. Made' /\ GoneClean'
    BY <1>1 DEF ServiceInv, Made, GoneClean
<1>5. AnswersTrue' /\ (clean' => InTurn' /\ AnswerSeen')
    BY <1>1 DEF ServiceInv, AnswersTrue, Bt!AnswersTrue, InTurn, AnswerSeen
<1>6. ASSUME link', clean'
      PROVE  Held'
  <2>1. Held /\ InTurn /\ Awaited(hand)
      BY <1>1, <1>2, <1>6 DEF ServiceInv, Held
  <2>2. \A i \in DOMAIN writes : ~writes[i].needsAck
    <3> SUFFICES ASSUME NEW i \in DOMAIN writes, writes[i].needsAck
                 PROVE  FALSE
        OBVIOUS
    <3>1. writes[i].id = hand.id
        BY <2>1 DEF Held, Awaited
    <3>2. value < writes[i].id /\ value \in Nat
        BY <2>1, Numbers DEF InTurn, ServiceInv
    <3> QED
        BY <1>2, <3>1, <3>2
  <2>3. /\ request.does = "write" /\ request.report = hand.report /\ request.id = value
        /\ asked' = "ready" /\ acked' = [report |-> hand.report, result |-> hand.id]
      BY <1>1, <1>2, <2>1 DEF Awaited
  <2>4. reading.state \notin {"queued", "ready"}
      BY <2>1, <2>3 DEF Held
  <2>5. value <= value /\ request # Bt!NoRequest
      BY <2>3, Numbers DEF ServiceInv, Bt!NoRequest
  <2>6. acked' # Bt!NoAck
    <3>1. request.report # None
        BY <2>1, <2>3, Constants DEF Held
    <3> QED
        BY <2>3, <3>1 DEF Bt!NoAck
  <2> QED
      BY <1>1, <1>2, <2>1, <2>2, <2>3, <2>4, <2>5, <2>6 DEF Held
<1> QED
    BY <1>3, <1>4, <1>5, <1>6 DEF ServiceInv

LEMMA ReadsKeep ==
    ASSUME Bt!ServiceAssumption, ServiceInv, Bt!NoMoreWrites \/ Bt!PickRead \/ Bt!Fetch
    PROVE  ServiceInv'
<1>1. /\ btPc' \notin {"handle", "acknowledge"} /\ (btPc' = "publish" => hand'.id = value)
      /\ btPc' \in {"writes", "handle", "acknowledge", "reads", "fetch", "publish"}
      /\ UNCHANGED <<link, links, clean, request, asked, answer, reading, writes, acked, prepared,
                     value, made>>
    BY DEF Bt!NoMoreWrites, Bt!PickRead, Bt!Fetch, Bt!clientVars, Bt!serviceVars, ServiceInv, Bt!TypeOK,
           Bt!PendingWrites
<1>2. hand' \in Bt!PendingWrites /\ hand'.id \in {hand.id, value, 0}
    BY Constants, Numbers DEF Bt!NoMoreWrites, Bt!PickRead, Bt!Fetch, ServiceInv, Bt!TypeOK,
           Bt!PendingWrites, Bt!NoWrite
<1>3. Bt!TypeOK'
    BY <1>1, <1>2 DEF ServiceInv, Bt!TypeOK
<1>4. Made' /\ GoneClean'
    BY <1>1, <1>2, Numbers DEF ServiceInv, Made, GoneClean
<1>5. AnswersTrue' /\ (clean' => InTurn' /\ AnswerSeen')
    BY <1>1 DEF ServiceInv, AnswersTrue, Bt!AnswersTrue, InTurn, AnswerSeen
<1>6. link' /\ clean' => Held'
    BY <1>1 DEF ServiceInv, Held, Awaited
<1> QED
    BY <1>3, <1>4, <1>5, <1>6 DEF ServiceInv

LEMMA PublishKeeps == ASSUME Bt!ServiceAssumption, ServiceInv, Bt!Publish PROVE ServiceInv'
<1>1. /\ btPc = "publish" /\ btPc' = "writes"
      /\ UNCHANGED <<link, links, clean, request, answer, writes, acked, prepared, hand, value, made>>
    BY DEF Bt!Publish
<1>2. hand.id = value /\ hand.id \in 0..MaxWrites
    BY <1>1 DEF ServiceInv, Made, Bt!TypeOK
<1>3. \/ /\ reading.state = "queued" /\ asked' = IF asked = "pending" THEN "ready" ELSE asked
         /\ reading' = [reading EXCEPT !.data = value,
                                       !.state = IF asked = "pending" THEN "ready" ELSE "idle"]
      \/ asked' = asked /\ reading' = [reading EXCEPT !.data = value]
    BY <1>2 DEF Bt!Publish, Bt!Ready
<1>4. /\ reading' \in [state : {"idle", "queued", "ready", "serving"},
                       report : Reports \union {None}, data : 0..MaxWrites]
      /\ reading'.report = reading.report /\ reading'.data = value
    BY <1>2, <1>3 DEF ServiceInv, Bt!TypeOK
<1>5. Bt!TypeOK'
  <2>1. asked' \in {"none", "pending", "ready"}
      BY <1>3 DEF ServiceInv, Bt!TypeOK
  <2> QED
      BY <1>1, <1>4, <2>1 DEF ServiceInv, Bt!TypeOK
<1>6. Made' /\ GoneClean'
    BY <1>1, <1>3, <1>4 DEF ServiceInv, Bt!TypeOK, Made, GoneClean
<1>7. AnswersTrue' /\ (clean' => InTurn' /\ AnswerSeen')
    BY <1>1 DEF ServiceInv, AnswersTrue, Bt!AnswersTrue, InTurn, AnswerSeen
<1>8. ASSUME link', clean'
      PROVE  Held'
  <2>1. Held
      BY <1>1, <1>8 DEF ServiceInv
  <2>2. CASE reading.state = "queued" /\ asked' = "ready" /\ reading'.state = "ready"
    <3>1. request.does = "read" /\ reading.report = request.report /\ asked = "pending"
        BY <2>1, <2>2 DEF Held
    <3>2. request # Bt!NoRequest /\ acked = Bt!NoAck /\ \A i \in DOMAIN writes : ~writes[i].needsAck
        BY <2>1, <3>1 DEF Held, Awaited, Bt!NoRequest
    <3>3. request.id <= value
        BY <2>1, <3>1 DEF Held
    <3> QED
        BY <1>1, <1>4, <2>2, <3>1, <3>2, <3>3 DEF Held
  <2>3. CASE asked' = asked /\ reading'.state = reading.state
      BY <1>1, <1>4, <2>1, <2>3 DEF Held, Awaited
  <2>4. CASE reading.state = "queued" /\ reading'.state = "idle"
      BY <2>1, <2>4, <1>3 DEF Held, ServiceInv, Bt!TypeOK
  <2> QED
      BY <1>3, <2>1, <2>2, <2>3 DEF Held, ServiceInv, Bt!TypeOK
<1> QED
    BY <1>5, <1>6, <1>7, <1>8 DEF ServiceInv

LEMMA ReadKeeps ==
    ASSUME Bt!ServiceAssumption, ServiceInv, NEW report \in Reports, Bt!Read(report)
    PROVE  ServiceInv'
<1> DEFINE seen == IF answer.request.does = "write" /\ answer.result # Bt!Refused
                   THEN answer.request.id ELSE 0
           r0 == [does |-> "read", report |-> report, id |-> seen]
<1>1. /\ link /\ request = Bt!NoRequest
      /\ UNCHANGED <<link, links, clean, writes, acked, prepared, btPc, hand, value, made>>
    BY DEF Bt!Read, Bt!loopVars
<1>2. \/ /\ reading.state = "ready" /\ reading' = [reading EXCEPT !.state = "serving"]
         /\ answer' = [request |-> r0, result |-> reading.data]
         /\ request' = Bt!NoRequest /\ asked' = "none"
      \/ /\ reading' = [reading EXCEPT !.state = "queued", !.report = report]
         /\ request' = r0 /\ asked' = "pending" /\ answer' = answer
    BY DEF Bt!Read, Bt!ReadRequest, Bt!Answer, Bt!HoldBack
<1>3. seen \in 0..MaxWrites /\ r0 \in Bt!Requests /\ r0.id = seen /\ r0.does = "read" /\ r0.report = report
    BY Constants DEF ServiceInv, Bt!TypeOK, Bt!Requests
<1>4. (clean => seen <= value) /\ seen <= made
    BY <1>3, Numbers DEF ServiceInv, AnswerSeen, Made
<1> HIDE DEF seen, r0
<1>5. Bt!TypeOK'
  <2>1. /\ reading' \in [state : {"idle", "queued", "ready", "serving"},
                         report : Reports \union {None}, data : 0..MaxWrites]
        /\ request' \in Bt!Requests /\ asked' \in {"none", "pending", "ready"}
      BY <1>2, <1>3, Constants DEF ServiceInv, Bt!TypeOK
  <2>2. answer' \in [request : Bt!Requests, result : 0..Bt!Refused]
    <3>1. reading.data \in 0..Bt!Refused
        BY Constants DEF ServiceInv, Bt!TypeOK, Bt!Refused
    <3> QED
        BY <1>2, <1>3, <3>1 DEF ServiceInv, Bt!TypeOK
  <2> QED
      BY <1>1, <2>1, <2>2 DEF ServiceInv, Bt!TypeOK
<1>6. Made'
    BY <1>1, <1>2, <1>3, <1>4, Numbers DEF ServiceInv, Made, Bt!NoRequest
<1>7. GoneClean' /\ (clean' => InTurn')
    BY <1>1 DEF ServiceInv, GoneClean, InTurn
<1>8. clean => reading.state \notin {"ready", "queued"}
    BY <1>1 DEF ServiceInv, Held, Bt!NoRequest
<1>9. AnswersTrue' /\ (clean' => AnswerSeen')
    BY <1>1, <1>2, <1>8 DEF ServiceInv, AnswersTrue, Bt!AnswersTrue, AnswerSeen
<1>10. ASSUME clean'
       PROVE  Held'
  <2>1. Held /\ reading' = [reading EXCEPT !.state = "queued", !.report = report] /\ request' = r0 /\ asked' = "pending"
      BY <1>1, <1>2, <1>8, <1>10 DEF ServiceInv
  <2>2. acked = Bt!NoAck /\ (\A i \in DOMAIN writes : ~writes[i].needsAck) /\ ~(btPc \in {"handle", "acknowledge"} /\ hand.needsAck)
      BY <1>1, <2>1 DEF Held, Awaited, Bt!NoRequest
  <2>3. reading'.state = "queued" /\ reading'.report = report
      BY <2>1 DEF ServiceInv, Bt!TypeOK
  <2> QED
      BY <1>1, <1>3, <1>4, <1>10, <2>1, <2>2, <2>3 DEF Held, Bt!NoRequest
<1> QED
    BY <1>5, <1>6, <1>7, <1>9, <1>10, <1>1 DEF ServiceInv

LEMMA AskAgainKeeps == ASSUME Bt!ServiceAssumption, ServiceInv, Bt!AskAgain PROVE ServiceInv'
<1> PICK w : w = [report |-> request.report, id |-> request.id, needsAck |-> TRUE]
    OBVIOUS
<1>1. /\ asked = "ready"
      /\ UNCHANGED <<link, links, clean, prepared, btPc, hand, value, made>>
    BY DEF Bt!AskAgain, Bt!loopVars
<1>2. \/ /\ request.does = "write" /\ UNCHANGED reading
         /\ \/ /\ acked.report = request.report /\ acked' = Bt!NoAck /\ writes' = writes
               /\ answer' = [request |-> request, result |-> acked.result]
               /\ request' = Bt!NoRequest /\ asked' = "none"
            \/ /\ acked.report # request.report /\ acked' = acked /\ writes' = writes
               /\ answer' = [request |-> request, result |-> Bt!Refused]
               /\ request' = Bt!NoRequest /\ asked' = "none"
            \/ /\ acked.report # request.report /\ acked' = acked
               /\ ~Bt!Full /\ writes' = Append(writes, w)
               /\ answer' = answer /\ request' = request /\ asked' = "pending"
      \/ /\ request.does = "read" /\ UNCHANGED <<writes, acked>>
         /\ \/ /\ reading.state = "ready" /\ reading' = [reading EXCEPT !.state = "serving"]
               /\ answer' = [request |-> request, result |-> reading.data]
               /\ request' = Bt!NoRequest /\ asked' = "none"
            \/ /\ reading.state # "ready" \/ reading.report # request.report
               /\ reading' = [reading EXCEPT !.state = "queued", !.report = request.report]
               /\ request' = request /\ asked' = "pending" /\ answer' = answer
    BY DEF Bt!AskAgain, Bt!WriteRequest, Bt!ReadRequest, Bt!Answer, Bt!HoldBack, Bt!QueueWrite
<1>3. link
    BY <1>1 DEF ServiceInv, GoneClean
<1>4. w \in Bt!PendingWrites /\ w.id = request.id /\ made \in 0..MaxWrites /\ made <= made
    BY Numbers DEF ServiceInv, Bt!TypeOK, Bt!Requests, Bt!PendingWrites
<1>5. /\ request' \in {Bt!NoRequest, request} /\ request'.id <= made' /\ w.id <= made'
      /\ answer'.request.id <= made'
    BY <1>1, <1>2, <1>4, Numbers DEF ServiceInv, Made, Bt!NoRequest
<1>6. /\ writes' \in Seq(Bt!PendingWrites) /\ Len(writes') <= QueueMax /\ Made'
  <2>1. CASE writes' = writes
      BY <1>1, <1>5, <2>1 DEF ServiceInv, Bt!TypeOK, Made
  <2>2. CASE writes' = Append(writes, w) /\ ~Bt!Full
    <3>1. made' \in Nat /\ made <= made'
        BY <1>1, Numbers DEF ServiceInv
    <3> QED
        BY <1>1, <1>4, <1>5, <2>2, <3>1, JoinsQueue DEF ServiceInv
  <2> QED
      BY <1>2, <2>1, <2>2
<1>7. Bt!TypeOK'
  <2>1. request' \in Bt!Requests /\ asked' \in {"none", "pending", "ready"}
      BY <1>2, <1>5, Constants DEF ServiceInv, Bt!TypeOK
  <2>2. answer' \in [request : Bt!Requests, result : 0..Bt!Refused]
    <3>1. acked.result \in 0..Bt!Refused /\ reading.data \in 0..Bt!Refused /\ Bt!Refused \in 0..Bt!Refused
        BY Constants DEF ServiceInv, Bt!TypeOK, Bt!Refused
    <3> QED
        BY <1>2, <3>1 DEF ServiceInv, Bt!TypeOK
  <2>3. acked' \in [report : Reports \union {None}, result : 0..MaxWrites]
      BY <1>2, Constants DEF ServiceInv, Bt!TypeOK
  <2>4. reading' \in [state : {"idle", "queued", "ready", "serving"},
                      report : Reports \union {None}, data : 0..MaxWrites]
      BY <1>2 DEF ServiceInv, Bt!TypeOK, Bt!Requests
  <2> QED
      BY <1>1, <1>6, <2>1, <2>2, <2>3, <2>4 DEF ServiceInv, Bt!TypeOK
<1>8. GoneClean'
    BY <1>1, <1>3 DEF GoneClean
<1>9. ASSUME clean
      PROVE  InTurn' /\ AnswerSeen' /\ AnswersTrue' /\ Held'
  <2>1. Held /\ InTurn /\ AnswerSeen
      BY <1>3, <1>9 DEF ServiceInv
  <2>2. (\A i \in DOMAIN writes : ~writes[i].needsAck) /\ ~(btPc \in {"handle", "acknowledge"} /\ hand.needsAck)
      BY <1>1, <2>1 DEF Held, Awaited
  <2>3. InTurn' /\ (btPc = "handle" => hand.id > value)
    <3>1. writes' = writes
        BY <1>1, <1>2, <2>1, Constants DEF Held
    <3>2. hand.id \in Nat /\ value \in Nat
        BY Numbers DEF ServiceInv
    <3> QED
        BY <1>1, <2>1, <3>1, <3>2 DEF InTurn
  <2>4. CASE request.does = "write"
    <3>1. /\ acked # Bt!NoAck /\ acked.report = request.report /\ acked.result = request.id
          /\ request.id <= value
        BY <1>1, <2>1, <2>4 DEF Held
    <3>2. /\ UNCHANGED <<reading, writes>> /\ acked' = Bt!NoAck /\ request' = Bt!NoRequest /\ asked' = "none"
          /\ answer' = [request |-> request, result |-> request.id]
        BY <1>2, <2>4, <3>1
    <3>3. reading.state \notin {"queued", "ready"}
        BY <2>1, <2>4 DEF Held
    <3>4. AnswerSeen' /\ AnswersTrue'
        BY <1>1, <2>3, <2>4, <3>1, <3>2 DEF AnswerSeen, AnswersTrue, Bt!AnswersTrue
    <3>5. Held'
        BY <1>1, <2>2, <3>2, <3>3 DEF Held, Bt!NoRequest
    <3> QED
        BY <2>3, <3>4, <3>5
  <2>5. CASE request.does = "read"
    <3>1. UNCHANGED <<writes, acked>> /\ acked = Bt!NoAck /\ request.id <= value
        BY <1>2, <2>1, <2>5 DEF Held
    <3>2. CASE /\ reading.state = "ready" /\ reading' = [reading EXCEPT !.state = "serving"]
               /\ answer' = [request |-> request, result |-> reading.data]
               /\ request' = Bt!NoRequest /\ asked' = "none"
      <4>1. request.id <= reading.data /\ request.id \in Nat /\ reading.data \in Nat
          BY <2>1, <3>2, Numbers, Constants DEF Held, ServiceInv, Bt!TypeOK
      <4>2. AnswerSeen' /\ AnswersTrue'
          BY <1>1, <2>3, <2>5, <3>2, <4>1 DEF AnswerSeen, AnswersTrue, Bt!AnswersTrue
      <4>3. reading'.state = "serving"
          BY <3>2 DEF ServiceInv, Bt!TypeOK
      <4>4. Held'
          BY <1>1, <2>2, <3>1, <3>2, <4>3 DEF Held, Bt!NoRequest
      <4> QED
          BY <2>3, <4>2, <4>4
    <3>3. CASE /\ reading' = [reading EXCEPT !.state = "queued", !.report = request.report]
               /\ request' = request /\ asked' = "pending" /\ answer' = answer
      <4>1. reading'.state = "queued" /\ reading'.report = request.report
          BY <3>3 DEF ServiceInv, Bt!TypeOK
      <4>2. AnswerSeen' /\ AnswersTrue'
          BY <1>1, <2>1, <3>3 DEF ServiceInv, AnswerSeen, AnswersTrue, Bt!AnswersTrue
      <4>3. Held'
          BY <1>1, <2>2, <2>5, <3>1, <3>3, <4>1 DEF Held, Bt!NoRequest
      <4> QED
          BY <2>3, <4>2, <4>3
    <3> QED
        BY <1>2, <2>5, <3>2, <3>3
  <2> QED
      BY <1>2, <2>4, <2>5
<1> QED
    BY <1>1, <1>6, <1>7, <1>8, <1>9 DEF ServiceInv, AnswersTrue, Bt!AnswersTrue

LEMMA ServiceKeepsInv == ASSUME Bt!ServiceAssumption, ServiceInv, [Bt!Next]_(Bt!vars) PROVE ServiceInv'
<1>1. CASE UNCHANGED Bt!vars
  <2>1. UNCHANGED <<link, links, clean, request, asked, answer, reading, writes, acked, prepared,
                    btPc, hand, value, made>>
      BY <1>1 DEF Bt!vars, Bt!clientVars, Bt!serviceVars, Bt!loopVars
  <2>2. Bt!TypeOK'
      BY <2>1 DEF ServiceInv, Bt!TypeOK
  <2> QED
      BY <2>1, <2>2 DEF ServiceInv, Made, InTurn, GoneClean, AnswersTrue, Bt!AnswersTrue, AnswerSeen,
         Held, Awaited
<1> QED
    BY <1>1, ConnectKeeps, DisconnectKeeps, WriteKeeps, StreamKeeps, PrepareKeeps, ReadKeeps,
       AskAgainKeeps, TakeWriteKeeps, HandleWriteKeeps, AcknowledgeKeeps, ReadsKeep, PublishKeeps
       DEF Bt!Next, Bt!Client, Bt!HandleRequests

(* Whatever comes between a request, its handling and BTstack's asking       *)
(* again, the answer is the request's own, and writes are handled in order  *)
(* and once (att_write_callback, att_read_callback,                          *)
(* bt_config_service_handle_requests).                                       *)
THEOREM AnswersAlwaysTrue == Bt!Spec => []AnswersTrue
<1>1. Bt!Init => ServiceInv
    BY ServiceBegins, ComponentsAssumption DEF ComponentsAssumption
<1>2. ServiceInv /\ [Bt!Next]_(Bt!vars) => ServiceInv'
    BY ServiceKeepsInv, ComponentsAssumption DEF ComponentsAssumption
<1>3. ServiceInv => AnswersTrue
    BY DEF ServiceInv
<1> QED
    BY <1>1, <1>2, <1>3, PTL DEF Bt!Spec
-----------------------------------------------------------------------------
(***************************************************************************)
(* The types of the other two, and all four beside each other              *)
(***************************************************************************)

Data == Seq(Fw!Block \X (1..Chunks))

FlagTypes ==
    /\ updating \in BOOLEAN /\ quiet \in BOOLEAN /\ commit \in BOOLEAN /\ resumed \in BOOLEAN
    /\ outcome \in {"none", "sha failed", "marked"}
SlotTypes == slot \in [Fw!Block -> Data] /\ \A b \in Fw!Block : Len(slot[b]) <= Chunks
ToolTypes == at \in 0..Blocks /\ sent \in 0..Chunks /\ reports \in 0..MaxMetadata

\* A buffer is full only once the update is over
BufferTypes ==
    /\ offset \in Fw!Block /\ buffer \in Data
    /\ Len(buffer) <= Chunks /\ (updating => Len(buffer) < Chunks)

UpdateBounded == FlagTypes /\ SlotTypes /\ ToolTypes /\ BufferTypes

LEMMA BoundedIsTyped == UpdateBounded => Fw!TypeOK
BY DEF UpdateBounded, FlagTypes, SlotTypes, ToolTypes, BufferTypes, Data, Fw!TypeOK

\* What is empty fits
LEMMA Empty ==
    ASSUME Fw!FirmwareAssumption
    PROVE  /\ <<>> \in Data /\ Len(<<>>) < Chunks /\ Len(<<>>) <= Chunks
           /\ 0 \in Fw!Block /\ Fw!Block \subseteq 0..Blocks
           /\ Fw!NoBlock \in 0..Blocks /\ 0 \in 0..Chunks /\ 0 \in 0..MaxMetadata
           /\ reports \in 0..MaxMetadata /\ reports < MaxMetadata => reports + 1 \in 0..MaxMetadata
<1>1. <<>> \in Data /\ Len(<<>>) = 0
    BY DEF Data
<1> QED
    BY <1>1 DEF Fw!FirmwareAssumption, Fw!Block, Fw!NoBlock

LEMMA UpdateTypesBegin == ASSUME Fw!FirmwareAssumption, Fw!Init PROVE UpdateBounded
<1>1. SlotTypes
    BY Empty DEF Fw!Init, SlotTypes
<1>2. BufferTypes /\ ToolTypes /\ FlagTypes
    BY Empty DEF Fw!Init, FlagTypes, BufferTypes, ToolTypes
<1> QED
    BY <1>1, <1>2 DEF UpdateBounded

\* A chunk the tool sends is one of the block it has leave for
LEMMA ChunkSent ==
    ASSUME Fw!FirmwareAssumption, ToolTypes, at # Fw!NoBlock, sent < Fw!Size(at)
    PROVE  at \in Fw!Block /\ sent + 1 \in 0..Chunks /\ <<at, sent + 1>> \in Fw!Block \X (1..Chunks)
<1>1. at \in Fw!Block
    BY DEF ToolTypes, Fw!Block, Fw!NoBlock, Fw!FirmwareAssumption
<1>2. Fw!Size(at) \in 1..Chunks
    BY <1>1, SizeFits
<1>3. sent + 1 \in 1..Chunks
    BY <1>2 DEF ToolTypes, Fw!FirmwareAssumption
<1> QED
    BY <1>1, <1>3 DEF Fw!FirmwareAssumption

LEMMA ChunkTypes ==
    ASSUME Fw!FirmwareAssumption, UpdateBounded, Fw!SendChunk
    PROVE  UpdateBounded'
<1> PICK data : data = Append(buffer, <<at, sent + 1>>)
    OBVIOUS
<1>1. /\ sent' = sent + 1 /\ UNCHANGED <<commit, at, reports, resumed>>
      /\ \/ UNCHANGED <<updating, quiet, offset, buffer, slot, outcome>>
         \/ /\ updating /\ quiet' = FALSE
            /\ IF Fw!Complete(offset, data)
               THEN Fw!WriteBlock(data) \/ Fw!WriteFailed(data)
               ELSE buffer' = data /\ UNCHANGED <<updating, offset, slot, outcome>>
    BY DEF Fw!SendChunk, Fw!Upload
<1>2. <<at, sent + 1>> \in Fw!Block \X (1..Chunks) /\ ToolTypes'
    BY <1>1, ChunkSent DEF UpdateBounded, ToolTypes, Fw!SendChunk
<1>3. data \in Data /\ Len(data) = Len(buffer) + 1
    BY <1>2 DEF UpdateBounded, BufferTypes, Data
<1>4. CASE UNCHANGED <<updating, quiet, offset, buffer, slot, outcome>>
    BY <1>1, <1>2, <1>4 DEF UpdateBounded, FlagTypes, SlotTypes, BufferTypes
<1>5. ASSUME updating, quiet' = FALSE, ~Fw!Complete(offset, data), buffer' = data,
             UNCHANGED <<updating, offset, slot, outcome>>
      PROVE  UpdateBounded'
  <2>1. Len(data) <= Chunks /\ Len(data) < Chunks
    <3>1. Len(buffer) \in Nat /\ Len(buffer) < Chunks /\ Chunks \in Nat
        BY <1>5 DEF UpdateBounded, BufferTypes, Data, Fw!FirmwareAssumption
    <3> QED
        BY <1>3, <1>5, <3>1 DEF Fw!Complete
  <2> QED
      BY <1>1, <1>2, <1>3, <1>5, <2>1 DEF UpdateBounded, FlagTypes, SlotTypes, BufferTypes
<1>6. ASSUME updating, quiet' = FALSE, Fw!WriteBlock(data) \/ Fw!WriteFailed(data)
      PROVE  UpdateBounded'
  <2>1. Len(data) <= Chunks
    <3>1. Len(buffer) \in Nat /\ Len(buffer) < Chunks /\ Chunks \in Nat
        BY <1>6 DEF UpdateBounded, BufferTypes, Data, Fw!FirmwareAssumption
    <3> QED
        BY <1>3, <3>1
  <2>2. SlotTypes'
    <3>1. PICK stub \in {<<>>, slot[offset], data} : slot' = [slot EXCEPT ![offset] = stub]
        BY <1>6 DEF Fw!WriteBlock, Fw!WriteFailed
    <3>2. slot[offset] \in Data /\ Len(slot[offset]) <= Chunks
        BY DEF UpdateBounded, SlotTypes, BufferTypes
    <3>3. stub \in Data /\ Len(stub) <= Chunks
        BY <1>3, <2>1, <3>1, <3>2, Empty
    <3> QED
        BY <3>1, <3>3 DEF UpdateBounded, SlotTypes
  <2>3. BufferTypes' /\ updating' \in BOOLEAN /\ outcome' \in {"none", "sha failed", "marked"}
    <3>1. CASE Fw!WriteFailed(data)
        BY <1>3, <2>1, <3>1 DEF UpdateBounded, FlagTypes, BufferTypes, Fw!WriteFailed, Fw!Finish
    <3>2. CASE Fw!WriteBlock(data) /\ offset = Blocks - 1
      <4>1. UNCHANGED <<offset, buffer>> /\ updating' = FALSE /\ outcome' \in {"sha failed", "marked"}
          BY <3>2 DEF Fw!WriteBlock, Fw!Finish, Fw!Checked
      <4> QED
          BY <4>1 DEF UpdateBounded, BufferTypes
    <3>3. CASE Fw!WriteBlock(data) /\ offset # Blocks - 1
      <4>1. offset' = offset + 1 /\ buffer' = <<>> /\ updating' = TRUE /\ outcome' = outcome
          BY <3>3 DEF Fw!WriteBlock
      <4>2. offset' \in Fw!Block
          BY <3>3, <4>1 DEF UpdateBounded, BufferTypes, Fw!Block, Fw!FirmwareAssumption
      <4> QED
          BY <4>1, <4>2, Empty DEF UpdateBounded, FlagTypes, BufferTypes
    <3> QED
        BY <1>6, <3>1, <3>2, <3>3
  <2> QED
      BY <1>1, <1>2, <1>6, <2>2, <2>3 DEF UpdateBounded, FlagTypes
<1> QED
    BY <1>1, <1>4, <1>5, <1>6

LEMMA UpdateTypesStay ==
    ASSUME Fw!FirmwareAssumption, UpdateBounded, [Fw!Next]_(Fw!vars)
    PROVE  UpdateBounded'
<1>1. FlagTypes /\ SlotTypes /\ ToolTypes /\ BufferTypes
    BY DEF UpdateBounded
<1>2. ASSUME NEW b \in Fw!Block, Fw!Metadata(b)
      PROVE  UpdateBounded'
  <2>1. /\ updating' = TRUE /\ quiet' = FALSE /\ offset' = b /\ buffer' = <<>>
        /\ outcome' = "none" /\ sent' = 0 /\ commit' = commit /\ resumed' \in BOOLEAN
        /\ at' \in {b, Fw!NoBlock} /\ reports < MaxMetadata /\ reports' = reports + 1
        /\ slot' = IF b = 0 THEN [c \in Fw!Block |-> <<>>] ELSE slot
      BY <1>1, <1>2 DEF Fw!Metadata, Fw!Accept, Fw!Touch, FlagTypes
  <2>2. SlotTypes'
      BY <1>1, <2>1, Empty DEF SlotTypes
  <2>3. ToolTypes' /\ FlagTypes' /\ BufferTypes'
      BY <1>1, <2>1, Empty DEF ToolTypes, FlagTypes, BufferTypes
  <2> QED
      BY <2>2, <2>3 DEF UpdateBounded
<1>3. CASE Fw!InitializeFailed
  <2>1. SlotTypes'
      BY <1>1, <1>3, Empty DEF SlotTypes, Fw!InitializeFailed
  <2>2. ToolTypes' /\ FlagTypes' /\ BufferTypes'
      BY <1>1, <1>3, Empty DEF ToolTypes, FlagTypes, BufferTypes, Fw!InitializeFailed
  <2> QED
      BY <2>1, <2>2 DEF UpdateBounded
<1>4. CASE Fw!InvalidMetadata \/ \E b \in Fw!Block : Fw!MetadataRefused(b)
  <2>1. /\ updating' \in {FALSE, updating} /\ at' = Fw!NoBlock /\ sent' = 0
        /\ reports < MaxMetadata /\ reports' = reports + 1
        /\ UNCHANGED <<quiet, offset, buffer, slot, outcome, commit, resumed>>
      BY <1>4 DEF Fw!InvalidMetadata, Fw!MetadataRefused, Fw!deviceVars
  <2>2. SlotTypes'
      BY <1>1, <2>1 DEF SlotTypes
  <2>3. ToolTypes'
      BY <1>1, <2>1, Empty DEF ToolTypes
  <2>4. FlagTypes'
      BY <1>1, <2>1, Zenon DEF FlagTypes
  <2>5. offset' \in Fw!Block /\ buffer' \in Data /\ Len(buffer') <= Chunks
        /\ (updating => Len(buffer') < Chunks)
      BY <1>1, <2>1 DEF BufferTypes
  <2>6. updating' => updating
      BY <1>1, <2>1, Zenon DEF FlagTypes
  <2>7. BufferTypes'
      BY <2>5, <2>6, Zenon DEF BufferTypes
  <2> QED
      BY <2>2, <2>3, <2>4, <2>7 DEF UpdateBounded
<1>5. CASE Fw!SendChunk
    BY <1>5, ChunkTypes
<1>6. CASE Fw!ChunkLost
  <2>1. sent' = sent + 1 /\ UNCHANGED <<updating, quiet, offset, buffer, slot, outcome, commit, at, reports, resumed>>
      BY <1>6 DEF Fw!ChunkLost, Fw!deviceVars
  <2>2. ToolTypes'
      BY <1>1, <1>6, <2>1, ChunkSent DEF Fw!ChunkLost, ToolTypes
  <2>3. SlotTypes' /\ FlagTypes' /\ BufferTypes'
      BY <1>1, <2>1 DEF SlotTypes, FlagTypes, BufferTypes
  <2> QED
      BY <2>2, <2>3 DEF UpdateBounded
<1>7. CASE Fw!Timeout \/ Fw!RequestCommit \/ Fw!Tick \/ Fw!TimePasses \/ UNCHANGED Fw!vars
  <2>1. /\ UNCHANGED <<offset, buffer, slot, outcome, at, sent, reports, resumed>>
        /\ updating' \in {FALSE, updating} /\ quiet' \in {TRUE, quiet} /\ commit' \in {TRUE, FALSE, commit}
      BY <1>7 DEF Fw!Timeout, Fw!Finish, Fw!RequestCommit, Fw!Tick, Fw!TimePasses, Fw!vars,
                 Fw!deviceVars, Fw!toolVars
  <2>2. SlotTypes'
      BY <1>1, <2>1 DEF SlotTypes
  <2>3. ToolTypes'
      BY <1>1, <2>1 DEF ToolTypes
  <2>4. FlagTypes'
      BY <1>1, <2>1, Zenon DEF FlagTypes
  <2>5. offset' \in Fw!Block /\ buffer' \in Data /\ Len(buffer') <= Chunks
        /\ (updating => Len(buffer') < Chunks)
      BY <1>1, <2>1 DEF BufferTypes
  <2>6. updating' => updating
      BY <1>1, <2>1, Zenon DEF FlagTypes
  <2>7. BufferTypes'
      BY <2>5, <2>6, Zenon DEF BufferTypes
  <2> QED
      BY <2>2, <2>3, <2>4, <2>7 DEF UpdateBounded
<1> QED
    BY <1>2, <1>3, <1>4, <1>5, <1>6, <1>7 DEF Fw!Next, Fw!Tool

LEMMA WatchTypesBegin == ASSUME Watch!WatchAssumption, Watch!Init PROVE Watch!TypeOK
<1>1. 0 \in Watch!Time /\ 1 \in Watch!Time /\ 0 \in 0..Settle + 1 /\ 0 \in 0..Absent /\ Moves \in 0..Moves
    BY DEF Watch!WatchAssumption, Watch!Time
<1> QED
    BY <1>1 DEF Watch!Init, Watch!TypeOK

LEMMA WatchTypesStay ==
    ASSUME Watch!WatchAssumption, Watch!TypeOK, [Watch!Next]_(Watch!vars)
    PROVE  Watch!TypeOK'
<1> USE DEF Watch!TypeOK, Watch!WatchAssumption, Watch!worldVars, Watch!gateVars, Watch!presenceVars,
            Watch!loadVars
<1>1. 0 \in Watch!Time /\ (left > 0 => left - 1 \in 0..Moves)
    BY DEF Watch!Time
<1>2. CASE Watch!World
    BY <1>1, <1>2 DEF Watch!World, Watch!Plug, Watch!Host, Watch!BeginUpload, Watch!EndUpload,
                      Watch!Move, Watch!ScheduledAt
<1>3. ASSUME NEW lag \in 0..MaxLag, Watch!Pass(lag)
      PROVE  Watch!TypeOK'
  <2>1. now' \in Watch!Time
      BY <1>3 DEF Watch!Pass, Watch!Time
  <2>2. unseen' \in 0..Absent
      BY <1>3 DEF Watch!Pass
  <2>3. hostSeen' \in BOOLEAN /\ raw' \in BOOLEAN /\ dropped' \in BOOLEAN
      BY <1>3 DEF Watch!Pass
  <2>4. rawSince' \in Watch!Time /\ reinitTime' \in Watch!Time /\ present' \in BOOLEAN
      BY <1>3, <2>1, <2>3 DEF Watch!Pass, Watch!ScheduledAt
  <2> QED
      BY <1>3, <2>1, <2>2, <2>3, <2>4 DEF Watch!Pass
<1>4. CASE Watch!Poll
  <2>1. differs' \in 0..Settle + 1
      BY <1>4 DEF Watch!Poll
  <2>2. changing' \in BOOLEAN /\ changedSince' \in Watch!Time /\ reloadDue' \in BOOLEAN
      BY <1>4 DEF Watch!Poll, Watch!UpdateGate
  <2> QED
      BY <1>4, <2>1, <2>2 DEF Watch!Poll, Watch!ScheduledAt
<1>5. CASE Watch!NotDue \/ Watch!BeginLoad \/ Watch!LoadUnreadable \/ Watch!Build
  <2>1. /\ now' = now /\ changedSince' = changedSince /\ rawSince' = rawSince
        /\ reinitTime' \in {0, reinitTime} /\ differs' \in {0, differs} /\ unseen' = unseen
        /\ left' \in {left, left - 1} /\ (left' # left => left > 0)
        /\ watchPc' \in {"presence", "load"}
      BY <1>5 DEF Watch!NotDue, Watch!BeginLoad, Watch!LoadUnreadable, Watch!Build, Watch!Move
  <2>2. CASE Watch!NotDue
      BY <2>1, <2>2 DEF Watch!NotDue
  <2>3. CASE Watch!BeginLoad
    <3>1. /\ open' = pin /\ changing' = FALSE /\ reloadDue' = FALSE /\ dropped' = FALSE
          /\ UNCHANGED <<pin, built, host, vbus, hostSeen, raw, present, used, working>>
          /\ watchPc' = "load" /\ reinitTime' = 0 /\ differs' = 0
          /\ UNCHANGED <<now, changedSince, rawSince, unseen, left>>
        BY <2>3 DEF Watch!BeginLoad, Watch!ForgetReadings
    <3>2. pin \in BOOLEAN
        OBVIOUS
    <3>3. \A b \in {pin', open', changing', reloadDue', built', host', vbus', hostSeen', raw',
                    present', used', working', dropped'} : b \in BOOLEAN
        BY <3>1, <3>2
    <3> QED
        BY <1>1, <3>1, <3>3
  <2>4. CASE Watch!LoadUnreadable
      BY <1>1, <2>1, <2>4 DEF Watch!LoadUnreadable, Watch!Move
  <2>5. CASE Watch!Build
      BY <2>1, <2>5 DEF Watch!Build, Watch!Check
  <2> QED
      BY <1>5, <2>2, <2>3, <2>4, <2>5
<1>6. CASE UNCHANGED Watch!vars
    BY <1>6 DEF Watch!vars
<1> QED
    BY <1>2, <1>3, <1>4, <1>5, <1>6 DEF Watch!Next, Watch!Loop

(* Each component's variables keep their types and bounds, whatever the     *)
(* others are doing: the queue of writes, the buffer of a block and the     *)
(* stored times among them (s_writes, fw_update_tmp, millis()).             *)
THEOREM TypesAlwaysOK == PartsSpec => []TypesOK
<1> DEFINE AllInv == SofInv /\ ServiceInv /\ UpdateBounded /\ Watch!TypeOK
           all == <<part, vars, btVars, fwVars, watchVars>>
<1> USE ComponentsAssumption DEF ComponentsAssumption
<1>1. PartsInit => AllInv
    BY SofBegins, ServiceBegins, UpdateTypesBegin, WatchTypesBegin DEF PartsInit
<1>2. AllInv /\ [PartsNext]_all => AllInv'
  <2> SUFFICES ASSUME AllInv, [PartsNext]_all
               PROVE  AllInv'
      OBVIOUS
  <2>1. [Next]_vars /\ [Bt!Next]_(Bt!vars) /\ [Fw!Next]_(Fw!vars) /\ [Watch!Next]_(Watch!vars)
      BY DEF PartsNext, btVars, fwVars, watchVars, Bt!vars, Bt!clientVars, Bt!serviceVars, Bt!loopVars,
             Fw!vars, Fw!deviceVars, Fw!toolVars, Watch!vars, Watch!worldVars, Watch!gateVars,
             Watch!presenceVars, Watch!loadVars
  <2> QED
      BY <2>1, SofStays, ServiceKeepsInv, UpdateTypesStay, WatchTypesStay
<1>3. AllInv => TypesOK
    BY BoundedIsTyped DEF SofInv, ServiceInv, TypesOK
<1> QED
    BY <1>1, <1>2, <1>3, PTL DEF PartsSpec

-----------------------------------------------------------------------------
(***************************************************************************)
(* DeviceWatch: what only bounced.  How long ago a reading changed, on a   *)
(* clock that wraps, is never more than the passes since account for       *)
(***************************************************************************)

LEMMA Wraps ==
    ASSUME NEW range \in Nat \ {0}, NEW t \in 0..range - 1
    PROVE  t % range = t /\ (t + range) % range = t /\ (t - range) % range = t
    OBVIOUS

LEMMA OneMore ==
    ASSUME NEW n \in Nat, NEW lag \in Nat
    PROVE  n * lag \in Nat /\ (n + 1) * lag = n * lag + lag
    OBVIOUS

LEMMA SinceNat ==
    ASSUME NEW range \in Nat \ {0}, NEW t \in 0..range - 1, NEW from \in 0..range - 1
    PROVE  (t - from) % range \in Nat
<1>1. t - from \in Int
    OBVIOUS
<1>2. \A u \in Int : u % range \in 0..range - 1
    OBVIOUS
<1> QED
    BY <1>1, <1>2

LEMMA NoneSince ==
    ASSUME NEW range \in Nat \ {0}, NEW t \in 0..range - 1
    PROVE  (t - t) % range = 0
<1>1. t - t = 0 /\ 0 \in 0..range - 1
    OBVIOUS
<1> QED
    BY <1>1, Wraps

\* A pass adds no more than its lag to what has passed since
LEMMA SinceGrows ==
    ASSUME NEW range \in Nat \ {0}, NEW lag \in Nat, lag < range,
           NEW t \in 0..range - 1, NEW from \in 0..range - 1
    PROVE  /\ (t - from) % range \in Nat
           /\ (((t + lag) % range) - from) % range <= ((t - from) % range) + lag
<1> DEFINE to == (t + lag) % range
<1>1. to = IF t + lag < range THEN t + lag ELSE t + lag - range
  <2>1. CASE t + lag < range
      BY <2>1, Wraps
  <2>2. CASE t + lag >= range
    <3>1. t + lag - range \in 0..range - 1 /\ (t + lag - range) + range = t + lag
        BY <2>2
    <3>2. (t + lag) % range = t + lag - range
        BY <3>1, Wraps
    <3> QED
        BY <2>2, <3>2
  <2> QED
      BY <2>1, <2>2
<1>2. to \in 0..range - 1
    BY <1>1
<1> HIDE DEF to
<1>3. ASSUME NEW u \in 0..range - 1
      PROVE  (u - from) % range = IF from <= u THEN u - from ELSE u - from + range
  <2>1. CASE from <= u
    <3>1. u - from \in 0..range - 1
        BY <2>1
    <3> QED
        BY <2>1, <3>1, Wraps
  <2>2. CASE from > u
    <3>1. u - from + range \in 0..range - 1 /\ (u - from + range) - range = u - from
        BY <2>2
    <3>2. (u - from) % range = u - from + range
        BY <3>1, Wraps
    <3> QED
        BY <2>2, <3>2
  <2> QED
      BY <2>1, <2>2
<1>4. /\ (t - from) % range = IF from <= t THEN t - from ELSE t - from + range
      /\ (to - from) % range = IF from <= to THEN to - from ELSE to - from + range
    BY <1>2, <1>3
<1>5. (t - from) % range \in Nat /\ (to - from) % range <= ((t - from) % range) + lag
    BY <1>1, <1>2, <1>4
<1> QED
    BY <1>5 DEF to

\* Every look at the pin accounts for one pass, and a host that isn't seen for all the time
ElapsedInv ==
    /\ changing /\ ~reloadDue /\ differs <= Settle =>
           Watch!Since(changedSince) + (IF watchPc = "gates" THEN 0 ELSE MaxLag) <= differs * MaxLag
    /\ ~raw /\ unseen # Absent => Watch!Since(rawSince) <= unseen

LEMMA WatchNumbers ==
    ASSUME Watch!WatchAssumption, Watch!TypeOK
    PROVE  /\ Wrap \in Nat \ {0} /\ MaxLag \in Nat \ {0} /\ MaxLag < Wrap /\ Settle \in Nat \ {0}
           /\ Absent \in Nat /\ NoVbus <= Absent /\ NoVbus \in Nat
           /\ now \in 0..Wrap - 1 /\ changedSince \in 0..Wrap - 1 /\ rawSince \in 0..Wrap - 1
           /\ differs \in 0..Settle + 1 /\ unseen \in 0..Absent
    BY DEF Watch!WatchAssumption, Watch!TypeOK, Watch!Time

\* A pass of the clock, and what it finds of the host
LEMMA PassKeepsElapsed ==
    ASSUME Watch!WatchAssumption, Watch!TypeOK, ElapsedInv, NEW lag \in 0..MaxLag, Watch!Pass(lag)
    PROVE  /\ ElapsedInv' /\ reloadDue' = reloadDue
           /\ present /\ ~present' => unseen' >= IF Watch!NoHost THEN NoVbus ELSE Absent
<1>0. hostSeen' \in BOOLEAN /\ raw \in BOOLEAN
    BY DEF Watch!Pass, Watch!TypeOK
<1>1. /\ watchPc = "presence" /\ watchPc' = "gates" /\ now' = (now + lag) % Wrap
      /\ UNCHANGED <<changing, changedSince, reloadDue, differs>>
    BY DEF Watch!Pass, Watch!gateVars
<1>2. /\ unseen' = CASE hostSeen' -> 0 [] unseen + lag > Absent -> Absent [] OTHER -> unseen + lag
      /\ raw' = hostSeen' /\ rawSince' = IF hostSeen' # raw THEN now' ELSE rawSince
    BY DEF Watch!Pass
<1>3. /\ Wrap \in Nat \ {0} /\ MaxLag \in Nat \ {0} /\ MaxLag < Wrap /\ lag \in Nat /\ lag <= MaxLag
      /\ Absent \in Nat /\ NoVbus <= Absent /\ NoVbus \in Nat
      /\ now \in 0..Wrap - 1 /\ changedSince \in 0..Wrap - 1 /\ rawSince \in 0..Wrap - 1
      /\ differs \in Nat /\ unseen \in 0..Absent
    BY WatchNumbers
<1>4. now' \in 0..Wrap - 1
    BY <1>1, <1>3
<1>5. \A from \in 0..Wrap - 1 :
          (now - from) % Wrap \in Nat /\ (now' - from) % Wrap <= ((now - from) % Wrap) + lag
    BY <1>1, <1>3, SinceGrows
<1>6. ASSUME changing, ~reloadDue, differs <= Settle
      PROVE  (now' - changedSince) % Wrap <= differs * MaxLag
  <2>1. ((now - changedSince) % Wrap) + MaxLag <= differs * MaxLag
      BY <1>1, <1>6 DEF ElapsedInv, Watch!Since
  <2>2. differs * MaxLag \in Nat
      BY <1>3, OneMore
  <2>3. (now' - changedSince) % Wrap \in Nat
      BY <1>3, <1>4, SinceNat
  <2>4. /\ (now - changedSince) % Wrap \in Nat
        /\ (now' - changedSince) % Wrap <= ((now - changedSince) % Wrap) + lag
      BY <1>3, <1>5
  <2> QED
      BY <1>3, <2>1, <2>2, <2>3, <2>4
<1>7. ASSUME ~raw', unseen' # Absent
      PROVE  (now' - rawSince') % Wrap <= unseen'
  <2>1. unseen + lag <= Absent /\ unseen' = unseen + lag /\ ~hostSeen'
      BY <1>2, <1>3, <1>7
  <2>2. CASE raw
    <3>0. rawSince' = now'
        BY <1>2, <2>1, <2>2
    <3>1. (now' - now') % Wrap = 0
        BY <1>3, <1>4, NoneSince
    <3> QED
        BY <1>3, <2>1, <3>0, <3>1
  <2>3. CASE ~raw
    <3>1. rawSince' = rawSince
        BY <1>0, <1>2, <2>1, <2>3
    <3>2. unseen # Absent \/ lag = 0
        BY <1>3, <2>1
    <3>3. unseen # Absent
        BY <1>3, <1>7, <2>1, <3>2
    <3>4. (now - rawSince) % Wrap <= unseen
        BY <2>3, <3>3 DEF ElapsedInv, Watch!Since
    <3>5. /\ (now - rawSince) % Wrap \in Nat
          /\ (now' - rawSince) % Wrap <= ((now - rawSince) % Wrap) + lag
        BY <1>3, <1>5
    <3>6. (now' - rawSince) % Wrap \in Nat
        BY <1>3, <1>4, SinceNat
    <3> QED
        BY <1>3, <2>1, <3>1, <3>4, <3>5, <3>6
  <2> QED
      BY <2>2, <2>3
<1>8. ElapsedInv'
  <2>1. (now' - changedSince) % Wrap \in Nat
      BY <1>3, <1>4, SinceNat
  <2>2. changing' /\ ~reloadDue' /\ differs' <= Settle =>
            Watch!Since(changedSince)' + 0 <= differs' * MaxLag
      BY <1>1, <1>6, <2>1 DEF Watch!Since
  <2> QED
      BY <1>1, <1>7, <2>2 DEF ElapsedInv, Watch!Since
<1>9. ASSUME present, ~present'
      PROVE  unseen' >= IF Watch!NoHost THEN NoVbus ELSE Absent
  <2>1. ~(raw' = present \/ Watch!GoneBriefly)
      BY <1>9 DEF Watch!Pass
  <2>2. ~raw'
      BY <1>9 DEF Watch!Pass
  <2>3. ~((now' - rawSince') % Wrap < IF Watch!NoHost THEN NoVbus ELSE Absent)
      BY <2>1, <2>2 DEF Watch!GoneBriefly
  <2>4. rawSince' \in 0..Wrap - 1
      BY <1>2, <1>3, <1>4
  <2>5. (now' - rawSince') % Wrap \in Nat
      BY <1>3, <1>4, <2>4, SinceNat
  <2>6. unseen' \in 0..Absent
      BY <1>2, <1>3
  <2>7. unseen' = Absent \/ (now' - rawSince') % Wrap <= unseen'
      BY <1>7, <2>2
  <2>8. CASE Watch!NoHost
      BY <1>3, <2>3, <2>5, <2>6, <2>7, <2>8
  <2>9. CASE ~Watch!NoHost
      BY <1>3, <2>3, <2>5, <2>6, <2>7, <2>9
  <2> QED
      BY <2>8, <2>9
<1> QED
    BY <1>1, <1>8, <1>9

\* A look at the pin
LEMMA PollKeepsElapsed ==
    ASSUME Watch!WatchAssumption, Watch!TypeOK, ElapsedInv, Watch!Poll
    PROVE  /\ ElapsedInv' /\ present' = present
           /\ reloadDue' /\ ~reloadDue => differs' * MaxLag > Settle
<1>1. /\ watchPc = "gates" /\ watchPc' = "reload"
      /\ UNCHANGED <<now, raw, rawSince, present, unseen>>
    BY DEF Watch!Poll, Watch!presenceVars
<1>2. /\ Wrap \in Nat \ {0} /\ MaxLag \in Nat \ {0} /\ Settle \in Nat \ {0}
      /\ now \in 0..Wrap - 1 /\ changedSince \in 0..Wrap - 1
      /\ differs \in 0..Settle + 1
    BY WatchNumbers
<1>3. ~raw' /\ unseen' # Absent => Watch!Since(rawSince)' <= unseen'
    BY <1>1 DEF ElapsedInv, Watch!Since
<1>4. CASE reloadDue
  <2>1. reloadDue' = reloadDue
      BY <1>4 DEF Watch!Poll, Watch!gateVars
  <2> QED
      BY <1>1, <1>3, <1>4, <2>1 DEF ElapsedInv
<1>5. CASE ~reloadDue
  <2>1. /\ changing' = (pin # open)
        /\ changedSince' = IF pin # open /\ ~changing THEN now ELSE changedSince
        /\ reloadDue' = (pin # open /\ (now - changedSince') % Wrap >= Settle)
        /\ differs' = IF pin # open THEN (IF differs <= Settle THEN differs + 1 ELSE differs) ELSE 0
      BY <1>1, <1>5 DEF Watch!Poll, Watch!UpdateGate, Watch!Since
  <2>2. changedSince' \in 0..Wrap - 1
      BY <1>2, <2>1
  <2>3. (now - changedSince') % Wrap \in Nat
      BY <1>2, <2>2, SinceNat
  <2>4. ASSUME pin # open, differs <= Settle
        PROVE  ((now - changedSince') % Wrap) + MaxLag <= differs' * MaxLag
    <3>1. differs' = differs + 1 /\ differs \in Nat
        BY <1>2, <2>1, <2>4
    <3>2. differs' * MaxLag = differs * MaxLag + MaxLag /\ differs * MaxLag \in Nat
        BY <1>2, <3>1, OneMore
    <3>3. (now - changedSince') % Wrap <= differs * MaxLag
      <4>1. CASE changing
        <5>1. changedSince' = changedSince
            BY <2>1, <4>1
        <5>2. Watch!Since(changedSince) + 0 <= differs * MaxLag
            BY <1>1, <1>5, <2>4, <4>1 DEF ElapsedInv
        <5> QED
            BY <2>3, <5>1, <5>2 DEF Watch!Since
      <4>2. CASE ~changing
        <5>1. changedSince' = now /\ now - now = 0
            BY <1>2, <2>1, <2>4, <4>2
        <5>2. 0 % Wrap = 0
            BY <1>2, Wraps
        <5> QED
            BY <3>2, <5>1, <5>2
      <4> QED
          BY <4>1, <4>2
    <3> QED
        BY <1>2, <2>3, <3>2, <3>3
  <2>5. ASSUME reloadDue'
        PROVE  differs' * MaxLag > Settle
    <3>1. pin # open /\ (now - changedSince') % Wrap >= Settle
        BY <2>1, <2>5
    <3>2. CASE differs <= Settle
      <4>1. ((now - changedSince') % Wrap) + MaxLag <= differs' * MaxLag
          BY <2>4, <3>1, <3>2
      <4>2. differs' \in Nat
          BY <1>2, <2>1
      <4>3. differs' * MaxLag \in Nat
          BY <1>2, <4>2, OneMore
      <4> QED
          BY <1>2, <2>3, <3>1, <4>1, <4>3
    <3>3. CASE differs > Settle
      <4>1. differs' = Settle + 1
          BY <1>2, <2>1, <3>1, <3>3
      <4>2. (Settle + 1) * MaxLag > Settle
          BY <1>2
      <4> QED
          BY <4>1, <4>2
    <3> QED
        BY <1>2, <3>2, <3>3
  <2>6. ASSUME changing', ~reloadDue', differs' <= Settle
        PROVE  Watch!Since(changedSince)' + MaxLag <= differs' * MaxLag
    <3>1. pin # open /\ differs <= Settle
        BY <1>2, <2>1, <2>6
    <3> QED
        BY <1>1, <2>4, <3>1 DEF Watch!Since
  <2>7. ElapsedInv'
      BY <1>1, <1>3, <2>6 DEF ElapsedInv
  <2> QED
      BY <1>1, <2>5, <2>7
<1> QED
    BY <1>4, <1>5

\* Nothing else moves the clock, or looks at the pin or the bus
LEMMA OthersKeepElapsed ==
    ASSUME ElapsedInv,
           \/ Watch!World \/ Watch!NotDue \/ Watch!BeginLoad \/ Watch!LoadUnreadable \/ Watch!Build
           \/ UNCHANGED Watch!vars
    PROVE  ElapsedInv' /\ present' = present /\ (reloadDue' => reloadDue)
<1>1. /\ UNCHANGED <<now, changedSince, raw, rawSince, present, unseen>>
      /\ \/ ~changing' /\ ~reloadDue'
         \/ /\ UNCHANGED <<changing, reloadDue, differs>>
            /\ watchPc' = watchPc \/ (watchPc # "gates" /\ watchPc' # "gates")
  <2>1. CASE Watch!World
      BY <2>1 DEF Watch!World, Watch!Plug, Watch!Host, Watch!BeginUpload, Watch!EndUpload,
                  Watch!gateVars, Watch!presenceVars
  <2>2. CASE Watch!BeginLoad
      BY <2>2 DEF Watch!BeginLoad, Watch!ForgetReadings, Watch!presenceVars
  <2>3. CASE Watch!NotDue \/ Watch!LoadUnreadable \/ Watch!Build
      BY <2>3 DEF Watch!NotDue, Watch!LoadUnreadable, Watch!Build, Watch!gateVars, Watch!presenceVars
  <2>4. CASE UNCHANGED Watch!vars
      BY <2>4 DEF Watch!vars, Watch!gateVars, Watch!presenceVars
  <2> QED
      BY <2>1, <2>2, <2>3, <2>4
<1>2. Watch!Since(rawSince)' = Watch!Since(rawSince) /\ Watch!Since(changedSince)' = Watch!Since(changedSince)
    BY <1>1 DEF Watch!Since
<1> QED
    BY <1>1, <1>2 DEF ElapsedInv

(* A pin that only bounced and a host that isn't seen for a moment only      *)
(* don't have the config loaded, for any times, lags and range of the clock  *)
(* that has room for them (DeviceGateState::update, UsbHostPresence).        *)
THEOREM OnlySettledAlwaysReload == Watch!Spec => OnlySettledReloads
<1> DEFINE WatchInv == Watch!TypeOK /\ ElapsedInv
           Settled ==
               /\ reloadDue' /\ ~reloadDue => differs' * MaxLag > Settle
               /\ present /\ ~present' => unseen' >= IF Watch!NoHost THEN NoVbus ELSE Absent
<1> USE ComponentsAssumption DEF ComponentsAssumption
<1>1. Watch!Init => WatchInv
  <2>1. Watch!Init => ~changing /\ raw
      BY DEF Watch!Init
  <2> QED
      BY <2>1, WatchTypesBegin DEF ElapsedInv
<1>2. WatchInv /\ [Watch!Next]_(Watch!vars) => WatchInv' /\ Settled
  <2> SUFFICES ASSUME WatchInv, [Watch!Next]_(Watch!vars)
               PROVE  WatchInv' /\ Settled
      OBVIOUS
  <2>1. Watch!TypeOK'
      BY WatchTypesStay
  <2>2. ElapsedInv' /\ Settled
    <3>1. CASE \E lag \in 0..MaxLag : Watch!Pass(lag)
        BY <3>1, PassKeepsElapsed
    <3>2. CASE Watch!Poll
        BY <3>2, PollKeepsElapsed
    <3>3. CASE \/ Watch!World \/ Watch!NotDue \/ Watch!BeginLoad \/ Watch!LoadUnreadable \/ Watch!Build
               \/ UNCHANGED Watch!vars
        BY <3>3, OthersKeepElapsed
    <3> QED
        BY <3>1, <3>2, <3>3 DEF Watch!Next, Watch!Loop
  <2> QED
      BY <2>1, <2>2
<1>3. (Watch!Spec => [][Settled]_(Watch!vars)) => (Watch!Spec => OnlySettledReloads)
    BY DEF OnlySettledReloads, Watch!OnlySettledReloads
<1> QED
    BY <1>1, <1>2, <1>3, PTL DEF Watch!Spec

-----------------------------------------------------------------------------
(***************************************************************************)
(* What is waited for is on its way: the safe halves of LoadsCatchUp and   *)
(* RequestsEnd.  No order of steps leaves the device with a config that    *)
(* nothing will load, or a client with a response nothing will make ready; *)
(* that what is on its way arrives takes fairness, and is the run's.       *)
(***************************************************************************)

\* A reload is asked for, or the config is being loaded
Scheduled == reinitTime # 0 \/ watchPc = "load"

\* Unless a reload was dropped, one is only waited for when one is scheduled, and
\* not ahead of the clock
CatchInv ==
    /\ ~dropped => /\ ~Scheduled => open = built /\ used = present /\ ~reloadDue
                   /\ reinitTime <= now
    /\ watchPc = "load" => ~reloadDue

(* What was plugged in or out, or the host that came or went, and wasn't     *)
(* loaded has a reload scheduled that comes due, or a gate that still counts *)
(* how long its pin reads otherwise                                          *)
NothingForgotten ==
    (pin # built \/ present # used) /\ ~dropped =>
        \/ Scheduled /\ reinitTime <= now
        \/ pin # open /\ ~reloadDue

\* A step of the watch, of the loop or of the world
LEMMA WatchCatches ==
    ASSUME Watch!WatchAssumption, Watch!TypeOK, CatchInv, [Watch!Next]_(Watch!vars)
    PROVE  CatchInv'
<1> USE DEF CatchInv, Scheduled
<1>1. now \in Nat /\ reinitTime \in Nat /\ dropped \in BOOLEAN
    BY DEF Watch!TypeOK, Watch!Time, Watch!WatchAssumption
<1>2. CASE Watch!Plug \/ Watch!Host \/ Watch!BeginUpload \/ Watch!NotDue \/ UNCHANGED Watch!vars
  <2>1. /\ UNCHANGED <<now, open, reloadDue, built, used, present, reinitTime, dropped>>
        /\ \/ watchPc' = watchPc
           \/ watchPc # "load" /\ watchPc' # "load"
      BY <1>2 DEF Watch!Plug, Watch!Host, Watch!BeginUpload, Watch!NotDue, Watch!vars, Watch!gateVars,
                  Watch!presenceVars, Watch!loadVars
  <2> QED
      BY <2>1
<1>3. CASE Watch!EndUpload
  <2>1. /\ watchPc = "presence" /\ UNCHANGED <<watchPc, now, open, reloadDue, built, used, present>>
        /\ reinitTime' \in {now, reinitTime}
      BY <1>3 DEF Watch!EndUpload, Watch!ScheduledAt, Watch!gateVars, Watch!presenceVars, Watch!loadVars
  <2>2. ~dropped' => ~dropped /\ now # 0
      BY <1>3, Zenon DEF Watch!EndUpload
  <2> QED
      BY <1>1, <2>1, <2>2
<1>4. ASSUME NEW lag \in 0..MaxLag, Watch!Pass(lag)
      PROVE  CatchInv'
  <2>1. now' \in Nat
      BY <1>1, <1>4 DEF Watch!Pass, Watch!WatchAssumption
  <2>2. /\ watchPc = "presence" /\ watchPc' = "gates" /\ UNCHANGED <<open, reloadDue, built, used>>
        /\ \/ UNCHANGED <<present, reinitTime>>
           \/ present' # present /\ reinitTime' = now'
      BY <1>4 DEF Watch!Pass, Watch!ScheduledAt, Watch!gateVars, Watch!loadVars
  <2>3. ~dropped' => ~dropped /\ ~(now' < now /\ reinitTime # 0) /\ ~(now' = 0 /\ present' # present)
      BY <1>4, Zenon DEF Watch!Pass
  <2> QED
      BY <1>1, <2>1, <2>2, <2>3
<1>5. CASE Watch!Poll
  <2>1. /\ watchPc' = "reload" /\ watchPc = "gates"
        /\ UNCHANGED <<now, open, built, used, present>>
        /\ \/ reloadDue /\ UNCHANGED <<reloadDue, reinitTime, dropped>>
           \/ reloadDue' /\ reinitTime' = now /\ (~dropped' => ~dropped /\ now # 0)
           \/ ~reloadDue /\ ~reloadDue' /\ UNCHANGED reinitTime /\ dropped' = dropped
    <3>1. CASE reloadDue
        BY <1>5, <3>1 DEF Watch!Poll, Watch!gateVars, Watch!presenceVars, Watch!loadVars
    <3>2. CASE ~reloadDue
      <4>1. /\ reloadDue' /\ ~dropped' => ~dropped /\ now # 0
            /\ ~reloadDue' => dropped' = dropped
          BY <1>1, <1>5, <3>2, Zenon DEF Watch!Poll
      <4>2. IF reloadDue' THEN reinitTime' = now ELSE UNCHANGED reinitTime
          BY <1>5, <3>2 DEF Watch!Poll, Watch!ScheduledAt
      <4> QED
          BY <1>5, <3>2, <4>1, <4>2 DEF Watch!Poll, Watch!presenceVars, Watch!loadVars
    <3> QED
        BY <3>1, <3>2
  <2> QED
      BY <1>1, <2>1
<1>6. CASE Watch!BeginLoad \/ Watch!LoadUnreadable
    BY <1>1, <1>6 DEF Watch!BeginLoad, Watch!LoadUnreadable, Watch!ForgetReadings
<1>7. CASE Watch!Build
    BY <1>1, <1>7 DEF Watch!Build, Watch!Check, Watch!gateVars, Watch!presenceVars
<1> QED
    BY <1>2, <1>3, <1>4, <1>5, <1>6, <1>7 DEF Watch!Next, Watch!World, Watch!Loop

(* Whatever bounces, comes and goes between the passes of the loop and the   *)
(* two over the config, and while a config is uploaded, no change is left    *)
(* that neither a reload nor a gate remembers - unless a reload was dropped  *)
(* (m_reload_due, DeviceGates::clear, should_reinit)                         *)
THEOREM ChangesNeverForgotten == Watch!Spec => []NothingForgotten
<1> DEFINE WatchInv == Watch!TypeOK /\ CatchInv
<1> USE ComponentsAssumption DEF ComponentsAssumption
<1>1. Watch!Init => WatchInv
  <2>1. Watch!Init => CatchInv
      BY DEF Watch!Init, CatchInv, Scheduled
  <2> QED
      BY <2>1, WatchTypesBegin
<1>2. WatchInv /\ [Watch!Next]_(Watch!vars) => WatchInv'
    BY WatchTypesStay, WatchCatches
<1>3. WatchInv => NothingForgotten
  <2> SUFFICES ASSUME Watch!TypeOK, CatchInv, pin # built \/ present # used, ~dropped
               PROVE  (Scheduled /\ reinitTime <= now) \/ (pin # open /\ ~reloadDue)
      BY DEF NothingForgotten
  <2> QED
      BY DEF CatchInv
<1> QED
    BY <1>1, <1>2, <1>3, PTL DEF Watch!Spec

-----------------------------------------------------------------------------
\* The request that is waited for, among the writes
Waits(w) == w.needsAck /\ w.report = request.report /\ w.id = request.id

WriteComing ==
    /\ request.does = "write"
    /\ \/ \E i \in DOMAIN writes : Waits(writes[i])
       \/ btPc \in {"handle", "acknowledge"} /\ Waits(hand)

ReadComing == request.does = "read" /\ reading.state = "queued" /\ reading.report = request.report

(* A client's request has its response ready to be asked for, or is a write  *)
(* that is queued or in hand and will be acknowledged, or a read that the    *)
(* main loop will pick                                                       *)
RequestComes == request # Bt!NoRequest => asked = "ready" \/ WriteComing \/ ReadComing

RequestInv ==
    /\ request = Bt!NoRequest <=> asked = "none"
    /\ request.does = "nothing" <=> request = Bt!NoRequest
    /\ asked = "pending" => WriteComing \/ ReadComing
    /\ btPc = "acknowledge" => hand.needsAck

\* What is queued stays queued when another write joins, and that is the last one
LEMMA WaitingGrows ==
    ASSUME Bt!TypeOK, NEW w \in Bt!PendingWrites
    PROVE  /\ \A i \in DOMAIN writes : i \in DOMAIN Append(writes, w) /\ Append(writes, w)[i] = writes[i]
           /\ Len(writes) + 1 \in DOMAIN Append(writes, w) /\ Append(writes, w)[Len(writes) + 1] = w
BY DEF Bt!TypeOK

\* A write of the client's, new or asked about again
LEMMA WriteComes ==
    ASSUME Bt!ServiceAssumption, Bt!TypeOK, NEW q \in Bt!Requests, q.does = "write", Bt!WriteRequest(q),
           UNCHANGED <<btPc, hand>>, btPc = "acknowledge" => hand.needsAck
    PROVE  RequestInv'
<1>1. q # Bt!NoRequest /\ Bt!NoRequest.does = "nothing"
    BY DEF Bt!NoRequest
<1>2. CASE request' = Bt!NoRequest /\ asked' = "none"
    BY <1>1, <1>2 DEF RequestInv
<1>3. CASE /\ request' = q /\ asked' = "pending"
           /\ writes' = Append(writes, [report |-> q.report, id |-> q.id, needsAck |-> TRUE])
  <2>1. [report |-> q.report, id |-> q.id, needsAck |-> TRUE] \in Bt!PendingWrites
      BY DEF Bt!Requests, Bt!PendingWrites
  <2>2. WriteComing'
      BY <1>3, <2>1, WaitingGrows DEF WriteComing, Waits
  <2> QED
      BY <1>1, <1>3, <2>2 DEF RequestInv
<1> QED
    BY <1>2, <1>3 DEF Bt!WriteRequest, Bt!Answer, Bt!HoldBack, Bt!QueueWrite

\* A read of the client's, new or asked about again
LEMMA ReadComes ==
    ASSUME NEW q \in Bt!Requests, q.does = "read", Bt!ReadRequest(q), Bt!TypeOK,
           UNCHANGED <<btPc, hand>>, btPc = "acknowledge" => hand.needsAck
    PROVE  RequestInv'
<1>1. q # Bt!NoRequest /\ Bt!NoRequest.does = "nothing"
    BY DEF Bt!NoRequest
<1>2. CASE request' = Bt!NoRequest /\ asked' = "none"
    BY <1>1, <1>2 DEF RequestInv
<1>3. CASE /\ request' = q /\ asked' = "pending"
           /\ reading' = [reading EXCEPT !.state = "queued", !.report = q.report]
  <2>1. ReadComing'
      BY <1>3 DEF ReadComing, Bt!TypeOK
  <2> QED
      BY <1>1, <1>3, <2>1 DEF RequestInv
<1> QED
    BY <1>2, <1>3 DEF Bt!ReadRequest, Bt!Answer, Bt!HoldBack

\* A client's step
LEMMA ClientComes ==
    ASSUME Bt!ServiceAssumption, Bt!TypeOK, RequestInv, Bt!Client
    PROVE  RequestInv'
<1>1. btPc = "acknowledge" => hand.needsAck
    BY DEF RequestInv
<1>2. CASE Bt!Connect \/ Bt!Cancel \/ \E report \in Reports : Bt!Prepare(report)
  <2>1. UNCHANGED <<request, asked, writes, reading, btPc, hand>>
      BY <1>2 DEF Bt!Connect, Bt!Cancel, Bt!Prepare, Bt!clientVars, Bt!serviceVars, Bt!loopVars
  <2> QED
      BY <2>1 DEF RequestInv, WriteComing, ReadComing, Waits
<1>3. CASE Bt!Disconnect
  <2>1. request' = Bt!NoRequest /\ asked' = "none" /\ UNCHANGED <<btPc, hand>>
      BY <1>3 DEF Bt!Disconnect, Bt!loopVars
  <2> QED
      BY <1>1, <2>1 DEF RequestInv, Bt!NoRequest
<1>4. CASE Bt!Execute \/ \E report \in Reports : Bt!Stream(report)
  <2>1. PICK report \in Reports, id \in 0..MaxWrites :
               /\ Bt!QueueWrite(report, id, FALSE)
               /\ UNCHANGED <<request, asked, reading, btPc, hand>>
    <3>1. CASE Bt!Execute
      <4>1. made' \in 0..MaxWrites
          BY <3>1 DEF Bt!Execute, Bt!NewWrite, Bt!TypeOK, Bt!ServiceAssumption
      <4>2. PICK report \in prepared : prepared = {report} /\ Bt!QueueWrite(report, made', FALSE)
          BY <3>1 DEF Bt!Execute
      <4> QED
          BY <3>1, <4>1, <4>2 DEF Bt!Execute, Bt!TypeOK, Bt!clientVars, Bt!loopVars
    <3>2. CASE \E report \in Reports : Bt!Stream(report)
      <4>1. made' \in 0..MaxWrites
          BY <3>2 DEF Bt!Stream, Bt!NewWrite, Bt!TypeOK, Bt!ServiceAssumption
      <4>2. PICK report \in Reports : Bt!Stream(report)
          BY <3>2
      <4> QED
          BY <4>1, <4>2 DEF Bt!Stream, Bt!clientVars, Bt!loopVars
    <3> QED
        BY <1>4, <3>1, <3>2
  <2> DEFINE w == [report |-> report, id |-> id, needsAck |-> FALSE]
  <2>2. w \in Bt!PendingWrites
      BY DEF Bt!PendingWrites
  <2>3. writes' = writes \/ writes' = Append(writes, w)
      BY <2>1 DEF Bt!QueueWrite
  <2> HIDE DEF w
  <2>4. \A i \in DOMAIN writes : i \in DOMAIN writes' /\ writes'[i] = writes[i]
      BY <2>2, <2>3, WaitingGrows
  <2> QED
      BY <2>1, <2>4 DEF RequestInv, WriteComing, ReadComing, Waits
<1>5. ASSUME NEW report \in Reports, Bt!Write(report)
      PROVE  RequestInv'
  <2>1. made' \in 0..MaxWrites
      BY <1>5 DEF Bt!Write, Bt!NewWrite, Bt!TypeOK, Bt!ServiceAssumption
  <2>2. [does |-> "write", report |-> report, id |-> made'] \in Bt!Requests
      BY <2>1 DEF Bt!Requests
  <2> QED
      BY <1>1, <1>5, <2>2, WriteComes DEF Bt!Write, Bt!loopVars
<1>6. ASSUME NEW report \in Reports, Bt!Read(report)
      PROVE  RequestInv'
  <2> PICK id \in 0..MaxWrites : Bt!ReadRequest([does |-> "read", report |-> report, id |-> id])
    <3>1. answer.request.id \in 0..MaxWrites /\ 0 \in 0..MaxWrites
        BY DEF Bt!TypeOK, Bt!Requests, Bt!ServiceAssumption
    <3> QED
        BY <1>6, <3>1 DEF Bt!Read
  <2>1. [does |-> "read", report |-> report, id |-> id] \in Bt!Requests
      BY DEF Bt!Requests
  <2> QED
      BY <1>1, <1>6, <2>1, ReadComes DEF Bt!Read, Bt!loopVars
<1> QED
    BY <1>2, <1>3, <1>4, <1>5, <1>6 DEF Bt!Client

\* The main loop's steps leave what is waited for where it is, or a step further
LEMMA LoopComes ==
    ASSUME Bt!ServiceAssumption, Bt!TypeOK, RequestInv, Bt!HandleRequests
    PROVE  RequestInv'
<1>1. request' = request /\ asked \in {"none", "pending", "ready"}
    BY DEF Bt!HandleRequests, Bt!TakeWrite, Bt!HandleWrite, Bt!Acknowledge, Bt!NoMoreWrites, Bt!PickRead,
           Bt!Fetch, Bt!Publish, Bt!clientVars, Bt!TypeOK
<1>2. CASE Bt!TakeWrite
  <2>1. /\ btPc = "writes" /\ btPc' = "handle" /\ UNCHANGED <<asked, reading>>
        /\ hand' = Head(writes) /\ writes' = Tail(writes) /\ writes # <<>>
      BY <1>2 DEF Bt!TakeWrite, Bt!clientVars
  <2>2. writes \in Seq(Bt!PendingWrites)
      BY DEF Bt!TypeOK
  <2>3. ASSUME WriteComing PROVE WriteComing'
    <3>1. PICK i \in DOMAIN writes : Waits(writes[i])
        BY <2>1, <2>3 DEF WriteComing
    <3>2. CASE i = 1
      <4>1. hand' = writes[i]
          BY <2>1, <2>2, <3>2
      <4> QED
          BY <1>1, <2>1, <2>3, <3>1, <4>1 DEF WriteComing, Waits
    <3>3. CASE i # 1
      <4>1. i - 1 \in DOMAIN writes' /\ writes'[i - 1] = writes[i]
          BY <2>1, <2>2, <3>3
      <4>2. \E j \in DOMAIN writes' : /\ writes'[j].needsAck /\ writes'[j].report = request.report
                                      /\ writes'[j].id = request.id
          BY <3>1, <4>1 DEF Waits
      <4> QED
          BY <1>1, <2>3, <4>2 DEF WriteComing, Waits
    <3> QED
        BY <3>2, <3>3
  <2> QED
      BY <1>1, <2>1, <2>3 DEF RequestInv, ReadComing
<1>3. CASE Bt!HandleWrite
  <2>1. /\ btPc = "handle" /\ UNCHANGED <<asked, reading, writes, hand>>
        /\ btPc' = IF hand.needsAck THEN "acknowledge" ELSE "writes"
      BY <1>3 DEF Bt!HandleWrite, Bt!clientVars, Bt!serviceVars
  <2> QED
      BY <1>1, <2>1 DEF RequestInv, WriteComing, ReadComing, Waits
<1>4. CASE Bt!Acknowledge \/ (Bt!Publish /\ asked' = IF asked = "pending" THEN "ready" ELSE asked)
  <2>1. btPc' = "writes" /\ asked' = IF asked = "pending" THEN "ready" ELSE asked
      BY <1>4 DEF Bt!Acknowledge, Bt!Publish, Bt!Ready
  <2> QED
      BY <1>1, <2>1 DEF RequestInv
<1>5. CASE /\ Bt!Publish /\ UNCHANGED asked
           /\ ~(reading.state = "queued" /\ reading.report = hand.report)
  <2>1. /\ reading' = [reading EXCEPT !.data = hand.id] /\ btPc = "publish" /\ btPc' = "writes"
        /\ UNCHANGED <<asked, writes, hand>>
      BY <1>5 DEF Bt!Publish
  <2>2. reading'.state = reading.state /\ reading'.report = reading.report
      BY <2>1 DEF Bt!TypeOK
  <2> QED
      BY <1>1, <2>1, <2>2 DEF RequestInv, WriteComing, ReadComing, Waits
<1>6. CASE Bt!NoMoreWrites \/ Bt!PickRead \/ Bt!Fetch
  <2>1. /\ UNCHANGED <<asked, reading, writes>>
        /\ btPc \notin {"handle", "acknowledge"} /\ btPc' \notin {"handle", "acknowledge"}
      BY <1>6 DEF Bt!NoMoreWrites, Bt!PickRead, Bt!Fetch, Bt!clientVars, Bt!serviceVars
  <2> QED
      BY <1>1, <2>1 DEF RequestInv, WriteComing, ReadComing, Waits
<1> QED
    BY <1>2, <1>3, <1>4, <1>5, <1>6 DEF Bt!HandleRequests, Bt!Publish, Bt!Ready

(* However a client's request comes among streamed writes, prepared ones and *)
(* what is left of a client before, in hand or not, it is never one that     *)
(* nothing will answer: it is queued, or in hand, or its response is ready   *)
(* (s_writes, s_read_state, att_server_response_ready)                       *)
THEOREM RequestAlwaysComes == Bt!Spec => []RequestComes
<1> DEFINE AllInv == Bt!TypeOK /\ ServiceInv /\ RequestInv
<1> USE ComponentsAssumption DEF ComponentsAssumption
<1>1. Bt!Init => AllInv
  <2>1. Bt!Init => RequestInv
      BY DEF Bt!Init, RequestInv, Bt!NoRequest
  <2> QED
      BY <2>1, ServiceBegins DEF ServiceInv
<1>2. AllInv /\ [Bt!Next]_(Bt!vars) => AllInv'
  <2> SUFFICES ASSUME AllInv, [Bt!Next]_(Bt!vars)
               PROVE  AllInv'
      OBVIOUS
  <2>1. Bt!TypeOK' /\ ServiceInv'
      BY ServiceKeepsInv DEF ServiceInv
  <2>2. CASE Bt!AskAgain
    <3>1. request \in Bt!Requests /\ UNCHANGED <<btPc, hand>> /\ (btPc = "acknowledge" => hand.needsAck)
        BY <2>2 DEF Bt!AskAgain, Bt!loopVars, Bt!TypeOK, RequestInv
    <3>2. CASE request.does = "write" /\ Bt!WriteRequest(request)
        BY <2>1, <3>1, <3>2, WriteComes
    <3>3. CASE request.does = "read" /\ Bt!ReadRequest(request)
        BY <2>1, <3>1, <3>3, ReadComes
    <3> QED
        BY <2>2, <3>2, <3>3 DEF Bt!AskAgain
  <2>3. CASE UNCHANGED Bt!vars
    <3>1. UNCHANGED <<request, asked, writes, reading, btPc, hand>>
        BY <2>3 DEF Bt!vars, Bt!clientVars, Bt!serviceVars, Bt!loopVars
    <3> QED
        BY <2>1, <3>1 DEF RequestInv, WriteComing, ReadComing, Waits
  <2> QED
      BY <2>1, <2>2, <2>3, ClientComes, LoopComes DEF Bt!Next
<1>3. AllInv => RequestComes
    BY DEF RequestInv, RequestComes, Bt!TypeOK
<1> QED
    BY <1>1, <1>2, <1>3, PTL DEF Bt!Spec
=============================================================================
