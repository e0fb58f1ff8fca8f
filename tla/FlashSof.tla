------------------------------ MODULE FlashSof ------------------------------
(***************************************************************************)
(* The two cores around a flash write (flash_core1_loop, flash_write_begin *)
(* and flash_write_end of src/src/config/FlashPROM.cpp).  An erase stalls  *)
(* core 0 with its interrupts off for longer than USB devices wait without *)
(* a start of frame, so core 1 sends them until the write has ended.  Both *)
(* cores can drive the PIO USB bus, and only one of them may at a time.    *)
(*                                                                         *)
(* The cores share three volatile flags and take turns in any order.  Core *)
(* 0's frames come from a timer interrupt, in between steps of its thread. *)
(***************************************************************************)
EXTENDS Integers

CONSTANT MaxOps   \* erases and page programs of the longest write

ASSUME MaxOpsAssumption == MaxOps \in Nat \ {0}

VARIABLES
    ready, requested, running,   \* core1_ready, sof_requested, sof_running
    sofOnly,                     \* pio_usb_host_set_sof_only: core 0 sends no frames
    pc0, ops,                    \* core 0's thread, and flash operations it has left
    pc1,                         \* core 1
    frame0                       \* core 0 is in the interrupt that sends a frame

vars == <<ready, requested, running, sofOnly, pc0, ops, pc1, frame0>>

PC0 == {"idle", "ready", "quiet", "request", "started", "write", "flash", "ended", "resume"}
PC1 == {"start", "wait", "starting", "loop", "due", "frame", "stopping"}

\* The type invariant: each core is at one of its places, and a write ends
\* within MaxOps operations
TypeOK ==
    /\ ready \in BOOLEAN /\ requested \in BOOLEAN /\ running \in BOOLEAN
    /\ sofOnly \in BOOLEAN /\ frame0 \in BOOLEAN
    /\ pc0 \in PC0 /\ pc1 \in PC1
    /\ ops \in 0..MaxOps

Init ==
    /\ ready = FALSE /\ requested = FALSE /\ running = FALSE /\ sofOnly = FALSE
    /\ pc0 = "idle" /\ ops = 0 /\ pc1 = "start" /\ frame0 = FALSE

-----------------------------------------------------------------------------
(* Core 0 *)

\* The interrupt that sends a frame has the core for as long as it runs
Thread(from, to) == ~frame0 /\ pc0 = from /\ pc0' = to /\ UNCHANGED <<pc1, frame0, ready, running>>

\* write_range has found sectors to write
BeginWrite ==
    /\ Thread("idle", "ready")
    /\ ops' \in 1..MaxOps
    /\ UNCHANGED <<requested, sofOnly>>

SeeCore1Ready ==
    /\ Thread("ready", "quiet") /\ ready
    /\ UNCHANGED <<ops, requested, sofOnly>>

StopFrames ==
    /\ Thread("quiet", "request")
    /\ sofOnly' = TRUE
    /\ UNCHANGED <<ops, requested>>

RequestSof ==
    /\ Thread("request", "started")
    /\ requested' = TRUE
    /\ UNCHANGED <<ops, sofOnly>>

\* Mutant: flash_write_begin doesn't wait for sof_running
SofAssumedRunning ==
    /\ Thread("started", "write")
    /\ UNCHANGED <<ops, requested, sofOnly>>

SeeSofRunning ==
    /\ Thread("started", "write") /\ running
    /\ UNCHANGED <<ops, requested, sofOnly>>

\* An erase or a page program, with the interrupts off
StartOp ==
    /\ Thread("write", "flash") /\ ops > 0
    /\ ops' = ops - 1
    /\ UNCHANGED <<requested, sofOnly>>

EndOp ==
    /\ Thread("flash", "write")
    /\ UNCHANGED <<ops, requested, sofOnly>>

ReleaseSof ==
    /\ Thread("write", "ended") /\ ops = 0
    /\ requested' = FALSE
    /\ UNCHANGED <<ops, sofOnly>>

\* Mutant: flash_write_end doesn't wait for sof_running to be cleared
SofAssumedStopped ==
    /\ Thread("ended", "resume")
    /\ UNCHANGED <<ops, requested, sofOnly>>

SeeSofStopped ==
    /\ Thread("ended", "resume") /\ ~running
    /\ UNCHANGED <<ops, requested, sofOnly>>

ResumeFrames ==
    /\ Thread("resume", "idle")
    /\ sofOnly' = FALSE
    /\ UNCHANGED <<ops, requested>>

StartFrame ==
    /\ ~frame0 /\ ~sofOnly /\ pc0 # "flash"
    /\ frame0' = TRUE
    /\ UNCHANGED <<ready, requested, running, sofOnly, pc0, ops, pc1>>

EndFrame ==
    /\ frame0
    /\ frame0' = FALSE
    /\ UNCHANGED <<ready, requested, running, sofOnly, pc0, ops, pc1>>

-----------------------------------------------------------------------------
(* Core 1 *)

Core1(from, to) == pc1 = from /\ pc1' = to /\ UNCHANGED <<requested, sofOnly, pc0, ops, frame0>>

SetReady == Core1("start", "wait") /\ ready' = TRUE /\ UNCHANGED running
SeeRequest == Core1("wait", "starting") /\ requested /\ UNCHANGED <<ready, running>>
StartLoop == Core1("starting", "loop") /\ running' = TRUE /\ UNCHANGED ready

\* The request is still there and the next frame is due: it is sent even if
\* the request goes in the meantime
FrameDue == Core1("loop", "due") /\ requested /\ UNCHANGED <<ready, running>>
StartSof == Core1("due", "frame") /\ UNCHANGED <<ready, running>>
EndSof == Core1("frame", "loop") /\ UNCHANGED <<ready, running>>

SeeRelease == Core1("loop", "stopping") /\ ~requested /\ UNCHANGED <<ready, running>>

\* Mutant: sof_running is left set
LeaveLoopRunning == Core1("stopping", "wait") /\ UNCHANGED <<ready, running>>

LeaveLoop == Core1("stopping", "wait") /\ running' = FALSE /\ UNCHANGED ready

-----------------------------------------------------------------------------
Core0Steps == \/ SeeCore1Ready \/ StopFrames \/ RequestSof \/ SeeSofRunning \/ StartOp \/ EndOp
              \/ ReleaseSof \/ SeeSofStopped \/ ResumeFrames
Core1Steps == \/ SetReady \/ SeeRequest \/ StartLoop \/ FrameDue \/ StartSof \/ EndSof
              \/ SeeRelease \/ LeaveLoop

Next == BeginWrite \/ Core0Steps \/ StartFrame \/ EndFrame \/ Core1Steps

(* Both cores keep running.  Core 0's thread gets its turn between frames:  *)
(* a frame takes less than the millisecond to the next one.                 *)
Spec == Init /\ [][Next]_vars /\ SF_vars(Core0Steps) /\ WF_vars(EndFrame) /\ WF_vars(Core1Steps)

-----------------------------------------------------------------------------
(* Only one core drives the bus at a time: core 0's frames have stopped     *)
(* before core 1's begin and come back after its last ("Stop core0's frames *)
(* first so only one core drives the bus" in flash_write_begin).            *)
OneDriver == ~(frame0 /\ pc1 = "frame")

(* While core 0 erases or programs with its interrupts off, core 1 is in the *)
(* loop that sends the starts of frame, so that USB devices don't suspend.  *)
SofDuringFlash == pc0 = "flash" => pc1 \in {"loop", "due", "frame"}

\* One core has the bus, and during a flash write one that can serve it
SofDriven == OneDriver /\ SofDuringFlash

(* A flash write ends: neither core waits for ever for the other's flag,    *)
(* not even for core 1 to have started.                                     *)
WriteEnds == pc0 # "idle" ~> pc0 = "idle"
=============================================================================
