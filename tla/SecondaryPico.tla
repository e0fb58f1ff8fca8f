--------------------------- MODULE SecondaryPico ---------------------------
(***************************************************************************)
(* A second Pico that reads inputs for the first: the master's side        *)
(* (SecondaryPicoDevice, src/src/devices/secondary_pico.cpp), which polls  *)
(* it over I2C, sends it the inputs to read and keeps its firmware the same *)
(* as its own, and the second one's (src/lib/secondary_pico), which queues *)
(* a change of an input as an event until it is read.                      *)
(*                                                                         *)
(* Transfers fail: on the way, or after they have been acted on.  Events   *)
(* are those of digital inputs; sub-devices and what the tool is told are  *)
(* left out.                                                               *)
(***************************************************************************)
EXTENDS Naturals, Sequences, SequencesExt

CONSTANTS
    Pins, NoPin,   \* inputs of the second Pico, NoPin in an empty slot
    NSlots,        \* slots the master may register inputs in
    QueueMax,      \* EVENT_QUEUE_MAX
    ReadMax,       \* events that fit in SECONDARY_PICO_EVENTS_SIZE
    NChunks,       \* chunks of a firmware image
    HostTries,     \* host_transfer_attempts
    MaxUpdates,    \* max_auto_ota_attempts
    SlowReboot,    \* a restart takes longer than disconnect_timeout_ms
    Moves, MaxMoves \* what the environment does, and how often in all

ASSUME PicoAssumption ==
    /\ NoPin \notin Pins
    /\ NSlots \in Nat \ {0} /\ QueueMax \in Nat \ {0} /\ ReadMax \in Nat \ {0}
    /\ NChunks \in Nat \ {0} /\ HostTries \in Nat \ {0} /\ MaxUpdates \in Nat
    /\ SlowReboot \in BOOLEAN
    /\ Moves \subseteq {"inputs", "toggles", "polls", "restarts", "fails", "reboots", "hosts"}
    /\ MaxMoves \in Nat

VARIABLES
    inputs, owners,      \* m_inputs by slot; history: the pins registered under each slot
    view,                \* m_digital_inputs
    pc, handling,        \* where the master's loop is, and the transfer it handles
    connected, checked,  \* m_connected, m_version_checked
    dirty, failed,       \* m_config_dirty, m_last_failed
    silence,             \* how long ago m_last_recv is
    ota, stage, offset, updates,     \* m_ota_in_progress, _stage, _offset, m_auto_ota_attempts
    target,              \* m_updating_firmware: nobody's firmware, this one's (m_target_secondary_pico) or another's
    hostOta, hostCmd, hostNext, tries, back,   \* m_host_ota, and the tool's update
    transfer, phase,     \* m_transfer, and how far it is
    configBuf, rxEvents, rxVersion,  \* the master's buffers
    up, version,         \* the second Pico: running, and which firmware
    config, last,        \* its inputs by slot, and what it last queued of each
    queue,               \* g_event_queue
    buffer, pending, taking,  \* g_pending_config_buf, g_config_pending, the config being taken
    slot,                \* its download slot
    phys,                \* the pins themselves
    lost,                \* history: slots with an event that was lost or outlived its config
    dropped,             \* history: no config sent since an update ended with the version taken as checked
    left                 \* what is left of MaxMoves

inputVars == <<inputs, owners>>
linkVars == <<transfer, phase, configBuf, rxEvents, rxVersion>>
stateVars == <<connected, checked, dirty, failed, silence, view>>
otaVars == <<ota, stage, offset, updates, dropped>>
hostVars == <<target, hostOta, hostCmd, hostNext, tries, back>>
masterVars == <<inputVars, pc, handling, stateVars, otaVars, hostVars>>
slaveVars == <<up, version, config, last, queue, buffer, pending, taking, slot>>
envVars == <<phys, lost, left>>
vars == <<masterVars, linkVars, slaveVars, envVars>>

Slots == 1..NSlots
Chunks == 1..NChunks
Versions == {"ours", "theirs"}
Contents == Versions \union {"erased", "previous"}
Config == [Slots -> Pins \union {NoPin}]
NoConfig == [s \in Slots |-> NoPin]
Released == [s \in Slots |-> FALSE]
Events == [slot : Slots, state : BOOLEAN]
Transfers == {"none", "version", "events", "config", "begin", "chunk", "finish", "host"}

\* The inputs the master wants read
Wanted == [s \in Slots |-> inputs[s].pin]

May(move) == move \in Moves /\ left > 0
Spend == left' = left - 1

Init ==
    /\ inputs \in [Slots -> [pin : Pins, users : {1}]]
    /\ \A s, t \in Slots : s # t => inputs[s].pin # inputs[t].pin
    /\ owners = [s \in Slots |-> [p \in Pins |-> IF inputs[s].pin = p THEN 1 ELSE 0]]
    /\ view = Released /\ pc = "loop" /\ handling = "none"
    /\ connected = FALSE /\ checked = FALSE /\ dirty = TRUE /\ failed = FALSE
    /\ silence = "fresh"
    /\ ota = FALSE /\ stage = "begin" /\ offset = 0 /\ updates = 0
    /\ target = "none" /\ hostOta = FALSE /\ hostCmd = "begin" /\ hostNext = 0 /\ tries = 0 /\ back = "loop"
    /\ transfer = "none" /\ phase = "none"
    /\ configBuf = NoConfig /\ rxEvents = << >> /\ rxVersion = "ours"
    /\ up = TRUE /\ version \in Versions
    /\ config = NoConfig /\ last = Released /\ queue = << >>
    /\ buffer = NoConfig /\ pending = FALSE /\ taking = << >>
    /\ slot = [c \in Chunks |-> "previous"]
    /\ phys = [p \in Pins |-> FALSE]
    /\ lost = {} /\ dropped = FALSE
    /\ left = MaxMoves


-----------------------------------------------------------------------------
(* Registering inputs *)

Users(s) == inputs[s].users

\* register_input: the slot that has the input already, or the first free one
RegisterInput ==
    /\ pc = "loop" /\ May("inputs") /\ Spend
    /\ \E p \in Pins, s \in Slots :
           /\ \/ Users(s) > 0 /\ inputs[s].pin = p /\ UNCHANGED dirty
              \/ /\ \A t \in Slots : Users(t) > 0 => inputs[t].pin # p
                 /\ Users(s) = 0 /\ \A t \in 1..(s - 1) : Users(t) > 0
                 /\ dirty' = TRUE
           /\ inputs' = [inputs EXCEPT ![s] = [pin |-> p, users |-> @.users + 1]]
           /\ owners' = [owners EXCEPT ![s][p] = @ + 1]
    /\ UNCHANGED <<view, pc, handling, connected, checked, failed, silence, otaVars, hostVars,
                   linkVars, slaveVars, phys, lost>>

\* Mutant: the slots after an emptied one move up
UnregisterClosingGap ==
    /\ pc = "loop" /\ May("inputs") /\ Spend
    /\ \E p \in Pins, s \in Slots :
           /\ owners[s][p] > 0
           /\ owners' = [owners EXCEPT ![s][p] = @ - 1]
           /\ IF Users(s) > 1
              THEN /\ inputs' = [inputs EXCEPT ![s].users = @ - 1]
                   /\ UNCHANGED <<dirty, view>>
              ELSE /\ inputs' = [t \in Slots |->
                                     CASE t < s -> inputs[t]
                                       [] t >= s /\ t < NSlots -> inputs[t + 1]
                                       [] OTHER -> [pin |-> NoPin, users |-> 0]]
                   /\ view' = [view EXCEPT ![s] = FALSE]
                   /\ dirty' = TRUE
    /\ UNCHANGED <<pc, handling, connected, checked, failed, silence, otaVars, hostVars,
                   linkVars, slaveVars, phys, lost>>

\* unregister_input: the last user's slot is emptied, the others keep their ids
UnregisterInput ==
    /\ pc = "loop" /\ May("inputs") /\ Spend
    /\ \E p \in Pins, s \in Slots :
           /\ owners[s][p] > 0 /\ Users(s) > 0
           /\ owners' = [owners EXCEPT ![s][p] = @ - 1]
           /\ IF Users(s) > 1
              THEN /\ inputs' = [inputs EXCEPT ![s].users = @ - 1]
                   /\ UNCHANGED <<dirty, view>>
              ELSE /\ inputs' = [inputs EXCEPT ![s] = [pin |-> NoPin, users |-> 0]]
                   /\ view' = [view EXCEPT ![s] = FALSE]
                   /\ dirty' = TRUE
    /\ UNCHANGED <<pc, handling, connected, checked, failed, silence, otaVars, hostVars,
                   linkVars, slaveVars, phys, lost>>

-----------------------------------------------------------------------------
(* Transfers: start_transfer, and the interrupt that records how one went   *)

StartTransfer(kind) == transfer' = kind /\ phase' = "flight"

\* Mutant: the updates aren't counted
VersionReceivedUncounted ==
    /\ checked' = TRUE /\ UNCHANGED dropped
    /\ IF rxVersion # "ours"
       THEN ota' = TRUE /\ stage' = "begin" /\ offset' = 0 /\ UNCHANGED <<dirty, updates>>
       ELSE updates' = 0 /\ dirty' = TRUE /\ UNCHANGED <<ota, stage, offset>>

\* version_received: a mismatch starts an update, unless that has been tried
\* often enough
VersionReceived ==
    /\ checked' = TRUE /\ UNCHANGED dropped
    /\ IF rxVersion # "ours" /\ updates < MaxUpdates
       THEN /\ updates' = updates + 1
            /\ ota' = TRUE /\ stage' = "begin" /\ offset' = 0
            /\ UNCHANGED dirty
       ELSE /\ updates' = IF rxVersion = "ours" THEN 0 ELSE updates
            /\ dirty' = TRUE
            /\ UNCHANGED <<ota, stage, offset>>

ChunkSent ==
    /\ offset' = offset + 1
    /\ stage' = IF offset' = NChunks THEN "finish" ELSE stage

\* An input of which before is known, after these events
After(events, s, before) ==
    LET i == SelectLastInSeq(events, LAMBDA e : e.slot = s)
    IN IF i = 0 THEN before ELSE events[i].state

\* decode_events
EventsReceived == view' = [s \in Slots |-> After(rxEvents, s, view[s])]

\* The switch of transfer_succeeded
Handled(kind) ==
    /\ CASE kind = "version" -> VersionReceived
         [] kind = "finish" -> ota' = FALSE /\ checked' = FALSE /\ UNCHANGED <<stage, offset, updates, dropped, dirty>>
         [] kind = "begin" -> stage' = "chunks" /\ UNCHANGED <<checked, ota, offset, updates, dropped, dirty>>
         [] kind = "chunk" -> ChunkSent /\ UNCHANGED <<checked, ota, updates, dropped, dirty>>
         [] OTHER -> UNCHANGED <<checked, dirty, otaVars>>
    /\ IF kind = "events" THEN EventsReceived ELSE UNCHANGED view

\* transfer_succeeded up to its switch
Answered == phase = "ok" /\ connected' = TRUE /\ failed' = FALSE /\ silence' = "fresh"

\* History
Drops == dropped' = (dropped \/ (ota /\ ~ota' /\ checked'))

\* Mutant: a config that didn't arrive isn't sent again
TransferFailedForgotten ==
    /\ phase = "failed" /\ failed' = TRUE
    /\ ota' = (ota /\ silence # "gone")
    /\ IF connected /\ silence # "fresh"
       THEN connected' = FALSE /\ checked' = FALSE /\ view' = Released
       ELSE UNCHANGED <<connected, checked, view>>
    /\ Drops /\ UNCHANGED <<dirty, silence, stage, offset, updates>>

\* transfer_failed: a second Pico that doesn't answer for long enough is gone
TransferFailed ==
    /\ phase = "failed" /\ failed' = TRUE
    /\ ota' = (ota /\ silence # "gone")
    /\ IF connected /\ silence # "fresh"
       THEN connected' = FALSE /\ checked' = FALSE /\ view' = Released
       ELSE UNCHANGED <<connected, checked, view>>
    /\ dirty' = (dirty \/ transfer = "config")
    /\ Drops /\ UNCHANGED <<silence, stage, offset, updates>>

EndTransfer == transfer' = "none" /\ phase' = "none" /\ UNCHANGED <<configBuf, rxEvents, rxVersion>>

\* complete_transfer, but for what the tool may ask for while it is told of
\* the second Pico having come back
CompleteTransfer ==
    /\ \/ TransferFailed
       \/ Answered /\ Handled(transfer)
    /\ EndTransfer

-----------------------------------------------------------------------------
(* update().  The main loop doesn't come to it while the tool updates a     *)
(* firmware (DeviceManager::update)                                         *)

Updating == pc = "poll" \/ (pc = "loop" /\ target = "none")

FullPoll ==
    /\ pc = "loop" /\ target = "none" /\ May("polls") /\ Spend
    /\ pc' = "poll" /\ dirty' = TRUE
    /\ UNCHANGED <<inputVars, handling, connected, checked, failed, silence, view, otaVars,
                   hostVars, linkVars, slaveVars, phys, lost>>

NothingInFlight ==
    /\ Updating /\ phase = "none" /\ pc' = "next"
    /\ UNCHANGED <<inputVars, handling, stateVars, otaVars, hostVars, linkVars, slaveVars, envVars>>

InFlight ==
    /\ pc = "poll" /\ phase = "flight" /\ pc' = "loop"
    /\ UNCHANGED <<inputVars, handling, stateVars, otaVars, hostVars, linkVars, slaveVars, envVars>>

Complete ==
    /\ Updating /\ phase \in {"ok", "failed"}
    /\ phase = "ok" => connected
    /\ CompleteTransfer /\ pc' = "next"
    /\ UNCHANGED <<inputVars, handling, hostVars, slaveVars, envVars>>

\* The tool is told of the second Pico having come back: that services USB,
\* and the tool may begin an update of its own before the answer is handled
Reconnected ==
    /\ Updating /\ ~connected
    /\ Answered /\ handling' = transfer /\ pc' = "connected" /\ EndTransfer
    /\ UNCHANGED <<inputVars, checked, dirty, view, otaVars, hostVars, slaveVars, envVars>>

HandleReconnected ==
    /\ pc = "connected"
    /\ Handled(handling) /\ handling' = "none" /\ pc' = "next"
    /\ UNCHANGED <<inputVars, connected, failed, silence, hostVars, linkVars, slaveVars, envVars>>

Idle(kind) == pc' = "loop" /\ StartTransfer(kind)

OtaStep ==
    /\ pc = "next" /\ ~hostOta /\ ota
    /\ Idle(CASE stage = "begin" -> "begin" [] stage = "chunks" -> "chunk" [] OTHER -> "finish")
    /\ UNCHANGED <<inputVars, handling, stateVars, otaVars, hostVars, configBuf, rxEvents, rxVersion,
                   slaveVars, envVars>>

SendConfig ==
    /\ pc = "next" /\ ~hostOta /\ ~ota /\ checked /\ dirty
    /\ Idle("config")
    /\ configBuf' = Wanted
    /\ dirty' = FALSE /\ view' = Released /\ dropped' = FALSE
    /\ UNCHANGED <<inputVars, handling, connected, checked, failed, silence,
                   ota, stage, offset, updates, hostVars, rxEvents, rxVersion, slaveVars, envVars>>

Poll ==
    /\ pc = "next" /\ ~hostOta /\ ~ota /\ ~(checked /\ dirty)
    /\ Idle(IF checked THEN "events" ELSE "version")
    /\ UNCHANGED <<inputVars, handling, stateVars, otaVars, hostVars, configBuf, rxEvents, rxVersion,
                   slaveVars, envVars>>

\* The tool's update, or it is too soon after the last poll or failure
NotNow ==
    /\ pc = "next" /\ pc' = "loop"
    /\ hostOta \/ failed \/ (~ota /\ ~(checked /\ dirty))
    /\ UNCHANGED <<inputVars, handling, stateVars, otaVars, hostVars, linkVars, slaveVars, envVars>>

\* m_last_recv falls behind while transfers fail, or none is made
Silence ==
    /\ failed \/ hostOta \/ target # "none"
    /\ \/ silence = "fresh" /\ silence' = "lapsed"
       \/ silence = "lapsed" /\ silence' = "gone"
    /\ UNCHANGED <<inputVars, pc, handling, connected, checked, dirty, failed, view, otaVars, hostVars,
                   linkVars, slaveVars, envVars>>

\* end and begin, as the config is loaded again
Restart ==
    /\ pc = "loop" /\ target = "none" /\ May("restarts") /\ Spend
    /\ connected' = FALSE /\ checked' = FALSE /\ dirty' = TRUE /\ failed' = FALSE
    /\ silence' = "fresh" /\ view' = Released
    /\ ota' = FALSE /\ offset' = 0 /\ updates' = 0 /\ hostOta' = FALSE
    /\ EndTransfer
    /\ UNCHANGED <<inputVars, pc, handling, stage, dropped, target, hostCmd, hostNext, tries, back,
                   slaveVars, phys, lost>>

-----------------------------------------------------------------------------
(* The tool's update of the second Pico (hid_config_device.cpp): it blocks  *)
(* in send_ota_begin, send_ota_chunk or send_ota_finish, and goes from one  *)
(* to the next.                                                             *)

\* What it asks for next
Asked == IF hostNext < NChunks THEN "chunk" ELSE "finish"

\* Where USB is serviced
Serviced == pc \in {"loop", "poll", "connected", "next"}

HostCall ==
    /\ \/ Serviced /\ May("hosts") /\ Spend
          /\ hostCmd' = "begin" /\ target' = "this"
       \/ pc = "loop" /\ hostOta /\ target = "this"
          /\ hostCmd' = Asked /\ UNCHANGED <<target, left>>
    /\ back' = pc /\ pc' = "hostIdle" /\ tries' = 0
    /\ UNCHANGED <<inputVars, handling, stateVars, otaVars, hostOta, hostNext,
                   linkVars, slaveVars, phys, lost>>

(* Metadata for the device itself or another second Pico makes that the     *)
(* target, and no one tells this one; for this one's later blocks, this one *)
Retarget ==
    /\ Serviced /\ May("hosts") /\ Spend
    /\ \/ target' = "other"
       \/ hostOta /\ target' = "this"
    /\ UNCHANGED <<inputVars, pc, handling, stateVars, otaVars, hostOta, hostCmd, hostNext, tries, back,
                   linkVars, slaveVars, phys, lost>>

\* wait_idle
HostWait ==
    /\ pc = "hostIdle" /\ phase \in {"ok", "failed"}
    /\ CompleteTransfer
    /\ UNCHANGED <<inputVars, pc, handling, hostVars, slaveVars, envVars>>

\* Mutant: send_ota_begin leaves m_ota_in_progress set
HostSendDuringOta ==
    /\ pc = "hostIdle" /\ phase = "none"
    /\ StartTransfer("host") /\ tries' = tries + 1 /\ pc' = "hostBusy"
    /\ hostOta' = TRUE
    /\ hostNext' = IF hostCmd = "begin" THEN 0 ELSE hostNext
    /\ UNCHANGED <<inputVars, handling, stateVars, otaVars, target, hostCmd, back,
                   configBuf, rxEvents, rxVersion, slaveVars, envVars>>

HostSend ==
    /\ pc = "hostIdle" /\ phase = "none"
    /\ StartTransfer("host") /\ tries' = tries + 1 /\ pc' = "hostBusy"
    /\ hostOta' = TRUE
    /\ ota' = (ota /\ hostCmd # "begin")
    /\ hostNext' = IF hostCmd = "begin" THEN 0 ELSE hostNext
    /\ UNCHANGED <<inputVars, handling, stateVars, stage, offset, updates, target, hostCmd, back,
                   configBuf, rxEvents, rxVersion, slaveVars, envVars>>
    /\ Drops

\* The transfer succeeded: the tool's next one, or it has finished
HostSent ==
    /\ pc = "hostBusy" /\ Answered
    /\ EndTransfer /\ pc' = back
    /\ hostOta' = (hostCmd # "finish")
    /\ target' = IF hostCmd = "finish" THEN "none" ELSE target
    /\ checked' = (checked /\ hostCmd # "finish")
    /\ hostNext' = IF hostCmd = "chunk" THEN hostNext + 1 ELSE hostNext
    /\ UNCHANGED <<inputVars, handling, dirty, view, otaVars, hostCmd, tries, back, slaveVars, envVars>>

\* It failed: again,
HostRetry ==
    /\ pc = "hostBusy" /\ tries < HostTries
    /\ TransferFailed /\ EndTransfer /\ pc' = "hostIdle"
    /\ UNCHANGED <<inputVars, handling, hostVars, slaveVars, envVars>>

\* Mutant: the last attempt counts as sent
HostFailedUnnoticed ==
    /\ pc = "hostBusy" /\ tries = HostTries
    /\ TransferFailed /\ EndTransfer /\ pc' = back
    /\ hostNext' = IF hostCmd = "chunk" THEN hostNext + 1 ELSE hostNext
    /\ UNCHANGED <<inputVars, handling, target, hostOta, hostCmd, tries, back, slaveVars, envVars>>

\* or the update is given up
HostFailed ==
    /\ pc = "hostBusy" /\ tries = HostTries
    /\ phase = "failed" /\ failed' = TRUE
    /\ ota' = (ota /\ silence # "gone")
    /\ connected' = (connected /\ silence = "fresh")
    /\ checked' = (checked /\ hostCmd # "finish" /\ ~(connected /\ silence # "fresh"))
    /\ view' = IF connected /\ silence # "fresh" THEN Released ELSE view
    /\ EndTransfer /\ pc' = back /\ target' = "none" /\ hostOta' = FALSE /\ Drops
    /\ UNCHANGED <<inputVars, handling, dirty, silence, stage, offset, updates, hostCmd, hostNext,
                   tries, back, slaveVars, envVars>>

\* The update under way is over (finish_firmware_update): the tool has gone,
\* or it was another's, or metadata was invalid.  Only the target's is cancelled
HostGone ==
    /\ pc = "loop" /\ target # "none" /\ target' = "none"
    /\ hostOta' = (hostOta /\ target = "other")
    /\ UNCHANGED <<inputVars, pc, handling, stateVars, otaVars, hostCmd, hostNext, tries, back,
                   linkVars, slaveVars, envVars>>

-----------------------------------------------------------------------------
(* The second Pico's end of a transfer (i2c_slave_handler)                  *)

Fitting(events) == SubSeq(events, 1, IF Len(events) < ReadMax THEN Len(events) ELSE ReadMax)
Rest(events) == SubSeq(events, Len(Fitting(events)) + 1, Len(events))
SlotsOf(events) == {e.slot : e \in Range(events)}

\* Mutant: all events are taken off the queue, whether they fit or not
TakeEventsUnread ==
    /\ rxEvents' = Fitting(queue)
    /\ queue' = << >>

\* secondary_pico_handle_get_events
TakeEvents ==
    /\ rxEvents' = Fitting(queue)
    /\ queue' = Rest(queue)

\* pfb_firmware_sha256_check: the slot holds the whole of an image
Verified(v) == \A c \in Chunks : slot[c] = v

\* OTA_FINISH: an image that verifies is started, what it replaces is in the
\* download slot then, and it may be rolled back
FinishOta ==
    IF \E v \in Versions : Verified(v)
    THEN /\ up' = FALSE
         /\ slot' = [c \in Chunks |-> "previous"]
         /\ \E v \in Versions : Verified(v) /\ version' \in {version, v}
    ELSE UNCHANGED <<up, slot, version>>

BeginOta == slot' = [c \in Chunks |-> "erased"] /\ UNCHANGED <<up, version>>
WriteChunk(c, v) == slot' = [slot EXCEPT ![c] = v] /\ UNCHANGED <<up, version>>

Forgotten ==
    /\ config' = NoConfig /\ last' = Released /\ queue' = << >>
    /\ buffer' = NoConfig /\ pending' = FALSE /\ taking' = << >>

\* What the second Pico does with what it received, for each transfer
Act ==
    /\ CASE transfer = "events" ->
              TakeEvents /\ UNCHANGED <<rxVersion, up, version, config, last, buffer, pending, taking, slot>>
         [] transfer = "version" ->
              rxVersion' = version /\ UNCHANGED <<rxEvents, slaveVars>>
         [] transfer = "config" ->
              /\ buffer' = configBuf /\ pending' = TRUE
              /\ UNCHANGED <<rxEvents, rxVersion, up, version, config, last, queue, taking, slot>>
         [] OTHER ->
              /\ UNCHANGED <<rxEvents, rxVersion>>
              /\ CASE transfer = "begin" \/ (transfer = "host" /\ hostCmd = "begin") -> BeginOta
                   [] transfer = "chunk" -> WriteChunk(offset + 1, "ours")
                   [] transfer = "host" /\ hostCmd = "chunk" -> WriteChunk(hostNext + 1, "theirs")
                   [] OTHER -> FinishOta
              /\ IF up' THEN UNCHANGED <<config, last, queue, buffer, pending, taking>> ELSE Forgotten

\* The transfer arrives and is acted on, and the master may still see it fail
Arrive ==
    /\ phase = "flight" /\ up
    /\ Act
    /\ \/ phase' = "ok" /\ UNCHANGED <<left, lost>>
       \/ /\ phase' = "failed" /\ May("fails") /\ Spend
          /\ lost' = IF transfer = "events" THEN lost \union SlotsOf(Fitting(queue)) ELSE lost
    /\ UNCHANGED <<masterVars, transfer, configBuf, phys>>

\* It doesn't arrive
Miss ==
    /\ phase = "flight" /\ phase' = "failed"
    /\ IF up THEN May("fails") /\ Spend ELSE UNCHANGED left
    /\ UNCHANGED <<masterVars, transfer, configBuf, rxEvents, rxVersion, slaveVars, phys, lost>>

-----------------------------------------------------------------------------
(* The second Pico's loop (secondary_pico_coprocessor_loop)                 *)

\* The master has read events and not handled them
Unhandled == (transfer = "events" /\ phase = "ok") \/ handling = "events"

\* secondary_pico_handle_config_command: what there was is taken down first
TakeConfig ==
    /\ up /\ pending /\ taking = << >>
    /\ pending' = FALSE
    /\ taking' = buffer
    /\ config' = NoConfig /\ last' = Released
    /\ lost' = lost \union SlotsOf(queue) \union {s \in Slots : view[s]}
                    \union IF Unhandled THEN SlotsOf(rxEvents) ELSE {}
    /\ UNCHANGED <<masterVars, linkVars, up, version, queue, buffer, slot, phys, left>>

\* Decoded from the buffer, that the interrupt may have overwritten meanwhile
BuildInputs ==
    /\ up /\ taking # << >>
    /\ config' \in {c \in Config : \A s \in Slots : c[s] \in {taking[s], buffer[s], NoPin}}
    /\ taking = buffer => config' = buffer
    /\ taking' = << >>
    /\ UNCHANGED <<masterVars, linkVars, up, version, last, queue, buffer, pending, slot, envVars>>

\* Mutant: the queue is filled to its last place
TickInputOverfull ==
    /\ up /\ taking = << >>
    /\ \E s \in Slots :
           /\ config[s] # NoPin /\ phys[config[s]] # last[s]
           /\ last' = [last EXCEPT ![s] = ~@]
           /\ IF Len(queue) < QueueMax
              THEN queue' = Append(queue, [slot |-> s, state |-> ~last[s]]) /\ UNCHANGED lost
              ELSE lost' = lost \union {s} /\ UNCHANGED queue
    /\ UNCHANGED <<masterVars, linkVars, up, version, config, buffer, pending, taking, slot, phys, left>>

\* A configured input that changed is queued, or dropped if the queue is full
TickInput ==
    /\ up /\ taking = << >>
    /\ \E s \in Slots :
           /\ config[s] # NoPin /\ phys[config[s]] # last[s]
           /\ last' = [last EXCEPT ![s] = ~@]
           /\ IF Len(queue) < QueueMax - 1
              THEN queue' = Append(queue, [slot |-> s, state |-> ~last[s]]) /\ UNCHANGED lost
              ELSE lost' = lost \union {s} /\ UNCHANGED queue
    /\ UNCHANGED <<masterVars, linkVars, up, version, config, buffer, pending, taking, slot, phys, left>>

-----------------------------------------------------------------------------
(* The environment *)

Toggle ==
    /\ May("toggles") /\ Spend
    /\ \E p \in Pins : phys' = [phys EXCEPT ![p] = ~@]
    /\ UNCHANGED <<masterVars, linkVars, slaveVars, lost>>

\* The second Pico restarts, and has forgotten its config
Reboot ==
    /\ up /\ May("reboots") /\ Spend
    /\ up' = FALSE
    /\ Forgotten
    /\ UNCHANGED <<masterVars, linkVars, version, slot, phys, lost>>

\* It is back: with SlowReboot only once the master has handled what it had
\* answered and missed it since
Booted ==
    /\ ~up /\ (SlowReboot => phase # "ok" /\ ~(connected /\ checked))
    /\ up' = TRUE
    /\ UNCHANGED <<masterVars, linkVars, version, config, last, queue, buffer, pending, taking, slot, envVars>>

Master == \/ RegisterInput \/ UnregisterInput \/ FullPoll \/ NothingInFlight \/ InFlight \/ Complete
          \/ Reconnected \/ HandleReconnected \/ OtaStep \/ SendConfig \/ Poll \/ NotNow \/ Restart
Host == HostCall \/ Retarget \/ HostWait \/ HostSend \/ HostSent \/ HostRetry \/ HostFailed \/ HostGone
Slave == TakeConfig \/ BuildInputs \/ TickInput
Next == Master \/ Host \/ Arrive \/ Miss \/ Slave \/ Silence \/ Toggle \/ Reboot \/ Booted

Spec == Init /\ [][Next]_vars

(* Both boards' loops and the bus keep going.  The 2 ms between polls pass,  *)
(* and so do the silence of a second Pico that is gone, the time it takes    *)
(* to start and the tool's firmware_update_stall_ms.                         *)
Fairness ==
    /\ WF_vars(NothingInFlight \/ InFlight \/ Complete \/ Reconnected \/ HandleReconnected)
    /\ WF_vars(OtaStep \/ SendConfig \/ Poll \/ NotNow)
    /\ SF_vars(OtaStep \/ SendConfig \/ Poll)
    /\ WF_vars(HostWait \/ HostSend \/ HostSent \/ HostRetry \/ HostFailed) /\ WF_vars(HostGone)
    /\ WF_vars(Arrive \/ Miss) /\ WF_vars(Slave)
    /\ WF_vars(Silence) /\ WF_vars(Booted)

LiveSpec == Spec /\ Fairness

-----------------------------------------------------------------------------
(* Correctness *)

\* The type invariant of the master, the second Pico and the link
TypeOK ==
    /\ inputs \in [Slots -> [pin : Pins \union {NoPin}, users : Nat]]
    /\ owners \in [Slots -> [Pins -> Nat]]
    /\ view \in [Slots -> BOOLEAN]
    /\ pc \in {"loop", "poll", "connected", "next", "hostIdle", "hostBusy"}
    /\ handling \in Transfers /\ transfer \in Transfers
    /\ phase \in {"none", "flight", "ok", "failed"} /\ (phase = "none" <=> transfer = "none")
    /\ {connected, checked, dirty, failed, ota, hostOta, up, pending} \subseteq BOOLEAN
    /\ silence \in {"fresh", "lapsed", "gone"}
    /\ stage \in {"begin", "chunks", "finish"} /\ offset \in 0..NChunks /\ updates \in 0..MaxUpdates
    /\ target \in {"none", "this", "other"}
    /\ hostCmd \in {"begin", "chunk", "finish"} /\ hostNext \in 0..NChunks /\ tries \in 0..HostTries
    /\ back \in {"loop", "poll", "connected", "next"}
    /\ configBuf \in Config /\ rxEvents \in Seq(Events) /\ {rxVersion, version} \subseteq Versions
    /\ config \in Config /\ buffer \in Config /\ taking \in Config \union {<< >>}
    /\ last \in [Slots -> BOOLEAN]
    /\ queue \in Seq(Events) /\ Len(queue) < QueueMax
    /\ slot \in [Chunks -> Contents] /\ phys \in [Pins -> BOOLEAN] /\ lost \subseteq Slots
    /\ dropped \in BOOLEAN

(* An id stays with the input it was handed out for, through others being   *)
(* registered, shared and unregistered (register_input, unregister_input).  *)
IdsStay ==
    \A s \in Slots, p \in Pins :
        owners[s][p] > 0 => inputs[s] = [pin |-> p, users |-> owners[s][p]]

(* Nothing is on its way to the second Pico, and it isn't busy with a config *)
Configured ==
    /\ pc = "loop" /\ phase = "none" /\ connected /\ checked /\ ~dirty /\ ~ota /\ ~hostOta
    /\ up /\ ~pending /\ taking = << >>

(* When the master has nothing more to send, the second Pico reads the      *)
(* inputs the master last registered: changes while a config is on its way, *)
(* transfers that fail on either side of being acted on, restarts and       *)
(* configs overwritten while they are decoded don't leave it with another   *)
(* (m_config_dirty, g_config_pending).                                      *)
LatestConfig == Configured => config = Wanted

(* and the only way for it to have another is an update the master began and *)
(* gave up, or gave up for one of the tool's, without checking the version  *)
(* again (send_ota_begin, transfer_failed).                                 *)
LatestConfigUnlessDropped == Configured /\ ~dropped => config = Wanted

(* When the master finishes its update of the second Pico every chunk is    *)
(* there, or the image was taken already and the answer lost, whatever      *)
(* failed and was sent again, and whatever the tool began in between        *)
(* (ota_step, transfer_succeeded).                                          *)
UpdateWhole ==
    (ota /\ stage = "finish") =>
        \/ \A c \in Chunks : slot[c] = "ours"
        \/ \A c \in Chunks : slot[c] = "previous"

(* The tool's update isn't disturbed by the master's own: the chunks it has *)
(* been told are sent are in the slot (m_host_ota, wait_idle).              *)
HostUpdateWhole ==
    (hostOta /\ hostCmd # "finish") => \A c \in 1..hostNext : slot[c] = "theirs"

(* Whoever updates the second Pico, the master or the tool through it, what *)
(* counts as sent is there.                                                 *)
UpdatesWhole == UpdateWhole /\ HostUpdateWhole

\* All is read, handled and as it was queued
Settled ==
    /\ Configured /\ config = Wanted /\ queue = << >>
    /\ \A s \in Slots : config[s] # NoPin => last[s] = phys[config[s]]

(* Once all events are read the master has each input as it is (the queue,  *)
(* decode_events), and the only ways for it not to are an event read in a   *)
(* transfer that failed, one dropped as the queue was full, one from before *)
(* the config was sent again, and a config that isn't sent again after the  *)
(* master took the second Pico for gone, as an update was dropped.          *)
EventsAgreeUnlessLost ==
    Settled /\ ~dropped => \A s \in Slots \ lost : Wanted[s] # NoPin => view[s] = phys[Wanted[s]]

\* m_host_ota is set, and nobody's update to finish: update() sends nothing
LeftBehind == hostOta /\ target # "this"

(* In the end the second Pico has its inputs: it comes back from restarts,  *)
(* updates that it accepts or rolls back, and updates of the tool's that are *)
(* given up, but for an update that is dropped, and one of the tool's that  *)
(* it leaves for another target without anyone cancelling it                *)
(* (max_auto_ota_attempts, version_received, cancel_host_ota).              *)
ConfigSettles == <>[](config = Wanted \/ dropped \/ LeftBehind)
=============================================================================
