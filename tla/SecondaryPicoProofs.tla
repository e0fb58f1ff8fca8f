------------------------ MODULE SecondaryPicoProofs ------------------------
(***************************************************************************)
(* What the master relies on: ids stay with their inputs, an update that is *)
(* finished was sent whole, the second Pico has the latest config, and once  *)
(* its events are read the master has the inputs as they are.               *)
(***************************************************************************)
EXTENDS SecondaryPico, TLAPS, NaturalsInduction, WellFoundedInduction

-----------------------------------------------------------------------------
(* Ids *)

IdTypes ==
    /\ inputs \in [Slots -> [pin : Pins \union {NoPin}, users : Nat]]
    /\ owners \in [Slots -> [Pins -> Nat]]

\* A slot counts who has it under the input it is for, and nobody under another
UsersCounted ==
    \A s \in Slots, p \in Pins :
        owners[s][p] = IF inputs[s].pin = p THEN inputs[s].users ELSE 0

IdInv == IdTypes /\ UsersCounted

LEMMA IdsFromCounts == IdInv => IdsStay
<1> SUFFICES ASSUME IdInv, NEW s \in Slots, NEW p \in Pins, owners[s][p] > 0
             PROVE  inputs[s] = [pin |-> p, users |-> owners[s][p]]
    BY DEF IdsStay
<1>1. inputs[s] \in [pin : Pins \union {NoPin}, users : Nat]
    BY DEF IdInv, IdTypes
<1>2. inputs[s].pin = p /\ inputs[s].users = owners[s][p]
    BY DEF IdInv, UsersCounted
<1> QED
    BY <1>1, <1>2

LEMMA RegisterKeepsIds == IdInv /\ RegisterInput => IdInv'
<1> SUFFICES ASSUME IdInv, RegisterInput
             PROVE  IdInv'
    OBVIOUS
<1>1. PICK p \in Pins, s \in Slots :
          /\ inputs[s].pin = p \/ inputs[s].users = 0
          /\ inputs' = [inputs EXCEPT ![s] = [pin |-> p, users |-> @.users + 1]]
          /\ owners' = [owners EXCEPT ![s][p] = @ + 1]
    BY DEF RegisterInput, Users
<1>2. IdTypes'
    BY <1>1 DEF IdInv, IdTypes
<1>3. UsersCounted'
  <2> SUFFICES ASSUME NEW t \in Slots, NEW r \in Pins
               PROVE  owners'[t][r] = IF inputs'[t].pin = r THEN inputs'[t].users ELSE 0
      BY DEF UsersCounted
  <2>1. owners[t][r] = IF inputs[t].pin = r THEN inputs[t].users ELSE 0
      BY DEF IdInv, UsersCounted
  <2> QED
      BY <1>1, <2>1 DEF IdInv, IdTypes
<1> QED
    BY <1>2, <1>3 DEF IdInv

LEMMA UnregisterKeepsIds == IdInv /\ UnregisterInput => IdInv'
<1> SUFFICES ASSUME IdInv, UnregisterInput
             PROVE  IdInv'
    OBVIOUS
<1>1. PICK p \in Pins, s \in Slots :
          /\ owners[s][p] > 0 /\ inputs[s].users > 0
          /\ owners' = [owners EXCEPT ![s][p] = @ - 1]
          /\ inputs' = IF inputs[s].users > 1
                       THEN [inputs EXCEPT ![s].users = @ - 1]
                       ELSE [inputs EXCEPT ![s] = [pin |-> NoPin, users |-> 0]]
    BY DEF UnregisterInput, Users
<1>2. inputs[s].pin = p /\ inputs[s].users = owners[s][p]
    BY <1>1 DEF IdInv, UsersCounted
<1>3. IdTypes'
    BY <1>1 DEF IdInv, IdTypes
<1>4. UsersCounted'
  <2> SUFFICES ASSUME NEW t \in Slots, NEW r \in Pins
               PROVE  owners'[t][r] = IF inputs'[t].pin = r THEN inputs'[t].users ELSE 0
      BY DEF UsersCounted
  <2>1. owners[t][r] = IF inputs[t].pin = r THEN inputs[t].users ELSE 0
      BY DEF IdInv, UsersCounted
  <2>2. r # NoPin
      BY PicoAssumption
  <2> QED
      BY <1>1, <1>2, <2>1, <2>2 DEF IdInv, IdTypes
<1> QED
    BY <1>3, <1>4 DEF IdInv

LEMMA OthersKeepIds == IdInv /\ UNCHANGED inputVars => IdInv'
    BY DEF IdInv, IdTypes, UsersCounted, inputVars

LEMMA IdsAtFirst == ASSUME Init PROVE IdInv
<1>1. inputs \in [Slots -> [pin : Pins, users : {1}]]
    BY DEF Init
<1>2. owners = [s \in Slots |-> [p \in Pins |-> IF inputs[s].pin = p THEN 1 ELSE 0]]
    BY DEF Init
<1> QED
    BY <1>1, <1>2 DEF IdInv, IdTypes, UsersCounted

LEMMA IdsKept == ASSUME IdInv, [Next]_vars PROVE IdInv'
<1>1. CASE RegisterInput
    BY <1>1, RegisterKeepsIds
<1>2. CASE UnregisterInput
    BY <1>2, UnregisterKeepsIds
<1>3. CASE FullPoll \/ NothingInFlight \/ InFlight \/ Complete \/ Reconnected \/ HandleReconnected
           \/ OtaStep \/ SendConfig \/ Poll \/ NotNow \/ Restart \/ Silence
    BY <1>3, OthersKeepIds
    DEF FullPoll, NothingInFlight, InFlight, Complete, Reconnected, HandleReconnected,
        OtaStep, SendConfig, Poll, NotNow, Restart, Silence
<1>4. CASE Host
    BY <1>4, OthersKeepIds
    DEF Host, HostCall, Retarget, HostWait, HostSend, HostSent, HostRetry, HostFailed, HostGone
<1>5. CASE Arrive \/ Miss \/ Slave \/ Toggle \/ Reboot \/ Booted
    BY <1>5, OthersKeepIds
    DEF Arrive, Miss, Slave, TakeConfig, BuildInputs, TickInput, Toggle, Reboot, Booted, masterVars
<1>6. CASE UNCHANGED vars
    BY <1>6, OthersKeepIds DEF vars, masterVars
<1> QED
    BY <1>1, <1>2, <1>3, <1>4, <1>5, <1>6 DEF Next, Master

\* An id is its input's from when it is handed out until its last user gives
\* it back, however many inputs are registered and unregistered meanwhile
THEOREM IdsStayAlways == Spec => []IdsStay
    BY IdsAtFirst, IdsKept, IdsFromCounts, PTL DEF Spec

-----------------------------------------------------------------------------
(* The master's update of the second Pico.  What is in the download slot is *)
(* as the stage says, and a transfer under way, or an answer that waits for *)
(* the tool to have been told, is for that stage; the tool's own update is   *)
(* kept apart as its beginning ends the master's.                           *)

OtaTransfers == {"begin", "chunk", "finish"}

OtaTypes ==
    /\ {ota, hostOta} \subseteq BOOLEAN
    /\ stage \in {"begin", "chunks", "finish"} /\ offset \in Nat
    /\ slot \in [Chunks -> Contents]

StageOf(kind) == CASE kind = "begin" -> "begin" [] kind = "chunk" -> "chunks" [] OTHER -> "finish"

\* Nothing else is sent while an answer waits to be handled but the
\* beginning of the tool's update
HandlingInv ==
    /\ handling # "none" =>
           \/ pc = "connected"
           \/ pc \in {"hostIdle", "hostBusy"} /\ back = "connected" /\ hostCmd = "begin"
    /\ transfer \notin {"none", "host"} => handling = "none"
    /\ back \in {"loop", "poll", "connected", "next"}
    /\ pc = "hostBusy" => transfer = "host"
    /\ transfer \in Transfers /\ (transfer = "none" => phase = "none")

HostInv ==
    /\ transfer = "host" => pc = "hostBusy" /\ hostOta
    /\ transfer = "host" /\ hostCmd = "begin" => ~ota
    /\ pc = "hostIdle" /\ hostCmd # "begin" => hostOta
    /\ ota /\ hostOta => stage = "begin"

\* A transfer of the update is for the stage it is at
TransferInv ==
    /\ transfer = "version" \/ handling = "version" => ~ota
    /\ transfer \in OtaTransfers => ota /\ ~hostOta /\ stage = StageOf(transfer)
    /\ handling \in OtaTransfers /\ ota => ~hostOta /\ stage = StageOf(handling)
    /\ (transfer = "chunk" /\ phase = "ok") \/ (handling = "chunk" /\ ota) => slot[offset + 1] = "ours"

StageInv ==
    /\ ota /\ stage = "begin" => offset = 0
    /\ ota /\ stage = "chunks" => offset < NChunks /\ \A c \in 1..offset : slot[c] = "ours"

OtaInv == OtaTypes /\ HandlingInv /\ HostInv /\ TransferInv /\ StageInv /\ UpdateWhole

\* The answers of the second Pico, handled at the stage they are for
LEMMA HandledKeepsOta ==
    ASSUME NEW kind, OtaTypes, StageInv, UpdateWhole, Handled(kind),
           kind = "version" => ~ota,
           kind \in OtaTransfers /\ ota => ~hostOta /\ stage = StageOf(kind),
           kind = "chunk" /\ ota => slot[offset + 1] = "ours",
           ota /\ hostOta => stage = "begin",
           UNCHANGED <<slot, hostOta>>
    PROVE  /\ OtaTypes' /\ StageInv' /\ UpdateWhole'
           /\ (ota /\ hostOta => stage = "begin")'
           /\ kind # "version" => (ota' => ota)
<1> USE DEF OtaTypes, StageInv, UpdateWhole, OtaTransfers, StageOf
<1>1. CASE kind = "version"
  <2>1. CASE ota' = TRUE /\ stage' = "begin" /\ offset' = 0
      BY <1>1, <2>1
  <2>2. CASE UNCHANGED <<ota, stage, offset>>
      BY <1>1, <2>2
  <2> QED
      BY <1>1, <2>1, <2>2 DEF Handled, VersionReceived
<1>2. CASE kind = "finish"
  <2>1. ota' = FALSE /\ UNCHANGED <<stage, offset>>
      BY <1>2 DEF Handled
  <2> QED
      BY <1>2, <2>1
<1>3. CASE kind = "begin"
  <2>1. stage' = "chunks" /\ UNCHANGED <<ota, offset>>
      BY <1>3 DEF Handled
  <2> QED
      BY <1>3, <2>1, PicoAssumption
<1>4. CASE kind = "chunk"
  <2>1. /\ offset' = offset + 1 /\ UNCHANGED ota
        /\ stage' = IF offset' = NChunks THEN "finish" ELSE stage
      BY <1>4 DEF Handled, ChunkSent
  <2>2. ASSUME ota
        PROVE  ~hostOta /\ offset < NChunks /\ \A c \in 1..(offset + 1) : slot[c] = "ours"
      BY <1>4, <2>2
  <2>3. CASE ota /\ offset + 1 = NChunks
      BY <1>4, <2>1, <2>2, <2>3 DEF Chunks
  <2>4. CASE ota /\ offset + 1 # NChunks
      BY <1>4, <2>1, <2>2, <2>4, PicoAssumption
  <2>5. CASE ~ota
      BY <1>4, <2>1, <2>5
  <2> QED
      BY <2>3, <2>4, <2>5
<1>5. CASE kind \notin {"version"} \union OtaTransfers
  <2>1. UNCHANGED <<ota, stage, offset>>
      BY <1>5 DEF Handled, otaVars
  <2> QED
      BY <1>5, <2>1
<1> QED
    BY <1>1, <1>2, <1>3, <1>4, <1>5

\* A transfer that ends, whoever waits for it: what it was for is handled or
\* it failed
LEMMA CompleteKeepsOta ==
    ASSUME OtaInv, CompleteTransfer, UNCHANGED <<slot, hostVars, handling>>,
           phase \in {"ok", "failed"},
           transfer # "host",
           pc' \in {pc, "next"}, pc' = "next" => pc \in {"loop", "poll"}
    PROVE  OtaInv'
<1>1. transfer' = "none" /\ phase' = "none"
    BY DEF CompleteTransfer, EndTransfer
<1>2. CASE TransferFailed
  <2>1. ota' \in BOOLEAN /\ (ota' => ota) /\ UNCHANGED <<stage, offset>>
      BY <1>2 DEF TransferFailed, OtaInv, OtaTypes
  <2> QED
      BY <1>1, <2>1 DEF OtaInv, OtaTypes, HandlingInv, HostInv, TransferInv, StageInv, UpdateWhole,
                        OtaTransfers, Transfers, hostVars
<1>3. CASE Answered /\ Handled(transfer)
  <2>1. /\ OtaTypes' /\ StageInv' /\ UpdateWhole'
        /\ (ota /\ hostOta => stage = "begin")'
      BY <1>3, HandledKeepsOta DEF OtaInv, HostInv, TransferInv, Answered, hostVars
  <2>2. transfer # "none" => handling = "none"
      BY DEF OtaInv, HandlingInv
  <2>3. transfer = "none" => UNCHANGED <<ota, stage, offset>>
      BY <1>3 DEF Handled, otaVars
  <2> QED
      BY <1>1, <2>1, <2>2, <2>3
      DEF OtaInv, HandlingInv, HostInv, TransferInv, OtaTransfers, Transfers, hostVars
<1> QED
    BY <1>2, <1>3 DEF CompleteTransfer

\* What OtaInv is about
otaLink == <<ota, stage, offset, slot, hostOta, handling, transfer, phase, back, hostCmd>>

\* The loop's place between transfers
LEMMA PlaceKeepsOta ==
    ASSUME OtaInv, UNCHANGED otaLink,
           pc' = pc \/ {pc, pc'} \subseteq {"loop", "poll", "next"}
    PROVE  OtaInv'
    BY DEF OtaInv, OtaTypes, HandlingInv, HostInv, TransferInv, StageInv, UpdateWhole, otaLink

\* The tool is told before the answer is handled
LEMMA ReconnectedKeepsOta ==
    ASSUME OtaInv, Reconnected \/ HandleReconnected
    PROVE  OtaInv'
<1>1. CASE Reconnected
  <2>1. /\ phase = "ok" /\ handling' = transfer /\ pc' = "connected"
        /\ transfer' = "none" /\ phase' = "none" /\ pc \in {"loop", "poll"}
        /\ UNCHANGED <<ota, stage, offset, slot, hostOta, back, hostCmd>>
      BY <1>1 DEF Reconnected, Answered, EndTransfer, Updating, otaVars, hostVars, slaveVars
  <2> QED
      BY <2>1 DEF OtaInv, OtaTypes, HandlingInv, HostInv, TransferInv, StageInv, UpdateWhole,
                  OtaTransfers, Transfers
<1>2. CASE HandleReconnected
  <2>1. /\ pc = "connected" /\ handling' = "none" /\ pc' = "next"
        /\ UNCHANGED <<slot, hostOta, transfer, phase, back, hostCmd>>
      BY <1>2 DEF HandleReconnected, hostVars, slaveVars, linkVars
  <2>2. /\ OtaTypes' /\ StageInv' /\ UpdateWhole'
        /\ (ota /\ hostOta => stage = "begin")'
        /\ handling = "none" => UNCHANGED <<ota, stage, offset>>
    <3>1. Handled(handling)
        BY <1>2 DEF HandleReconnected
    <3>2. handling = "none" => UNCHANGED <<ota, stage, offset>>
        BY <3>1 DEF Handled, otaVars
    <3> QED
        BY <2>1, <3>1, <3>2, HandledKeepsOta DEF OtaInv, HostInv, TransferInv
  <2>3. transfer # "none" => handling = "none"
      BY <2>1 DEF OtaInv, HandlingInv, HostInv
  <2> QED
      BY <2>1, <2>2, <2>3 DEF OtaInv, HandlingInv, HostInv, TransferInv, OtaTransfers, Transfers
<1> QED
    BY <1>1, <1>2

\* The master's next transfer
LEMMA SendingKeepsOta ==
    ASSUME OtaInv, OtaStep \/ SendConfig \/ Poll \/ Restart
    PROVE  OtaInv'
<1>1. CASE OtaStep
  <2>1. /\ pc = "next" /\ ~hostOta /\ ota /\ pc' = "loop" /\ phase' = "flight"
        /\ UNCHANGED <<ota, stage, offset, slot, hostOta, handling, back, hostCmd>>
      BY <1>1 DEF OtaStep, Idle, StartTransfer, otaVars, hostVars, slaveVars
  <2>2. transfer' \in OtaTransfers /\ stage = StageOf(transfer')
    <3>1. CASE stage = "begin"
        BY <1>1, <3>1 DEF OtaStep, Idle, StartTransfer, OtaTransfers, StageOf
    <3>2. CASE stage = "chunks"
        BY <1>1, <3>2 DEF OtaStep, Idle, StartTransfer, OtaTransfers, StageOf
    <3>3. CASE stage = "finish"
        BY <1>1, <3>3 DEF OtaStep, Idle, StartTransfer, OtaTransfers, StageOf
    <3> QED
        BY <3>1, <3>2, <3>3 DEF OtaInv, OtaTypes
  <2> QED
      BY <2>1, <2>2 DEF OtaInv, OtaTypes, HandlingInv, HostInv, TransferInv, StageInv, UpdateWhole,
                        OtaTransfers, Transfers, StageOf
<1>2. CASE SendConfig \/ Poll
  <2>1. /\ pc = "next" /\ ~ota /\ pc' = "loop" /\ phase' = "flight"
        /\ transfer' \in {"config", "events", "version"}
        /\ UNCHANGED <<ota, stage, offset, slot, hostOta, handling, back, hostCmd>>
      BY <1>2 DEF SendConfig, Poll, Idle, StartTransfer, otaVars, hostVars, slaveVars
  <2> QED
      BY <2>1 DEF OtaInv, OtaTypes, HandlingInv, HostInv, TransferInv, StageInv, UpdateWhole,
                  OtaTransfers, Transfers
<1>3. CASE Restart
  <2>1. /\ ota' = FALSE /\ offset' = 0 /\ transfer' = "none" /\ phase' = "none" /\ pc = "loop"
        /\ hostOta' = FALSE /\ UNCHANGED <<pc, stage, slot, handling, back, hostCmd>>
      BY <1>3 DEF Restart, EndTransfer, slaveVars
  <2> QED
      BY <2>1 DEF OtaInv, OtaTypes, HandlingInv, HostInv, TransferInv, StageInv, UpdateWhole,
                  OtaTransfers, Transfers
<1> QED
    BY <1>1, <1>2, <1>3

\* The tool's update: its beginning ends the master's, and after that it has
\* the second Pico to itself until the master begins one again
LEMMA HostKeepsOta ==
    ASSUME OtaInv, Host
    PROVE  OtaInv'
<1> USE DEF OtaInv, OtaTypes, HandlingInv, HostInv, TransferInv, StageInv, UpdateWhole, OtaTransfers, Transfers
<1>1. CASE HostCall
  <2>1. /\ pc' = "hostIdle" /\ back' = pc
        /\ \/ pc \in {"loop", "poll", "connected", "next"} /\ hostCmd' = "begin"
           \/ pc = "loop" /\ hostOta
        /\ UNCHANGED <<ota, stage, offset, slot, hostOta, handling, transfer, phase>>
      BY <1>1 DEF HostCall, Serviced, otaVars, slaveVars, linkVars
  <2> QED
      BY <2>1
<1>2. CASE HostWait
  <2>1. /\ CompleteTransfer /\ pc = "hostIdle" /\ phase \in {"ok", "failed"} /\ pc' = pc
        /\ UNCHANGED <<slot, hostVars, handling>>
      BY <1>2 DEF HostWait, slaveVars
  <2>2. transfer # "host"
      BY <2>1
  <2> QED
      BY <2>1, <2>2, CompleteKeepsOta
<1>3. CASE HostSend
  <2>1. /\ pc = "hostIdle" /\ pc' = "hostBusy" /\ transfer' = "host" /\ phase' = "flight"
        /\ hostOta' = TRUE /\ ota' = (ota /\ hostCmd # "begin")
        /\ UNCHANGED <<stage, offset, slot, handling, back, hostCmd>>
      BY <1>3 DEF HostSend, StartTransfer, slaveVars
  <2> QED
      BY <2>1
<1>4. CASE HostSent
  <2>1. /\ pc = "hostBusy" /\ pc' = back /\ transfer' = "none" /\ phase' = "none"
        /\ hostOta' = (hostCmd # "finish")
        /\ UNCHANGED <<ota, stage, offset, slot, handling, back, hostCmd>>
      BY <1>4 DEF HostSent, EndTransfer, otaVars, slaveVars
  <2> QED
      BY <2>1
<1>5. CASE HostRetry
  <2>1. /\ pc = "hostBusy" /\ pc' = "hostIdle" /\ transfer' = "none" /\ phase' = "none"
        /\ ota' = (ota /\ silence # "gone")
        /\ UNCHANGED <<stage, offset, slot, hostOta, handling, back, hostCmd>>
      BY <1>5 DEF HostRetry, TransferFailed, EndTransfer, hostVars, slaveVars
  <2> QED
      BY <2>1
<1>6. CASE HostFailed
  <2>1. /\ pc = "hostBusy" /\ pc' = back /\ transfer' = "none" /\ phase' = "none"
        /\ hostOta' = FALSE /\ ota' = (ota /\ silence # "gone")
        /\ UNCHANGED <<stage, offset, slot, handling, back, hostCmd>>
      BY <1>6 DEF HostFailed, EndTransfer, slaveVars
  <2> QED
      BY <2>1
<1>7. CASE HostGone
  <2>1. /\ pc = "loop" /\ hostOta' \in {hostOta, FALSE}
        /\ UNCHANGED <<pc, ota, stage, offset, slot, handling, transfer, phase, back, hostCmd>>
      BY <1>7 DEF HostGone, otaVars, slaveVars, linkVars
  <2>2. CASE hostOta' = hostOta
      BY <2>1, <2>2, PlaceKeepsOta DEF otaLink
  <2>3. CASE hostOta' = FALSE
      BY <2>1, <2>3
  <2> QED
      BY <2>1, <2>2, <2>3
<1>8. CASE Retarget
    BY <1>8, PlaceKeepsOta DEF Retarget, otaLink, otaVars, slaveVars, linkVars
<1> QED
    BY <1>1, <1>2, <1>3, <1>4, <1>5, <1>6, <1>7, <1>8 DEF Host

\* The second Pico's part: a transfer that arrives, and one that doesn't
LEMMA LinkKeepsOta ==
    ASSUME OtaInv, Arrive \/ Miss
    PROVE  OtaInv'
<1> USE DEF OtaInv, OtaTypes, HandlingInv, HostInv, TransferInv, StageInv, UpdateWhole, OtaTransfers, Transfers
<1>1. CASE Miss
  <2>1. /\ phase = "flight" /\ phase' = "failed"
        /\ UNCHANGED <<ota, stage, offset, slot, hostOta, handling, transfer, pc, back, hostCmd>>
      BY <1>1 DEF Miss, masterVars, otaVars, hostVars, slaveVars
  <2> QED
      BY <2>1
<1>2. CASE Arrive
  <2>1. /\ Act
        /\ UNCHANGED <<ota, stage, offset, hostOta, hostNext, handling, transfer, pc, back, hostCmd>>
      BY <1>2 DEF Arrive, masterVars, otaVars, hostVars
  <2>2. CASE transfer \in {"events", "version", "config"}
    <3>1. UNCHANGED slot
      <4>1. CASE transfer = "events"
          BY <2>1, <4>1 DEF Act
      <4>2. CASE transfer = "version"
          BY <2>1, <4>2 DEF Act, slaveVars
      <4>3. CASE transfer = "config"
          BY <2>1, <4>3 DEF Act
      <4> QED
          BY <2>2, <4>1, <4>2, <4>3
    <3> QED
        BY <2>1, <2>2, <3>1
  <2>3. CASE transfer = "begin"
    <3>1. slot' = [c \in Chunks |-> "erased"]
        BY <2>1, <2>3 DEF Act, BeginOta
    <3> QED
        BY <2>1, <2>3, <3>1 DEF StageOf, Contents
  <2>4. CASE transfer = "chunk"
    <3>1. slot' = [slot EXCEPT ![offset + 1] = "ours"]
        BY <2>1, <2>4 DEF Act, WriteChunk
    <3>2. stage = "chunks" /\ offset < NChunks /\ ota /\ handling = "none"
        BY <2>4 DEF StageOf
    <3>3. offset + 1 \in Chunks
        BY <3>2, PicoAssumption DEF Chunks
    <3> QED
        BY <2>1, <2>4, <3>1, <3>2, <3>3 DEF Contents, Versions
  <2>5. ASSUME FinishOta
        PROVE  \/ UNCHANGED slot
               \/ slot' = [c \in Chunks |-> "previous"]
      BY <2>5 DEF FinishOta
  <2>6. CASE transfer = "finish"
    <3>1. FinishOta
        BY <2>1, <2>6 DEF Act
    <3>2. stage = "finish" /\ ota /\ handling = "none"
        BY <2>6 DEF StageOf
    <3> QED
        BY <2>1, <2>5, <2>6, <3>1, <3>2 DEF Contents
  <2>7. CASE transfer = "host"
    <3>1. \/ slot' = [c \in Chunks |-> "erased"]
          \/ slot' = [slot EXCEPT ![hostNext + 1] = "theirs"]
          \/ UNCHANGED slot
          \/ slot' = [c \in Chunks |-> "previous"]
      <4>1. CASE hostCmd = "begin"
          BY <2>1, <2>7, <4>1 DEF Act, BeginOta
      <4>2. CASE hostCmd = "chunk"
          BY <2>1, <2>7, <4>2 DEF Act, WriteChunk
      <4>3. CASE hostCmd \notin {"begin", "chunk"}
          BY <2>1, <2>5, <2>7, <4>3 DEF Act
      <4> QED
          BY <4>1, <4>2, <4>3
    <3>2. slot' \in [Chunks -> Contents]
        BY <3>1 DEF Contents, Versions
    <3>3. ota => stage = "begin"
        BY <2>7
    <3>4. ota => handling = "none" \/ handling \notin OtaTransfers
        BY <2>7
    <3> QED
        BY <2>1, <2>7, <3>2, <3>3, <3>4
  <2>8. transfer # "none"
      BY <1>2 DEF Arrive
  <2> QED
      BY <2>2, <2>3, <2>4, <2>6, <2>7, <2>8 DEF Transfers
<1> QED
    BY <1>1, <1>2

LEMMA OtaAtFirst == ASSUME Init PROVE OtaInv
<1>1. /\ ota = FALSE /\ hostOta = FALSE /\ stage = "begin" /\ offset = 0
      /\ back = "loop" /\ pc = "loop" /\ hostCmd = "begin" /\ handling = "none"
      /\ transfer = "none" /\ phase = "none"
      /\ slot = [c \in Chunks |-> "previous"]
    BY DEF Init
<1> QED
    BY <1>1 DEF OtaInv, OtaTypes, HandlingInv, HostInv, TransferInv, StageInv, UpdateWhole,
                OtaTransfers, Transfers, Contents

LEMMA OtaStays == ASSUME OtaInv, [Next]_vars PROVE OtaInv'
<1>1. CASE \/ RegisterInput \/ UnregisterInput \/ Silence \/ FullPoll \/ NothingInFlight
           \/ InFlight \/ NotNow
  <2>1. UNCHANGED otaLink
      BY <1>1
      DEF otaLink, RegisterInput, UnregisterInput, Silence, FullPoll, NothingInFlight, InFlight, NotNow,
          otaVars, hostVars, linkVars, slaveVars
  <2>2. pc' = pc \/ {pc, pc'} \subseteq {"loop", "poll", "next"}
      BY <1>1
      DEF RegisterInput, UnregisterInput, Silence, FullPoll, NothingInFlight, InFlight, NotNow, Updating
  <2> QED
      BY <2>1, <2>2, PlaceKeepsOta
<1>2. CASE Complete
  <2>1. transfer # "host"
      BY <1>2 DEF Complete, Updating, OtaInv, HostInv
  <2> QED
      BY <1>2, <2>1, CompleteKeepsOta DEF Complete, Updating, slaveVars
<1>3. CASE Reconnected \/ HandleReconnected
    BY <1>3, ReconnectedKeepsOta
<1>4. CASE OtaStep \/ SendConfig \/ Poll \/ Restart
    BY <1>4, SendingKeepsOta
<1>5. CASE Host
    BY <1>5, HostKeepsOta
<1>6. CASE Arrive \/ Miss
    BY <1>6, LinkKeepsOta
<1>7. CASE Slave \/ Toggle \/ Reboot \/ Booted \/ UNCHANGED vars
  <2>1. UNCHANGED <<otaLink, pc>>
      BY <1>7
      DEF otaLink, Slave, TakeConfig, BuildInputs, TickInput, Toggle, Reboot, Booted,
          vars, masterVars, otaVars, hostVars, linkVars, slaveVars
  <2> QED
      BY <2>1, PlaceKeepsOta
<1> QED
    BY <1>1, <1>2, <1>3, <1>4, <1>5, <1>6, <1>7 DEF Next, Master

\* An update the master finishes was sent whole, whatever failed, was sent
\* twice or came in between, for any length of firmware and any number of tries
THEOREM UpdatesAreWhole == Spec => []UpdateWhole
<1>1. OtaInv => UpdateWhole
    BY DEF OtaInv
<1> QED
    BY <1>1, OtaAtFirst, OtaStays, PTL DEF Spec

-----------------------------------------------------------------------------
(* The tool's update of the second Pico.  The chunk it sends is the next    *)
(* one, is there once it is answered for, and nothing but the tool's        *)
(* transfers touches the slot until its update ends.                        *)

HostSendInv ==
    /\ hostCmd \in {"begin", "chunk", "finish"} /\ hostNext \in 0..NChunks
    /\ hostOta /\ hostCmd = "finish" => pc \in {"hostIdle", "hostBusy"}
    /\ hostOta /\ hostCmd = "chunk" /\ pc \in {"hostIdle", "hostBusy"} => hostNext < NChunks
    /\ transfer = "host" /\ hostCmd = "begin" => hostNext = 0
    /\ transfer = "host" /\ hostCmd = "chunk" /\ phase = "ok" => slot[hostNext + 1] = "theirs"

HostUpdateInv == OtaInv /\ HostSendInv /\ HostUpdateWhole

\* What the master does by itself leaves the tool's update alone
LEMMA MasterKeepsHost ==
    ASSUME HostSendInv, HostUpdateWhole, UNCHANGED <<hostOta, hostCmd, hostNext, slot>>,
           pc' = pc \/ {pc, pc'} \cap {"hostIdle", "hostBusy"} = {},
           transfer' # "host" \/ UNCHANGED <<transfer, phase>> \/ (transfer' = transfer /\ phase' = "failed")
    PROVE  HostSendInv' /\ HostUpdateWhole'
    BY DEF HostSendInv, HostUpdateWhole

\* Each step of the tool's
LEMMA HostKeepsHost ==
    ASSUME HostUpdateInv, Host
    PROVE  HostSendInv' /\ HostUpdateWhole'
<1> USE PicoAssumption DEF HostUpdateInv, HostSendInv, HostUpdateWhole
<1>0. /\ hostOta \in BOOLEAN /\ (pc = "hostBusy" => transfer = "host" /\ hostOta)
      /\ (transfer = "host" => pc = "hostBusy") /\ (pc = "hostIdle" /\ hostCmd # "begin" => hostOta)
      /\ back \in {"loop", "poll", "connected", "next"}
    BY DEF OtaInv, OtaTypes, HandlingInv, HostInv
<1>1. CASE HostCall
  <2>1. /\ pc \in {"loop", "poll", "connected", "next"} /\ pc' = "hostIdle"
        /\ UNCHANGED <<hostOta, hostNext, slot, transfer, phase>>
        /\ hostCmd' = "begin" \/ (hostOta /\ hostCmd' = Asked)
      BY <1>1 DEF HostCall, Serviced, slaveVars, linkVars
  <2>2. transfer # "host" /\ (hostOta => hostCmd # "finish")
      BY <1>0, <2>1
  <2>3. CASE hostCmd' = "begin"
      BY <2>1, <2>2, <2>3
  <2>4. CASE hostOta /\ hostCmd' = Asked
      BY <2>1, <2>2, <2>4 DEF Asked
  <2> QED
      BY <2>1, <2>3, <2>4
<1>2. CASE HostWait
  <2>1. UNCHANGED <<pc, hostOta, hostCmd, hostNext, slot>> /\ transfer' = "none"
      BY <1>2 DEF HostWait, CompleteTransfer, EndTransfer, hostVars, slaveVars
  <2> QED
      BY <2>1, MasterKeepsHost
<1>3. CASE HostSend
  <2>1. /\ pc = "hostIdle" /\ pc' = "hostBusy" /\ phase' = "flight" /\ hostOta' = TRUE
        /\ hostNext' = IF hostCmd = "begin" THEN 0 ELSE hostNext
        /\ UNCHANGED <<hostCmd, slot>>
      BY <1>3 DEF HostSend, StartTransfer, slaveVars
  <2> QED
      BY <1>0, <2>1
<1>4. CASE HostSent
  <2>1. /\ pc = "hostBusy" /\ phase = "ok" /\ pc' = back /\ transfer' = "none"
        /\ hostOta' = (hostCmd # "finish")
        /\ hostNext' = IF hostCmd = "chunk" THEN hostNext + 1 ELSE hostNext
        /\ UNCHANGED <<hostCmd, slot>>
      BY <1>4 DEF HostSent, Answered, EndTransfer, slaveVars
  <2>2. CASE hostCmd = "chunk"
    <3>1. hostNext < NChunks /\ slot[hostNext + 1] = "theirs" /\ \A c \in 1..hostNext : slot[c] = "theirs"
        BY <1>0, <2>1, <2>2
    <3>2. \A c \in 1..(hostNext + 1) : c = hostNext + 1 \/ c \in 1..hostNext
        OBVIOUS
    <3> QED
        BY <1>0, <2>1, <2>2, <3>1, <3>2
  <2>3. CASE hostCmd # "chunk"
      BY <1>0, <2>1, <2>3
  <2> QED
      BY <2>2, <2>3
<1>5. CASE HostRetry
  <2>1. /\ pc = "hostBusy" /\ pc' = "hostIdle" /\ transfer' = "none"
        /\ UNCHANGED <<hostOta, hostCmd, hostNext, slot>>
      BY <1>5 DEF HostRetry, EndTransfer, hostVars, slaveVars
  <2> QED
      BY <2>1
<1>6. CASE HostFailed
  <2>1. hostOta' = FALSE /\ transfer' = "none" /\ UNCHANGED <<hostCmd, hostNext, slot>>
      BY <1>6 DEF HostFailed, EndTransfer, slaveVars
  <2> QED
      BY <1>0, <2>1
<1>7. CASE HostGone
  <2>1. /\ hostOta' = hostOta \/ hostOta' = FALSE
        /\ UNCHANGED <<pc, transfer, phase, hostCmd, hostNext, slot>>
      BY <1>0, <1>7 DEF HostGone, slaveVars, linkVars
  <2>2. CASE hostOta' = hostOta
      BY <2>1, <2>2, MasterKeepsHost
  <2>3. CASE hostOta' = FALSE
      BY <2>1, <2>3
  <2> QED
      BY <2>1, <2>2, <2>3
<1>8. CASE Retarget
  <2>1. UNCHANGED <<pc, transfer, phase, hostOta, hostCmd, hostNext, slot>>
      BY <1>8 DEF Retarget, slaveVars, linkVars
  <2> QED
      BY <2>1, MasterKeepsHost
<1> QED
    BY <1>1, <1>2, <1>3, <1>4, <1>5, <1>6, <1>7, <1>8 DEF Host

\* What arrives: the master's own transfers only while the tool has none
LEMMA ArrivalKeepsHost ==
    ASSUME HostUpdateInv, Arrive
    PROVE  HostSendInv' /\ HostUpdateWhole'
<1> USE PicoAssumption DEF HostUpdateInv, HostSendInv, HostUpdateWhole
<1>0. /\ Act
      /\ UNCHANGED <<hostOta, hostCmd, hostNext, offset, transfer, pc>>
      /\ hostOta \in BOOLEAN /\ slot \in [Chunks -> Contents] /\ transfer \in Transfers \ {"none"}
      /\ transfer = "host" => pc = "hostBusy" /\ hostOta
    BY DEF Arrive, masterVars, otaVars, hostVars, OtaInv, OtaTypes, HandlingInv, HostInv
<1>1. CASE transfer \in {"events", "version", "config"}
  <2>1. UNCHANGED slot
      BY <1>0, <1>1 DEF Act, slaveVars
  <2> QED
      BY <1>0, <1>1, <2>1
<1>2. CASE transfer \in OtaTransfers
  <2>1. ~hostOta
      BY <1>2 DEF OtaInv, TransferInv
  <2> QED
      BY <1>0, <1>2, <2>1 DEF OtaTransfers
<1>3. CASE transfer = "host" /\ hostCmd = "begin"
    BY <1>0, <1>3
<1>4. CASE transfer = "host" /\ hostCmd = "chunk"
  <2>1. slot' = [slot EXCEPT ![hostNext + 1] = "theirs"]
      BY <1>0, <1>4 DEF Act, WriteChunk
  <2>2. hostNext + 1 \in Chunks /\ \A c \in 1..hostNext : c \in Chunks /\ slot[c] = "theirs"
      BY <1>0, <1>4 DEF Chunks
  <2> QED
      BY <1>0, <1>4, <2>1, <2>2
<1>5. CASE transfer = "host" /\ hostCmd = "finish"
    BY <1>0, <1>5
<1> QED
    BY <1>0, <1>1, <1>2, <1>3, <1>4, <1>5 DEF Transfers, OtaTransfers

LEMMA HostUpdateAtFirst == ASSUME Init PROVE HostUpdateInv
<1>1. hostOta = FALSE /\ hostCmd = "begin" /\ hostNext = 0 /\ transfer = "none"
    BY DEF Init
<1> QED
    BY <1>1, OtaAtFirst, PicoAssumption DEF HostUpdateInv, HostSendInv, HostUpdateWhole

LEMMA HostUpdateKept == ASSUME HostUpdateInv, [Next]_vars PROVE HostUpdateInv'
<1> SUFFICES HostSendInv' /\ HostUpdateWhole'
    BY OtaStays DEF HostUpdateInv
<1>1. CASE Host
    BY <1>1, HostKeepsHost
<1>2. CASE Arrive
    BY <1>2, ArrivalKeepsHost
<1>3. CASE Complete \/ Reconnected \/ HandleReconnected \/ OtaStep \/ SendConfig \/ Poll
  <2>1. /\ UNCHANGED <<hostOta, hostCmd, hostNext, slot>>
        /\ pc' = pc \/ {pc, pc'} \cap {"hostIdle", "hostBusy"} = {}
      BY <1>3
      DEF Complete, Reconnected, HandleReconnected, OtaStep, SendConfig, Poll,
          Updating, Idle, hostVars, slaveVars
  <2>2. transfer' # "host" \/ UNCHANGED <<transfer, phase>>
      BY <1>3
      DEF Complete, CompleteTransfer, Reconnected, HandleReconnected, OtaStep, SendConfig, Poll,
          Idle, StartTransfer, EndTransfer, linkVars
  <2> QED
      BY <2>1, <2>2, MasterKeepsHost DEF HostUpdateInv
<1>4. CASE \/ RegisterInput \/ UnregisterInput \/ Silence \/ FullPoll \/ NothingInFlight
           \/ InFlight \/ NotNow
  <2>1. /\ UNCHANGED <<hostOta, hostCmd, hostNext, slot, transfer, phase>>
        /\ pc' = pc \/ {pc, pc'} \cap {"hostIdle", "hostBusy"} = {}
      BY <1>4
      DEF RegisterInput, UnregisterInput, Silence, FullPoll, NothingInFlight, InFlight, NotNow,
          Updating, hostVars, linkVars, slaveVars
  <2> QED
      BY <2>1, MasterKeepsHost DEF HostUpdateInv
<1>5. CASE Miss \/ Slave \/ Toggle \/ Reboot \/ Booted \/ UNCHANGED vars
  <2>1. /\ UNCHANGED <<hostOta, hostCmd, hostNext, slot, transfer, pc>>
        /\ phase' = phase \/ phase' = "failed"
      BY <1>5
      DEF Miss, Slave, TakeConfig, BuildInputs, TickInput, Toggle, Reboot, Booted,
          vars, masterVars, hostVars, linkVars, slaveVars
  <2> QED
      BY <2>1, MasterKeepsHost DEF HostUpdateInv
<1>6. CASE Restart
  <2>1. /\ hostOta' = FALSE /\ transfer' = "none"
        /\ UNCHANGED <<hostCmd, hostNext>>
      BY <1>6 DEF Restart, EndTransfer
  <2> QED
      BY <2>1 DEF HostUpdateInv, HostSendInv, HostUpdateWhole
<1> QED
    BY <1>1, <1>2, <1>3, <1>4, <1>5, <1>6 DEF Next, Master

\* Whoever updates the second Pico, what it is told is there is there, for
\* any length of firmware and any number of tries
THEOREM BothUpdatesAreWhole == Spec => []UpdatesWhole
<1>1. HostUpdateInv => UpdatesWhole
    BY DEF HostUpdateInv, OtaInv, UpdatesWhole
<1> QED
    BY <1>1, HostUpdateAtFirst, HostUpdateKept, PTL DEF Spec

-----------------------------------------------------------------------------
(* What the events say of an input: the last of each slot counts *)

Ofs(events, s) == {i \in 1..Len(events) : events[i].slot = s}

\* A set of numbers below a bound has a greatest one
LEMMA Greatest ==
    ASSUME NEW n \in Nat, NEW T, T \subseteq 0..n, T # {}
    PROVE  \E x \in T : \A y \in T : x >= y
<1> DEFINE R == {ss \in Nat \X Nat : ss[1] < ss[2]}
           U == {k \in Nat : \A y \in T : k >= y}
<1>1. IsWellFoundedOn(R, Nat)
    BY NatLessThanWellFounded DEF OpToRel
<1>2. n \in U /\ U \subseteq Nat
    OBVIOUS
<1>3. PICK x \in U : \A y \in U : ~ (<<y, x>> \in R)
    <2> HIDE DEF R, U
    <2> QED BY <1>1, <1>2, WFMin
<1>4. CASE x \in T
    BY <1>4
<1>5. CASE x \notin T
  <2>1. \A y \in T : x >= y /\ x # y /\ y \in Nat
      BY <1>5
  <2>2. x \in Nat /\ x # 0
    <3>1. PICK y \in T : y \in Nat /\ x >= y /\ x # y
        BY <2>1
    <3> QED
        BY <3>1
  <2>3. x - 1 \in U /\ <<x - 1, x>> \in R
      BY <2>1, <2>2
  <2> QED
      BY <1>3, <2>3
<1> QED
    BY <1>4, <1>5

LEMMA NoEvent ==
    ASSUME NEW events \in Seq(Events), NEW s, NEW before, Ofs(events, s) = {}
    PROVE  After(events, s, before) = before
    BY DEF After, SelectLastInSeq, Ofs

LEMMA LastEvent ==
    ASSUME NEW events \in Seq(Events), NEW s, NEW before, Ofs(events, s) # {}
    PROVE  \E k \in Ofs(events, s) :
               (\A i \in Ofs(events, s) : k >= i) /\ After(events, s, before) = events[k].state
<1>1. PICK k \in Ofs(events, s) : \A i \in Ofs(events, s) : k >= i
  <2>1. Len(events) \in Nat /\ Ofs(events, s) \subseteq 0..Len(events)
      BY DEF Ofs
  <2> QED
      BY <2>1, Greatest
<1> DEFINE I == {i \in 1..Len(events) : events[i].slot = s}
<1>2. k \in I /\ k # 0 /\ \A i \in I : k >= i
    BY <1>1 DEF Ofs
<1>3. Max(I) = k
    BY <1>2 DEF Max
<1>4. After(events, s, before) = events[k].state
    BY <1>2, <1>3 DEF After, SelectLastInSeq
<1> QED
    BY <1>1, <1>4

LEMMA LastIs ==
    ASSUME NEW events \in Seq(Events), NEW s, NEW before, NEW k \in Ofs(events, s),
           \A i \in Ofs(events, s) : k >= i
    PROVE  After(events, s, before) = events[k].state
<1>1. PICK j \in Ofs(events, s) :
          (\A i \in Ofs(events, s) : j >= i) /\ After(events, s, before) = events[j].state
    BY LastEvent
<1>2. j = k
    BY <1>1 DEF Ofs
<1> QED
    BY <1>1, <1>2

LEMMA AfterTyped ==
    ASSUME NEW events \in Seq(Events), NEW s, NEW before \in BOOLEAN
    PROVE  After(events, s, before) \in BOOLEAN
<1>1. CASE Ofs(events, s) = {}
    BY <1>1, NoEvent
<1>2. CASE Ofs(events, s) # {}
  <2>1. PICK k \in Ofs(events, s) : After(events, s, before) = events[k].state
      BY <1>2, LastEvent
  <2>2. events[k] \in Events
      BY DEF Ofs
  <2> QED
      BY <2>1, <2>2 DEF Events
<1> QED
    BY <1>1, <1>2

\* One more event: it counts for its own slot
LEMMA AfterAppended ==
    ASSUME NEW events \in Seq(Events), NEW e \in Events, NEW s, NEW before
    PROVE  After(Append(events, e), s, before)
               = IF e.slot = s THEN e.state ELSE After(events, s, before)
<1> DEFINE more == Append(events, e)
<1>1. more \in Seq(Events) /\ Len(more) = Len(events) + 1 /\ Len(events) \in Nat
    OBVIOUS
<1>2. more[Len(events) + 1] = e /\ \A i \in 1..Len(events) : more[i] = events[i]
    OBVIOUS
<1>3. Ofs(more, s) = Ofs(events, s) \union IF e.slot = s THEN {Len(events) + 1} ELSE {}
    <2> HIDE DEF more
    <2> QED BY <1>1, <1>2 DEF Ofs
<1> HIDE DEF more
<1>4. CASE e.slot = s
  <2>1. Len(events) + 1 \in Ofs(more, s) /\ \A i \in Ofs(more, s) : Len(events) + 1 >= i
      BY <1>1, <1>2, <1>3, <1>4 DEF Ofs
  <2>2. After(more, s, before) = more[Len(events) + 1].state
      BY <1>1, <2>1, LastIs
  <2> QED
      BY <1>2, <1>4, <2>2 DEF more
<1>5. CASE e.slot # s /\ Ofs(events, s) = {}
    BY <1>1, <1>3, <1>5, NoEvent DEF more
<1>6. CASE e.slot # s /\ Ofs(events, s) # {}
  <2>1. PICK k \in Ofs(events, s) :
            (\A i \in Ofs(events, s) : k >= i) /\ After(events, s, before) = events[k].state
      BY <1>6, LastEvent
  <2>2. After(more, s, before) = more[k].state
      BY <1>1, <1>3, <1>6, <2>1, LastIs
  <2>3. more[k] = events[k]
      BY <1>2 DEF Ofs
  <2> QED
      BY <1>6, <2>1, <2>2, <2>3 DEF more
<1> QED
    BY <1>4, <1>5, <1>6

\* Events that are read part by part come to what they do at once
LEMMA AfterInParts ==
    ASSUME NEW events \in Seq(Events), NEW s, NEW before
    PROVE  After(Rest(events), s, After(Fitting(events), s, before)) = After(events, s, before)
<1> DEFINE n == IF Len(events) < ReadMax THEN Len(events) ELSE ReadMax
           first == Fitting(events)
           rest == Rest(events)
<1>1. n \in Nat /\ n <= Len(events) /\ Len(events) \in Nat
    BY PicoAssumption
<1>2. first \in Seq(Events) /\ Len(first) = n /\ \A i \in 1..n : first[i] = events[i]
    BY <1>1 DEF Fitting
<1>3. /\ rest \in Seq(Events) /\ Len(rest) = Len(events) - n
      /\ \A i \in 1..(Len(events) - n) : rest[i] = events[n + i]
  <2>1. rest = SubSeq(events, n + 1, Len(events))
      BY <1>2 DEF Rest
  <2> HIDE DEF rest, n
  <2> QED
      BY <1>1, <2>1
<1> HIDE DEF n, first, rest
<1>4. \A i \in Ofs(first, s) : i \in Ofs(events, s) /\ i <= n
    BY <1>1, <1>2 DEF Ofs
<1>5. \A i \in Ofs(rest, s) : n + i \in Ofs(events, s)
    BY <1>1, <1>3 DEF Ofs
<1>6. \A i \in Ofs(events, s) : i \in Ofs(first, s) \/ (i > n /\ i - n \in Ofs(rest, s))
  <2> SUFFICES ASSUME NEW i \in Ofs(events, s), i > n
               PROVE  i - n \in Ofs(rest, s)
      BY <1>1, <1>2 DEF Ofs
  <2>1. i - n \in 1..(Len(events) - n) /\ n + (i - n) = i
      BY <1>1 DEF Ofs
  <2>2. rest[i - n] = events[i]
      BY <1>3, <2>1
  <2> QED
      BY <1>3, <2>1, <2>2 DEF Ofs
<1>7. CASE Ofs(rest, s) # {}
  <2> DEFINE b == After(first, s, before)
  <2> HIDE DEF b
  <2>1. PICK k \in Ofs(rest, s) :
            (\A i \in Ofs(rest, s) : k >= i) /\ After(rest, s, b) = rest[k].state
      BY <1>3, <1>7, LastEvent
  <2>2. n + k \in Ofs(events, s) /\ \A i \in Ofs(events, s) : n + k >= i
    <3>1. n + k \in Ofs(events, s) /\ k \in Nat
        BY <1>5, <2>1 DEF Ofs
    <3>2. ASSUME NEW i \in Ofs(events, s) PROVE n + k >= i
      <4>1. i \in Nat
          BY DEF Ofs
      <4>2. CASE i \in Ofs(first, s)
          BY <1>1, <1>4, <3>1, <4>1, <4>2
      <4>3. CASE i > n /\ i - n \in Ofs(rest, s)
        <5>1. k >= i - n
            BY <2>1, <4>3
        <5> QED
            BY <1>1, <3>1, <4>1, <5>1
      <4> QED
          BY <1>6, <4>2, <4>3
    <3> QED
        BY <3>1, <3>2
  <2>3. After(events, s, before) = events[n + k].state
      BY <2>2, LastIs
  <2>4. rest[k] = events[n + k]
      BY <1>3 DEF Ofs
  <2> QED
      BY <2>1, <2>3, <2>4 DEF b, first, rest
<1>8. CASE Ofs(rest, s) = {} /\ Ofs(first, s) # {}
  <2>1. PICK k \in Ofs(first, s) :
            (\A i \in Ofs(first, s) : k >= i) /\ After(first, s, before) = first[k].state
      BY <1>2, <1>8, LastEvent
  <2>2. k \in Ofs(events, s) /\ \A i \in Ofs(events, s) : k >= i
      BY <1>4, <1>6, <1>8, <2>1
  <2>3. After(events, s, before) = events[k].state
      BY <2>2, LastIs
  <2>4. first[k] = events[k]
      BY <1>2 DEF Ofs
  <2>5. \A b : After(rest, s, b) = b
      BY <1>3, <1>8, NoEvent
  <2> QED
      BY <2>1, <2>3, <2>4, <2>5 DEF first, rest
<1>9. CASE Ofs(rest, s) = {} /\ Ofs(first, s) = {}
  <2>1. Ofs(events, s) = {}
      BY <1>6, <1>9
  <2>2. \A b : After(rest, s, b) = b /\ After(first, s, b) = b /\ After(events, s, b) = b
      BY <1>2, <1>3, <1>9, <2>1, NoEvent
  <2> QED
      BY <2>2 DEF first, rest
<1> QED
    BY <1>7, <1>8, <1>9

LEMMA SlotsOfEvents ==
    ASSUME NEW events \in Seq(Events), NEW s
    PROVE  s \in SlotsOf(events) <=> Ofs(events, s) # {}
    BY DEF SlotsOf, Ofs, Range

-----------------------------------------------------------------------------
(* Types.  Where the loop is says what it may be waiting for *)

StateTypes ==
    /\ view \in [Slots -> BOOLEAN] /\ {connected, checked, dirty, failed, dropped} \subseteq BOOLEAN
    /\ silence \in {"fresh", "lapsed", "gone"}

CountTypes ==
    /\ pc \in {"loop", "poll", "connected", "next", "hostIdle", "hostBusy"}
    /\ offset \in 0..NChunks /\ updates \in 0..MaxUpdates /\ tries \in 0..HostTries
    /\ phase \in {"none", "flight", "ok", "failed"} /\ (phase = "none" => transfer = "none")

BufferTypes == configBuf \in Config /\ rxEvents \in Seq(Events) /\ rxVersion \in Versions

SlaveTypes ==
    /\ {up, pending} \subseteq BOOLEAN /\ version \in Versions
    /\ config \in Config /\ buffer \in Config /\ taking \in Config \union {<< >>}
    /\ last \in [Slots -> BOOLEAN]
    /\ queue \in Seq(Events) /\ Len(queue) < QueueMax

PlaceTypes == phys \in [Pins -> BOOLEAN] /\ lost \subseteq Slots

PlaceInv ==
    /\ pc \in {"next", "connected"} => transfer = "none"
    /\ pc = "hostIdle" => tries < HostTries
    /\ transfer = "chunk" \/ handling = "chunk" => offset < NChunks
    /\ handling \in Transfers \ {"host"}

TargetType == target \in {"none", "this", "other"}

PicoInv ==
    /\ IdInv /\ HostUpdateInv /\ TargetType
    /\ StateTypes /\ CountTypes /\ BufferTypes /\ SlaveTypes /\ PlaceTypes /\ PlaceInv

LEMMA Typed == PicoInv => TypeOK
<1> SUFFICES ASSUME PicoInv
             PROVE  TypeOK
    OBVIOUS
<1>1. /\ inputs \in [Slots -> [pin : Pins \union {NoPin}, users : Nat]]
      /\ owners \in [Slots -> [Pins -> Nat]]
    BY DEF PicoInv, IdInv, IdTypes
<1>2. /\ {ota, hostOta} \subseteq BOOLEAN /\ stage \in {"begin", "chunks", "finish"}
      /\ slot \in [Chunks -> Contents]
      /\ hostCmd \in {"begin", "chunk", "finish"} /\ hostNext \in 0..NChunks
      /\ back \in {"loop", "poll", "connected", "next"}
      /\ transfer \in Transfers /\ (transfer = "none" => phase = "none")
    BY DEF PicoInv, HostUpdateInv, OtaInv, OtaTypes, HostSendInv, HandlingInv
<1>3. handling \in Transfers
    BY DEF PicoInv, PlaceInv
<1>4. StateTypes /\ CountTypes /\ BufferTypes /\ SlaveTypes /\ PlaceTypes /\ TargetType
    BY DEF PicoInv
<1> QED
    BY <1>1, <1>2, <1>3, <1>4 DEF TypeOK, TargetType, StateTypes, CountTypes, BufferTypes, SlaveTypes, PlaceTypes

LEMMA EventsTyped ==
    ASSUME rxEvents \in Seq(Events), view \in [Slots -> BOOLEAN], EventsReceived
    PROVE  view' \in [Slots -> BOOLEAN]
<1>1. \A s \in Slots : After(rxEvents, s, view[s]) \in BOOLEAN
    BY AfterTyped
<1> QED
    BY <1>1 DEF EventsReceived

\* An answer that is handled, at once or after the tool was told
LEMMA HandledTyped ==
    ASSUME NEW kind, StateTypes, BufferTypes, Handled(kind),
           offset \in 0..NChunks, updates \in 0..MaxUpdates, kind = "chunk" => offset < NChunks
    PROVE  /\ view' \in [Slots -> BOOLEAN] /\ {checked', dirty', dropped'} \subseteq BOOLEAN
           /\ offset' \in 0..NChunks /\ updates' \in 0..MaxUpdates
           /\ kind = "none" => UNCHANGED offset
<1>1. view' \in [Slots -> BOOLEAN]
  <2>1. CASE kind = "events"
      BY <2>1, EventsTyped DEF Handled, StateTypes, BufferTypes
  <2>2. CASE kind # "events"
      BY <2>2 DEF Handled, StateTypes
  <2> QED
      BY <2>1, <2>2
<1>2. {checked', dirty', dropped'} \subseteq BOOLEAN
  <2> USE DEF Handled, StateTypes
  <2>1. CASE kind = "version"
      BY <2>1 DEF VersionReceived
  <2>2. CASE kind # "version"
      BY <2>2 DEF ChunkSent, otaVars
  <2> QED
      BY <2>1, <2>2
<1>3. offset' \in 0..NChunks
  <2>1. CASE kind = "version"
      BY <2>1, PicoAssumption DEF Handled, VersionReceived
  <2>2. CASE kind = "chunk"
      BY <2>2, PicoAssumption DEF Handled, ChunkSent
  <2>3. CASE kind \notin {"version", "chunk"}
      BY <2>3 DEF Handled, otaVars
  <2> QED
      BY <2>1, <2>2, <2>3
<1>4. updates' \in 0..MaxUpdates
  <2>1. CASE kind = "version"
      BY <2>1, PicoAssumption DEF Handled, VersionReceived
  <2>2. CASE kind # "version"
      BY <2>2 DEF Handled, otaVars
  <2> QED
      BY <2>1, <2>2
<1>5. kind = "none" => UNCHANGED offset
    BY DEF Handled, otaVars
<1> QED
    BY <1>1, <1>2, <1>3, <1>4, <1>5

LEMMA FailedTyped ==
    ASSUME StateTypes, TransferFailed
    PROVE  StateTypes' /\ UNCHANGED <<offset, updates>>
<1>1. view' \in {Released, view} /\ {connected', checked', dirty', failed', dropped'} \subseteq BOOLEAN
    BY DEF TransferFailed, Drops, StateTypes
<1>2. Released \in [Slots -> BOOLEAN]
    BY DEF Released
<1>3. UNCHANGED <<silence, offset, updates>>
    BY DEF TransferFailed
<1> QED
    BY <1>1, <1>2, <1>3 DEF StateTypes

LEMMA CompleteTyped ==
    ASSUME PicoInv, CompleteTransfer, UNCHANGED handling, phase # "none",
           \/ pc \in {"loop", "poll"} /\ pc' = "next" /\ UNCHANGED tries
           \/ pc = "hostIdle" /\ UNCHANGED <<pc, tries>>
    PROVE  StateTypes' /\ CountTypes' /\ BufferTypes' /\ PlaceInv'
<1>1. /\ transfer' = "none" /\ phase' = "none"
      /\ UNCHANGED <<configBuf, rxEvents, rxVersion>>
    BY DEF CompleteTransfer, EndTransfer
<1>2. BufferTypes'
    BY <1>1 DEF PicoInv, BufferTypes
<1>3. /\ StateTypes' /\ offset' \in 0..NChunks /\ updates' \in 0..MaxUpdates
      /\ handling = "chunk" => UNCHANGED offset
  <2>1. CASE TransferFailed
      BY <2>1, FailedTyped DEF PicoInv, CountTypes
  <2>2. CASE Answered /\ Handled(transfer)
    <3>1. /\ view' \in [Slots -> BOOLEAN] /\ {checked', dirty', dropped'} \subseteq BOOLEAN
          /\ offset' \in 0..NChunks /\ updates' \in 0..MaxUpdates
          /\ transfer = "none" => UNCHANGED offset
        BY <2>2, HandledTyped DEF PicoInv, PlaceInv, CountTypes
    <3>2. connected' = TRUE /\ failed' = FALSE /\ silence' = "fresh"
        BY <2>2 DEF Answered
    <3>3. handling = "chunk" => transfer \in {"none", "host"}
        BY DEF PicoInv, HostUpdateInv, OtaInv, HandlingInv
    <3>4. transfer = "host" => UNCHANGED offset
        BY <2>2 DEF Handled, otaVars
    <3> QED
        BY <3>1, <3>2, <3>3, <3>4 DEF StateTypes
  <2> QED
      BY <2>1, <2>2 DEF CompleteTransfer
<1>4. CountTypes'
    BY <1>1, <1>3 DEF PicoInv, CountTypes
<1>5. PlaceInv'
    BY <1>1, <1>3 DEF PicoInv, PlaceInv
<1> QED
    BY <1>2, <1>3, <1>4, <1>5

LEMMA MasterTyped ==
    ASSUME PicoInv, Master
    PROVE  StateTypes' /\ CountTypes' /\ BufferTypes' /\ PlaceInv'
<1>0. /\ stage \in {"begin", "chunks", "finish"} /\ ota \in BOOLEAN
      /\ ota /\ stage = "chunks" => offset < NChunks
      /\ transfer = "host" => pc = "hostBusy"
      /\ transfer \in Transfers /\ (transfer = "none" => phase = "none")
      /\ transfer \notin {"none", "host"} => handling = "none"
      /\ Released \in [Slots -> BOOLEAN]
    BY DEF PicoInv, HostUpdateInv, OtaInv, OtaTypes, StageInv, HostInv, HandlingInv, Released
<1>1. CASE RegisterInput
  <2>1. /\ dirty' \in {dirty, TRUE}
        /\ UNCHANGED <<view, connected, checked, failed, dropped, silence, pc, offset, updates, tries,
                       phase, transfer, handling, configBuf, rxEvents, rxVersion>>
      BY <1>1 DEF RegisterInput, otaVars, hostVars, linkVars
  <2> QED
      BY <2>1 DEF PicoInv, StateTypes, CountTypes, BufferTypes, PlaceInv
<1>2. CASE UnregisterInput
  <2>1. /\ dirty' \in {dirty, TRUE}
        /\ UNCHANGED <<connected, checked, failed, dropped, silence, pc, offset, updates, tries,
                       phase, transfer, handling, configBuf, rxEvents, rxVersion>>
      BY <1>2 DEF UnregisterInput, otaVars, hostVars, linkVars
  <2>2. PICK s \in Slots : view' \in {view, [view EXCEPT ![s] = FALSE]}
      BY <1>2 DEF UnregisterInput
  <2>3. view' \in [Slots -> BOOLEAN]
      BY <2>2 DEF PicoInv, StateTypes
  <2> QED
      BY <2>1, <2>3 DEF PicoInv, StateTypes, CountTypes, BufferTypes, PlaceInv
<1>3. CASE FullPoll \/ NothingInFlight \/ InFlight \/ NotNow
  <2>1. /\ dirty' \in {dirty, TRUE}
        /\ pc' \in {"poll", "loop"} \/ (pc' = "next" /\ phase = "none")
        /\ UNCHANGED <<view, connected, checked, failed, dropped, silence, offset, updates, tries,
                       phase, transfer, handling, configBuf, rxEvents, rxVersion>>
      BY <1>3 DEF FullPoll, NothingInFlight, InFlight, NotNow, stateVars, otaVars, hostVars, linkVars
  <2> QED
      BY <2>1 DEF PicoInv, StateTypes, CountTypes, BufferTypes, PlaceInv
<1>4. CASE Complete
    BY <1>4, CompleteTyped DEF Complete, Updating, hostVars
<1>5. CASE Reconnected
  <2>1. /\ connected' = TRUE /\ failed' = FALSE /\ silence' = "fresh"
        /\ handling' = transfer /\ pc' = "connected" /\ transfer' = "none" /\ phase' = "none"
        /\ pc \in {"loop", "poll"}
        /\ UNCHANGED <<view, checked, dirty, dropped, offset, updates, tries, configBuf, rxEvents, rxVersion>>
      BY <1>5 DEF Reconnected, Updating, Answered, EndTransfer, otaVars, hostVars
  <2>2. StateTypes' /\ CountTypes' /\ BufferTypes'
      BY <2>1 DEF PicoInv, StateTypes, CountTypes, BufferTypes
  <2>3. PlaceInv'
      BY <1>0, <2>1 DEF PicoInv, PlaceInv
  <2> QED
      BY <2>2, <2>3
<1>6. CASE HandleReconnected
  <2>1. /\ Handled(handling) /\ handling' = "none" /\ pc = "connected" /\ pc' = "next"
        /\ UNCHANGED <<connected, failed, silence, tries, transfer, phase, configBuf, rxEvents, rxVersion>>
      BY <1>6 DEF HandleReconnected, hostVars, linkVars
  <2>2. /\ view' \in [Slots -> BOOLEAN] /\ {checked', dirty', dropped'} \subseteq BOOLEAN
        /\ offset' \in 0..NChunks /\ updates' \in 0..MaxUpdates
      BY <2>1, HandledTyped DEF PicoInv, PlaceInv, CountTypes
  <2>3. StateTypes' /\ BufferTypes'
      BY <2>1, <2>2 DEF PicoInv, StateTypes, BufferTypes
  <2>4. CountTypes' /\ PlaceInv'
      BY <2>1, <2>2 DEF PicoInv, CountTypes, PlaceInv, Transfers
  <2> QED
      BY <2>3, <2>4
<1>7. CASE OtaStep
  <2>1. /\ ota /\ pc = "next" /\ pc' = "loop" /\ phase' = "flight"
        /\ transfer' \in {"begin", "chunk", "finish"}
        /\ transfer' = "chunk" => stage = "chunks"
        /\ UNCHANGED <<view, connected, checked, dirty, failed, dropped, silence, offset, updates, tries,
                       handling, configBuf, rxEvents, rxVersion>>
      BY <1>0, <1>7 DEF OtaStep, Idle, StartTransfer, stateVars, otaVars, hostVars
  <2>2. StateTypes' /\ BufferTypes'
      BY <2>1 DEF PicoInv, StateTypes, BufferTypes
  <2>3. CountTypes'
      BY <2>1 DEF PicoInv, CountTypes
  <2>4. PlaceInv'
      BY <1>0, <2>1 DEF PicoInv, PlaceInv
  <2> QED
      BY <2>2, <2>3, <2>4
<1>8. CASE SendConfig
  <2>1. /\ pc' = "loop" /\ phase' = "flight" /\ transfer' = "config"
        /\ configBuf' = Wanted /\ dirty' = FALSE /\ view' = Released /\ dropped' = FALSE
        /\ UNCHANGED <<connected, checked, failed, silence, offset, updates, tries, handling,
                       rxEvents, rxVersion>>
      BY <1>8 DEF SendConfig, Idle, StartTransfer, hostVars
  <2>2. Wanted \in Config
      BY DEF PicoInv, IdInv, IdTypes, Wanted, Config
  <2>3. StateTypes'
      BY <1>0, <2>1 DEF PicoInv, StateTypes
  <2>4. CountTypes' /\ PlaceInv'
      BY <2>1 DEF PicoInv, CountTypes, PlaceInv
  <2>5. BufferTypes'
      BY <2>1, <2>2 DEF PicoInv, BufferTypes
  <2> QED
      BY <2>3, <2>4, <2>5
<1>9. CASE Poll
  <2>1. /\ pc' = "loop" /\ phase' = "flight" /\ transfer' \in {"events", "version"}
        /\ UNCHANGED <<view, connected, checked, dirty, failed, dropped, silence, offset, updates, tries,
                       handling, configBuf, rxEvents, rxVersion>>
      BY <1>9 DEF Poll, Idle, StartTransfer, stateVars, otaVars, hostVars
  <2> QED
      BY <2>1 DEF PicoInv, StateTypes, CountTypes, BufferTypes, PlaceInv
<1>10. CASE Restart
  <2>1. /\ connected' = FALSE /\ checked' = FALSE /\ dirty' = TRUE /\ failed' = FALSE
        /\ silence' = "fresh" /\ view' = Released /\ offset' = 0 /\ updates' = 0
        /\ pc = "loop" /\ transfer' = "none" /\ phase' = "none"
        /\ UNCHANGED <<pc, dropped, tries, handling, configBuf, rxEvents, rxVersion>>
      BY <1>10 DEF Restart, EndTransfer
  <2>2. StateTypes' /\ BufferTypes'
      BY <1>0, <2>1 DEF PicoInv, StateTypes, BufferTypes
  <2>3. CountTypes'
      BY <2>1, PicoAssumption DEF PicoInv, CountTypes
  <2>4. PlaceInv'
      BY <2>1, PicoAssumption DEF PicoInv, PlaceInv
  <2> QED
      BY <2>2, <2>3, <2>4
<1> QED
    BY <1>1, <1>2, <1>3, <1>4, <1>5, <1>6, <1>7, <1>8, <1>9, <1>10 DEF Master

LEMMA HostTyped ==
    ASSUME PicoInv, Host
    PROVE  StateTypes' /\ CountTypes' /\ BufferTypes' /\ PlaceInv'
<1>0. /\ back \in {"loop", "poll", "connected", "next"} /\ Released \in [Slots -> BOOLEAN]
      /\ transfer \in Transfers /\ (transfer = "none" => phase = "none")
      /\ transfer \notin {"none", "host"} => handling = "none"
      /\ pc = "hostBusy" => transfer = "host"
      /\ {ota, hostOta} \subseteq BOOLEAN
    BY DEF PicoInv, HostUpdateInv, OtaInv, OtaTypes, HandlingInv, Released
<1>1. CASE HostCall \/ Retarget \/ HostGone
  <2>1. /\ (pc' = "hostIdle" /\ tries' = 0) \/ UNCHANGED <<pc, tries>>
        /\ UNCHANGED <<view, connected, checked, dirty, failed, dropped, silence, offset, updates, handling,
                       transfer, phase, configBuf, rxEvents, rxVersion>>
      BY <1>1 DEF HostCall, Retarget, HostGone, stateVars, otaVars, hostVars, linkVars
  <2>2. StateTypes' /\ BufferTypes'
      BY <2>1 DEF PicoInv, StateTypes, BufferTypes
  <2>3. CountTypes' /\ PlaceInv'
      BY <2>1, PicoAssumption DEF PicoInv, CountTypes, PlaceInv
  <2> QED
      BY <2>2, <2>3
<1>2. CASE HostWait
  <2>1. CompleteTransfer /\ phase # "none" /\ pc = "hostIdle" /\ UNCHANGED <<handling, pc, tries>>
      BY <1>2 DEF HostWait, hostVars
  <2> QED
      BY <2>1, CompleteTyped
<1>3. CASE HostSend
  <2>1. /\ pc = "hostIdle" /\ pc' = "hostBusy" /\ transfer' = "host" /\ phase' = "flight"
        /\ tries' = tries + 1 /\ dropped' \in BOOLEAN
        /\ UNCHANGED <<view, connected, checked, dirty, failed, silence, offset, updates, handling,
                       configBuf, rxEvents, rxVersion>>
      BY <1>3 DEF HostSend, StartTransfer, Drops, stateVars, PicoInv, StateTypes
  <2>2. StateTypes' /\ BufferTypes'
      BY <2>1 DEF PicoInv, StateTypes, BufferTypes
  <2>3. CountTypes' /\ PlaceInv'
      BY <2>1, PicoAssumption DEF PicoInv, CountTypes, PlaceInv
  <2> QED
      BY <2>2, <2>3
<1>4. CASE HostSent
  <2>1. /\ pc = "hostBusy" /\ pc' = back /\ transfer' = "none" /\ phase' = "none"
        /\ connected' = TRUE /\ failed' = FALSE /\ silence' = "fresh" /\ checked' \in BOOLEAN
        /\ UNCHANGED <<view, dirty, dropped, offset, updates, tries, handling, configBuf, rxEvents, rxVersion>>
      BY <1>4 DEF HostSent, Answered, EndTransfer, otaVars, PicoInv, StateTypes
  <2> QED
      BY <1>0, <2>1 DEF PicoInv, StateTypes, CountTypes, BufferTypes, PlaceInv
<1>5. CASE HostRetry
  <2>1. /\ TransferFailed /\ pc' = "hostIdle" /\ tries < HostTries /\ transfer' = "none" /\ phase' = "none"
        /\ UNCHANGED <<tries, handling, configBuf, rxEvents, rxVersion>>
      BY <1>5 DEF HostRetry, EndTransfer, hostVars
  <2>2. StateTypes' /\ UNCHANGED <<offset, updates>>
      BY <2>1, FailedTyped DEF PicoInv
  <2> QED
      BY <2>1, <2>2 DEF PicoInv, CountTypes, BufferTypes, PlaceInv
<1>6. CASE HostFailed
  <2>1. /\ view' \in {view, Released} /\ {connected', checked', dropped'} \subseteq BOOLEAN
        /\ failed' = TRUE /\ pc' = back /\ transfer' = "none" /\ phase' = "none"
        /\ UNCHANGED <<dirty, silence, offset, updates, tries, handling, configBuf, rxEvents, rxVersion>>
      BY <1>6 DEF HostFailed, Drops, EndTransfer, PicoInv, StateTypes
  <2> QED
      BY <1>0, <2>1 DEF PicoInv, StateTypes, CountTypes, BufferTypes, PlaceInv
<1> QED
    BY <1>1, <1>2, <1>3, <1>4, <1>5, <1>6 DEF Host

\* The second Pico's variables, and what a transfer that arrives leaves in them
LEMMA SlotsOfTyped == ASSUME NEW events \in Seq(Events) PROVE SlotsOf(events) \subseteq Slots
<1>1. \A i \in DOMAIN events : events[i] \in Events
    OBVIOUS
<1> QED
    BY <1>1 DEF SlotsOf, Range, Events

LEMMA QueueTyped ==
    ASSUME NEW events \in Seq(Events), Len(events) < QueueMax
    PROVE  /\ Fitting(events) \in Seq(Events) /\ SlotsOf(events) \subseteq Slots
           /\ Rest(events) \in Seq(Events) /\ Len(Rest(events)) < QueueMax
<1> DEFINE n == IF Len(events) < ReadMax THEN Len(events) ELSE ReadMax
<1>1. n \in Nat /\ n <= Len(events) /\ Len(events) \in Nat
    BY PicoAssumption
<1>2. Fitting(events) \in Seq(Events) /\ Len(Fitting(events)) = n
    BY <1>1 DEF Fitting
<1>3. Rest(events) = SubSeq(events, n + 1, Len(events))
    BY <1>2 DEF Rest
<1>4. SlotsOf(events) \subseteq Slots
    BY SlotsOfTyped
<1> HIDE DEF n
<1>5. SubSeq(events, n + 1, Len(events)) \in Seq(Events)
      /\ Len(SubSeq(events, n + 1, Len(events))) = Len(events) - n
    BY <1>1
<1> QED
    BY <1>1, <1>2, <1>3, <1>4, <1>5, PicoAssumption

LEMMA ForgottenTyped ==
    ASSUME Forgotten
    PROVE  /\ pending' = FALSE /\ config' \in Config /\ buffer' \in Config /\ taking' = << >>
           /\ last' \in [Slots -> BOOLEAN] /\ queue' \in Seq(Events) /\ Len(queue') < QueueMax
    BY PicoAssumption DEF Forgotten, NoConfig, Config, Released

LEMMA ActTyped ==
    ASSUME PicoInv, Act, UNCHANGED configBuf
    PROVE  BufferTypes' /\ SlaveTypes'
<1> USE DEF PicoInv, BufferTypes, SlaveTypes
<1>1. CASE transfer = "events"
  <2>1. /\ rxEvents' = Fitting(queue) /\ queue' = Rest(queue)
        /\ UNCHANGED <<rxVersion, up, version, config, last, buffer, pending, taking>>
      BY <1>1 DEF Act, TakeEvents
  <2> QED
      BY <2>1, QueueTyped
<1>2. CASE transfer = "version"
    BY <1>2 DEF Act, slaveVars
<1>3. CASE transfer = "config"
    BY <1>3 DEF Act
<1>4. CASE transfer \notin {"events", "version", "config"}
  <2>1. /\ UNCHANGED <<rxEvents, rxVersion>>
        /\ (up' /\ UNCHANGED <<config, last, queue, buffer, pending, taking>>) \/ Forgotten
      BY <1>4 DEF Act
  <2>2. up' \in {up, FALSE} /\ version' \in Versions
    <3>1. ASSUME FinishOta PROVE up' \in {up, FALSE} /\ version' \in Versions
        BY <3>1 DEF FinishOta
    <3>2. BeginOta \/ (\E c, v : WriteChunk(c, v)) \/ FinishOta
        BY <1>4 DEF Act
    <3> QED
        BY <3>1, <3>2 DEF BeginOta, WriteChunk
  <2> QED
      BY <2>1, <2>2, ForgottenTyped
<1> QED
    BY <1>1, <1>2, <1>3, <1>4

LEMMA BuiltTyped ==
    ASSUME NEW s \in Slots, SlaveTypes, config[s] # NoPin,
           last' = [last EXCEPT ![s] = ~@],
           IF Len(queue) < QueueMax - 1
           THEN queue' = Append(queue, [slot |-> s, state |-> ~last[s]])
           ELSE UNCHANGED queue
    PROVE  last' \in [Slots -> BOOLEAN] /\ queue' \in Seq(Events) /\ Len(queue') < QueueMax
<1>1. [slot |-> s, state |-> ~last[s]] \in Events
    BY DEF Events
<1>2. last' \in [Slots -> BOOLEAN]
    BY DEF SlaveTypes
<1> DEFINE e == [slot |-> s, state |-> ~last[s]]
<1> HIDE DEF e
<1>3. e \in Events /\ (IF Len(queue) < QueueMax - 1 THEN queue' = Append(queue, e) ELSE UNCHANGED queue)
    BY <1>1 DEF e
<1>4. queue' \in Seq(Events) /\ Len(queue') < QueueMax
    BY <1>3, PicoAssumption DEF SlaveTypes
<1> QED
    BY <1>2, <1>4

LEMMA SlaveTyped ==
    ASSUME PicoInv, [Next]_vars
    PROVE  SlaveTypes' /\ PlaceTypes'
<1> USE DEF PicoInv, SlaveTypes, PlaceTypes
<1>1. CASE Master \/ Host \/ Silence \/ UNCHANGED vars
  <2>1. UNCHANGED <<slaveVars, phys, lost>>
      BY <1>1
      DEF Master, RegisterInput, UnregisterInput, FullPoll, NothingInFlight, InFlight, Complete, Reconnected,
          HandleReconnected, OtaStep, SendConfig, Poll, NotNow, Restart, Host, HostCall, Retarget, HostWait,
          HostSend, HostSent, HostRetry, HostFailed, HostGone, Silence, vars, envVars
  <2> QED
      BY <2>1 DEF slaveVars
<1>2. CASE Arrive
  <2>1. SlaveTypes'
      BY <1>2, ActTyped DEF Arrive
  <2>2. SlotsOf(Fitting(queue)) \subseteq Slots
      BY QueueTyped, SlotsOfTyped
  <2>3. phys' = phys /\ lost' \subseteq Slots
      BY <1>2, <2>2 DEF Arrive
  <2> QED
      BY <2>1, <2>3
<1>3. CASE Miss
    BY <1>3 DEF Miss, slaveVars
<1>4. CASE TakeConfig
  <2>1. SlotsOf(queue) \subseteq Slots /\ (SlotsOf(rxEvents) \subseteq Slots)
      BY SlotsOfTyped DEF BufferTypes
  <2>2. lost' \subseteq Slots
      BY <1>4, <2>1 DEF TakeConfig
  <2> QED
      BY <1>4, <2>2 DEF TakeConfig, NoConfig, Config, Released
<1>5. CASE BuildInputs
    BY <1>5 DEF BuildInputs, envVars
<1>6. CASE TickInput
  <2>1. PICK s \in Slots :
            /\ config[s] # NoPin
            /\ last' = [last EXCEPT ![s] = ~@]
            /\ IF Len(queue) < QueueMax - 1
               THEN queue' = Append(queue, [slot |-> s, state |-> ~last[s]]) /\ UNCHANGED lost
               ELSE lost' = lost \union {s} /\ UNCHANGED queue
      BY <1>6 DEF TickInput
  <2>2. last' \in [Slots -> BOOLEAN] /\ queue' \in Seq(Events) /\ Len(queue') < QueueMax
      BY <2>1, BuiltTyped
  <2>3. lost' \in {lost, lost \union {s}}
      BY <2>1
  <2> QED
      BY <1>6, <2>2, <2>3 DEF TickInput
<1>7. CASE Toggle
  <2>1. PICK p \in Pins : phys' = [phys EXCEPT ![p] = ~@]
      BY <1>7 DEF Toggle
  <2> QED
      BY <1>7, <2>1 DEF Toggle, slaveVars
<1>8. CASE Reboot
    BY <1>8, ForgottenTyped DEF Reboot
<1>9. CASE Booted
    BY <1>9 DEF Booted, envVars
<1> QED
    BY <1>1, <1>2, <1>3, <1>4, <1>5, <1>6, <1>7, <1>8, <1>9 DEF Next, Slave

LEMMA PicoAtFirst == ASSUME Init PROVE PicoInv
<1>1. NoConfig \in Config /\ Released \in [Slots -> BOOLEAN] /\ 0 < QueueMax
    BY PicoAssumption DEF NoConfig, Config, Released
<1>2. StateTypes
    BY <1>1 DEF Init, StateTypes
<1>3. BufferTypes
  <2>1. configBuf = NoConfig /\ rxEvents = << >> /\ rxVersion = "ours"
      BY DEF Init
  <2> QED
      BY <1>1, <2>1 DEF BufferTypes, Versions
<1>4. CountTypes /\ PlaceInv
    BY PicoAssumption DEF Init, CountTypes, PlaceInv, Transfers
<1>5. SlaveTypes
  <2>1. /\ up = TRUE /\ version \in Versions /\ config = NoConfig /\ last = Released /\ queue = << >>
        /\ buffer = NoConfig /\ pending = FALSE /\ taking = << >>
      BY DEF Init
  <2>2. << >> \in Seq(Events) /\ Len(<< >>) < QueueMax
      BY <1>1
  <2> QED
      BY <1>1, <2>1, <2>2 DEF SlaveTypes
<1>6. PlaceTypes /\ TargetType
    BY DEF Init, PlaceTypes, TargetType
<1> QED
    BY <1>2, <1>3, <1>4, <1>5, <1>6, IdsAtFirst, HostUpdateAtFirst DEF PicoInv

\* Only metadata and the end of an update change what is updated
LEMMA TargetTyped == ASSUME TargetType, [Next]_vars PROVE TargetType'
<1>1. CASE Master \/ Silence
    BY <1>1
    DEF Master, RegisterInput, UnregisterInput, FullPoll, NothingInFlight, InFlight, Complete, Reconnected,
        HandleReconnected, OtaStep, SendConfig, Poll, NotNow, Restart, Silence, hostVars, TargetType
<1>2. CASE Host
    BY <1>2
    DEF Host, HostCall, Retarget, HostWait, HostSend, HostSent, HostRetry, HostFailed, HostGone, hostVars,
        TargetType
<1>3. CASE Arrive \/ Miss \/ Slave \/ Toggle \/ Reboot \/ Booted \/ UNCHANGED vars
    BY <1>3
    DEF Arrive, Miss, Slave, TakeConfig, BuildInputs, TickInput, Toggle, Reboot, Booted, vars, masterVars,
        hostVars, TargetType
<1> QED
    BY <1>1, <1>2, <1>3 DEF Next

LEMMA PicoKept == ASSUME PicoInv, [Next]_vars PROVE PicoInv'
<1>1. IdInv' /\ HostUpdateInv' /\ SlaveTypes' /\ PlaceTypes' /\ TargetType'
    BY IdsKept, HostUpdateKept, SlaveTyped, TargetTyped DEF PicoInv
<1>2. StateTypes' /\ CountTypes' /\ BufferTypes' /\ PlaceInv'
  <2> USE DEF PicoInv, StateTypes, CountTypes, BufferTypes, PlaceInv
  <2>1. CASE Master
      BY <2>1, MasterTyped
  <2>2. CASE Host
      BY <2>2, HostTyped
  <2>3. CASE Arrive
    <3>1. /\ transfer # "none" /\ phase' \in {"ok", "failed"}
          /\ UNCHANGED <<masterVars, transfer, configBuf>>
        BY <2>3 DEF Arrive, HostUpdateInv, OtaInv, HandlingInv
    <3>2. BufferTypes'
        BY <2>3, ActTyped DEF Arrive
    <3> QED
        BY <3>1, <3>2 DEF masterVars, stateVars, otaVars, hostVars
  <2>4. CASE Miss
    <3>1. transfer # "none" /\ phase' = "failed"
          /\ UNCHANGED <<masterVars, transfer, configBuf, rxEvents, rxVersion>>
        BY <2>4 DEF Miss, HostUpdateInv, OtaInv, HandlingInv
    <3> QED
        BY <3>1 DEF masterVars, stateVars, otaVars, hostVars
  <2>5. CASE Silence
    <3>1. /\ silence' \in {"lapsed", "gone"}
          /\ UNCHANGED <<pc, handling, connected, checked, dirty, failed, view, otaVars, hostVars, linkVars>>
        BY <2>5 DEF Silence
    <3> QED
        BY <3>1 DEF otaVars, hostVars, linkVars
  <2>6. CASE Slave \/ Toggle \/ Reboot \/ Booted \/ UNCHANGED vars
    <3>1. UNCHANGED <<masterVars, linkVars>>
        BY <2>6 DEF Slave, TakeConfig, BuildInputs, TickInput, Toggle, Reboot, Booted, vars
    <3> QED
        BY <3>1 DEF masterVars, stateVars, otaVars, hostVars, linkVars
  <2> QED
      BY <2>1, <2>2, <2>3, <2>4, <2>5, <2>6 DEF Next
<1> QED
    BY <1>1, <1>2 DEF PicoInv

\* The types of all of it, for any inputs, queue, firmware and number of tries
THEOREM PicoTyped == Spec => []TypeOK
    BY PicoAtFirst, PicoKept, Typed, PTL DEF Spec

-----------------------------------------------------------------------------
(* The latest config.  While the master has nothing to send, the config it  *)
(* sent is on its way, to be taken, being taken or in place, or the second  *)
(* Pico restarts and will be found missing                                  *)

\* The master takes the second Pico to have the latest config
Current == checked /\ ~dirty /\ ~ota /\ ~dropped

\* and what the second Pico has of it
Holds ==
    IF pending THEN buffer = Wanted
    ELSE IF taking # << >> THEN taking = Wanted /\ buffer = Wanted ELSE config = Wanted

ConfigInv ==
    Current =>
        IF transfer = "config" /\ phase # "ok"
        THEN phase = "failed" \/ configBuf = Wanted
        ELSE (transfer = "config" \/ connected) /\ (up => Holds)

currentVars == <<checked, dirty, ota, dropped>>
holdsVars == <<pending, buffer, taking, config>>

\* What ends doesn't make the config the latest
LEMMA FailedCurrent ==
    ASSUME TransferFailed, StateTypes, ota \in BOOLEAN, Current'
    PROVE  Current /\ transfer # "config" /\ UNCHANGED <<connected, view>>
<1>1. dirty' = (dirty \/ transfer = "config") /\ ota' = (ota /\ silence # "gone")
    BY DEF TransferFailed
<1>2. dropped' = (dropped \/ (ota /\ ~ota' /\ checked'))
    BY DEF TransferFailed, Drops
<1>3. UNCHANGED <<connected, checked, view>>
    BY DEF TransferFailed, Current
<1>4. checked /\ ~dirty /\ transfer # "config" /\ ~dropped /\ ~ota
    BY <1>1, <1>2, <1>3 DEF Current, StateTypes
<1> QED
    BY <1>3, <1>4 DEF Current

LEMMA HandledCurrent ==
    ASSUME NEW kind, Handled(kind), Current'
    PROVE  Current /\ kind \notin {"version", "finish"} /\ UNCHANGED currentVars
<1>1. CASE kind = "version"
    BY <1>1 DEF Handled, VersionReceived, Current
<1>2. CASE kind = "finish"
    BY <1>2 DEF Handled, Current
<1>3. CASE kind \notin {"version", "finish"}
  <2>1. UNCHANGED currentVars
      BY <1>3 DEF Handled, ChunkSent, currentVars, otaVars
  <2> QED
      BY <1>3, <2>1 DEF Current, currentVars
<1> QED
    BY <1>1, <1>2, <1>3

LEMMA SentCurrent ==
    ASSUME ota' \in BOOLEAN, Drops, checked' => checked, dirty' = dirty, Current'
    PROVE  Current
    BY DEF Current, Drops

LEMMA ConfigFrame ==
    ASSUME ConfigInv,
           UNCHANGED <<holdsVars, Wanted, up, configBuf>>,
           \/ ~Current'
           \/ /\ Current /\ UNCHANGED <<transfer, phase, connected>>
           \/ /\ Current /\ (connected \/ phase = "ok")
              /\ ~(transfer = "config" /\ phase # "ok") /\ connected' /\ transfer' # "config"
    PROVE  ConfigInv'
<1>1. Holds' = Holds
    BY DEF Holds, holdsVars
<1> QED
    BY <1>1 DEF ConfigInv

LEMMA CompleteKeepsConfig ==
    ASSUME PicoInv, ConfigInv, CompleteTransfer, UNCHANGED <<slaveVars, inputVars>>, phase \in {"ok", "failed"}
    PROVE  ConfigInv'
<1>1. transfer' = "none" /\ UNCHANGED configBuf
    BY DEF CompleteTransfer, EndTransfer
<1>2. UNCHANGED <<holdsVars, Wanted, up>>
    BY DEF slaveVars, inputVars, holdsVars, Wanted
<1>3. ota \in BOOLEAN
    BY DEF PicoInv, HostUpdateInv, OtaInv, OtaTypes
<1>4. CASE TransferFailed
  <2>1. phase = "failed"
      BY <1>4 DEF TransferFailed
  <2>2. ASSUME Current'
        PROVE  Current /\ transfer # "config" /\ connected' = connected
      BY <1>3, <1>4, <2>2, FailedCurrent DEF PicoInv
  <2>3. ASSUME Current'
        PROVE  connected
      BY <2>2, <2>3 DEF ConfigInv
  <2> QED
      BY <1>1, <1>2, <2>1, <2>2, <2>3, ConfigFrame
<1>5. CASE Answered /\ Handled(transfer)
  <2>1. phase = "ok" /\ connected' = TRUE
      BY <1>5 DEF Answered
  <2>2. Current' => Current
      BY <1>5, HandledCurrent
  <2> QED
      BY <1>1, <1>2, <2>1, <2>2, ConfigFrame
<1> QED
    BY <1>4, <1>5 DEF CompleteTransfer

LEMMA MasterKeepsConfig ==
    ASSUME PicoInv, ConfigInv, Master
    PROVE  ConfigInv'
<1>0. /\ inputs \in [Slots -> [pin : Pins \union {NoPin}, users : Nat]]
      /\ pc \in {"next", "connected"} => transfer = "none" /\ phase = "none"
      /\ dirty \in BOOLEAN
    BY DEF PicoInv, IdInv, IdTypes, PlaceInv, HostUpdateInv, OtaInv, HandlingInv, StateTypes
<1>1. CASE RegisterInput \/ UnregisterInput
  <2>1. UNCHANGED <<checked, ota, dropped, holdsVars, up, configBuf, transfer, phase, connected>>
      BY <1>1 DEF RegisterInput, UnregisterInput, otaVars, linkVars, slaveVars, holdsVars
  <2>2. dirty' = TRUE \/ UNCHANGED <<dirty, Wanted>>
    <3>1. CASE RegisterInput
      <4>1. PICK p \in Pins, s \in Slots :
                /\ dirty' = TRUE \/ (inputs[s].pin = p /\ UNCHANGED dirty)
                /\ inputs' = [inputs EXCEPT ![s] = [pin |-> p, users |-> @.users + 1]]
          BY <3>1 DEF RegisterInput
      <4>2. inputs[s].pin = p => \A t \in Slots : inputs'[t].pin = inputs[t].pin
          BY <1>0, <4>1
      <4> QED
          BY <4>1, <4>2 DEF Wanted
    <3>2. CASE UnregisterInput
      <4>1. PICK s \in Slots :
                \/ dirty' = TRUE
                \/ inputs' = [inputs EXCEPT ![s].users = @ - 1] /\ UNCHANGED dirty
          BY <3>2 DEF UnregisterInput
      <4>2. inputs' = [inputs EXCEPT ![s].users = @ - 1]
                => \A t \in Slots : inputs'[t].pin = inputs[t].pin
          BY <1>0
      <4> QED
          BY <4>1, <4>2 DEF Wanted
    <3> QED
        BY <1>1, <3>1, <3>2
  <2>3. CASE dirty' = TRUE
      BY <2>3, <1>0 DEF ConfigInv, Current
  <2>4. CASE UNCHANGED <<dirty, Wanted>>
    <3>1. UNCHANGED currentVars
        BY <2>1, <2>4 DEF currentVars
    <3>2. Current' = Current /\ Holds' = Holds
        BY <2>1, <2>4, <3>1 DEF Current, currentVars, Holds, holdsVars
    <3> QED
        BY <2>1, <2>4, <3>2 DEF ConfigInv
  <2> QED
      BY <2>2, <2>3, <2>4
<1>2. CASE FullPoll \/ Restart
    BY <1>2 DEF FullPoll, Restart, ConfigInv, Current
<1>3. CASE NothingInFlight \/ InFlight \/ NotNow
  <2>1. UNCHANGED <<currentVars, holdsVars, Wanted, up, configBuf, transfer, phase, connected>>
      BY <1>3
      DEF NothingInFlight, InFlight, NotNow, currentVars, holdsVars, Wanted, inputVars, stateVars, otaVars,
          linkVars, slaveVars
  <2>2. Current' = Current /\ Holds' = Holds
      BY <2>1 DEF Current, currentVars, Holds, holdsVars
  <2> QED
      BY <2>1, <2>2 DEF ConfigInv
<1>4. CASE Complete
    BY <1>4, CompleteKeepsConfig DEF Complete
<1>5. CASE Reconnected
  <2>1. /\ phase = "ok" /\ connected' = TRUE /\ transfer' = "none" /\ UNCHANGED <<checked, dirty, otaVars>>
        /\ UNCHANGED <<holdsVars, Wanted, up, configBuf>>
      BY <1>5 DEF Reconnected, Answered, EndTransfer, slaveVars, holdsVars, inputVars, Wanted
  <2>2. Current' = Current
      BY <2>1 DEF Current, otaVars
  <2> QED
      BY <2>1, <2>2, ConfigFrame
<1>6. CASE HandleReconnected
  <2>1. /\ Handled(handling) /\ pc = "connected"
        /\ UNCHANGED <<transfer, phase, connected, holdsVars, Wanted, up, configBuf>>
      BY <1>6 DEF HandleReconnected, linkVars, slaveVars, holdsVars, inputVars, Wanted
  <2>2. Current' => Current
      BY <2>1, HandledCurrent
  <2> QED
      BY <2>1, <2>2, ConfigFrame
<1>7. CASE OtaStep
    BY <1>7 DEF OtaStep, otaVars, ConfigInv, Current
<1>8. CASE SendConfig
  <2>1. transfer' = "config" /\ phase' = "flight" /\ configBuf' = Wanted /\ Wanted' = Wanted
      BY <1>8 DEF SendConfig, Idle, StartTransfer, inputVars, Wanted
  <2> QED
      BY <2>1 DEF ConfigInv
<1>9. CASE Poll
  <2>1. /\ pc = "next" /\ transfer' \in {"events", "version"}
        /\ UNCHANGED <<currentVars, connected, holdsVars, Wanted, up, configBuf>>
      BY <1>9
      DEF Poll, Idle, StartTransfer, stateVars, otaVars, currentVars, slaveVars, holdsVars, inputVars, Wanted
  <2>2. Current' = Current
      BY <2>1 DEF Current, currentVars
  <2>3. Current => connected
      BY <1>0, <2>1 DEF ConfigInv
  <2> QED
      BY <1>0, <2>1, <2>2, <2>3, ConfigFrame
<1> QED
    BY <1>1, <1>2, <1>3, <1>4, <1>5, <1>6, <1>7, <1>8, <1>9 DEF Master

LEMMA HostKeepsConfig ==
    ASSUME PicoInv, ConfigInv, Host
    PROVE  ConfigInv'
<1>0. /\ ota \in BOOLEAN /\ (pc = "hostBusy" => transfer = "host")
      /\ (phase = "none" => transfer = "none") /\ {connected, checked, dropped, dirty} \subseteq BOOLEAN
    BY DEF PicoInv, HostUpdateInv, OtaInv, OtaTypes, HandlingInv, CountTypes, StateTypes
<1>1. CASE HostCall \/ Retarget \/ HostGone
  <2>1. UNCHANGED <<currentVars, holdsVars, Wanted, up, configBuf, transfer, phase, connected>>
      BY <1>1
      DEF HostCall, Retarget, HostGone, currentVars, holdsVars, Wanted, inputVars, stateVars, otaVars,
          linkVars, slaveVars
  <2>2. Current' = Current
      BY <2>1 DEF Current, currentVars
  <2> QED
      BY <2>1, <2>2, ConfigFrame
<1>2. CASE HostWait
    BY <1>2, CompleteKeepsConfig DEF HostWait
<1>3. CASE HostSend
  <2>1. /\ phase = "none" /\ transfer' = "host" /\ Drops /\ ota' \in BOOLEAN
        /\ UNCHANGED <<checked, dirty, connected, holdsVars, Wanted, up, configBuf>>
      BY <1>0, <1>3 DEF HostSend, StartTransfer, stateVars, slaveVars, holdsVars, inputVars, Wanted
  <2>2. Current' => Current
      BY <2>1, SentCurrent
  <2>3. Current => connected
      BY <1>0, <2>1 DEF ConfigInv
  <2> QED
      BY <1>0, <2>1, <2>2, <2>3, ConfigFrame
<1>4. CASE HostSent
  <2>1. /\ phase = "ok" /\ connected' = TRUE /\ transfer' = "none" /\ (checked' => checked)
        /\ UNCHANGED <<dirty, otaVars, holdsVars, Wanted, up, configBuf>>
      BY <1>0, <1>4 DEF HostSent, Answered, EndTransfer, slaveVars, holdsVars, inputVars, Wanted
  <2>2. Current' => Current
      BY <2>1 DEF Current, otaVars
  <2> QED
      BY <2>1, <2>2, ConfigFrame
<1>5. CASE HostRetry
  <2>1. CompleteTransfer /\ UNCHANGED <<slaveVars, inputVars>> /\ phase = "failed"
      BY <1>5 DEF HostRetry, TransferFailed, CompleteTransfer
  <2> QED
      BY <2>1, CompleteKeepsConfig
<1>6. CASE HostFailed
  <2>1. /\ transfer = "host" /\ phase = "failed" /\ transfer' = "none" /\ Drops
        /\ ota' = (ota /\ silence # "gone")
        /\ connected' = (connected /\ silence = "fresh")
        /\ checked' = (checked /\ hostCmd # "finish" /\ ~(connected /\ silence # "fresh"))
        /\ UNCHANGED <<dirty, holdsVars, Wanted, up, configBuf>>
      BY <1>0, <1>6 DEF HostFailed, EndTransfer, slaveVars, holdsVars, inputVars, Wanted
  <2>2. ota' \in BOOLEAN /\ (checked' => checked)
      BY <1>0, <2>1
  <2>3. Current' => Current
      BY <2>1, <2>2, SentCurrent
  <2>4. ASSUME Current'
        PROVE  connected /\ connected'
    <3>1. connected
        BY <2>1, <2>3, <2>4 DEF ConfigInv
    <3>2. ~(connected /\ silence # "fresh")
        BY <2>1, <2>4 DEF Current
    <3> QED
        BY <2>1, <3>1, <3>2
  <2> QED
      BY <2>1, <2>3, <2>4, ConfigFrame
<1> QED
    BY <1>1, <1>2, <1>3, <1>4, <1>5, <1>6 DEF Host

LEMMA SlaveKeepsConfig ==
    ASSUME SlowReboot, PicoInv, ConfigInv,
           Arrive \/ Miss \/ Slave \/ Silence \/ Toggle \/ Reboot \/ Booted \/ UNCHANGED vars
    PROVE  ConfigInv'
<1>0. Current' = Current /\ Wanted' = Wanted /\ UNCHANGED <<transfer, configBuf, connected>>
  <2>1. UNCHANGED <<currentVars, inputVars, transfer, configBuf, connected>>
      BY DEF Arrive, Miss, Slave, TakeConfig, BuildInputs, TickInput, Silence, Toggle, Reboot, Booted, vars,
             masterVars, stateVars, otaVars, linkVars, currentVars
  <2> QED
      BY <2>1 DEF Current, currentVars, Wanted, inputVars
<1>1. CASE Arrive
  <2>1. phase = "flight" /\ up /\ Act /\ phase' \in {"ok", "failed"}
      BY <1>1 DEF Arrive
  <2>2. CASE transfer = "config"
    <3>1. buffer' = configBuf /\ pending' = TRUE
        BY <2>1, <2>2 DEF Act
    <3> QED
        BY <1>0, <2>1, <2>2, <3>1 DEF ConfigInv, Holds
  <2>3. CASE transfer # "config"
    <3>1. ~up' \/ UNCHANGED <<holdsVars, up>>
        <4>1. CASE transfer = "events"
            BY <2>1, <4>1 DEF Act, holdsVars
        <4>2. CASE transfer = "version"
            BY <2>1, <4>2 DEF Act, holdsVars, slaveVars
        <4>3. CASE transfer \notin {"events", "version", "config"}
          <5>1. IF up' THEN UNCHANGED <<config, last, queue, buffer, pending, taking>> ELSE Forgotten
              BY <2>1, <4>3 DEF Act
          <5>2. up' => up' = up
            <6>1. BeginOta \/ (\E c, v : WriteChunk(c, v)) \/ FinishOta
                BY <2>1, <4>3 DEF Act
            <6> QED
                BY <6>1 DEF BeginOta, WriteChunk, FinishOta
          <5> QED
              BY <5>1, <5>2 DEF holdsVars
        <4> QED
            BY <2>3, <4>1, <4>2, <4>3
    <3>2. ~up' \/ (Holds' = Holds /\ up' = up)
        BY <1>0, <3>1 DEF Holds, holdsVars
    <3> QED
        BY <1>0, <2>3, <3>2 DEF ConfigInv
  <2> QED
      BY <2>2, <2>3
<1>2. CASE Miss
  <2>1. phase = "flight" /\ phase' = "failed" /\ UNCHANGED <<holdsVars, up>>
      BY <1>2 DEF Miss, slaveVars, holdsVars
  <2>2. Holds' = Holds
      BY <1>0, <2>1 DEF Holds, holdsVars
  <2> QED
      BY <1>0, <2>1, <2>2 DEF ConfigInv
<1>3. CASE TakeConfig
  <2>1. pending /\ pending' = FALSE /\ taking' = buffer /\ UNCHANGED <<up, buffer, phase>>
      BY <1>3 DEF TakeConfig, linkVars
  <2>2. buffer # << >>
    <3>1. DOMAIN buffer = 1..NSlots /\ NSlots \in Nat \ {0}
        BY PicoAssumption DEF PicoInv, SlaveTypes, Config, Slots
    <3>2. 1 \in DOMAIN buffer /\ DOMAIN << >> = {}
        BY <3>1
    <3> QED
        BY <3>2
  <2>3. Holds => Holds'
      BY <1>0, <2>1, <2>2 DEF Holds
  <2> QED
      BY <1>0, <2>1, <2>3 DEF ConfigInv
<1>4. CASE BuildInputs
  <2>1. /\ taking # << >> /\ taking' = << >> /\ (taking = buffer => config' = buffer)
        /\ UNCHANGED <<up, buffer, pending, phase>>
      BY <1>4 DEF BuildInputs, linkVars
  <2>2. Holds => Holds'
      BY <1>0, <2>1 DEF Holds
  <2> QED
      BY <1>0, <2>1, <2>2 DEF ConfigInv
<1>5. CASE TickInput \/ Silence \/ Toggle \/ UNCHANGED vars
  <2>1. UNCHANGED <<holdsVars, up, phase>>
      BY <1>5 DEF TickInput, Silence, Toggle, vars, linkVars, slaveVars, holdsVars
  <2>2. Holds' = Holds
      BY <1>0, <2>1 DEF Holds, holdsVars
  <2> QED
      BY <1>0, <2>1, <2>2 DEF ConfigInv
<1>6. CASE Reboot
  <2>1. up' = FALSE /\ phase' = phase
      BY <1>6 DEF Reboot, linkVars
  <2> QED
      BY <1>0, <2>1 DEF ConfigInv
<1>7. CASE Booted
  <2>1. phase # "ok" /\ ~(connected /\ checked) /\ phase' = phase
      BY <1>7 DEF Booted, linkVars
  <2> QED
      BY <1>0, <2>1 DEF ConfigInv, Current
<1> QED
    BY <1>1, <1>2, <1>3, <1>4, <1>5, <1>6, <1>7 DEF Slave

\* Where a restart is never too fast to be noticed, the second Pico has the
\* latest config once the master has nothing to send, but for an update dropped
THEOREM LatestConfigAlways == ASSUME SlowReboot PROVE Spec => []LatestConfigUnlessDropped
<1>1. Init => PicoInv /\ ConfigInv
  <2>1. Init => ~Current
      BY DEF Init, Current
  <2> QED
      BY <2>1, PicoAtFirst DEF ConfigInv
<1>2. PicoInv /\ ConfigInv /\ [Next]_vars => (PicoInv /\ ConfigInv)'
    BY PicoKept, MasterKeepsConfig, HostKeepsConfig, SlaveKeepsConfig DEF Next
<1>3. PicoInv /\ ConfigInv => LatestConfigUnlessDropped
  <2> SUFFICES ASSUME PicoInv, ConfigInv, Configured, ~dropped
               PROVE  config = Wanted
      BY DEF LatestConfigUnlessDropped
  <2>1. Current /\ transfer # "config" /\ up /\ ~pending /\ taking = << >>
      BY DEF Configured, Current, PicoInv, CountTypes
  <2> QED
      BY <2>1 DEF ConfigInv, Holds
<1> QED
    BY <1>1, <1>2, <1>3, PTL DEF Spec

-----------------------------------------------------------------------------
(* The events.  What the master knows of an input, brought up to date with  *)
(* the events it has read and not handled and those that are still queued,  *)
(* is what the second Pico last queued of it                                *)

\* The input is read for the master: its config is taken, and known to be
Taken(s) ==
    /\ Current /\ ~pending /\ (config[s] # NoPin \/ taking # << >>)
    /\ ~(transfer = "config" /\ phase # "ok")

\* What the master knows of it
Told(s) == IF Unhandled THEN After(rxEvents, s, view[s]) ELSE view[s]

EventInv == \A s \in Slots \ lost : Taken(s) => After(queue, s, Told(s)) = last[s]

LEMMA EventFrame ==
    ASSUME EventInv, UNCHANGED <<queue, last, lost>>,
           \A s \in Slots : Taken(s)' => Taken(s) /\ Told(s)' = Told(s)
    PROVE  EventInv'
    BY DEF EventInv

\* An answer handled: it tells what it was said to
LEMMA HandledTells ==
    ASSUME NEW kind, Handled(kind), NEW s \in Slots,
           kind = "events" <=> Unhandled, ~Unhandled',
           BufferTypes, StateTypes
    PROVE  Told(s)' = Told(s)
<1>1. CASE kind = "events"
  <2>1. view'[s] = After(rxEvents, s, view[s])
      BY <1>1 DEF Handled, EventsReceived
  <2> QED
      BY <1>1, <2>1 DEF Told
<1>2. CASE kind # "events"
  <2>1. view' = view
      BY <1>2 DEF Handled
  <2> QED
      BY <1>2, <2>1 DEF Told
<1> QED
    BY <1>1, <1>2

LEMMA FailedKeepsEvents ==
    ASSUME PicoInv, EventInv, TransferFailed, EndTransfer, UNCHANGED <<slaveVars, handling, lost>>
    PROVE  EventInv'
<1>1. /\ ota \in BOOLEAN /\ phase = "failed" /\ transfer' = "none" /\ phase' = "none"
      /\ UNCHANGED <<queue, last, lost, config, pending, taking, handling, rxEvents>>
    BY DEF PicoInv, HostUpdateInv, OtaInv, OtaTypes, TransferFailed, EndTransfer, slaveVars
<1>2. ASSUME NEW s \in Slots, Taken(s)'
      PROVE  Taken(s) /\ Told(s)' = Told(s)
  <2>1. Current /\ transfer # "config" /\ view' = view
      BY <1>1, <1>2, FailedCurrent DEF Taken, PicoInv
  <2>2. Unhandled' = Unhandled
      BY <1>1 DEF Unhandled
  <2> QED
      BY <1>1, <1>2, <2>1, <2>2 DEF Taken, Told
<1> QED
    BY <1>1, <1>2, EventFrame

LEMMA CompleteKeepsEvents ==
    ASSUME PicoInv, EventInv, CompleteTransfer, UNCHANGED <<slaveVars, handling, lost>>, phase \in {"ok", "failed"}
    PROVE  EventInv'
<1>1. CASE TransferFailed
    BY <1>1, FailedKeepsEvents DEF CompleteTransfer
<1>2. CASE Answered /\ Handled(transfer)
  <2>1. /\ phase = "ok" /\ transfer' = "none" /\ phase' = "none"
        /\ UNCHANGED <<queue, last, lost, config, pending, taking, handling, rxEvents>>
      BY <1>2 DEF Answered, CompleteTransfer, EndTransfer, slaveVars
  <2>2. /\ transfer \notin {"none", "host"} => handling = "none"
        /\ BufferTypes /\ StateTypes
      BY DEF PicoInv, HostUpdateInv, OtaInv, HandlingInv
  <2>3. ASSUME NEW s \in Slots, Taken(s)'
        PROVE  Taken(s) /\ Told(s)' = Told(s)
    <3>1. Current
        BY <1>2, <2>3, HandledCurrent DEF Taken
    <3>2. Taken(s)
        BY <2>1, <2>3, <3>1 DEF Taken
    <3>3. CASE transfer = "events"
      <4>1. Unhandled /\ ~Unhandled'
          BY <2>1, <2>2, <3>3 DEF Unhandled
      <4>2. Told(s)' = Told(s)
          BY <1>2, <2>2, <3>3, <4>1, HandledTells
      <4> QED
          BY <3>2, <4>2
    <3>4. CASE transfer # "events"
      <4>1. view' = view
          BY <1>2, <3>4 DEF Handled
      <4>2. Unhandled' = Unhandled
          BY <2>1, <3>4 DEF Unhandled
      <4> QED
          BY <2>1, <3>2, <4>1, <4>2 DEF Told
    <3> QED
        BY <3>3, <3>4
  <2> QED
      BY <2>1, <2>3, EventFrame
<1> QED
    BY <1>1, <1>2 DEF CompleteTransfer

LEMMA MasterKeepsEvents ==
    ASSUME PicoInv, EventInv, Master
    PROVE  EventInv'
<1>0. /\ pc \in {"next", "connected"} => transfer = "none" /\ phase = "none"
      /\ transfer = "host" => pc = "hostBusy"
      /\ transfer \notin {"none", "host"} => handling = "none"
      /\ transfer = "none" => phase = "none"
      /\ dirty \in BOOLEAN /\ StateTypes /\ BufferTypes
    BY DEF PicoInv, PlaceInv, HostUpdateInv, OtaInv, HandlingInv, HostInv, StateTypes
<1>1. CASE RegisterInput \/ UnregisterInput
  <2>1. /\ dirty' = TRUE \/ UNCHANGED <<dirty, view>>
        /\ UNCHANGED <<checked, ota, dropped, handling, transfer, phase, rxEvents, config, pending, taking,
                       queue, last, lost>>
      BY <1>1 DEF RegisterInput, UnregisterInput, otaVars, linkVars, slaveVars
  <2>2. ASSUME NEW s \in Slots, Taken(s)'
        PROVE  Taken(s) /\ Told(s)' = Told(s)
    <3>1. UNCHANGED <<dirty, view>>
        BY <2>1, <2>2 DEF Taken, Current
    <3> QED
        BY <2>1, <2>2, <3>1 DEF Taken, Current, Told, Unhandled
  <2> QED
      BY <2>1, <2>2, EventFrame
<1>2. CASE FullPoll \/ Restart
    BY <1>2 DEF FullPoll, Restart, EventInv, Taken, Current
<1>3. CASE NothingInFlight \/ InFlight \/ NotNow
  <2>1. UNCHANGED <<checked, dirty, ota, dropped, view, handling, transfer, phase, rxEvents,
                    config, pending, taking, queue, last, lost>>
      BY <1>3 DEF NothingInFlight, InFlight, NotNow, stateVars, otaVars, linkVars, slaveVars, envVars
  <2> QED
      BY <2>1 DEF EventInv, Taken, Current, Told, Unhandled
<1>4. CASE Complete
    BY <1>4, CompleteKeepsEvents DEF Complete, envVars
<1>5. CASE Reconnected
  <2>1. /\ phase = "ok" /\ handling' = transfer /\ transfer' = "none" /\ phase' = "none"
        /\ pc \in {"loop", "poll"}
        /\ UNCHANGED <<checked, dirty, ota, dropped, view, rxEvents, config, pending, taking, queue, last, lost>>
      BY <1>5 DEF Reconnected, Updating, Answered, EndTransfer, otaVars, slaveVars, envVars
  <2>2. handling = "none"
      BY <1>0, <2>1
  <2>3. Unhandled' = Unhandled
      BY <2>1, <2>2 DEF Unhandled
  <2>4. \A s \in Slots : Taken(s)' => Taken(s) /\ Told(s)' = Told(s)
      BY <2>1, <2>3 DEF Taken, Current, Told
  <2> QED
      BY <2>1, <2>4, EventFrame
<1>6. CASE HandleReconnected
  <2>1. /\ Handled(handling) /\ handling' = "none" /\ pc = "connected"
        /\ UNCHANGED <<transfer, phase, rxEvents, config, pending, taking, queue, last, lost>>
      BY <1>6 DEF HandleReconnected, linkVars, slaveVars, envVars
  <2>2. ASSUME NEW s \in Slots, Taken(s)'
        PROVE  Taken(s) /\ Told(s)' = Told(s)
    <3>1. Current
        BY <2>1, <2>2, HandledCurrent DEF Taken
    <3>2. (handling = "events" <=> Unhandled) /\ ~Unhandled'
        BY <1>0, <2>1 DEF Unhandled
    <3>3. Told(s)' = Told(s)
        BY <1>0, <2>1, <3>2, HandledTells
    <3> QED
        BY <2>1, <2>2, <3>1, <3>3 DEF Taken
  <2> QED
      BY <2>1, <2>2, EventFrame
<1>7. CASE OtaStep
    BY <1>7 DEF OtaStep, otaVars, EventInv, Taken, Current
<1>8. CASE SendConfig
  <2>1. transfer' = "config" /\ phase' = "flight"
      BY <1>8 DEF SendConfig, Idle, StartTransfer
  <2> QED
      BY <2>1 DEF EventInv, Taken
<1>9. CASE Poll
  <2>1. /\ pc = "next" /\ phase' = "flight"
        /\ UNCHANGED <<checked, dirty, ota, dropped, view, handling, rxEvents, config, pending, taking,
                       queue, last, lost>>
      BY <1>9 DEF Poll, Idle, StartTransfer, stateVars, otaVars, slaveVars, envVars
  <2>2. \A s \in Slots : Taken(s)' => Taken(s) /\ Told(s)' = Told(s)
      BY <1>0, <2>1 DEF Taken, Current, Told, Unhandled
  <2> QED
      BY <2>1, <2>2, EventFrame
<1> QED
    BY <1>1, <1>2, <1>3, <1>4, <1>5, <1>6, <1>7, <1>8, <1>9 DEF Master

LEMMA HostKeepsEvents ==
    ASSUME PicoInv, EventInv, Host
    PROVE  EventInv'
<1>0. /\ ota \in BOOLEAN /\ (pc = "hostBusy" => transfer = "host")
      /\ (phase = "none" => transfer = "none") /\ {checked, dropped, dirty} \subseteq BOOLEAN
    BY DEF PicoInv, HostUpdateInv, OtaInv, OtaTypes, HandlingInv, CountTypes, StateTypes
<1>1. CASE HostCall \/ Retarget \/ HostGone
  <2>1. UNCHANGED <<checked, dirty, ota, dropped, view, handling, transfer, phase, rxEvents,
                    config, pending, taking, queue, last, lost>>
      BY <1>1 DEF HostCall, Retarget, HostGone, stateVars, otaVars, linkVars, slaveVars, envVars
  <2> QED
      BY <2>1 DEF EventInv, Taken, Current, Told, Unhandled
<1>2. CASE HostWait
    BY <1>2, CompleteKeepsEvents DEF HostWait, envVars
<1>3. CASE HostSend \/ HostSent \/ HostFailed
  <2>1. UNCHANGED <<dirty, handling, rxEvents, config, pending, taking, queue, last, lost>>
      BY <1>3 DEF HostSend, HostSent, HostFailed, EndTransfer, stateVars, slaveVars, envVars
  <2>2. transfer \in {"none", "host"} /\ transfer' \in {"none", "host"}
      BY <1>0, <1>3 DEF HostSend, HostSent, HostFailed, StartTransfer, EndTransfer
  <2>3. checked' => checked
      BY <1>0, <1>3 DEF HostSend, HostSent, HostFailed, stateVars
  <2>4. Current' => Current
    <3>1. CASE HostSent
        BY <2>1, <2>3, <3>1 DEF HostSent, otaVars, Current
    <3>2. CASE HostSend \/ HostFailed
      <4>1. Drops /\ ota' \in BOOLEAN
          BY <1>0, <3>2 DEF HostSend, HostFailed
      <4> QED
          BY <2>1, <2>3, <4>1, SentCurrent
    <3> QED
        BY <1>3, <3>1, <3>2
  <2>5. Current' => view' = view
      BY <1>3 DEF HostSend, HostSent, HostFailed, stateVars, Current
  <2>6. \A s \in Slots : Taken(s)' => Taken(s) /\ Told(s)' = Told(s)
      BY <2>1, <2>2, <2>4, <2>5 DEF Taken, Told, Unhandled
  <2> QED
      BY <2>1, <2>6, EventFrame
<1>4. CASE HostRetry
    BY <1>4, FailedKeepsEvents DEF HostRetry, envVars
<1> QED
    BY <1>1, <1>2, <1>3, <1>4 DEF Host

LEMMA ArrivalKeepsEvents ==
    ASSUME PicoInv, EventInv, Arrive \/ Miss
    PROVE  EventInv'
<1>0. /\ phase = "flight" /\ phase' \in {"ok", "failed"}
      /\ UNCHANGED <<checked, dirty, ota, dropped, view, handling, transfer>>
      /\ transfer \notin {"none", "host"} => handling = "none"
      /\ lost \subseteq lost' /\ queue \in Seq(Events) /\ Len(queue) < QueueMax
    BY DEF Arrive, Miss, masterVars, stateVars, otaVars, PicoInv, HostUpdateInv, OtaInv, HandlingInv, SlaveTypes
<1>1. CASE Miss
  <2>1. phase' = "failed" /\ UNCHANGED <<rxEvents, config, pending, taking, queue, last, lost>>
      BY <1>1 DEF Miss, slaveVars
  <2>2. \A s \in Slots : Taken(s)' => Taken(s) /\ Told(s)' = Told(s)
      BY <1>0, <2>1 DEF Taken, Current, Told, Unhandled
  <2> QED
      BY <2>1, <2>2, EventFrame
<1>2. CASE Arrive /\ transfer = "events"
  <2>1. /\ rxEvents' = Fitting(queue) /\ queue' = Rest(queue)
        /\ UNCHANGED <<config, last, pending, taking>>
      BY <1>2 DEF Arrive, Act, TakeEvents
  <2>2. ASSUME NEW s \in Slots \ lost', Taken(s)'
        PROVE  After(queue', s, Told(s)') = last[s]
    <3> DEFINE b == view[s]
    <3> HIDE DEF b
    <3>1. Taken(s) /\ ~Unhandled
        BY <1>0, <1>2, <2>1, <2>2 DEF Taken, Current, Unhandled
    <3>2. After(queue, s, b) = last[s]
        BY <1>0, <3>1 DEF EventInv, Told, b
    <3>3. After(Rest(queue), s, After(Fitting(queue), s, b)) = last[s]
        BY <1>0, <3>2, AfterInParts
    <3>4. CASE phase' = "ok"
      <4>1. Told(s)' = After(Fitting(queue), s, b)
          BY <1>0, <1>2, <2>1, <3>4 DEF Told, Unhandled, b
      <4> QED
          BY <2>1, <3>3, <4>1
    <3>5. CASE phase' = "failed"
      <4>1. s \notin SlotsOf(Fitting(queue))
          BY <1>2, <2>2, <3>5 DEF Arrive
      <4>2. After(Fitting(queue), s, b) = b
          BY <1>0, <4>1, QueueTyped, SlotsOfEvents, NoEvent
      <4>3. Told(s)' = b
          BY <1>0, <1>2, <3>5 DEF Told, Unhandled, b
      <4> QED
          BY <2>1, <3>3, <4>2, <4>3
    <3> QED
        BY <1>0, <3>4, <3>5
  <2> QED
      BY <2>1, <2>2 DEF EventInv
<1>3. CASE Arrive /\ transfer = "config"
  <2>1. pending' = TRUE
      BY <1>3 DEF Arrive, Act
  <2> QED
      BY <2>1 DEF EventInv, Taken
<1>4. CASE Arrive /\ transfer \notin {"events", "config"}
  <2>1. /\ UNCHANGED <<rxEvents, lost>>
        /\ \/ UNCHANGED <<config, last, queue, pending, taking>>
           \/ Forgotten
    <3>1. UNCHANGED lost
        BY <1>4 DEF Arrive
    <3>2. CASE transfer = "version"
        BY <1>4, <3>1, <3>2 DEF Arrive, Act, slaveVars
    <3>3. CASE transfer # "version"
        BY <1>4, <3>1, <3>3 DEF Arrive, Act
    <3> QED
        BY <3>2, <3>3
  <2>2. CASE UNCHANGED <<config, last, queue, pending, taking>>
    <3>1. \A s \in Slots : Taken(s)' => Taken(s) /\ Told(s)' = Told(s)
        BY <1>0, <1>4, <2>1, <2>2 DEF Taken, Current, Told, Unhandled
    <3> QED
        BY <2>1, <2>2, <3>1, EventFrame
  <2>3. CASE Forgotten
      BY <2>3 DEF Forgotten, NoConfig, EventInv, Taken
  <2> QED
      BY <2>1, <2>2, <2>3
<1> QED
    BY <1>1, <1>2, <1>3, <1>4

LEMMA SlaveKeepsEvents ==
    ASSUME PicoInv, EventInv, Slave \/ Silence \/ Toggle \/ Reboot \/ Booted \/ UNCHANGED vars
    PROVE  EventInv'
<1>0. /\ UNCHANGED <<checked, dirty, ota, dropped, view, handling, transfer, phase, rxEvents>>
      /\ rxEvents \in Seq(Events) /\ queue \in Seq(Events)
    BY DEF Slave, TakeConfig, BuildInputs, TickInput, Silence, Toggle, Reboot, Booted, vars,
           masterVars, stateVars, otaVars, linkVars, PicoInv, BufferTypes, SlaveTypes
<1>1. \A s \in Slots : Told(s)' = Told(s)
    BY <1>0 DEF Told, Unhandled
<1>2. CASE TakeConfig
  <2>1. /\ last' = Released /\ UNCHANGED queue
        /\ lost' = lost \union SlotsOf(queue) \union {s \in Slots : view[s]}
                        \union IF Unhandled THEN SlotsOf(rxEvents) ELSE {}
      BY <1>2 DEF TakeConfig
  <2>2. ASSUME NEW s \in Slots \ lost'
        PROVE  After(queue', s, Told(s)') = last'[s]
    <3>1. ~view[s] /\ s \notin SlotsOf(queue) /\ (Unhandled => s \notin SlotsOf(rxEvents))
        BY <2>1, <2>2
    <3>2. view[s] = FALSE
        BY <3>1 DEF PicoInv, StateTypes
    <3>3. Told(s) = FALSE
      <4>1. CASE Unhandled
        <5>1. After(rxEvents, s, view[s]) = view[s]
            BY <1>0, <3>1, <4>1, SlotsOfEvents, NoEvent
        <5> QED
            BY <3>2, <4>1, <5>1 DEF Told
      <4>2. CASE ~Unhandled
          BY <3>2, <4>2 DEF Told
      <4> QED
          BY <4>1, <4>2
    <3>4. After(queue, s, Told(s)) = Told(s)
        BY <1>0, <3>1, SlotsOfEvents, NoEvent
    <3>5. last'[s] = FALSE
        BY <2>1 DEF Released
    <3>6. After(queue', s, Told(s)') = Told(s)
        BY <1>1, <2>1, <3>4
    <3> QED
        BY <3>3, <3>5, <3>6
  <2> QED
      BY <2>2 DEF EventInv
<1>3. CASE BuildInputs
  <2>1. taking # << >> /\ UNCHANGED <<pending, queue, last, lost>>
      BY <1>3 DEF BuildInputs, envVars
  <2>2. \A s \in Slots : Taken(s)' => Taken(s)
      BY <1>0, <2>1 DEF Taken, Current
  <2> QED
      BY <1>1, <2>1, <2>2, EventFrame
<1>4. CASE TickInput
  <2>1. PICK t \in Slots :
            /\ last' = [last EXCEPT ![t] = ~@]
            /\ \/ queue' = Append(queue, [slot |-> t, state |-> ~last[t]]) /\ UNCHANGED lost
               \/ lost' = lost \union {t} /\ UNCHANGED queue
      BY <1>4 DEF TickInput
  <2>2. \A s \in Slots : Taken(s)' => Taken(s)
      BY <1>0, <1>4 DEF TickInput, Taken, Current
  <2>3. last \in [Slots -> BOOLEAN]
      BY DEF PicoInv, SlaveTypes
  <2>4. ASSUME NEW s \in Slots \ lost', Taken(s)'
        PROVE  After(queue', s, Told(s)') = last'[s]
    <3> DEFINE b == Told(s)
               e == [slot |-> t, state |-> ~last[t]]
    <3>1. e \in Events /\ e.slot = t /\ e.state = ~last[t]
        BY <2>3 DEF Events
    <3> HIDE DEF b, e
    <3>2. s \notin lost
        BY <2>1, <2>4
    <3>3. After(queue, s, b) = last[s]
        BY <2>2, <2>4, <3>2 DEF EventInv, b
    <3>4. Told(s)' = b
        BY <1>1 DEF b
    <3>5. CASE queue' = Append(queue, e)
      <4>1. After(queue', s, b) = IF t = s THEN ~last[t] ELSE After(queue, s, b)
          BY <1>0, <3>1, <3>5, AfterAppended
      <4>2. CASE t = s
        <5>1. last'[s] = ~last[t]
            BY <2>1, <2>3, <4>2
        <5> QED
            BY <3>4, <4>1, <4>2, <5>1
      <4>3. CASE t # s
        <5>1. last'[s] = last[s]
            BY <2>1, <2>3, <4>3
        <5> QED
            BY <3>3, <3>4, <4>1, <4>3, <5>1
      <4> QED
          BY <4>2, <4>3
    <3>6. CASE lost' = lost \union {t} /\ UNCHANGED queue
      <4>1. t # s
          BY <2>4, <3>6
      <4>2. last'[s] = last[s]
          BY <2>1, <2>3, <4>1
      <4> QED
          BY <3>3, <3>4, <3>6, <4>2
    <3> QED
        BY <2>1, <3>5, <3>6 DEF e
  <2> QED
      BY <2>4 DEF EventInv
<1>5. CASE Silence \/ Toggle \/ Booted \/ UNCHANGED vars
  <2>1. UNCHANGED <<pending, config, taking, queue, last, lost>>
      BY <1>5 DEF Silence, Toggle, Booted, vars, slaveVars, envVars
  <2>2. \A s \in Slots : Taken(s)' => Taken(s)
      BY <1>0, <2>1 DEF Taken, Current
  <2> QED
      BY <1>1, <2>1, <2>2, EventFrame
<1>6. CASE Reboot
    BY <1>6 DEF Reboot, Forgotten, NoConfig, EventInv, Taken
<1> QED
    BY <1>2, <1>3, <1>4, <1>5, <1>6 DEF Slave

\* Once all events are read the master has each input as it is, for any
\* lengths of the queue and of a transfer, but for the events that were lost
THEOREM EventsAlwaysAgree == Spec => []EventsAgreeUnlessLost
<1>1. Init => PicoInv /\ EventInv
  <2>1. Init => ~Current
      BY DEF Init, Current
  <2> QED
      BY <2>1, PicoAtFirst DEF EventInv, Taken
<1>2. PicoInv /\ EventInv /\ [Next]_vars => (PicoInv /\ EventInv)'
    BY PicoKept, MasterKeepsEvents, HostKeepsEvents, ArrivalKeepsEvents, SlaveKeepsEvents DEF Next
<1>3. PicoInv /\ EventInv => EventsAgreeUnlessLost
  <2> SUFFICES ASSUME PicoInv, EventInv, Settled, ~dropped, NEW s \in Slots \ lost, Wanted[s] # NoPin
               PROVE  view[s] = phys[Wanted[s]]
      BY DEF EventsAgreeUnlessLost
  <2>1. /\ pc = "loop" /\ phase = "none" /\ Current /\ ~pending /\ config = Wanted /\ queue = << >>
        /\ last[s] = phys[config[s]]
      BY DEF Settled, Configured, Current
  <2>2. Taken(s)
      BY <2>1 DEF Taken, PicoInv, CountTypes
  <2>3. ~Unhandled
      BY <2>1 DEF Unhandled, PicoInv, HostUpdateInv, OtaInv, HandlingInv
  <2>4. Told(s) = view[s]
      BY <2>3 DEF Told
  <2>5. After(queue, s, Told(s)) = Told(s)
    <3>1. queue \in Seq(Events) /\ Ofs(queue, s) = {}
        BY <2>1 DEF PicoInv, SlaveTypes, Ofs
    <3> QED
        BY <3>1, NoEvent
  <2> QED
      BY <2>1, <2>2, <2>4, <2>5 DEF EventInv
<1> QED
    BY <1>1, <1>2, <1>3, PTL DEF Spec
=============================================================================
