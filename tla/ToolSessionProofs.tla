---------------------------- MODULE ToolSessionProofs ----------------------------
(***************************************************************************)
(* The tools' session with the device, for any size of the queue and of    *)
(* the config: a tool reads and writes the config from where it thinks it  *)
(* is, and no console mode is forced under one.  The argument is about the *)
(* tools the device has heard from that stayed since, and that no second   *)
(* restart caught (held \ wiped): there is at most one, it has the device, *)
(* its keepalive is fresh or it is awaited, and so it counts as open to    *)
(* whatever would take the device, the position or the mode from it.       *)
(***************************************************************************)
EXTENDS ToolSession, SequenceTheorems, TLAPS

\* The types, the flags and the events apart
Flags ==
    /\ seen \in BOOLEAN /\ fresh \in BOOLEAN /\ grace \in BOOLEAN /\ missed \in BOOLEAN
    /\ working \in BOOLEAN /\ updating \in BOOLEAN /\ reinit \in BOOLEAN
    /\ fromProfile \in BOOLEAN /\ deferred \in BOOLEAN /\ detached \in BOOLEAN
EventTypes ==
    /\ queue \in Seq(Events) /\ Len(queue) <= QueueMax
    /\ busy \in Seq(Events) /\ Len(busy) <= QueueMax
Doings == [does : {"nothing", "read", "write"}, at : 0..Chunks]
Knowledge == {"nothing", "reading", "current", "stale", "forgotten", "unheard", "told"}
ToolTypes ==
    /\ owner \in Tools /\ tool \in [Tools -> {"away", "open", "silent"}]
    /\ doing \in [Tools -> Doings] /\ start \in 0..Chunks
Places ==
    /\ requested \in Modes /\ current \in Modes /\ pc \in PCs
    /\ knows \in Knowledge
    /\ held \subseteq Tools /\ crossed \subseteq Tools /\ wiped \subseteq Tools
    /\ left \in 0..Moves

LEMMA Types == TypeOK <=> Flags /\ EventTypes /\ ToolTypes /\ Places
BY DEF TypeOK, Flags, EventTypes, ToolTypes, Places, Doings, Knowledge

-----------------------------------------------------------------------------
LEMMA RequestFlags ==
    ASSUME Flags, NEW t \in Tools,
           \/ Keepalive(t) \/ BeginRead(t) \/ ReadChunk(t) \/ BeginUpload(t)
           \/ UploadChunk(t) \/ GiveUp(t) \/ BeginUpdate(t) \/ Disconnect(t)
    PROVE  Flags'
<1> USE DEF Flags
<1>1. CASE Keepalive(t)
    BY <1>1, Zenon DEF Keepalive, managerVars
<1>2. CASE BeginRead(t) \/ ReadChunk(t)
    BY <1>2, Zenon DEF BeginRead, ReadChunk, managerVars
<1>3. CASE BeginUpload(t)
    BY <1>3, Zenon DEF BeginUpload
<1>4. CASE UploadChunk(t)
  <2>1. working' \in BOOLEAN /\ reinit' \in BOOLEAN
    <3> PICK more, last :
            more = (doing[t].at + 1 < Chunks) /\ last = (doing[t].at + 1 = Chunks)
        OBVIOUS
    <3>1. working' = more /\ reinit' = (reinit \/ last)
        BY <1>4 DEF UploadChunk
    <3>2. more \in BOOLEAN
        OBVIOUS
    <3> QED
        BY <3>1, <3>2, Zenon
  <2> QED
      BY <1>4, <2>1, Zenon DEF UploadChunk
<1>5. CASE GiveUp(t)
    BY <1>5, Zenon DEF GiveUp, sessionVars, managerVars
<1>6. CASE BeginUpdate(t)
    BY <1>6, Zenon DEF BeginUpdate
<1>7. CASE Disconnect(t)
    BY <1>7, Zenon DEF Disconnect, managerVars
<1> QED
    BY <1>1, <1>2, <1>3, <1>4, <1>5, <1>6, <1>7

LEMMA LoadFlags == ASSUME Flags, Loading PROVE Flags'
<1> USE DEF Flags
<1>1. missed' \in BOOLEAN
  <2>1. CASE TellTool
      BY <2>1, Zenon DEF TellTool
  <2>2. CASE missed' = ~Closed
      BY <2>2, Zenon
  <2> QED
      BY <2>1, <2>2, Zenon DEF Loading, Load, LoadUnreadable, RestartStack
<1>2. CASE LoadUnreadable
    BY <1>1, <1>2, Zenon DEF LoadUnreadable
<1>3. ASSUME NEW forced \in BOOLEAN, NEW changed \in BOOLEAN, Load(forced, changed)
      PROVE  Flags'
  <2>1. fromProfile' \in BOOLEAN /\ deferred' \in BOOLEAN
      BY <1>3, Zenon DEF Load, ForceMode
  <2>2. seen' \in BOOLEAN /\ fresh' \in BOOLEAN /\ grace' \in BOOLEAN /\ detached' \in BOOLEAN
    <3>1. CASE RestartStack
      <4>1. detached' = TRUE
          BY <3>1 DEF RestartStack
      <4>2. \/ UNCHANGED <<seen, fresh, grace>>
            \/ seen' = FALSE /\ fresh' = FALSE /\ grace' = ~Closed
          BY <3>1, Zenon DEF RestartStack
      <4> QED
          BY <4>1, <4>2, Zenon
    <3>2. CASE UNCHANGED <<seen, fresh, grace, detached>>
        BY <3>2, Zenon
    <3> QED
        BY <1>3, <3>1, <3>2, Zenon DEF Load
  <2>3. reinit' = FALSE /\ UNCHANGED <<working, updating>>
      BY <1>3 DEF Load
  <2> QED
      BY <1>1, <2>1, <2>2, <2>3, Zenon
<1> QED
    BY <1>2, <1>3, Zenon DEF Loading

LEMMA LoopFlags == ASSUME Flags, Loop PROVE Flags'
<1> USE DEF Flags
<1>1. CASE Serviced \/ NoReload \/ BeginReload \/ ReloadSent \/ LoadedSent \/ Flushed \/ TaskSkipped
  <2>1. UNCHANGED <<sessionVars, managerVars>>
      BY <1>1 DEF Serviced, NoReload, BeginReload, ReloadSent, LoadedSent, Drained, Flushed,
                  TaskSkipped
  <2> QED
      BY <2>1, Zenon DEF sessionVars, managerVars
<1>2. CASE UploadGoesOn
  <2>1. working' \in BOOLEAN
    <3>1. \A b \in {TRUE} : b \in BOOLEAN
        OBVIOUS
    <3> QED
        BY <1>2, <3>1, Zenon DEF UploadGoesOn
  <2> QED
      BY <1>2, <2>1, Zenon DEF UploadGoesOn, sessionVars
<1>3. CASE ProcessClosed
    BY <1>3, Zenon DEF ProcessClosed, sessionVars
<1>4. CASE ProcessOpen
    BY <1>4, Zenon DEF ProcessOpen, managerVars
<1> QED
    BY <1>1, <1>2, <1>3, <1>4, LoadFlags, Zenon DEF Loop

LEMMA FlagsStay == ASSUME Flags, [Next]_vars PROVE Flags'
<1> USE DEF Flags
<1>1. CASE ToolMoves
    BY <1>1, Zenon DEF ToolMoves, OpenTool, Silence, Vanish, sessionVars, managerVars
<1>2. CASE Time
    BY <1>2, Zenon DEF Time, KeepaliveLapses, GraceEnds, managerVars
<1>3. CASE Environment
  <2>1. CASE RequestReload
      BY <2>1, Zenon DEF RequestReload, sessionVars
  <2>2. CASE Rpcs3Detected
      BY <2>2, Zenon DEF Rpcs3Detected
  <2>3. CASE TakeEvents
      BY <2>3, Zenon DEF TakeEvents, managerVars
  <2>4. CASE DeviceEvent
      BY <2>4, Zenon DEF DeviceEvent, sessionVars, managerVars
  <2>5. CASE EndUpdate
      BY <2>5, Zenon DEF EndUpdate
  <2> QED
      BY <1>3, <2>1, <2>2, <2>3, <2>4, <2>5, Zenon DEF Environment
<1>4. CASE Reattach
    BY <1>4, Zenon DEF Reattach, sessionVars
<1>5. CASE Pump \/ UNCHANGED vars
    BY <1>5, Zenon DEF Pump, vars, sessionVars, managerVars
<1> QED
    BY <1>1, <1>2, <1>3, <1>4, <1>5, RequestFlags, LoopFlags, Zenon DEF Next, Request

-----------------------------------------------------------------------------
\* The front of what waits is sent, and the rest goes on waiting
LEMMA Batch ==
    ASSUME NEW all \in Seq(Events), NEW n \in 1..Len(all)
    PROVE  /\ SubSeq(all, 1, n) \in Seq(Events) /\ Len(SubSeq(all, 1, n)) = n
           /\ SubSeq(all, n + 1, Len(all)) \in Seq(Events)
           /\ Len(SubSeq(all, n + 1, Len(all))) <= Len(all)
OBVIOUS

\* What joins the queue finds room in it
LEMMA Joins ==
    ASSUME EventTypes, NEW event \in Events
    PROVE  Queued(event) \in Seq(Events) /\ Len(Queued(event)) <= QueueMax
BY SessionAssumption DEF EventTypes, Queued, Full

LEMMA EmptyQueue == <<>> \in Seq(Events) /\ Len(<<>>) <= QueueMax
BY SessionAssumption

LEMMA EventTypesStay == ASSUME EventTypes, [Next]_vars PROVE EventTypes'
<1>1. CASE \E t \in Tools : Accepted(t)
  <2>1. busy' \in {busy, <<>>} /\ queue' \in {queue, <<>>}
      BY <1>1 DEF Accepted, SwitchTransport
  <2> QED
      BY <2>1, EmptyQueue DEF EventTypes
<1>2. CASE UNCHANGED <<queue, busy>>
    BY <1>2 DEF EventTypes
<1>3. CASE Request
    BY <1>1, <1>2, <1>3 DEF Request, Keepalive, BeginRead, ReadChunk, BeginUpload, UploadChunk,
                            GiveUp, BeginUpdate, Disconnect, eventVars
<1>4. CASE ToolMoves \/ Time \/ Reattach \/ RequestReload \/ Rpcs3Detected \/ EndUpdate
    BY <1>2, <1>4 DEF ToolMoves, OpenTool, Silence, Vanish, Time, KeepaliveLapses, GraceEnds,
                      Reattach, RequestReload, Rpcs3Detected, EndUpdate, eventVars
<1>5. CASE DeviceEvent
    BY <1>5, Joins DEF DeviceEvent, Events, EventTypes
<1>6. CASE TakeEvents
    BY <1>6, EmptyQueue DEF TakeEvents, EventTypes
<1>7. ASSUME NEW all \in Seq(Events), Len(all) <= QueueMax, NEW n \in 1..Len(all),
             busy' = SubSeq(all, 1, n), queue' = SubSeq(all, n + 1, Len(all))
      PROVE  EventTypes'
  <2>1. Len(all) \in Nat /\ n <= QueueMax
      BY <1>7, SessionAssumption
  <2> QED
      BY <1>7, <2>1, Batch, SessionAssumption DEF EventTypes
<1>8. CASE Pump
    BY <1>7, <1>8 DEF Pump, SendBatch, EventTypes
<1>9. CASE ReloadSent \/ LoadedSent
    BY <1>9, Joins DEF ReloadSent, LoadedSent, Drained, Events, EventTypes
<1>10. CASE ProcessOpen
  <2> PICK all : all = IF missed THEN Queued("loaded") ELSE queue
      OBVIOUS
  <2>1. all \in Seq(Events) /\ Len(all) <= QueueMax
      BY Joins DEF Events, EventTypes
  <2>2. \/ queue' = all /\ UNCHANGED busy
        \/ \E n \in 1..Len(all) : busy' = SubSeq(all, 1, n) /\ queue' = SubSeq(all, n + 1, Len(all))
      BY <1>10 DEF ProcessOpen
  <2> QED
      BY <1>7, <2>1, <2>2 DEF EventTypes
<1>11. CASE Loading
  <2>1. queue' = queue /\ busy' \in {busy, <<>>}
      BY <1>11 DEF Loading, Load, LoadUnreadable, RestartStack, eventVars
  <2> QED
      BY <2>1, EmptyQueue DEF EventTypes
<1>12. CASE \/ Serviced \/ NoReload \/ BeginReload \/ Flushed \/ UploadGoesOn \/ TaskSkipped
            \/ ProcessClosed \/ UNCHANGED vars
    BY <1>2, <1>12 DEF Serviced, NoReload, BeginReload, Flushed, UploadGoesOn, TaskSkipped,
                       ProcessClosed, eventVars, vars
<1> QED
    BY <1>3, <1>4, <1>5, <1>6, <1>8, <1>9, <1>10, <1>11, <1>12 DEF Next, Environment, Loop

-----------------------------------------------------------------------------
LEMMA IdleDoes == Idle \in Doings /\ 0 \in 0..Chunks
BY SessionAssumption DEF Idle, Doings

\* What a request makes of what its tool does
LEMMA ChunkMoves ==
    ASSUME ToolTypes, NEW t \in Tools, NEW what \in {"read", "write"}, Chunk(t, what)
    PROVE  /\ start' \in 0..Chunks /\ doing' \in [Tools -> Doings]
           /\ \A u \in Tools : u # t => doing'[u] = doing[u]
           /\ doing[t] # Idle /\ doing[t].at \in 0..Chunks /\ doing[t].at < Chunks
           /\ doing'[t] = Idle \/ doing'[t].at = doing[t].at + 1
<1>1. /\ doing[t] \in Doings /\ doing[t].does = what /\ doing[t].at < Chunks
      /\ start' = IF start < Chunks THEN start + 1 ELSE start
    BY DEF Chunk, ToolTypes
<1>2. doing[t].at \in 0..Chunks /\ doing[t] # Idle
    BY <1>1 DEF Doings, Idle
<1>3. start' \in 0..Chunks
    BY <1>1, SessionAssumption DEF ToolTypes
<1> DEFINE next == IF doing[t].at + 1 = Chunks THEN Idle ELSE [does |-> what, at |-> doing[t].at + 1]
<1>4. doing' = [doing EXCEPT ![t] = next]
    BY DEF Chunk
<1>5. next \in Doings /\ (next = Idle \/ next.at = doing[t].at + 1)
    BY <1>1, <1>2, IdleDoes, SessionAssumption DEF Doings
<1> HIDE DEF next
<1> QED
    BY <1>1, <1>2, <1>3, <1>4, <1>5 DEF ToolTypes

LEMMA RequestTools == ASSUME ToolTypes, Request PROVE ToolTypes'
<1> PICK t \in Tools : \/ Keepalive(t) \/ BeginRead(t) \/ ReadChunk(t) \/ BeginUpload(t)
                       \/ UploadChunk(t) \/ GiveUp(t) \/ BeginUpdate(t) \/ Disconnect(t)
    BY DEF Request
<1>1. owner' \in Tools
    BY DEF Keepalive, BeginRead, ReadChunk, BeginUpload, UploadChunk, GiveUp, BeginUpdate, Disconnect,
           Accepted, SwitchTransport, ToolTypes, sessionVars
<1>2. CASE Keepalive(t) \/ BeginUpdate(t)
    BY <1>1, <1>2 DEF Keepalive, BeginUpdate, ToolTypes
<1>3. CASE BeginRead(t) \/ BeginUpload(t)
  <2>1. PICK does \in {"read", "write"} : doing' = [doing EXCEPT ![t] = [does |-> does, at |-> 0]]
      BY <1>3 DEF BeginRead, BeginUpload
  <2>2. [does |-> does, at |-> 0] \in Doings
      BY IdleDoes DEF Doings
  <2> QED
      BY <1>1, <1>3, <2>1, <2>2, IdleDoes DEF BeginRead, BeginUpload, ToolTypes
<1>4. CASE ReadChunk(t) \/ UploadChunk(t)
  <2>1. start' \in 0..Chunks /\ doing' \in [Tools -> Doings]
      BY <1>4, ChunkMoves DEF ReadChunk, UploadChunk
  <2> QED
      BY <1>1, <1>4, <2>1 DEF ReadChunk, UploadChunk, ToolTypes
<1>5. CASE GiveUp(t) \/ Disconnect(t)
    BY <1>1, <1>5, IdleDoes DEF GiveUp, Disconnect, ToolTypes, sessionVars
<1> QED
    BY <1>2, <1>3, <1>4, <1>5

LEMMA ToolTypesStay == ASSUME ToolTypes, [Next]_vars PROVE ToolTypes'
<1>1. CASE ToolMoves
  <2>1. doing' \in [Tools -> Doings] /\ start' = start /\ owner' = owner
      BY <1>1, IdleDoes DEF ToolMoves, OpenTool, Silence, Vanish, ToolTypes, sessionVars
  <2>2. tool' \in [Tools -> {"away", "open", "silent"}]
      BY <1>1 DEF ToolMoves, OpenTool, Silence, Vanish, ToolTypes
  <2> QED
      BY <2>1, <2>2 DEF ToolTypes
<1>2. CASE TakeEvents
  <2>1. doing' = doing \/ doing' = [doing EXCEPT ![owner] = Idle]
    <3>1. doing[owner] = doing[owner] /\ doing = [doing EXCEPT ![owner] = doing[owner]]
        BY DEF ToolTypes
    <3> QED
        BY <1>2, <3>1 DEF TakeEvents
  <2> QED
      BY <1>2, <2>1, IdleDoes DEF TakeEvents, ToolTypes
<1>3. CASE Loading
  <2>1. doing' = doing \/ doing' = [doing EXCEPT !["usb"] = Idle]
      BY <1>3 DEF Loading, Load, LoadUnreadable, Outdated, toolVars
  <2>2. UNCHANGED <<owner, tool, start>>
      BY <1>3 DEF Loading, Load, LoadUnreadable, toolVars
  <2> QED
      BY <2>1, <2>2, IdleDoes DEF ToolTypes
<1>4. CASE \/ Time \/ Reattach \/ Pump \/ RequestReload \/ Rpcs3Detected \/ DeviceEvent \/ EndUpdate
           \/ Serviced \/ NoReload \/ BeginReload \/ ReloadSent \/ LoadedSent \/ Flushed \/ UploadGoesOn
           \/ TaskSkipped \/ ProcessClosed \/ ProcessOpen \/ UNCHANGED vars
  <2>1. UNCHANGED <<owner, tool, doing, start>>
      BY <1>4 DEF Time, KeepaliveLapses, GraceEnds, Reattach, Pump, RequestReload, Rpcs3Detected,
           DeviceEvent, EndUpdate, Serviced, NoReload, BeginReload, ReloadSent, LoadedSent, Drained,
           Flushed, UploadGoesOn, TaskSkipped, ProcessClosed, ProcessOpen, LoopStep, vars,
           sessionVars, toolVars
  <2> QED
      BY <2>1 DEF ToolTypes
<1> QED
    BY <1>1, <1>2, <1>3, <1>4, RequestTools DEF Next, Environment, Loop

-----------------------------------------------------------------------------
\* What the tool knows, wherever it is told
LEMMA KnowsStays == ASSUME knows \in Knowledge, [Next]_vars PROVE knows' \in Knowledge
<1> USE DEF Knowledge
<1>1. CASE Request
    BY <1>1 DEF Request, Keepalive, BeginRead, ReadChunk, BeginUpload, UploadChunk, GiveUp,
                BeginUpdate, Disconnect, Known
<1>2. CASE Loading
    BY <1>2 DEF Loading, Load, LoadUnreadable, Outdated, toolVars
<1>3. CASE ReloadSent \/ LoadedSent \/ ProcessOpen
    BY <1>3 DEF ReloadSent, LoadedSent, Drained, ProcessOpen, AfterLoaded
<1>4. CASE \/ Time \/ Reattach \/ Pump \/ Environment \/ ToolMoves
           \/ Serviced \/ NoReload \/ BeginReload \/ Flushed \/ UploadGoesOn
           \/ TaskSkipped \/ ProcessClosed \/ UNCHANGED vars
    BY <1>4 DEF Time, KeepaliveLapses, GraceEnds, Reattach, Pump, Environment, RequestReload,
         Rpcs3Detected, DeviceEvent, EndUpdate, TakeEvents, ToolMoves, OpenTool, Silence, Vanish,
         Serviced, NoReload, BeginReload, Flushed, UploadGoesOn, TaskSkipped, ProcessClosed,
         vars, toolVars
<1> QED
    BY <1>1, <1>2, <1>3, <1>4 DEF Next, Loop

LEMMA PlaceStays == ASSUME pc \in PCs, [Next]_vars PROVE pc' \in PCs
<1>1. CASE Request \/ ToolMoves \/ Time \/ Environment \/ Reattach \/ Pump \/ UNCHANGED vars
  <2>1. pc' = pc
      BY <1>1 DEF Request, Keepalive, BeginRead, ReadChunk, BeginUpload, UploadChunk, GiveUp,
                BeginUpdate, Disconnect, ToolMoves, OpenTool, Silence, Vanish, Time, KeepaliveLapses,
                GraceEnds, Environment, RequestReload, Rpcs3Detected, TakeEvents, DeviceEvent,
                EndUpdate, Reattach, Pump, vars
  <2> QED
      BY <2>1
<1>2. CASE Loop
    BY <1>2 DEF Loop, Serviced, NoReload, BeginReload, ReloadSent, LoadedSent, Drained, Flushed,
                Loading, Load, LoadUnreadable, RestartStack, TellTool, UploadGoesOn, TaskSkipped,
                ProcessClosed, ProcessOpen, LoopStep, PCs
<1> QED
    BY <1>1, <1>2 DEF Next

LEMMA ModesStay ==
    ASSUME requested \in Modes, current \in Modes, [Next]_vars
    PROVE  requested' \in Modes /\ current' \in Modes
<1>1. CASE Loading
    BY <1>1 DEF Loading, Load, LoadUnreadable, ForceMode, Modes
<1>2. CASE Rpcs3Detected
    BY <1>2 DEF Rpcs3Detected, Modes
<1>3. CASE \/ Request \/ ToolMoves \/ Time \/ Reattach \/ Pump \/ UNCHANGED vars
           \/ RequestReload \/ TakeEvents \/ DeviceEvent \/ EndUpdate
           \/ Serviced \/ NoReload \/ BeginReload \/ ReloadSent \/ LoadedSent \/ Flushed \/ UploadGoesOn
           \/ TaskSkipped \/ ProcessClosed \/ ProcessOpen
  <2>1. UNCHANGED <<requested, current>>
      BY <1>3 DEF Request, Keepalive, BeginRead, ReadChunk, BeginUpload, UploadChunk, GiveUp,
                BeginUpdate, Disconnect, ToolMoves, OpenTool, Silence, Vanish, Time, KeepaliveLapses,
                GraceEnds, RequestReload, TakeEvents, DeviceEvent, EndUpdate, Reattach, Pump, Serviced,
                NoReload, BeginReload, ReloadSent, LoadedSent, Drained, Flushed, UploadGoesOn,
                TaskSkipped, ProcessClosed, ProcessOpen, vars, managerVars
  <2> QED
      BY <2>1
<1> QED
    BY <1>1, <1>2, <1>3 DEF Next, Environment, Loop

LEMMA HistoryStays ==
    ASSUME ToolTypes, held \subseteq Tools, crossed \subseteq Tools, wiped \subseteq Tools,
           left \in 0..Moves, [Next]_vars
    PROVE  held' \subseteq Tools /\ crossed' \subseteq Tools /\ wiped' \subseteq Tools /\ left' \in 0..Moves
<1>1. left' = left \/ Move
    BY DEF Next, Request, Keepalive, BeginRead, ReadChunk, BeginUpload, UploadChunk, GiveUp,
           BeginUpdate, Disconnect, ToolMoves, OpenTool, Silence, Vanish, Time, KeepaliveLapses,
           GraceEnds, Environment, RequestReload, Rpcs3Detected, TakeEvents, DeviceEvent, EndUpdate,
           Reattach, Pump, Loop, Serviced, NoReload, BeginReload, ReloadSent, LoadedSent, Drained,
           Flushed, Loading, Load, LoadUnreadable, UploadGoesOn, TaskSkipped, ProcessClosed,
           ProcessOpen, LoopStep, vars, historyVars
<1>2. left' \in 0..Moves
    BY <1>1, SessionAssumption DEF Move
<1>3. CASE Request
    BY <1>2, <1>3 DEF Request, Keepalive, BeginRead, ReadChunk, BeginUpload, UploadChunk, Chunk, GiveUp,
           BeginUpdate, Disconnect, historyVars
<1>4. CASE ToolMoves
    BY <1>2, <1>4 DEF ToolMoves, OpenTool, Silence, Vanish
<1>5. CASE Loading
  <2>1. held' = held /\ crossed' = crossed /\ wiped' \in {wiped, wiped \union {owner}}
      BY <1>5 DEF Loading, Load, LoadUnreadable, RestartStack, historyVars
  <2> QED
      BY <1>2, <2>1 DEF ToolTypes
<1>6. CASE \/ Time \/ Environment \/ Reattach \/ Pump \/ UNCHANGED vars
           \/ Serviced \/ NoReload \/ BeginReload \/ ReloadSent \/ LoadedSent \/ Flushed \/ UploadGoesOn
           \/ TaskSkipped \/ ProcessClosed \/ ProcessOpen
  <2>1. UNCHANGED <<held, crossed, wiped>>
      BY <1>6 DEF Time, KeepaliveLapses, GraceEnds, Environment, RequestReload, Rpcs3Detected,
           TakeEvents, DeviceEvent, EndUpdate, Reattach, Pump, Serviced, NoReload, BeginReload,
           ReloadSent, LoadedSent, Drained, Flushed, UploadGoesOn, TaskSkipped, ProcessClosed,
           ProcessOpen, vars, historyVars
  <2> QED
      BY <1>2, <2>1
<1> QED
    BY <1>3, <1>4, <1>5, <1>6 DEF Next, Loop

LEMMA TypesStay == ASSUME TypeOK, [Next]_vars PROVE TypeOK'
<1>1. Places'
    BY KnowsStays, PlaceStays, ModesStay, HistoryStays, Types DEF Places
<1>2. Flags' /\ EventTypes' /\ ToolTypes'
    BY Types, FlagsStay, EventTypesStay, ToolTypesStay
<1> QED
    BY <1>1, <1>2, Types DEF TypeOK, Flags, EventTypes, ToolTypes, Places, Doings, Knowledge

-----------------------------------------------------------------------------
(* The tools the device heard from that stayed since and weren't caught by a second restart *)
Staying == held \ wiped

\* Such a tool has the device, and counts as open once nothing is written
Awaited ==
    \A t \in Staying : tool[t] = "open" /\ t = owner /\ ((seen /\ fresh) \/ grace)

\* It reads and writes from where it thinks it is
Placed == \A t \in Staying : doing[t] # Idle => start = doing[t].at

\* An update keeps its tool seen, keepalives are a seen tool's, and a reload isn't
\* begun during an update
Seen ==
    /\ updating \/ fresh => seen
    /\ pc \in {"reload", "load"} => ~updating

SessionInv == TypeOK /\ Awaited /\ Placed /\ Seen /\ InOrder

\* Whoever else asks for the device is turned away
LEMMA NoRival ==
    ASSUME Awaited, NEW t \in Tools, Accepted(t)
    PROVE  Staying \subseteq {t} /\ owner' = t /\ tool[t] = "open"
<1>1. t = owner \/ (~working /\ ~MayBeOpen)
    BY DEF Accepted, InUseElsewhere
<1>2. ASSUME NEW u \in Staying PROVE u = t
    BY <1>1, <1>2 DEF Awaited, MayBeOpen, Closed
<1> QED
    BY <1>2 DEF Accepted, SwitchTransport, Served

LEMMA SeenStays == ASSUME Seen, [Next]_vars PROVE Seen'
<1> USE DEF Seen
<1>1. CASE Request
    BY <1>1 DEF Request, Keepalive, BeginRead, ReadChunk, BeginUpload, UploadChunk, GiveUp,
                BeginUpdate, Disconnect, Accepted, Served, sessionVars, managerVars
<1>2. CASE ToolMoves \/ Time \/ Reattach \/ Pump \/ UNCHANGED vars
    BY <1>2 DEF ToolMoves, OpenTool, Silence, Vanish, Time, KeepaliveLapses, GraceEnds, Reattach,
                Pump, vars, sessionVars, managerVars
<1>3. CASE Environment
  <2>1. CASE RequestReload
      BY <2>1, Zenon DEF RequestReload, sessionVars
  <2>2. CASE Rpcs3Detected
      BY <2>2, Zenon DEF Rpcs3Detected
  <2>3. CASE TakeEvents
      BY <2>3, Zenon DEF TakeEvents, managerVars
  <2>4. CASE DeviceEvent
      BY <2>4, Zenon DEF DeviceEvent, sessionVars, managerVars
  <2>5. CASE EndUpdate
      BY <2>5 DEF EndUpdate
  <2> QED
      BY <1>3, <2>1, <2>2, <2>3, <2>4, <2>5 DEF Environment
<1>4. CASE Loading
    BY <1>4 DEF Loading, Load, LoadUnreadable, RestartStack, TellTool
<1>5. ASSUME UNCHANGED <<updating, fresh, seen>>, pc' = pc \/ pc' \notin {"reload", "load"} \/ ~updating
      PROVE  Seen'
    BY <1>5
<1>6. CASE ReloadSent \/ LoadedSent \/ ProcessClosed \/ ProcessOpen \/ UploadGoesOn \/ TaskSkipped
  <2>1. UNCHANGED <<updating, fresh, seen>>
      BY <1>6, Zenon DEF ReloadSent, LoadedSent, Drained, ProcessClosed, ProcessOpen, UploadGoesOn,
                         TaskSkipped, sessionVars, managerVars
  <2>2. pc' \in {"service", "flush"}
      BY <1>6 DEF ReloadSent, LoadedSent, Drained, ProcessClosed, ProcessOpen, UploadGoesOn,
                  TaskSkipped, LoopStep
  <2> QED
      BY <1>5, <2>1, <2>2
<1>7. CASE Serviced \/ NoReload \/ BeginReload \/ Flushed
  <2>1. UNCHANGED <<updating, fresh, seen>>
      BY <1>7, Zenon DEF Serviced, NoReload, BeginReload, Flushed, sessionVars, managerVars
  <2>2. pc' \notin {"reload", "load"} \/ ~updating
      BY <1>7 DEF Serviced, NoReload, BeginReload, Flushed, LoopStep
  <2> QED
      BY <1>5, <2>1, <2>2
<1> QED
    BY <1>1, <1>2, <1>3, <1>4, <1>6, <1>7 DEF Next, Loop

\* A chunk moves the shared position and the tool's own together
LEMMA ChunkPlaced ==
    ASSUME TypeOK, Placed, InOrder, NEW t \in Tools, Staying \subseteq {t}, UNCHANGED <<held, wiped>>,
           NEW what \in {"read", "write"}, Chunk(t, what)
    PROVE  Placed' /\ InOrder'
<1>1. /\ doing[t] # Idle /\ doing[t].at \in 0..Chunks /\ doing[t].at < Chunks
      /\ doing'[t] = Idle \/ doing'[t].at = doing[t].at + 1
    BY Types, ChunkMoves
<1>2. CASE t \in Staying
  <2>1. start = doing[t].at
      BY <1>1, <1>2 DEF Placed
  <2>2. start' = doing[t].at + 1 /\ crossed' = crossed
      BY <1>1, <2>1 DEF Chunk
  <2> QED
      BY <1>1, <2>2 DEF Placed, Staying, InOrder
<1>3. CASE t \notin Staying
    BY <1>3 DEF Chunk, Placed, Staying, InOrder
<1> QED
    BY <1>2, <1>3

LEMMA RequestInOrder ==
    ASSUME TypeOK, Awaited, Placed, InOrder, Request
    PROVE  Awaited' /\ Placed' /\ InOrder'
<1> PICK t \in Tools : \/ Keepalive(t) \/ BeginRead(t) \/ ReadChunk(t) \/ BeginUpload(t)
                       \/ UploadChunk(t) \/ GiveUp(t) \/ BeginUpdate(t) \/ Disconnect(t)
    BY DEF Request
<1>1. doing \in [Tools -> Doings]
    BY Types DEF ToolTypes
<1>2. CASE GiveUp(t)
  <2>1. /\ UNCHANGED <<owner, seen, fresh, grace, start, tool, held, wiped, crossed>>
        /\ \A u \in Tools : doing'[u] \in {Idle, doing[u]}
      BY <1>1, <1>2 DEF GiveUp, sessionVars, historyVars
  <2>2. Staying \subseteq Tools
      BY DEF Staying, TypeOK
  <2> QED
      BY <2>1, <2>2 DEF Awaited, Placed, Staying, InOrder
<1>3. CASE ~GiveUp(t)
  <2>1. Accepted(t)
      BY <1>3 DEF Keepalive, BeginRead, ReadChunk, BeginUpload, UploadChunk, BeginUpdate, Disconnect
  <2>2. Staying \subseteq {t} /\ owner' = t /\ tool[t] = "open"
      BY <2>1, NoRival
  <2>3. CASE Keepalive(t)
    <3>1. /\ seen' = TRUE /\ fresh' = TRUE /\ UNCHANGED <<start, doing, tool, crossed>>
          /\ \/ doing[t] = Idle /\ held' = held \union {t} /\ wiped' = wiped \ {t}
             \/ UNCHANGED <<held, wiped>>
        BY <2>3 DEF Keepalive
    <3> QED
        BY <2>2, <3>1 DEF Awaited, Placed, Staying, InOrder
  <2>4. CASE BeginRead(t)
    <3>1. /\ UNCHANGED <<seen, fresh, grace, tool, held, wiped, crossed>> /\ start' = 0
          /\ doing'[t].at = 0
        BY <1>1, <2>4 DEF BeginRead, historyVars
    <3> QED
        BY <2>2, <3>1 DEF Awaited, Placed, Staying, InOrder
  <2>5. CASE BeginUpload(t)
    <3>1. /\ seen' = TRUE /\ fresh' = TRUE /\ UNCHANGED <<tool, crossed>> /\ start' = 0
          /\ held' = held \union {t} /\ wiped' = wiped \ {t} /\ doing'[t].at = 0
        BY <1>1, <2>5 DEF BeginUpload
    <3> QED
        BY <2>2, <3>1 DEF Awaited, Placed, Staying, InOrder
  <2>6. CASE ReadChunk(t) \/ UploadChunk(t)
    <3>1. /\ UNCHANGED <<grace, tool, held, wiped>>
          /\ \/ UNCHANGED <<seen, fresh>>
             \/ seen' = TRUE /\ fresh' = TRUE
        BY <2>6 DEF ReadChunk, UploadChunk
    <3>2. Placed' /\ InOrder'
        BY <2>2, <2>6, <3>1, ChunkPlaced DEF ReadChunk, UploadChunk
    <3> QED
        BY <2>2, <3>1, <3>2 DEF Awaited, Staying
  <2>7. CASE BeginUpdate(t)
    <3>1. seen' = TRUE /\ UNCHANGED <<fresh, grace, start, tool, doing, held, crossed, wiped>>
        BY <2>7 DEF BeginUpdate
    <3> QED
        BY <2>2, <3>1 DEF Awaited, Placed, Staying, InOrder
  <2>8. CASE Disconnect(t)
    <3>1. held' = held \ {t} /\ UNCHANGED <<crossed, wiped>>
        BY <2>8 DEF Disconnect
    <3> QED
        BY <2>2, <3>1 DEF Awaited, Placed, Staying, InOrder
  <2> QED
      BY <1>3, <2>3, <2>4, <2>5, <2>6, <2>7, <2>8
<1> QED
    BY <1>2, <1>3

LEMMA LoadInOrder ==
    ASSUME TypeOK, Awaited, Placed, InOrder, Loading
    PROVE  Awaited' /\ Placed' /\ InOrder'
<1>1. UNCHANGED <<owner, start, tool, held, crossed>>
    BY DEF Loading, Load, LoadUnreadable, historyVars, toolVars
<1>2. \A t \in Tools : doing'[t] \in {Idle, doing[t]}
    BY Types DEF ToolTypes, Loading, Load, LoadUnreadable, Outdated, toolVars
<1>3. Staying \subseteq Tools
    BY DEF Staying, TypeOK
<1>4. ASSUME wiped \subseteq wiped' PROVE Placed' /\ InOrder'
    BY <1>1, <1>2, <1>3, <1>4 DEF Placed, Staying, InOrder
<1>5. CASE UNCHANGED <<seen, fresh, grace, wiped>>
    BY <1>1, <1>4, <1>5 DEF Awaited, Staying
<1>6. CASE ~working /\ RestartStack /\ ~detached
  <2>1. /\ grace' = ~Closed
        /\ wiped' = IF Closed /\ MayBeOpen THEN wiped \union {owner} ELSE wiped
      BY <1>6 DEF RestartStack
  <2>2. Awaited'
    <3>1. CASE ~Closed
      <4>1. grace' = TRUE /\ wiped' = wiped
          BY <2>1, <3>1
      <4> QED
          BY <1>1, <4>1 DEF Awaited, Staying
    <3>2. CASE Closed /\ MayBeOpen
        BY <1>1, <2>1, <3>2 DEF Awaited, Staying
    <3>3. CASE Closed /\ ~MayBeOpen
      <4>1. Staying = {}
          BY <1>6, <3>3 DEF Awaited, Closed, MayBeOpen
      <4> QED
          BY <1>1, <2>1, <3>3, <4>1 DEF Awaited, Staying
    <3> QED
        BY <3>1, <3>2, <3>3
  <2> QED
      BY <1>4, <2>1, <2>2
<1> QED
    BY <1>5, <1>6 DEF Loading, Load, LoadUnreadable, RestartStack, historyVars

LEMMA StepInOrder ==
    ASSUME SessionInv, [Next]_vars
    PROVE  Awaited' /\ Placed' /\ InOrder'
<1> USE DEF SessionInv
<1>1. Staying \subseteq Tools /\ owner \in Tools /\ doing \in [Tools -> Doings]
      /\ tool \in [Tools -> {"away", "open", "silent"}]
    BY Types DEF Staying, Places, ToolTypes
<1>2. ASSUME NEW t \in Tools, OpenTool(t) \/ Silence(t) \/ Vanish(t)
      PROVE  Awaited' /\ Placed' /\ InOrder'
  <2>1. /\ UNCHANGED <<owner, seen, fresh, grace, start, wiped, crossed>>
        /\ held' \in {held, held \ {t}}
        /\ \A u \in Tools : u # t => doing'[u] = doing[u] /\ tool'[u] = tool[u]
        /\ t \notin held' \/ (tool[t] = "away" /\ doing'[t] = doing[t])
    <3>1. CASE OpenTool(t)
        BY <1>1, <3>1 DEF OpenTool, sessionVars
    <3>2. CASE Silence(t)
        BY <1>1, <3>2 DEF Silence, sessionVars, Awaited, Staying
    <3>3. CASE Vanish(t)
        BY <1>1, <3>3 DEF Vanish, sessionVars
    <3> QED
        BY <1>2, <3>1, <3>2, <3>3
  <2> QED
      BY <1>1, <2>1 DEF Awaited, Placed, Staying, InOrder
<1>3. CASE KeepaliveLapses
    BY <1>3 DEF KeepaliveLapses, toolVars, historyVars, Awaited, Placed, Staying, InOrder
<1>4. CASE GraceEnds
    BY <1>4 DEF GraceEnds, toolVars, historyVars, Awaited, Placed, Staying, InOrder, Seen
<1>5. CASE TakeEvents
  <2>1. /\ UNCHANGED <<owner, seen, grace, start, tool, held, wiped, crossed>> /\ (fresh => fresh')
        /\ \A u \in Tools : doing'[u] \in {Idle, doing[u]}
      BY <1>1, <1>5 DEF TakeEvents, historyVars
  <2> QED
      BY <1>1, <2>1 DEF Awaited, Placed, Staying, InOrder
<1>6. CASE EndUpdate
    BY <1>6 DEF EndUpdate, toolVars, historyVars, Awaited, Placed, Staying, InOrder
<1>7. CASE \/ Reattach \/ Pump \/ RequestReload \/ Rpcs3Detected \/ DeviceEvent
           \/ Serviced \/ NoReload \/ BeginReload \/ ReloadSent \/ LoadedSent \/ Flushed \/ UploadGoesOn
           \/ TaskSkipped \/ ProcessClosed \/ ProcessOpen \/ UNCHANGED vars
  <2>1. UNCHANGED <<owner, seen, fresh, grace, start, tool, doing, held, wiped, crossed>>
      BY <1>7 DEF Reattach, Pump, RequestReload, Rpcs3Detected, DeviceEvent, Serviced, NoReload,
           BeginReload, ReloadSent, LoadedSent, Drained, Flushed, UploadGoesOn, TaskSkipped,
           ProcessClosed, ProcessOpen, LoopStep, vars, sessionVars, toolVars, historyVars
  <2> QED
      BY <2>1 DEF Awaited, Placed, Staying, InOrder
<1> QED
    BY <1>2, <1>3, <1>4, <1>5, <1>6, <1>7, RequestInOrder, LoadInOrder
       DEF Next, ToolMoves, Time, Environment, Loop

LEMMA SessionBegins == Init => SessionInv
<1> SUFFICES ASSUME Init
             PROVE  SessionInv
    OBVIOUS
<1>1. Flags
    BY DEF Init, Flags
<1>2. EventTypes
    BY EmptyQueue DEF Init, EventTypes
<1>3. tool \in [Tools -> {"away", "open", "silent"}]
    BY DEF Init, Tools
<1>4. ToolTypes
    BY <1>3, IdleDoes DEF Init, ToolTypes, Tools
<1>5. Places
    BY SessionAssumption DEF Init, Places, Modes, PCs, Knowledge
<1> QED
    BY <1>1, <1>2, <1>4, <1>5, Types DEF Init, SessionInv, Awaited, Placed, Staying, Seen, InOrder

LEMMA SessionStays == SessionInv /\ [Next]_vars => SessionInv'
BY TypesStay, SeenStays, StepInOrder DEF SessionInv

LEMMA SessionAlways == Spec => []SessionInv
BY SessionBegins, SessionStays, PTL DEF Spec

(* The variables keep their types, and the queue of events its bound, which  *)
(* send_event checks and flush_events doesn't (EventList.event)             *)
THEOREM SessionTyped == Spec => []TypeOK
<1>1. SessionInv => TypeOK
    BY DEF SessionInv
<1> QED
    BY <1>1, SessionAlways, PTL

(* Neither the other tool, nor a reload, nor an upload of its own moves the  *)
(* shared position under a tool that has the device (in_use_elsewhere)      *)
THEOREM AlwaysInOrder == Spec => []InOrder
<1>1. SessionInv => InOrder
    BY DEF SessionInv
<1> QED
    BY <1>1, SessionAlways, PTL

(* No console mode is asked for under a tool that is there or awaited, but   *)
(* for one that a second restart caught (rpcs3_detected, tool_may_be_open)  *)
THEOREM ModeAlwaysWaits == Spec => ModeWaitsUnlessCaught
<1>1. SessionInv /\ [Next]_vars => [requested' # requested /\ ~working => held \subseteq wiped]_vars
  <2> SUFFICES ASSUME SessionInv, Next, requested' # requested, ~working
               PROVE  held \subseteq wiped
      BY DEF vars, managerVars
  <2>1. ~MayBeOpen
    <3>1. CASE Loading
        BY <3>1 DEF Loading, Load, LoadUnreadable, ForceMode
    <3>2. CASE Rpcs3Detected
        BY <3>2 DEF Rpcs3Detected
    <3>3. \/ requested' = requested \/ Loading \/ Rpcs3Detected
        BY DEF Next, Request, Keepalive, BeginRead, ReadChunk, BeginUpload, UploadChunk, GiveUp,
                BeginUpdate, Disconnect, ToolMoves, OpenTool, Silence, Vanish, Time, KeepaliveLapses,
                GraceEnds, Environment, RequestReload, TakeEvents, DeviceEvent, EndUpdate, Reattach,
                Pump, Loop, Serviced, NoReload, BeginReload, ReloadSent, LoadedSent, Drained, Flushed,
                UploadGoesOn, TaskSkipped, ProcessClosed, ProcessOpen, managerVars
    <3> QED
        BY <3>1, <3>2, <3>3
  <2> QED
      BY <2>1 DEF SessionInv, Awaited, Staying, MayBeOpen, Closed
<1> QED
    BY <1>1, SessionAlways, PTL DEF Spec, ModeWaitsUnlessCaught

-----------------------------------------------------------------------------
(* No reload is kept from the tool *)

\* Among these events is one that tells of a load
Telling(events) == \E i \in DOMAIN events : events[i] = "loaded"

\* What is still to tell the tool: a note that it missed a reload, the main loop
\* on its way to tell it, or an event that waits or was sent
ToBeTold == missed \/ pc = "drainLoaded" \/ Telling(queue) \/ Telling(busy)

(* A tool that shows what was active before is about to be told otherwise:  *)
(* no takeover, lapse of keepalives, restart or further reload loses the    *)
(* event or the note of it - the safe half of ToolHearsUnlessFull           *)
StaleIsToBeTold == knows = "stale" => ToBeTold

\* The device knows of a tool that knows of it, or owes it a reload, and one
\* that it awaits it owes one
Owed ==
    /\ knows \notin {"nothing", "forgotten"} => seen \/ missed
    /\ grace /\ ~seen => missed

\* Events that are sent off the front of a queue are in one part or the other
LEMMA TellingSplit ==
    ASSUME NEW q \in Seq(Events), NEW n \in 1..Len(q), Telling(q)
    PROVE  Telling(SubSeq(q, 1, n)) \/ Telling(SubSeq(q, n + 1, Len(q)))
<1>1. PICK i \in 1..Len(q) : q[i] = "loaded"
    BY DEF Telling
<1>2. CASE i <= n
  <2>1. i \in DOMAIN SubSeq(q, 1, n) /\ SubSeq(q, 1, n)[i] = q[i]
      BY <1>2
  <2> QED
      BY <1>1, <2>1 DEF Telling
<1>3. CASE i > n
  <2>1. /\ i - n \in DOMAIN SubSeq(q, n + 1, Len(q))
        /\ SubSeq(q, n + 1, Len(q))[i - n] = q[i]
      BY <1>3
  <2> QED
      BY <1>1, <2>1 DEF Telling
<1> QED
    BY <1>2, <1>3

\* An event that joins the queue leaves those that wait, and is one of them
\* unless the queue was full
LEMMA TellingJoins ==
    ASSUME EventTypes, NEW event \in Events
    PROVE  /\ Telling(queue) => Telling(Queued(event))
           /\ ~Full => Telling(Queued("loaded"))
<1>1. "loaded" \in Events
    BY DEF Events
<1>2. ASSUME NEW e \in Events
      PROVE  /\ \A i \in DOMAIN queue : i \in DOMAIN Append(queue, e) /\ Append(queue, e)[i] = queue[i]
             /\ Len(queue) + 1 \in DOMAIN Append(queue, e) /\ Append(queue, e)[Len(queue) + 1] = e
    BY DEF EventTypes
<1>3. Telling(queue) => Telling(Queued(event))
    BY <1>2 DEF Telling, Queued
<1>4. ~Full => Telling(Queued("loaded"))
    BY <1>1, <1>2 DEF Telling, Queued
<1> QED
    BY <1>3, <1>4

\* What a load makes of what the tool knows
LEMMA Forgets ==
    ASSUME NEW restart \in BOOLEAN, Outdated(restart)
    PROVE  /\ knows \in {"nothing", "forgotten"} => knows' = knows
           /\ restart /\ ~detached /\ Closed => knows' \in {"nothing", "forgotten"}
BY DEF Outdated

\* A load leaves a tool that knows of the device to be told, or forgets it
LEMMA LoadOwes ==
    ASSUME TypeOK, Owed, StaleIsToBeTold, Loading
    PROVE  Owed' /\ StaleIsToBeTold'
<1>1. CASE LoadUnreadable
  <2>1. /\ pc = "load" /\ UNCHANGED <<seen, grace, knows, queue, busy>>
        /\ pc' = (IF Closed THEN "service" ELSE "drainLoaded") /\ missed' = (missed \/ (Closed /\ seen))
      BY <1>1 DEF LoadUnreadable, TellTool, eventVars, toolVars
  <2> QED
      BY <2>1 DEF Owed, StaleIsToBeTold, ToBeTold, Telling
<1>2. ASSUME NEW forced \in BOOLEAN, NEW changed \in BOOLEAN, Load(forced, changed)
      PROVE  Owed' /\ StaleIsToBeTold'
  <2> DEFINE restart == changed \/ requested' # current
  <2>1. Outdated(restart) /\ IF restart THEN RestartStack ELSE TellTool /\ UNCHANGED <<seen, grace>>
      BY <1>2 DEF Load
  <2>2. /\ knows \in {"nothing", "forgotten"} => knows' = knows
        /\ restart /\ ~detached /\ Closed => knows' \in {"nothing", "forgotten"}
    <3>1. restart \in BOOLEAN
        OBVIOUS
    <3> HIDE DEF restart
    <3> QED
        BY <2>1, <3>1, Forgets
  <2>3. CASE TellTool /\ UNCHANGED <<seen, grace>>
    <3>1. /\ pc' = (IF Closed THEN "service" ELSE "drainLoaded")
          /\ missed' = (missed \/ (Closed /\ seen)) /\ UNCHANGED <<seen, grace>>
        BY <2>3 DEF TellTool
    <3> QED
        BY <2>2, <3>1 DEF Owed, StaleIsToBeTold, ToBeTold
  <2>4. CASE restart /\ RestartStack /\ ~detached
    <3>1. seen' = FALSE /\ grace' = ~Closed /\ missed' = ~Closed
        BY <2>4 DEF RestartStack
    <3>2. Closed => knows' \in {"nothing", "forgotten"}
        BY <2>2, <2>4
    <3> QED
        BY <3>1, <3>2 DEF Owed, StaleIsToBeTold, ToBeTold
  <2>5. CASE restart /\ RestartStack /\ detached
      BY <2>3, <2>5 DEF RestartStack
  <2> QED
      BY <2>1, <2>3, <2>4, <2>5
<1> QED
    BY <1>1, <1>2 DEF Loading

\* A request is the tool's that has the device, or ends what the one before knew
LEMMA RequestOwes ==
    ASSUME SessionInv, Owed, StaleIsToBeTold, Request
    PROVE  Owed' /\ StaleIsToBeTold'
<1> PICK t \in Tools : \/ Keepalive(t) \/ BeginRead(t) \/ ReadChunk(t) \/ BeginUpload(t)
                       \/ UploadChunk(t) \/ GiveUp(t) \/ BeginUpdate(t) \/ Disconnect(t)
    BY DEF Request
<1>1. CASE GiveUp(t)
  <2>1. UNCHANGED <<seen, grace, missed, pc, knows, queue, busy>>
      BY <1>1 DEF GiveUp, sessionVars, eventVars
  <2> QED
      BY <2>1 DEF Owed, StaleIsToBeTold, ToBeTold, Telling
<1>2. CASE Disconnect(t)
    BY <1>2 DEF Disconnect, Owed, StaleIsToBeTold
<1>3. CASE ~GiveUp(t) /\ ~Disconnect(t)
  <2>1. SwitchTransport(t) /\ UNCHANGED <<grace, missed, pc>>
      BY <1>3 DEF Keepalive, BeginRead, ReadChunk, BeginUpload, UploadChunk, BeginUpdate, Accepted
  <2>2. \/ seen' = TRUE /\ knows' = Known(t)
        \/ /\ seen' = seen
           /\ \/ t \in Staying /\ knows' = "reading"
              \/ knows' = "nothing"
              \/ Known(t) = "reading" /\ knows' = "current"
              \/ knows' = Known(t)
    <3>1. CASE Keepalive(t) \/ BeginUpload(t) \/ UploadChunk(t) \/ BeginUpdate(t)
        BY <3>1 DEF Keepalive, BeginUpload, UploadChunk, BeginUpdate
    <3>2. CASE BeginRead(t)
        BY <3>2 DEF BeginRead, Staying
    <3>3. CASE ReadChunk(t)
        BY <3>3 DEF ReadChunk
    <3> QED
        BY <1>3, <3>1, <3>2, <3>3
  <2>3. t \in Staying => (seen /\ fresh) \/ grace
      BY DEF SessionInv, Awaited
  <2>4. Owed'
      BY <2>1, <2>2, <2>3 DEF Owed, Known
  <2>5. knows' = "stale" => t = owner /\ knows = "stale"
      BY <2>2 DEF Known
  <2>6. t = owner => UNCHANGED <<queue, busy>>
      BY <2>1 DEF SwitchTransport
  <2> QED
      BY <2>1, <2>4, <2>5, <2>6 DEF StaleIsToBeTold, ToBeTold, Telling
<1> QED
    BY <1>1, <1>2, <1>3
\* What is sent of the events that wait goes on telling the tool
LEMMA SendingTells ==
    ASSUME NEW all \in Seq(Events), NEW n \in 1..Len(all), Telling(all),
           busy' = SubSeq(all, 1, n), queue' = SubSeq(all, n + 1, Len(all))
    PROVE  ToBeTold'
<1>1. Telling(SubSeq(all, 1, n)) \/ Telling(SubSeq(all, n + 1, Len(all)))
    BY TellingSplit
<1> QED
    BY <1>1 DEF ToBeTold, Telling

\* The tool takes what was sent, and is told if a load is among it
LEMMA TakeOwes ==
    ASSUME Owed, StaleIsToBeTold, TakeEvents
    PROVE  Owed' /\ StaleIsToBeTold'
<1>1. UNCHANGED <<seen, grace, missed, queue, pc>>
    BY DEF TakeEvents
<1>2. \/ knows # "nothing" /\ Telling(busy) /\ knows' \in {"forgotten", "told"}
         /\ (knows = "forgotten" => knows' = "forgotten")
      \/ knows' = knows /\ (knows # "nothing" => ~Telling(busy))
    BY DEF TakeEvents, Telling
<1> QED
    BY <1>1, <1>2 DEF Owed, StaleIsToBeTold, ToBeTold, Telling

\* An event joins the queue, on the way of the main loop or from an interrupt
LEMMA QueueOwes ==
    ASSUME TypeOK, Owed, StaleIsToBeTold, DeviceEvent \/ ReloadSent \/ LoadedSent
    PROVE  Owed' /\ StaleIsToBeTold'
<1> USE DEF Owed, StaleIsToBeTold, ToBeTold
<1>1. EventTypes /\ {"reload", "loaded", "device"} \subseteq Events
    BY Types DEF Events
<1>2. Telling(queue)' = Telling(queue') /\ Telling(busy)' = Telling(busy')
    BY DEF Telling
<1>3. CASE DeviceEvent \/ ReloadSent
  <2>1. /\ UNCHANGED <<seen, grace, missed, busy, knows>> /\ (pc # "drainLoaded" \/ pc' = pc)
        /\ \E event \in Events : queue' = Queued(event)
      BY <1>1, <1>3 DEF DeviceEvent, ReloadSent, Drained, LoopStep, sessionVars, toolVars
  <2>2. Telling(queue) => Telling(queue')
      BY <1>1, <2>1, TellingJoins
  <2> QED
      BY <1>2, <2>1, <2>2
<1>4. CASE LoadedSent
  <2>1. /\ UNCHANGED <<seen, grace, missed, busy>> /\ queue' = Queued("loaded")
        /\ knows' = AfterLoaded
      BY <1>4 DEF LoadedSent, Drained, sessionVars
  <2>2. knows' = "stale" => Telling(queue')
      BY <1>1, <2>1, TellingJoins DEF AfterLoaded
  <2>3. knows' \notin {"nothing", "forgotten"} => knows \notin {"nothing", "forgotten"}
      BY <2>1 DEF AfterLoaded
  <2> QED
      BY <1>2, <2>1, <2>2, <2>3
<1> QED
    BY <1>3, <1>4

\* The main loop tells the tool of what it missed, and sends the queue on
LEMMA ProcessOwes ==
    ASSUME TypeOK, Owed, StaleIsToBeTold, ProcessOpen
    PROVE  Owed' /\ StaleIsToBeTold'
<1>1. EventTypes /\ "loaded" \in Events
    BY Types DEF Events
<1>2. seen /\ seen' /\ missed' = FALSE /\ knows' = (IF missed THEN AfterLoaded ELSE knows) /\ pc = "task"
    BY DEF ProcessOpen, Closed, LoopStep
<1> PICK all : all = IF missed THEN Queued("loaded") ELSE queue
    OBVIOUS
<1>3. all \in Seq(Events)
    BY <1>1, Joins DEF EventTypes
<1>4. \/ queue' = all /\ UNCHANGED busy
      \/ /\ busy = <<>>
         /\ \E n \in 1..Len(all) : busy' = SubSeq(all, 1, n) /\ queue' = SubSeq(all, n + 1, Len(all))
    BY DEF ProcessOpen
<1>5. ASSUME knows' = "stale" PROVE ToBeTold'
  <2>1. Telling(all) \/ Telling(busy)
    <3>1. CASE missed
      <4>1. ~Full
          BY <1>2, <1>5, <3>1 DEF AfterLoaded
      <4> QED
          BY <1>1, <3>1, <4>1, TellingJoins
    <3>2. CASE ~missed
        BY <1>2, <1>5, <3>2 DEF StaleIsToBeTold, ToBeTold
    <3> QED
        BY <3>1, <3>2
  <2>2. CASE queue' = all /\ UNCHANGED busy
      BY <2>1, <2>2 DEF ToBeTold, Telling
  <2>3. CASE /\ busy = <<>>
             /\ \E n \in 1..Len(all) : busy' = SubSeq(all, 1, n) /\ queue' = SubSeq(all, n + 1, Len(all))
    <3>1. Telling(all)
        BY <2>1, <2>3 DEF Telling
    <3> QED
        BY <1>3, <2>3, <3>1, SendingTells
  <2> QED
      BY <1>4, <2>2, <2>3
<1>6. Owed'
    BY <1>2 DEF Owed
<1> QED
    BY <1>5, <1>6 DEF StaleIsToBeTold

\* The loop in send_event and flush_events sends what waits, once what was sent
\* is taken
LEMMA PumpOwes ==
    ASSUME TypeOK, Owed, StaleIsToBeTold, Pump
    PROVE  Owed' /\ StaleIsToBeTold'
<1>1. UNCHANGED <<seen, grace, missed, pc, knows>>
    BY DEF Pump, sessionVars, toolVars
<1>2. queue \in Seq(Events) /\ busy = <<>>
    BY DEF TypeOK, Pump, SendBatch, CanSend
<1>3. PICK n \in 1..Len(queue) : busy' = SubSeq(queue, 1, n) /\ queue' = SubSeq(queue, n + 1, Len(queue))
    BY DEF Pump, SendBatch
<1>4. Telling(queue) => ToBeTold'
    BY <1>2, <1>3, SendingTells
<1>5. ~Telling(busy)
    BY <1>2 DEF Telling
<1> QED
    BY <1>1, <1>4, <1>5 DEF Owed, StaleIsToBeTold, ToBeTold

\* What is left neither tells the tool nor changes what it knows, but by ending
\* that, and only a forced mode that is held off notes that it missed something
LEMMA StepOwes ==
    ASSUME SessionInv, Owed, StaleIsToBeTold, [Next]_vars
    PROVE  Owed' /\ StaleIsToBeTold'
<1>1. ASSUME UNCHANGED <<seen, queue, busy>>, grace' \in BOOLEAN, grace' => grace,
             missed => missed', knows' \in {knows, "nothing"},
             pc # "drainLoaded" \/ pc' = "drainLoaded"
      PROVE  Owed' /\ StaleIsToBeTold'
  <2>1. Telling(queue)' = Telling(queue) /\ Telling(busy)' = Telling(busy)
      BY <1>1 DEF Telling
  <2> QED
      BY <1>1, <2>1 DEF Owed, StaleIsToBeTold, ToBeTold
<1>2. grace \in BOOLEAN /\ TypeOK
    BY DEF SessionInv, TypeOK
<1>3. CASE ToolMoves
    BY <1>1, <1>2, <1>3 DEF ToolMoves, OpenTool, Silence, Vanish, sessionVars, eventVars
<1>4. CASE Time \/ EndUpdate
    BY <1>1, <1>2, <1>4 DEF Time, KeepaliveLapses, GraceEnds, EndUpdate, toolVars, eventVars
<1>5. CASE RequestReload \/ Rpcs3Detected
    BY <1>1, <1>2, <1>5 DEF RequestReload, Rpcs3Detected, toolVars, eventVars, sessionVars
<1>6. CASE Reattach \/ UNCHANGED vars
    BY <1>1, <1>2, <1>6 DEF Reattach, vars, toolVars, eventVars, sessionVars
<1>7. CASE \/ Serviced \/ NoReload \/ BeginReload \/ Flushed \/ UploadGoesOn \/ TaskSkipped
           \/ ProcessClosed
    BY <1>1, <1>2, <1>7 DEF Serviced, NoReload, BeginReload, Flushed, UploadGoesOn, TaskSkipped,
                           ProcessClosed, LoopStep, eventVars, sessionVars
<1> QED
    BY <1>2, <1>3, <1>4, <1>5, <1>6, <1>7, RequestOwes, TakeOwes, QueueOwes, PumpOwes, ProcessOwes, LoadOwes
       DEF Next, Environment, Loop

(* A reload the tool doesn't know of is never lost on the way to it: not to  *)
(* the other tool, a keepalive that lapsed, a restart of its connection or   *)
(* another reload (tool_missed_reload, restart_keepalive).  That the queue   *)
(* is sent and the tool reads it takes fairness, and is the runs'            *)
THEOREM StaleAlwaysToBeTold == Spec => []StaleIsToBeTold
<1>1. Init => Owed /\ StaleIsToBeTold
    BY DEF Init, Owed, StaleIsToBeTold
<1>2. SessionInv /\ Owed /\ StaleIsToBeTold /\ [Next]_vars => Owed' /\ StaleIsToBeTold'
    BY StepOwes
<1> QED
    BY <1>1, <1>2, SessionAlways, PTL DEF Spec
=============================================================================
