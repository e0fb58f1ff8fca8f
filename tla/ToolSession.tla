----------------------------- MODULE ToolSession -----------------------------
(***************************************************************************)
(* The configuration tool's session with the device                        *)
(* (src/src/emulation/usb/hid_config_device.cpp, reload_config and hid_task *)
(* of src/src/main.cpp, the modes of src/src/managers/config_manager.cpp). *)
(* A tool over USB and one over Bluetooth share one read and write         *)
(* position and one small queue of events; the one whose keepalives arrive *)
(* has the device.  Reloads drop and bring back a tool's connection, and   *)
(* a console mode a profile forces waits for the tool to close.            *)
(*                                                                         *)
(* Time is whether each deadline has passed.  pc is where the main loop is; *)
(* it services USB there and, while it sends an event that matters, in the *)
(* middle of a reload as well.                                             *)
(***************************************************************************)
EXTENDS Integers, Sequences

CONSTANTS
    QueueMax,    \* events that wait (EventList.event has room for 4)
    Chunks,      \* chunks in the config a tool reads or uploads
    Moves        \* how often tools, the console and the user act

ASSUME SessionAssumption ==
    /\ QueueMax \in Nat \ {0} /\ Chunks \in Nat \ {0} /\ Moves \in Nat

Tools == {"usb", "bt"}

Idle == [does |-> "nothing", at |-> 0]

VARIABLES
    owner,         \* m_transport
    seen,          \* tool_seen
    fresh,         \* lastKeepAlive is less than a second ago
    grace,         \* tool_return_deadline is set and ahead
    missed,        \* tool_missed_reload
    start,         \* the read and write position
    queue,         \* list: the events that wait
    busy,          \* the events in the endpoint's buffer
    working,       \* ConfigManager::m_working
    updating,      \* ConfigManager::m_updating_firmware
    reinit,        \* m_reinit_time is set
    requested, current,   \* m_requested_mode, m_current_mode
    fromProfile,   \* m_mode_from_profile
    deferred,      \* m_forced_mode_deferred
    detached,      \* reattach_pending
    pc,
    tool,          \* each tool: away, open, or open and silent
    doing,         \* what it reads or writes, and where it thinks it is
    knows,         \* what the one that has the device knows of the config that runs
    held,          \* history: tools the device heard from that stayed since
    crossed,       \* history: of those, the ones that got or wrote a chunk somewhere else
    wiped,         \* history: the tools awaited when the device restarted again
    left

sessionVars == <<owner, seen, fresh, grace, missed, start>>
eventVars == <<queue, busy>>
managerVars == <<working, updating, reinit, requested, current, fromProfile, deferred, detached>>
toolVars == <<tool, doing, knows>>
historyVars == <<held, crossed, wiped, left>>
vars == <<sessionVars, eventVars, managerVars, pc, toolVars, historyVars>>

\* The console mode the host was detected for, and one a profile forces
Modes == {"host", "forced"}
Events == {"reload", "loaded", "device"}
PCs == {"service", "reload", "drainReload", "flush", "load", "drainLoaded", "task"}

\* The type invariant of the session, the queue bounded by its array
TypeOK ==
    /\ owner \in Tools /\ seen \in BOOLEAN /\ fresh \in BOOLEAN /\ grace \in BOOLEAN
    /\ missed \in BOOLEAN /\ start \in 0..Chunks
    /\ queue \in Seq(Events) /\ Len(queue) <= QueueMax
    /\ busy \in Seq(Events) /\ Len(busy) <= QueueMax
    /\ working \in BOOLEAN /\ updating \in BOOLEAN /\ reinit \in BOOLEAN
    /\ requested \in Modes /\ current \in Modes
    /\ fromProfile \in BOOLEAN /\ deferred \in BOOLEAN /\ detached \in BOOLEAN
    /\ pc \in PCs
    /\ tool \in [Tools -> {"away", "open", "silent"}]
    /\ doing \in [Tools -> [does : {"nothing", "read", "write"}, at : 0..Chunks]]
    /\ knows \in {"nothing", "reading", "current", "stale", "forgotten", "unheard", "told"}
    /\ held \subseteq Tools /\ crossed \subseteq Tools
    /\ wiped \subseteq Tools /\ left \in 0..Moves

Init ==
    /\ owner = "usb" /\ seen = FALSE /\ fresh = FALSE /\ grace = FALSE /\ missed = FALSE
    /\ start = 0 /\ queue = <<>> /\ busy = <<>>
    /\ working = FALSE /\ updating = FALSE /\ reinit = FALSE
    /\ requested = "host" /\ current = "host" /\ fromProfile = FALSE /\ deferred = FALSE
    /\ detached = FALSE /\ pc = "service"
    /\ tool = [t \in Tools |-> IF t = "usb" THEN "open" ELSE "away"] /\ left = Moves
    /\ doing = [t \in Tools |-> Idle]
    /\ knows = "nothing"
    /\ held = {} /\ crossed = {} /\ wiped = {}

Move == left > 0 /\ left' = left - 1

-----------------------------------------------------------------------------
(* Which tool has the device *)

\* tool_closed: also said while a config is being written
Closed == ~seen \/ working \/ ~fresh

\* tool_may_be_open
MayBeOpen == ~Closed \/ grace

\* Mutant: an upload or an update under way doesn't count
InUseWhileFresh(t) == t # owner /\ MayBeOpen

\* in_use_elsewhere
InUseElsewhere(t) == t # owner /\ (working \/ updating \/ MayBeOpen)

\* switch_transport: what waits is for the tool before, unless Bluetooth is gone,
\* and what was sent to it is no concern of this one's endpoint
SwitchTransport(t) ==
    /\ owner' = t
    /\ busy' = IF t = owner THEN busy ELSE <<>>
    /\ queue' = IF t = owner \/ (owner = "bt" /\ tool["bt"] = "away") THEN queue ELSE <<>>

Connected(t) == tool[t] # "away" /\ (t = "usb" => ~detached)

(* A request of a tool's is handled where the loop services its transport:  *)
(* USB wherever tud_task runs, Bluetooth in bt_config_service_handle_requests *)
Served(t) ==
    /\ tool[t] = "open" /\ Connected(t)
    /\ pc = "service" \/ (t = "usb" /\ pc \in {"drainReload", "flush", "drainLoaded"})

\* set_report_from and get_report_from, for a tool that isn't turned away
Accepted(t) == Served(t) /\ ~InUseElsewhere(t) /\ SwitchTransport(t)

\* What it knows is the next tool's to find out
Known(t) == IF t = owner THEN knows ELSE "nothing"

-----------------------------------------------------------------------------
(* Requests *)

Keepalive(t) ==
    /\ Accepted(t)
    /\ ~working /\ ~(seen /\ fresh /\ t \in held)
    /\ seen' = TRUE /\ fresh' = TRUE
    /\ IF doing[t] = Idle
       THEN held' = held \union {t} /\ wiped' = wiped \ {t}
       ELSE UNCHANGED <<held, wiped>>
    /\ knows' = Known(t)
    /\ UNCHANGED <<grace, missed, start, managerVars, pc, tool, doing, crossed, left>>

\* ReportIdConfigInfo read: the config is read from its start
BeginRead(t) ==
    /\ Accepted(t)
    /\ doing[t] = Idle /\ Known(t) # "current"
    /\ start' = 0
    /\ doing' = [doing EXCEPT ![t] = [does |-> "read", at |-> 0]]
    /\ knows' = IF t \in held \ wiped THEN "reading" ELSE "nothing"
    /\ UNCHANGED <<seen, fresh, grace, missed, managerVars, pc, tool, historyVars>>

\* A chunk at the device's position for a tool that thinks it is at its own
Chunk(t, what) ==
    /\ doing[t].does = what /\ doing[t].at < Chunks
    /\ start' = IF start < Chunks THEN start + 1 ELSE start
    /\ doing' = [doing EXCEPT ![t] =
                    IF @.at + 1 = Chunks THEN Idle ELSE [does |-> what, at |-> @.at + 1]]
    /\ crossed' = IF start = doing[t].at \/ t \notin held \ wiped THEN crossed ELSE crossed \union {t}

ReadChunk(t) ==
    /\ Accepted(t) /\ Chunk(t, "read")
    /\ knows' = IF Known(t) = "reading" /\ doing[t].at + 1 = Chunks THEN "current" ELSE Known(t)
    /\ UNCHANGED <<seen, fresh, grace, missed, managerVars, pc, tool, held, wiped, left>>

\* ReportIdConfigInfo written: an upload begins, and the config counts as working
BeginUpload(t) ==
    /\ Accepted(t) /\ ~updating /\ Move
    /\ doing[t] = Idle
    /\ start' = 0
    /\ seen' = TRUE /\ fresh' = TRUE /\ working' = TRUE
    /\ knows' = Known(t)
    /\ held' = held \union {t} /\ wiped' = wiped \ {t}
    /\ doing' = [doing EXCEPT ![t] = [does |-> "write", at |-> 0]]
    /\ UNCHANGED <<grace, missed, updating, reinit, requested, current, fromProfile,
                   deferred, detached, pc, tool, crossed>>

\* ReportIdConfig written: the last chunk ends the upload and asks for a reload
UploadChunk(t) ==
    /\ Accepted(t) /\ ~updating /\ working /\ Chunk(t, "write")
    /\ seen' = TRUE /\ fresh' = TRUE
    /\ working' = (doing[t].at + 1 < Chunks)
    /\ reinit' = (reinit \/ doing[t].at + 1 = Chunks)
    /\ knows' = Known(t)
    /\ UNCHANGED <<grace, missed, updating, requested, current, fromProfile, deferred,
                   detached, pc, tool, held, wiped, left>>

\* A chunk is answered by none or refused: the tool starts over
GiveUp(t) ==
    /\ Served(t) /\ doing[t] # Idle
    /\ InUseElsewhere(t) \/ (doing[t].does = "write" /\ (updating \/ ~working))
    /\ doing' = [doing EXCEPT ![t] = Idle]
    /\ UNCHANGED <<sessionVars, eventVars, managerVars, pc, tool, knows, historyVars>>

\* ReportIdUpdateFirmware, and the chunks that keep it going
BeginUpdate(t) ==
    /\ Accepted(t) /\ Move
    /\ ~working /\ pc # "load"
    /\ updating' = TRUE /\ seen' = TRUE
    /\ knows' = Known(t)
    /\ UNCHANGED <<fresh, grace, missed, start, working, reinit, requested, current,
                   fromProfile, deferred, detached, pc, tool, doing, held, crossed, wiped>>

\* finish_firmware_update: the update failed, or stalled
EndUpdate ==
    /\ pc = "service" /\ updating
    /\ updating' = FALSE /\ fresh' = TRUE
    /\ UNCHANGED <<owner, seen, grace, missed, start, eventVars, working, reinit, requested,
                   current, fromProfile, deferred, detached, pc, toolVars, historyVars>>

\* Command.disconnect: the tool says that it goes
Disconnect(t) ==
    /\ Accepted(t) /\ ~updating
    /\ seen' = FALSE /\ fresh' = FALSE /\ grace' = FALSE /\ missed' = FALSE
    /\ tool' = [tool EXCEPT ![t] = "away"]
    /\ held' = held \ {t}
    /\ doing' = [doing EXCEPT ![t] = Idle]
    /\ knows' = "nothing"
    /\ UNCHANGED <<start, managerVars, pc, crossed, wiped, left>>

\* Command.reload, a gate or the presence of a host
RequestReload ==
    /\ pc \in {"service", "drainReload", "flush", "drainLoaded"} /\ ~updating /\ Move
    /\ reinit' = TRUE
    /\ UNCHANGED <<sessionVars, eventVars, working, updating, requested, current, fromProfile,
                   deferred, detached, pc, toolVars, held, crossed, wiped>>

\* ConfigManager::rpcs3_detected, from a control request of the console's
Rpcs3Detected ==
    /\ pc \in {"service", "drainReload", "flush", "drainLoaded"} /\ ~detached /\ Move
    /\ IF MayBeOpen
       THEN /\ deferred' = TRUE
            /\ missed' = (missed \/ (~deferred /\ seen))
            /\ UNCHANGED <<requested, fromProfile>>
       ELSE /\ requested' = "forced" /\ fromProfile' = TRUE
            /\ UNCHANGED <<deferred, missed>>
    /\ UNCHANGED <<owner, seen, fresh, grace, start, eventVars, working, updating, reinit,
                   current, detached, pc, toolVars, held, crossed, wiped>>

-----------------------------------------------------------------------------
(* Tools come and go, and time passes *)

OpenTool(t) ==
    /\ Move /\ tool[t] = "away"
    /\ tool' = [tool EXCEPT ![t] = "open"]
    /\ knows' = IF t = owner THEN "nothing" ELSE knows
    /\ UNCHANGED <<sessionVars, eventVars, managerVars, pc, doing, held, crossed, wiped>>

\* Its computer sleeps, or its tab is in the background; and goes on
Silence(t) ==
    /\ \/ Move /\ tool[t] = "open" /\ tool' = [tool EXCEPT ![t] = "silent"]
       \/ tool[t] = "silent" /\ tool' = [tool EXCEPT ![t] = "open"] /\ UNCHANGED left
    /\ held' = held \ {t}
    /\ UNCHANGED <<sessionVars, eventVars, managerVars, pc, doing, knows, crossed, wiped>>

Vanish(t) ==
    /\ tool[t] # "away"
    /\ tool' = [tool EXCEPT ![t] = "away"]
    /\ held' = held \ {t}
    /\ doing' = [doing EXCEPT ![t] = Idle]
    /\ UNCHANGED <<sessionVars, eventVars, managerVars, pc, knows, crossed, wiped, left>>

\* A second without keepalives: a tool that is open sends them more often
KeepaliveLapses ==
    /\ fresh /\ tool[owner] # "open"
    /\ fresh' = FALSE
    /\ UNCHANGED <<owner, seen, grace, missed, start, eventVars, managerVars, pc, toolVars,
                   historyVars>>

\* TOOL_RETURN_GRACE_MS: a tool that is open is back by then
GraceEnds ==
    /\ grace /\ (tool[owner] # "open" \/ fresh)
    /\ grace' = FALSE
    /\ UNCHANGED <<owner, seen, fresh, missed, start, eventVars, managerVars, pc, toolVars,
                   historyVars>>

\* The host takes the events in the endpoint's buffer, for a tool that may be in
\* the background: that is proof that it is alive.  One that was forgotten may
\* hear of an earlier reload, and is forgotten still
TakeEvents ==
    /\ busy # <<>> /\ tool[owner] # "away"
    /\ busy' = <<>>
    /\ fresh' = (fresh \/ (owner = "usb" /\ seen))
    /\ IF knows # "nothing" /\ \E i \in DOMAIN busy : busy[i] = "loaded"
       THEN /\ knows' = IF knows = "forgotten" THEN knows ELSE "told"
            /\ doing' = [doing EXCEPT ![owner] = IF @.does = "read" THEN Idle ELSE @]
       ELSE UNCHANGED <<knows, doing>>
    /\ UNCHANGED <<owner, seen, grace, missed, start, queue, managerVars, pc, tool, historyVars>>

-----------------------------------------------------------------------------
(* Events *)

Full == Len(queue) >= QueueMax

\* A loaded event that finds no room is never heard
AfterLoaded == IF Full /\ knows = "stale" THEN "unheard" ELSE knows

\* Mutant: the array's capacity isn't looked at
QueuedAnyway(event) == Append(queue, event)

\* An event joins the queue, or is dropped
Queued(event) == IF Full THEN queue ELSE Append(queue, event)

\* send_event, from the devices on the loop or from BTstack's interrupt; one about
\* an input that has an event waiting only replaces that
DeviceEvent ==
    /\ ~Closed /\ ~Full
    /\ queue' = Queued("device")
    /\ UNCHANGED <<sessionVars, busy, managerVars, pc, toolVars, historyVars>>

CanSend == queue # <<>> /\ busy = <<>> /\ Connected(owner)

\* process_events: as many from the front as fit the report
SendBatch(n) ==
    /\ CanSend /\ n \in 1..Len(queue)
    /\ busy' = SubSeq(queue, 1, n)
    /\ queue' = SubSeq(queue, n + 1, Len(queue))

-----------------------------------------------------------------------------
(* The main loop *)

LoopStep(from, to) == pc = from /\ pc' = to /\ UNCHANGED <<tool, left>>

\* reattach_device_stack
Reattach ==
    /\ pc = "service" /\ detached
    /\ detached' = FALSE
    /\ UNCHANGED <<sessionVars, eventVars, working, updating, reinit, requested, current,
                   fromProfile, deferred, pc, toolVars, historyVars>>

\* The rest of the loop is passed over while firmware is updated
Serviced ==
    /\ LoopStep("service", "reload") /\ ~updating
    /\ UNCHANGED <<sessionVars, eventVars, managerVars, doing, knows, held, crossed, wiped>>

ReloadDue == ~working /\ (reinit \/ requested # current)

NoReload ==
    /\ LoopStep("reload", "task") /\ (working \/ requested = current)
    /\ UNCHANGED <<sessionVars, eventVars, managerVars, doing, knows, held, crossed, wiped>>

BeginReload ==
    /\ LoopStep("reload", IF Closed THEN "load" ELSE "drainReload") /\ ReloadDue
    /\ UNCHANGED <<sessionVars, eventVars, managerVars, doing, knows, held, crossed, wiped>>

Draining == pc \in {"drainReload", "flush", "drainLoaded"}

\* The loop in send_event and flush_events
Pump ==
    /\ Draining /\ ~Closed
    /\ \E n \in 1..QueueMax : SendBatch(n)
    /\ UNCHANGED <<sessionVars, managerVars, pc, toolVars, historyVars>>

\* The event that matters is queued after the others were sent, or if the tool closed
Drained(from, event, to) ==
    /\ LoopStep(from, to)
    /\ queue = <<>> \/ Closed
    /\ queue' = Queued(event)
    /\ knows' = IF event = "loaded" THEN AfterLoaded ELSE knows
    /\ UNCHANGED <<sessionVars, busy, managerVars, doing, held, crossed, wiped>>

ReloadSent == Drained("drainReload", "reload", "flush")
LoadedSent == Drained("drainLoaded", "loaded", "service")

\* All was read, the tool went away, or it took too long: the update that
\* may have begun meanwhile goes first
Flushed ==
    /\ LoopStep("flush", IF updating THEN "task" ELSE "load")
    /\ UNCHANGED <<sessionVars, eventVars, managerVars, doing, knows, held, crossed, wiped>>

\* Mutant: what a profile forces isn't deferred
ForceModeAtOnce(forced) ==
    /\ requested' = IF forced THEN "forced"
                    ELSE IF fromProfile /\ ~MayBeOpen THEN "host" ELSE requested
    /\ fromProfile' = (forced \/ (fromProfile /\ MayBeOpen))
    /\ deferred' = FALSE

(* The mode a load ends up with: back to the host's unless the tool is open, *)
(* and then what the profile that matches forces, now or once it has closed *)
ForceMode(forced) ==
    /\ requested' = CASE forced /\ ~MayBeOpen -> "forced"
                      [] ~forced /\ fromProfile /\ ~MayBeOpen -> "host"
                      [] OTHER -> requested
    /\ fromProfile' = ((forced /\ ~MayBeOpen) \/ (fromProfile /\ MayBeOpen))
    /\ deferred' = (forced /\ MayBeOpen)

(* What the tool has of a config that is loaded again.  When its connection *)
(* is dropped it starts over, or its system reopens the device without it   *)
(* noticing; a tool that was quiet or awaited then is forgotten.            *)
Outdated(restart) ==
    /\ knows' \in IF knows \in {"nothing", "forgotten"} THEN {knows}
                  ELSE IF restart /\ ~detached /\ Closed THEN {"nothing", "forgotten"}
                  ELSE IF restart /\ owner = "usb" THEN {"nothing", "stale"}
                  ELSE {"stale"}
    /\ doing' = IF restart THEN [doing EXCEPT !["usb"] = Idle] ELSE doing

\* Mutant: a tool whose keepalive has lapsed isn't told later
TellToolNow ==
    /\ pc' = IF Closed THEN "service" ELSE "drainLoaded"
    /\ UNCHANGED missed

\* reload_config goes on: the tool is told, now or when it is back
TellTool ==
    /\ pc' = IF Closed THEN "service" ELSE "drainLoaded"
    /\ missed' = (missed \/ (Closed /\ seen))

\* reinitialize_device_stack: the tool is awaited, unless it was before
RestartStack ==
    /\ IF detached
       THEN TellTool /\ UNCHANGED <<seen, fresh, grace, wiped>>
       ELSE /\ seen' = FALSE /\ fresh' = FALSE
            /\ grace' = ~Closed /\ missed' = ~Closed
            /\ wiped' = IF Closed /\ MayBeOpen THEN wiped \union {owner} ELSE wiped
            /\ pc' = "service"
    /\ detached' = TRUE
    /\ busy' = IF owner = "usb" THEN <<>> ELSE busy

\* begin_reinit, load and finish_reinit
Load(forced, changed) ==
    /\ pc = "load" /\ ~working
    /\ reinit' = FALSE
    /\ ForceMode(forced)
    /\ current' = requested'
    /\ Outdated(changed \/ requested' # current)
    /\ IF changed \/ requested' # current
       THEN RestartStack
       ELSE TellTool /\ UNCHANGED <<seen, fresh, grace, detached, busy, wiped>>
    /\ UNCHANGED <<owner, start, queue, working, updating, tool, held, crossed, left>>

\* An upload began while the tool was told of the reload: the cache has no
\* config to load
LoadUnreadable ==
    /\ pc = "load" /\ working
    /\ reinit' = FALSE
    /\ TellTool
    /\ UNCHANGED <<owner, seen, fresh, grace, start, eventVars, working, updating, requested,
                   current, fromProfile, deferred, detached, toolVars, historyVars>>

\* Mutant: an upload isn't abandoned
UploadWaits ==
    /\ LoopStep("task", "service") /\ working /\ ~updating
    /\ UNCHANGED <<sessionVars, eventVars, managerVars, doing, knows, held, crossed, wiped>>

\* hid_task while a config is written: it goes on, or the tool went quiet
UploadGoesOn ==
    /\ LoopStep("task", "service") /\ working /\ ~updating
    /\ working' \in IF tool[owner] = "open" /\ doing[owner].does = "write" THEN {TRUE} ELSE BOOLEAN
    /\ UNCHANGED <<sessionVars, eventVars, updating, reinit, requested, current, fromProfile,
                   deferred, detached, doing, knows, held, crossed, wiped>>

TaskSkipped ==
    /\ LoopStep("task", "service") /\ updating
    /\ UNCHANGED <<sessionVars, eventVars, managerVars, doing, knows, held, crossed, wiped>>

\* Mutant: a mode is only applied once the config is reloaded for another reason
ProcessClosedKeepingMode ==
    /\ LoopStep("task", "service") /\ ~working /\ ~updating /\ Closed
    /\ UNCHANGED <<sessionVars, eventVars, managerVars, doing, knows, held, crossed, wiped>>

\* process, with no tool: a mode held off for it is applied by a reload
ProcessClosed ==
    /\ LoopStep("task", "service") /\ ~working /\ ~updating /\ Closed
    /\ deferred' = (deferred /\ MayBeOpen)
    /\ reinit' = (reinit \/ (deferred /\ ~MayBeOpen))
    /\ UNCHANGED <<sessionVars, eventVars, working, updating, requested, current, fromProfile,
                   detached, doing, knows, held, crossed, wiped>>

\* process, with the tool there: it is told of the reload it missed, and the
\* queue is sent on
ProcessOpen ==
    /\ LoopStep("task", "service") /\ ~updating /\ ~Closed
    /\ missed' = FALSE
    /\ knows' = IF missed THEN AfterLoaded ELSE knows
    /\ LET all == IF missed THEN Queued("loaded") ELSE queue
       IN  IF all # <<>> /\ busy = <<>> /\ Connected(owner)
           THEN \E n \in 1..Len(all) : /\ busy' = SubSeq(all, 1, n)
                                       /\ queue' = SubSeq(all, n + 1, Len(all))
           ELSE queue' = all /\ UNCHANGED busy
    /\ UNCHANGED <<owner, seen, fresh, grace, start, managerVars, doing, held, crossed, wiped>>

-----------------------------------------------------------------------------
Request == \E t \in Tools : \/ Keepalive(t) \/ BeginRead(t) \/ ReadChunk(t) \/ BeginUpload(t)
                            \/ UploadChunk(t) \/ GiveUp(t) \/ BeginUpdate(t) \/ Disconnect(t)
ToolMoves == \E t \in Tools : OpenTool(t) \/ Silence(t) \/ Vanish(t)
Time == KeepaliveLapses \/ GraceEnds
Environment == RequestReload \/ Rpcs3Detected \/ TakeEvents \/ DeviceEvent \/ EndUpdate
Loading == (\E forced, changed \in BOOLEAN : Load(forced, changed)) \/ LoadUnreadable
Loop == \/ Serviced \/ NoReload \/ BeginReload \/ ReloadSent \/ LoadedSent \/ Flushed \/ Loading
        \/ UploadGoesOn \/ TaskSkipped \/ ProcessClosed \/ ProcessOpen

Next == Request \/ ToolMoves \/ Time \/ Environment \/ Reattach \/ Pump \/ Loop

Spec == Init /\ [][Next]_vars

\* What the loop does once a deadline has passed or a queue is found empty
Overdue == \/ Reattach \/ BeginReload \/ (UploadGoesOn /\ ~working')
           \/ ReloadSent \/ LoadedSent

(* The loop goes on, tools that are open send keepalives and chunks and     *)
(* take their events, an update comes to an end, and deadlines pass.  What  *)
(* is not enabled all the time until it happens is strongly fair: what the  *)
(* loop gets to once a turn, with the queue that is refilled from an        *)
(* interrupt while it is sent, and what a tool does where it is served.     *)
Fairness ==
    /\ WF_vars(Loop) /\ WF_vars(Pump) /\ SF_vars(Overdue)
    /\ WF_vars(KeepaliveLapses) /\ WF_vars(GraceEnds) /\ WF_vars(EndUpdate)
    /\ WF_vars(TakeEvents /\ tool[owner] = "open")
    /\ SF_vars(\E t \in Tools : Keepalive(t) \/ UploadChunk(t) \/ GiveUp(t))

LiveSpec == Spec /\ Fairness

-----------------------------------------------------------------------------
(* A tool that has the device and never goes quiet reads and writes the     *)
(* config from where it thinks it is: neither the other tool, nor a reload  *)
(* under it, nor what it uploads itself moves the shared position           *)
(* (in_use_elsewhere, "one would scramble the other's reads").              *)
InOrder == crossed = {}

(* No other console mode is asked for under a tool that is open, or that    *)
(* comes back after the device restarted its connection: "Switching modes   *)
(* would drop the tool's connection, so with it open PS3 mode is deferred   *)
(* like a forced mode" (rpcs3_detected, tool_may_be_open) - but for a       *)
(* config that is written, when the tool counts as closed, and for a tool   *)
(* that was still awaited when the device restarted once more, which takes  *)
(* its grace (restart_keepalive).                                           *)
ModeWaitsUnlessCaught ==
    [][requested' # requested /\ ~working => held \subseteq wiped]_vars

(* A tool that is open hears of every reload, whenever its keepalive had    *)
(* lapsed and however its events were held up, so that it never goes on     *)
(* showing what was active before (reload_missed, restart_keepalive) -      *)
(* unless the event that tells it finds the queue full, or it was awaited   *)
(* when the device restarted once more, and so forgotten.                   *)
ToolHearsUnlessFull ==
    (knows = "stale" /\ owner \in held) ~> (knows # "stale" \/ owner \notin held)

(* What is asked to be reloaded is reloaded, through uploads, updates and   *)
(* whatever is handled while the tool is told (should_reinit, hid_task).    *)
ReloadHappens == reinit ~> ~reinit

(* A forced mode held off for a tool is applied, or found no longer forced, *)
(* once no tool is there: the two answers tool_closed and tool_may_be_open  *)
(* give, and an upload that ends meanwhile, don't leave it waiting.         *)
DeferredEnds == deferred ~> (~deferred \/ \E t \in Tools : tool[t] # "away")
=============================================================================
