--------------------------- MODULE BtConfigService ---------------------------
(***************************************************************************)
(* The configuration service over Bluetooth                                *)
(* (src/src/emulation/bt/bt_config_service.cpp).  BTstack calls it from an *)
(* interrupt; the requests are queued for the main loop, which hands them  *)
(* to the configuration device, and their responses are held back until    *)
(* then: BTstack asks again once it is told that one is ready.  Writes     *)
(* without a response are streamed, and lost when the queue is full.       *)
(*                                                                         *)
(* A write is a number, later ones larger, and what a read returns is the  *)
(* last write that was handled.  A step of the main loop is what it does   *)
(* with the stack locked, or between two locks.                            *)
(***************************************************************************)
EXTENDS Integers, Sequences

CONSTANTS
    Reports,     \* the reports a tool reads and writes
    None,        \* no report
    QueueMax,    \* MAX_PENDING_WRITES
    MaxWrites,   \* writes a run makes
    MaxLinks     \* connections a run makes

ServiceAssumption ==
    /\ None \notin Reports
    /\ QueueMax \in Nat \ {0} /\ MaxWrites \in Nat /\ MaxLinks \in Nat

VARIABLES
    link,        \* whether a client is connected
    links,       \* connections so far
    clean,       \* history: nothing of an earlier connection was in hand when this one came
    request,     \* the client's request BTstack has: one at a time
    asked,       \* its response: none held back, "pending", or "ready" to be asked for
    answer,      \* history: the last request answered, and with what
    reading,     \* s_read_state, s_read_report and s_read_buf
    writes,      \* s_writes, from s_write_head
    acked,       \* s_write_acked, s_write_acked_handle and s_write_acked_error
    prepared,    \* s_prepared_report and s_prepared_buf
    pc,          \* where bt_config_service_handle_requests is
    hand,        \* the write, or the report to read, it has in hand
    value,       \* the last write that was handled
    made         \* the writes so far

clientVars == <<link, links, clean, request, asked, answer>>
serviceVars == <<reading, writes, acked, prepared>>
loopVars == <<pc, hand, value>>
vars == <<clientVars, serviceVars, loopVars, made>>

NoRequest == [does |-> "nothing", report |-> None, id |-> 0]
NoWrite == [report |-> None, id |-> 0, needsAck |-> FALSE]
NoAck == [report |-> None, result |-> 0]
NotReading == [state |-> "idle", report |-> None, data |-> 0]
NoAnswer == [request |-> NoRequest, result |-> 0]
Refused == MaxWrites + 1

Requests == [does : {"nothing", "read", "write"}, report : Reports \union {None}, id : 0..MaxWrites]
PendingWrites == [report : Reports \union {None}, id : 0..MaxWrites, needsAck : BOOLEAN]

\* The type invariant of the service, the queue bounded by its array
TypeOK ==
    /\ link \in BOOLEAN /\ links \in 0..MaxLinks /\ clean \in BOOLEAN
    /\ request \in Requests /\ asked \in {"none", "pending", "ready"}
    /\ answer \in [request : Requests, result : 0..Refused]
    /\ reading \in [state : {"idle", "queued", "ready", "serving"},
                    report : Reports \union {None}, data : 0..MaxWrites]
    /\ writes \in Seq(PendingWrites) /\ Len(writes) <= QueueMax
    /\ acked \in [report : Reports \union {None}, result : 0..MaxWrites]
    /\ prepared \subseteq Reports
    /\ pc \in {"writes", "handle", "acknowledge", "reads", "fetch", "publish"}
    /\ hand \in PendingWrites
    /\ value \in 0..MaxWrites /\ made \in 0..MaxWrites

Init ==
    /\ link = FALSE /\ links = 0 /\ clean = TRUE
    /\ request = NoRequest /\ asked = "none" /\ answer = NoAnswer
    /\ reading = NotReading /\ writes = <<>> /\ acked = NoAck /\ prepared = {}
    /\ pc = "writes" /\ hand = NoWrite /\ value = 0 /\ made = 0

-----------------------------------------------------------------------------
(* The connection *)

Connect ==
    /\ ~link /\ links < MaxLinks
    /\ link' = TRUE /\ links' = links + 1
    /\ clean' = (pc \notin {"handle", "acknowledge"})
    /\ answer' = NoAnswer
    /\ UNCHANGED <<request, asked, serviceVars, loopVars, made>>

\* Mutant: an acknowledged write outlives its connection
DisconnectedKeepingAck ==
    /\ reading' = NotReading /\ writes' = <<>> /\ prepared' = {}
    /\ UNCHANGED acked

\* bt_config_service_disconnected
Disconnected ==
    /\ reading' = NotReading /\ writes' = <<>> /\ prepared' = {}
    /\ acked' = NoAck

Disconnect ==
    /\ link /\ link' = FALSE
    /\ request' = NoRequest /\ asked' = "none"
    /\ Disconnected
    /\ UNCHANGED <<links, clean, answer, loopVars, made>>

-----------------------------------------------------------------------------
(* Writes *)

\* Mutant: one write too late
FullTooLate == Len(writes) > QueueMax

Full == Len(writes) >= QueueMax

\* queue_write, its result left to who calls it
QueueWrite(report, id, needsAck) ==
    writes' = IF Full THEN writes
              ELSE Append(writes, [report |-> report, id |-> id, needsAck |-> needsAck])

Answer(r, result) ==
    /\ answer' = [request |-> r, result |-> result]
    /\ request' = NoRequest /\ asked' = "none"

HoldBack(r) == request' = r /\ asked' = "pending" /\ UNCHANGED answer

NewWrite == link /\ made < MaxWrites /\ made' = made + 1

(* att_write_callback for a write with a response: asked again, it has the  *)
(* result; otherwise it is queued, and the response held back              *)
WriteRequest(r) ==
    IF acked.report = r.report
    THEN /\ acked' = NoAck
         /\ Answer(r, acked.result)
         /\ UNCHANGED writes
    ELSE /\ UNCHANGED acked
         /\ IF Full THEN Answer(r, Refused) /\ UNCHANGED writes
            ELSE /\ QueueWrite(r.report, r.id, TRUE)
                 /\ HoldBack(r)

Write(report) ==
    /\ NewWrite /\ request = NoRequest
    /\ WriteRequest([does |-> "write", report |-> report, id |-> made'])
    /\ UNCHANGED <<link, links, clean, reading, prepared, loopVars>>

\* A write command: there is no response to hold back, and what doesn't fit is lost
Stream(report) ==
    /\ NewWrite
    /\ QueueWrite(report, made', FALSE)
    /\ UNCHANGED <<clientVars, reading, acked, prepared, loopVars>>

\* A long write is collected, and can't be of two reports
Prepare(report) ==
    /\ link /\ request = NoRequest
    /\ prepared' = prepared \union {report}
    /\ UNCHANGED <<clientVars, reading, writes, acked, loopVars, made>>

\* It is queued when it is executed: BTstack can't hold back that response.  One of
\* two reports is found invalid, and cancelled
Execute ==
    /\ request = NoRequest /\ prepared # {} /\ NewWrite
    /\ \E r \in prepared : prepared = {r} /\ QueueWrite(r, made', FALSE)
    /\ prepared' = {}
    /\ UNCHANGED <<clientVars, reading, acked, loopVars>>

Cancel ==
    /\ link /\ request = NoRequest /\ prepared # {}
    /\ prepared' = {}
    /\ UNCHANGED <<clientVars, reading, writes, acked, loopVars, made>>

-----------------------------------------------------------------------------
(* Reads *)

\* att_read_callback: a new read waits for the main loop, one that is ready is sent
ReadRequest(r) ==
    IF reading.report = r.report /\ reading.state = "ready"
    THEN reading' = [reading EXCEPT !.state = "serving"] /\ Answer(r, reading.data)
    ELSE /\ reading' = [reading EXCEPT !.state = "queued", !.report = r.report]
         /\ HoldBack(r)

\* The read notes the last write it has to see: those before it with a response
Read(report) ==
    /\ link /\ request = NoRequest
    /\ ReadRequest([does |-> "read", report |-> report,
                    id |-> IF answer.request.does = "write" /\ answer.result # Refused
                           THEN answer.request.id ELSE 0])
    /\ UNCHANGED <<link, links, clean, writes, acked, prepared, loopVars, made>>

\* BTstack asks again once a response is ready
AskAgain ==
    /\ asked = "ready"
    /\ \/ request.does = "write" /\ WriteRequest(request) /\ UNCHANGED reading
       \/ request.does = "read" /\ ReadRequest(request) /\ UNCHANGED <<writes, acked>>
    /\ UNCHANGED <<link, links, clean, prepared, loopVars, made>>

-----------------------------------------------------------------------------
(* bt_config_service_handle_requests, in the main loop *)

\* att_server_response_ready does nothing unless a response is held back
Ready == asked' = IF asked = "pending" THEN "ready" ELSE asked

TakeWrite ==
    /\ pc = "writes" /\ writes # <<>>
    /\ hand' = Head(writes) /\ writes' = Tail(writes) /\ pc' = "handle"
    /\ UNCHANGED <<clientVars, reading, acked, prepared, value, made>>

HandleWrite ==
    /\ pc = "handle"
    /\ value' = hand.id
    /\ pc' = IF hand.needsAck THEN "acknowledge" ELSE "writes"
    /\ UNCHANGED <<clientVars, serviceVars, hand, made>>

\* Mutant: BTstack isn't told
AcknowledgeSilently ==
    /\ pc = "acknowledge" /\ pc' = "writes"
    /\ acked' = [report |-> hand.report, result |-> hand.id]
    /\ UNCHANGED <<clientVars, reading, writes, prepared, hand, value, made>>

Acknowledge ==
    /\ pc = "acknowledge" /\ pc' = "writes"
    /\ acked' = IF asked = "pending" THEN [report |-> hand.report, result |-> hand.id] ELSE NoAck
    /\ Ready
    /\ UNCHANGED <<link, links, clean, request, answer, reading, writes, prepared, hand, value,
                   made>>

\* Writes first, so a read sees the result of the writes before it
NoMoreWrites ==
    /\ pc = "writes" /\ writes = <<>>
    /\ pc' = "reads"
    /\ UNCHANGED <<clientVars, serviceVars, hand, value, made>>

PickRead ==
    /\ pc = "reads"
    /\ IF reading.state = "queued"
       THEN hand' = [NoWrite EXCEPT !.report = reading.report] /\ pc' = "fetch"
       ELSE UNCHANGED hand /\ pc' = "writes"
    /\ UNCHANGED <<clientVars, serviceVars, value, made>>

Fetch ==
    /\ pc = "fetch" /\ pc' = "publish"
    /\ hand' = [hand EXCEPT !.id = value]
    /\ UNCHANGED <<clientVars, serviceVars, value, made>>

\* The request may have been dropped by a disconnect while it was fetched
Publish ==
    /\ pc = "publish" /\ pc' = "writes"
    /\ IF reading.state = "queued" /\ reading.report = hand.report
       THEN /\ reading' = [reading EXCEPT !.data = hand.id,
                                          !.state = IF asked = "pending" THEN "ready" ELSE "idle"]
            /\ Ready
       ELSE /\ reading' = [reading EXCEPT !.data = hand.id]
            /\ UNCHANGED asked
    /\ UNCHANGED <<link, links, clean, request, answer, writes, acked, prepared, hand, value,
                   made>>

-----------------------------------------------------------------------------
Client == \/ Connect \/ Disconnect \/ Execute \/ Cancel
          \/ \E r \in Reports : Write(r) \/ Stream(r) \/ Prepare(r) \/ Read(r)
HandleRequests == \/ TakeWrite \/ HandleWrite \/ Acknowledge \/ NoMoreWrites
                  \/ PickRead \/ Fetch \/ Publish

Next == Client \/ AskAgain \/ HandleRequests

Spec == Init /\ [][Next]_vars

\* The main loop comes round, and BTstack asks again
Fairness == WF_vars(HandleRequests) /\ WF_vars(AskAgain)

LiveSpec == Spec /\ Fairness

-----------------------------------------------------------------------------
(* However disconnections, streamed writes and reads come between a request, *)
(* its handling and BTstack's asking again, the response to a write is that  *)
(* write's own (s_write_acked), one to a read sees every write the client   *)
(* had a response to before ("a read always sees the result of the writes   *)
(* before it"), and no write is handled twice nor after a later one, though *)
(* BTstack asks about each twice - unless a new client came in the middle   *)
(* of handling a write of the last one's.                                   *)
AnswersTrue ==
    clean =>
        /\ pc = "handle" => hand.id > value
        /\ CASE answer.request.does = "write" -> answer.result \in {answer.request.id, Refused}
             [] answer.request.does = "read" -> answer.result >= answer.request.id
             [] OTHER -> TRUE

(* A client isn't left waiting: its request is answered or its connection   *)
(* ends, whatever came before.                                              *)
RequestsEnd == (request # NoRequest) ~> (request = NoRequest)
=============================================================================
