---------------------------- MODULE MCComponents ----------------------------
(***************************************************************************)
(* The small components, for checking with TLC.  Their models share no     *)
(* state, so each is explored by itself: a behaviour is one of FlashSof,   *)
(* BtConfigService, FirmwareUpdate or DeviceWatch, as Init picks, and the  *)
(* others stay at their initial states.  The fairness is each one's own,   *)
(* and guarded so that it asks nothing of those that stay.                 *)
(***************************************************************************)
EXTENDS FlashSof

CONSTANTS
    r, s, None, Reports, QueueMax, MaxWrites, MaxLinks,   \* BtConfigService
    Blocks, Chunks, LastChunks, MaxMetadata,              \* FirmwareUpdate
    Wrap, Settle, Absent, NoVbus, MaxLag, VbusKnown, Moves   \* DeviceWatch

VARIABLES
    part,   \* the one explored
    link, links, clean, request, asked, answer, reading, writes, acked, prepared, btPc, hand,
    value, made,
    updating, quiet, offset, buffer, slot, outcome, commit, at, sent, reports, resumed,
    now, pin, open, changing, changedSince, reloadDue, built, host, vbus, hostSeen, raw,
    rawSince, present, used, reinitTime, working, watchPc, differs, unseen, dropped, left

Bt == INSTANCE BtConfigService WITH pc <- btPc
Fw == INSTANCE FirmwareUpdate
Watch == INSTANCE DeviceWatch WITH pc <- watchPc

ASSUME ComponentsAssumption ==
    Bt!ServiceAssumption /\ Fw!FirmwareAssumption /\ Watch!WatchAssumption

btVars == <<link, links, clean, request, asked, answer, reading, writes, acked, prepared, btPc,
            hand, value, made>>
fwVars == <<updating, quiet, offset, buffer, slot, outcome, commit, at, sent, reports, resumed>>
watchVars == <<now, pin, open, changing, changedSince, reloadDue, built, host, vbus,
               hostSeen, raw, rawSince, present, used, reinitTime, working, watchPc, differs,
               unseen, dropped, left>>

PartsInit ==
    /\ part \in {"sof", "bt", "firmware", "watch"}
    /\ Init /\ Bt!Init /\ Fw!Init /\ Watch!Init

PartsNext ==
    \/ part = "sof" /\ Next /\ UNCHANGED <<part, btVars, fwVars, watchVars>>
    \/ part = "bt" /\ Bt!Next /\ UNCHANGED <<part, vars, fwVars, watchVars>>
    \/ part = "firmware" /\ Fw!Next /\ UNCHANGED <<part, vars, btVars, watchVars>>
    \/ part = "watch" /\ Watch!Next /\ UNCHANGED <<part, vars, btVars, fwVars>>

PartsSpec ==
    /\ PartsInit /\ [][PartsNext]_<<part, vars, btVars, fwVars, watchVars>>
    /\ SF_vars(part = "sof" /\ Core0Steps) /\ WF_vars(part = "sof" /\ EndFrame)
    /\ WF_vars(part = "sof" /\ Core1Steps)
    /\ WF_btVars(part = "bt" /\ Bt!HandleRequests) /\ WF_btVars(part = "bt" /\ Bt!AskAgain)
    /\ WF_fwVars(part = "firmware" /\ Fw!Timeout) /\ WF_fwVars(part = "firmware" /\ Fw!TimePasses)
    /\ WF_fwVars(part = "firmware" /\ Fw!Tick)
    /\ WF_watchVars(part = "watch" /\ Watch!Loop)
    /\ SF_watchVars(part = "watch" /\ \E lag \in 1..MaxLag : Watch!Pass(lag))
    /\ SF_watchVars(part = "watch" /\ Watch!BeginLoad)
    /\ SF_watchVars(part = "watch" /\ Watch!EndUpload)

-----------------------------------------------------------------------------
\* The type invariants of the four
TypesOK == TypeOK /\ Bt!TypeOK /\ Fw!TypeOK /\ Watch!TypeOK

\* The properties, named for the configuration; each is commented in its module
AnswersTrue == Bt!AnswersTrue
RequestsEnd == Bt!RequestsEnd
BlocksWhole == Fw!BlocksWhole
CommitEnds == Fw!CommitEnds
OnlySettledReloads == Watch!OnlySettledReloads
LoadsCatchUp == Watch!LoadsCatchUp
=============================================================================
