---------------------------- MODULE GuildLogEvents ----------------------------
(***************************************************************************)
(* The watermark half of internal/events: Emitter.OnGuildLog.              *)
(*                                                                         *)
(* The log of a guild is a set of entries with increasing ids, of which    *)
(* the API shows a part: the newest entry and, per type of entry, some     *)
(* older ones.  The handler emits every shown entry above the persisted    *)
(* watermark, in the order of the answer, and stores the largest id once   *)
(* at the end.  One goroutine takes the guilds in turn; their keys are     *)
(* independent, so each guild has a call of its own here.                  *)
(***************************************************************************)
EXTENDS EventPipeline

CONSTANTS
    Guilds,   \* guilds whose log the key may read
    MaxLogId, \* bound: the largest log id
    None      \* no watermark to store

ASSUME GuildLogAssumption == MaxLogId \in Nat /\ None \notin Nat

LogIds == 1..MaxLogId

VARIABLES
    top,        \* top[g]: the newest id of the log of g, 0 when it is empty
    shown,      \* shown[g]: the ids the API returns now
    watermark,  \* "guildlog:<g>" in the state file; 0 where absent
    todo,       \* todo[g]: entries of the answer still to emit
    maxID,      \* maxID[g]: the watermark a call under way will store
    emitted     \* history: emitted[g][i] counts the records for entry i

callVars == <<todo, maxID>>
logVars  == <<top, shown, watermark, callVars, emitted>>
vars     == <<pipelineVars, logVars>>

Idle(g) == maxID[g] = None
AllIdle == \A g \in Guilds : Idle(g)

Init ==
    /\ PipelineInit
    /\ top = [g \in Guilds |-> 0]
    /\ shown = [g \in Guilds |-> {}]
    /\ watermark = [g \in Guilds |-> 0]
    /\ todo = [g \in Guilds |-> {}]
    /\ maxID = [g \in Guilds |-> None]
    /\ emitted = [g \in Guilds |-> [i \in LogIds |-> 0]]

-----------------------------------------------------------------------------
(* The game adds an entry; an older one drops out of the API's window.     *)
AppendEntry(g) ==
    /\ top[g] < MaxLogId
    /\ top' = [top EXCEPT ![g] = @ + 1]
    /\ shown' = [shown EXCEPT ![g] = @ \union {top[g] + 1}]
    /\ UNCHANGED <<pipelineVars, watermark, callVars, emitted>>

Rotate(g, i) ==
    /\ i \in shown[g]
    /\ i < top[g]
    /\ shown' = [shown EXCEPT ![g] = @ \ {i}]
    /\ UNCHANGED <<pipelineVars, top, watermark, callVars, emitted>>

-----------------------------------------------------------------------------
(* PrevInt answers 0 when the key is absent or the database unreadable.    *)
PrevInt(g) == IF StoreOpen THEN watermark[g] ELSE 0

(* Mutation of Fresh: off by one.                                          *)
FreshAfterNext(g) == {i \in shown[g] : i > PrevInt(g) + 1}

Fresh(g) == {i \in shown[g] : i > PrevInt(g)}

(* Mutations of OnGuildLog: the watermark advances before the entries are  *)
(* emitted; the id of the last entry is kept instead of the largest.       *)
AdvanceFirst(g) ==
    /\ phase = "running"
    /\ Idle(g)
    /\ todo' = [todo EXCEPT ![g] = Fresh(g)]
    /\ \E newest \in Fresh(g) :
          /\ \A i \in Fresh(g) : i <= newest
          /\ maxID' = [maxID EXCEPT ![g] = newest]
          /\ watermark' = [watermark EXCEPT ![g] = newest]
    /\ UNCHANGED <<pipelineVars, top, shown, emitted>>

KeepLast(g) ==
    /\ phase = "running"
    /\ Idle(g)
    /\ todo' = [todo EXCEPT ![g] = Fresh(g)]
    /\ \E last \in Fresh(g) : maxID' = [maxID EXCEPT ![g] = last]
    /\ UNCHANGED <<pipelineVars, top, shown, watermark, emitted>>

(* A poll gets the log of g and calls OnGuildLog, which does nothing when  *)
(* no entry is above the watermark.                                        *)
OnGuildLog(g) ==
    /\ phase = "running"
    /\ Idle(g)
    /\ todo' = [todo EXCEPT ![g] = Fresh(g)]
    /\ \E newest \in Fresh(g) :
          /\ \A i \in Fresh(g) : i <= newest
          /\ maxID' = [maxID EXCEPT ![g] = newest]
    /\ UNCHANGED <<pipelineVars, top, shown, watermark, emitted>>

NothingNew(g) ==
    /\ phase = "running"
    /\ Idle(g)
    /\ Fresh(g) = {}
    /\ UNCHANGED vars

EmitEntry(g, i) ==
    /\ i \in todo[g]
    /\ Emit(<<g, i>>)
    /\ todo' = [todo EXCEPT ![g] = @ \ {i}]
    /\ emitted' = [emitted EXCEPT ![g][i] = @ + 1]
    /\ UNCHANGED <<phase, faultVars, top, shown, watermark, maxID>>

(* Mutation of EndCall: the watermark is stored before the batch is done.  *)
EndCallEarly(g) ==
    /\ maxID[g] # None
    /\ maxID' = [maxID EXCEPT ![g] = None]
    /\ UNCHANGED <<phase, recordVars, top, shown, todo, emitted>>

EndCall(g) ==
    /\ maxID[g] # None
    /\ todo[g] = {}
    /\ maxID' = [maxID EXCEPT ![g] = None]
    /\ UNCHANGED <<phase, recordVars, top, shown, todo, emitted>>

SetInt(g) ==
    /\ EndCall(g)
    /\ WriteOK
    /\ watermark' = [watermark EXCEPT ![g] = maxID[g]]

SetIntFails(g) ==
    /\ EndCall(g)
    /\ WriteFails \/ WriteRefused
    /\ UNCHANGED watermark

-----------------------------------------------------------------------------
(* The process.                                                            *)
Stop == /\ \/ Cancel
           \/ CloseStore(AllIdle)
        /\ UNCHANGED logVars

Exit == /\ ShutdownFlushes \/ ShutdownTimesOut \/ Crash
        /\ todo' = [g \in Guilds |-> {}]
        /\ maxID' = [g \in Guilds |-> None]
        /\ UNCHANGED <<top, shown, watermark, emitted>>

Start == Restart /\ UNCHANGED logVars

Send == (Export \/ ExportFails) /\ UNCHANGED logVars

Handle(g) ==
    \/ \E i \in LogIds : EmitEntry(g, i)
    \/ SetInt(g)
    \/ SetIntFails(g)

Next ==
    \/ \E g \in Guilds : \/ AppendEntry(g)
                         \/ \E i \in LogIds : Rotate(g, i)
    \/ \E g \in Guilds : OnGuildLog(g) \/ NothingNew(g) \/ Handle(g)
    \/ Stop
    \/ Exit
    \/ Start
    \/ Send

Spec == Init /\ [][Next]_vars

(* As in SeenEvents: polls recur, handlers run on, stops complete, a       *)
(* process that ended is started again; nothing else is assumed.           *)
Fairness ==
    /\ \A g \in Guilds : WF_vars(OnGuildLog(g)) /\ WF_vars(Handle(g))
    /\ WF_vars(CloseStore(AllIdle) /\ UNCHANGED logVars)
    /\ WF_vars(Exit /\ phase = "closed")
    /\ WF_vars(Start)

FairSpec == Spec /\ Fairness

-----------------------------------------------------------------------------
TypeOK ==
    /\ PipelineTypeOK(Guilds \X LogIds)
    /\ top \in [Guilds -> 0..MaxLogId]
    /\ shown \in [Guilds -> SUBSET LogIds]
    /\ watermark \in [Guilds -> 0..MaxLogId]
    /\ todo \in [Guilds -> SUBSET LogIds]
    /\ maxID \in [Guilds -> LogIds \union {None}]
    /\ emitted \in [Guilds -> [LogIds -> Nat]]

(* The watermark hides no entry the API still shows unless its event was   *)
(* emitted: a batch cut short by a crash is emitted again from its start   *)
(* (events.go:129-130).                                                    *)
WatermarkHidesOnlyEmitted ==
    \A g \in Guilds : \A i \in shown[g] :
        i <= watermark[g] => emitted[g][i] > 0

(* An entry is emitted once, and once more at most for each crash or       *)
(* failed write, although one write covers a whole batch of entries.       *)
RepeatsOnlyAfterFaults ==
    \A g \in Guilds : \A i \in LogIds : emitted[g][i] <= Faults + 1

(* An entry the API keeps showing is eventually emitted, through bounded   *)
(* crashes, stops and failed writes.                                       *)
EveryEntryEmitted ==
    \A g \in Guilds : \A i \in LogIds :
        i \in shown[g] ~> emitted[g][i] > 0 \/ i \notin shown[g]

(* The watermark keeps the promise of module Delivery too: one write notes *)
(* the whole batch, and older entries that the answer did not show.        *)
Entries == Guilds \X LogIds

Promise == INSTANCE Delivery WITH
    Items <- Entries,
    offered <- {e \in Entries : e[2] \in shown[e[1]]},
    reported <- [e \in Entries |-> emitted[e[1]][e[2]]],
    noted <- {e \in Entries : e[2] <= watermark[e[1]]},
    faults <- Faults

ImplementsDelivery == Promise!Spec
=============================================================================
