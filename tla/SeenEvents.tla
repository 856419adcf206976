------------------------------ MODULE SeenEvents ------------------------------
(***************************************************************************)
(* The seen-set half of internal/events: Emitter.OnTransactions and        *)
(* Emitter.OnPvPGames, which emit one record per id and mark the id seen   *)
(* afterwards.                                                             *)
(*                                                                         *)
(* A caller is one family goroutine of the poller.  Each id belongs to one *)
(* caller: the keys "tx:buy:", "tx:sell:" and "pvpgame:" never collide.    *)
(* The API shows a completed id for a while and then drops it from its     *)
(* window; a handler works through the answer it was given while the       *)
(* window moves on.                                                        *)
(***************************************************************************)
EXTENDS EventPipeline

CONSTANTS
    Ids,      \* transaction and match ids
    Callers,  \* family goroutines that own ids
    IdsOf,    \* IdsOf[c]: the ids caller c polls
    None      \* no id

ASSUME SeenAssumption ==
    /\ IdsOf \in [Callers -> SUBSET Ids]
    /\ \A c, d \in Callers : c # d => IdsOf[c] \cap IdsOf[d] = {}
    /\ None \notin Ids

VARIABLES
    upcoming,  \* ids the game has not produced yet
    window,    \* ids the API returns now
    seen,      \* bucket "seen" of the state file
    todo,      \* todo[c]: ids of the answer c has still to work through
    marking,   \* marking[c]: the id emitted whose MarkSeen is under way
    emitted    \* history: emitted[id] counts the records emitted for id

worldVars == <<upcoming, window>>
callVars  == <<todo, marking>>
seenVars  == <<worldVars, seen, callVars, emitted>>
vars      == <<pipelineVars, seenVars>>

Idle(c) == todo[c] = {}
AllIdle == \A c \in Callers : Idle(c)

NoCall == /\ todo' = [c \in Callers |-> {}]
          /\ marking' = [c \in Callers |-> None]

Init ==
    /\ PipelineInit
    /\ upcoming = Ids
    /\ window = {}
    /\ seen = {}
    /\ todo = [c \in Callers |-> {}]
    /\ marking = [c \in Callers |-> None]
    /\ emitted = [id \in Ids |-> 0]

-----------------------------------------------------------------------------
(* The game produces an id; the API stops returning one.                   *)
Complete(id) ==
    /\ id \in upcoming
    /\ upcoming' = upcoming \ {id}
    /\ window' = window \union {id}
    /\ UNCHANGED <<pipelineVars, seen, callVars, emitted>>

Rotate(id) ==
    /\ id \in window
    /\ window' = window \ {id}
    /\ UNCHANGED <<pipelineVars, upcoming, seen, callVars, emitted>>

-----------------------------------------------------------------------------
(* Mutation of HasSeen: a key that leaves the id out.                      *)
HasSeenAny(id) == StoreOpen /\ seen # {}

(* HasSeen answers "no" when the database cannot be read.                  *)
HasSeen(id) == StoreOpen /\ id \in seen

(* Mutation of Poll: the whole answer is marked before it is worked off.   *)
PollAndMark(c) ==
    /\ phase = "running"
    /\ Idle(c)
    /\ todo' = [todo EXCEPT ![c] = window \cap IdsOf[c]]
    /\ seen' = seen \union (window \cap IdsOf[c])
    /\ UNCHANGED <<pipelineVars, worldVars, marking, emitted>>

(* A poll succeeds and its answer is passed to the handler.                *)
Poll(c) ==
    /\ phase = "running"
    /\ Idle(c)
    /\ todo' = [todo EXCEPT ![c] = window \cap IdsOf[c]]
    /\ UNCHANGED <<pipelineVars, worldVars, seen, marking, emitted>>

(* One turn of the loop up to the emit: an id seen before is passed over.  *)
Skip(c, id) ==
    /\ id \in todo[c]
    /\ marking[c] = None
    /\ HasSeen(id)
    /\ todo' = [todo EXCEPT ![c] = @ \ {id}]
    /\ UNCHANGED <<pipelineVars, worldVars, seen, marking, emitted>>

EmitNew(c, id) ==
    /\ id \in todo[c]
    /\ marking[c] = None
    /\ ~HasSeen(id)
    /\ Emit(id)
    /\ emitted' = [emitted EXCEPT ![id] = @ + 1]
    /\ marking' = [marking EXCEPT ![c] = id]
    /\ UNCHANGED <<phase, faultVars, worldVars, seen, todo>>

(* MarkSeen, the other half of the turn; its error is only logged.         *)
EndTurn(c) ==
    /\ todo' = [todo EXCEPT ![c] = @ \ {marking[c]}]
    /\ marking' = [marking EXCEPT ![c] = None]
    /\ UNCHANGED <<phase, recordVars, worldVars, emitted>>

MarkSeen(c) ==
    /\ marking[c] # None
    /\ WriteOK
    /\ seen' = seen \union {marking[c]}
    /\ EndTurn(c)

MarkSeenFails(c) ==
    /\ marking[c] # None
    /\ WriteFails \/ WriteRefused
    /\ UNCHANGED seen
    /\ EndTurn(c)

-----------------------------------------------------------------------------
(* The process: a graceful stop waits for the handlers, an exit ends them. *)
Stop == /\ \/ Cancel
           \/ CloseStore(AllIdle)
        /\ UNCHANGED seenVars

Exit == /\ ShutdownFlushes \/ ShutdownTimesOut \/ Crash
        /\ NoCall
        /\ UNCHANGED <<worldVars, seen, emitted>>

Start == Restart /\ UNCHANGED seenVars

Send == (Export \/ ExportFails) /\ UNCHANGED seenVars

Handle(c) ==
    \/ \E id \in Ids : Skip(c, id) \/ EmitNew(c, id)
    \/ MarkSeen(c)
    \/ MarkSeenFails(c)

Next ==
    \/ \E id \in Ids : Complete(id) \/ Rotate(id)
    \/ \E c \in Callers : Poll(c) \/ Handle(c)
    \/ Stop
    \/ Exit
    \/ Start
    \/ Send

Spec == Init /\ [][Next]_vars

(* Tickers keep polling until a poll succeeds, a handler runs on by itself *)
(* and a stop that was begun is finished.  One assumption is of the user   *)
(* of the program: a process that ended is started again.  Nothing is      *)
(* assumed of the game, of the exporter or of faults.                      *)
Fairness ==
    /\ \A c \in Callers : WF_vars(Poll(c)) /\ WF_vars(Handle(c))
    /\ WF_vars(CloseStore(AllIdle) /\ UNCHANGED seenVars)
    /\ WF_vars(Exit /\ phase = "closed")
    /\ WF_vars(Start)

FairSpec == Spec /\ Fairness

-----------------------------------------------------------------------------
TypeOK ==
    /\ PipelineTypeOK(Ids)
    /\ upcoming \subseteq Ids
    /\ window \subseteq Ids
    /\ seen \subseteq Ids
    /\ todo \in [Callers -> SUBSET Ids]
    /\ marking \in [Callers -> Ids \union {None}]
    /\ emitted \in [Ids -> Nat]

BeingMarked(id) == \E c \in Callers : marking[c] = id

(* An id recorded as seen has had its event emitted at least once, through *)
(* any interleaving of polls, crashes and failed writes (events.go:10-11,  *)
(* state.go:79-80): the mark never runs ahead of the emit.                 *)
MarkedOnlyAfterEmit == \A id \in seen : emitted[id] > 0

(* Each crash or failed write can repeat an event at most once: without a  *)
(* fault an id is emitted once, however often polls overlap the window     *)
(* (events.go:157-159, "dedupes as the window rotates").                   *)
RepeatsOnlyAfterFaults ==
    \A id \in Ids :
        emitted[id] <= Faults + (IF id \in seen \/ BeingMarked(id) THEN 1 ELSE 0)

(* If the pipeline has dropped nothing, every id marked seen is delivered  *)
(* once the process is down: a graceful stop leaves no event behind in     *)
(* memory (telemetry.go:28-29).                                            *)
StopFlushesMarked ==
    phase = "down" /\ ~lossy => seen \subseteq delivered

(* Doc of the package: "at-least-once rather than drops".  Taken for the   *)
(* backend: what is marked seen is delivered or still on its way.          *)
MarkedIsNotLost == seen \subseteq delivered \union Queued

(* An id the API keeps showing is eventually emitted, through bounded      *)
(* crashes, stops and failed writes (events.go:157-159, 182-183).          *)
EveryTransactionEmitted ==
    \A id \in Ids :
        id \in window ~> emitted[id] > 0 \/ id \notin window

(* The seen-set keeps the promise of module Delivery (events.go:10-11,     *)
(* state.go:1-3): whatever the interleaving of polls, faults and stops,    *)
(* each step reports, notes, shows or hides one thing as Delivery allows.  *)
Promise == INSTANCE Delivery WITH
    Items <- Ids,
    offered <- window,
    reported <- emitted,
    noted <- seen,
    faults <- Faults

ImplementsDelivery == Promise!Spec
=============================================================================
