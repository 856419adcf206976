------------------------------ MODULE DiffEvents ------------------------------
(***************************************************************************)
(* The value-diffing half of internal/events: Emitter.diffUp and its       *)
(* callers OnCharacters, OnUnlocks, OnResets and OnAccount.                *)
(*                                                                         *)
(* A key ("char_deaths:...", "unlocks:...", "reset:...") stands for one    *)
(* number of the game.  A poll takes a snapshot of the keys of its caller; *)
(* diffUp then compares each with the persisted baseline, emits the rise   *)
(* if there is one, and stores the new value in a second step.  The game   *)
(* moves on meanwhile.  Numbers of Resettable keys drop to 0 now and then  *)
(* (the daily reset; a character deleted and made again).                  *)
(***************************************************************************)
EXTENDS EventPipeline

CONSTANTS
    Keys,        \* baselines kept by diffUp
    Resettable,  \* the keys whose number may drop
    Callers,     \* family goroutines that own keys
    KeysOf,      \* KeysOf[c]: the keys caller c polls
    None,        \* no value, no key
    MaxValue,    \* bound: the largest number of a key
    MaxGrowth    \* bound: growth of a key that the history counts

ASSUME DiffAssumption ==
    /\ Resettable \subseteq Keys
    /\ KeysOf \in [Callers -> SUBSET Keys]
    /\ \A c, d \in Callers : c # d => KeysOf[c] \cap KeysOf[d] = {}
    /\ MaxValue \in Nat
    /\ MaxGrowth \in Nat
    /\ None \notin Keys
    /\ None \notin Nat

VARIABLES
    game,      \* game[k]: the number as the game has it now
    ints,      \* bucket "ints" of the state file; None where absent
    todo,      \* todo[c]: keys of the snapshot c has still to diff
    snap,      \* snap[k]: the number in the last snapshot of its caller
    saving,    \* saving[c]: the key whose SetInt is under way
    reported,  \* history: sum of the rises emitted for k
    told,      \* history: told[<<k, v>>] counts the events of k that rose past v
    grown,     \* history: growth of k since the snapshot of its baseline
    newCycle   \* history: k was reset after the last snapshot of its caller

callVars   == <<todo, snap, saving>>
gameVars   == <<game, grown, newCycle>>
reportVars == <<reported, told>>
diffVars   == <<gameVars, ints, callVars, reportVars>>
vars       == <<pipelineVars, diffVars>>

(* The values that the numbers which only rise can reach.                  *)
Values == (Keys \ Resettable) \X (1..MaxValue)

Idle(c) == todo[c] = {}
AllIdle == \A c \in Callers : Idle(c)

Init ==
    /\ PipelineInit
    /\ game \in [Keys -> 0..MaxValue]
    /\ ints = [k \in Keys |-> None]
    /\ todo = [c \in Callers |-> {}]
    /\ snap = [k \in Keys |-> 0]
    /\ saving = [c \in Callers |-> None]
    /\ reported = [k \in Keys |-> 0]
    /\ told = [e \in Values |-> 0]
    /\ grown = [k \in Keys |-> 0]
    /\ newCycle = [k \in Keys |-> FALSE]

-----------------------------------------------------------------------------
(* The game.                                                               *)
Grow(k) ==
    /\ game[k] < MaxValue
    /\ grown[k] < MaxGrowth
    /\ game' = [game EXCEPT ![k] = @ + 1]
    /\ grown' = [grown EXCEPT ![k] = @ + 1]
    /\ UNCHANGED <<pipelineVars, ints, callVars, reportVars, newCycle>>

Reset(k) ==
    /\ k \in Resettable
    /\ game[k] > 0
    /\ game' = [game EXCEPT ![k] = 0]
    /\ newCycle' = [newCycle EXCEPT ![k] = TRUE]
    /\ UNCHANGED <<pipelineVars, ints, callVars, reportVars, grown>>

-----------------------------------------------------------------------------
(* A poll succeeds and its answer is passed to the handler.  Growth is     *)
(* counted from the last snapshot taken while there was no baseline.       *)
Poll(c) ==
    /\ phase = "running"
    /\ Idle(c)
    /\ todo' = [todo EXCEPT ![c] = KeysOf[c]]
    /\ snap' = [k \in Keys |-> IF k \in KeysOf[c] THEN game[k] ELSE snap[k]]
    /\ grown' = [k \in Keys |-> IF k \in KeysOf[c] /\ ints[k] = None
                                THEN 0 ELSE grown[k]]
    /\ newCycle' = [k \in Keys |-> k \notin KeysOf[c] /\ newCycle[k]]
    /\ UNCHANGED <<pipelineVars, game, ints, saving, reportVars>>

(* PrevInt answers "absent" when the database cannot be read.              *)
PrevInt(k) == IF StoreOpen THEN ints[k] ELSE None

(* Mutation of Rises: off by one.                                          *)
RisesByTwo(k) == PrevInt(k) # None /\ snap[k] > PrevInt(k) + 1

Rises(k) == PrevInt(k) # None /\ snap[k] > PrevInt(k)

(* diffUp up to the emit.  An equal value ends the call.                   *)
Same(c, k) ==
    /\ k \in todo[c]
    /\ saving[c] = None
    /\ PrevInt(k) = snap[k]
    /\ todo' = [todo EXCEPT ![c] = @ \ {k}]
    /\ UNCHANGED <<pipelineVars, gameVars, ints, snap, saving, reportVars>>

(* Mutation of Rebase: a value that is not reported is not stored either.  *)
RebaseForgets(c, k) ==
    /\ k \in todo[c]
    /\ saving[c] = None
    /\ ~Rises(k)
    /\ PrevInt(k) # snap[k]
    /\ todo' = [todo EXCEPT ![c] = @ \ {k}]
    /\ UNCHANGED <<pipelineVars, gameVars, ints, snap, saving, reportVars>>

(* A first observation or a lower value is stored without an event.        *)
Rebase(c, k) ==
    /\ k \in todo[c]
    /\ saving[c] = None
    /\ ~Rises(k)
    /\ PrevInt(k) # snap[k]
    /\ saving' = [saving EXCEPT ![c] = k]
    /\ UNCHANGED <<pipelineVars, gameVars, ints, todo, snap, reportVars>>

(* The values that k rose past, from the baseline to the snapshot.         *)
Passed(k) == {e \in Values : e[1] = k /\ PrevInt(k) < e[2] /\ e[2] <= snap[k]}

EmitRise(c, k) ==
    /\ k \in todo[c]
    /\ saving[c] = None
    /\ Rises(k)
    /\ Emit(k)
    /\ reported' = [reported EXCEPT ![k] = @ + (snap[k] - PrevInt(k))]
    /\ told' = [e \in Values |->
                   IF e \in Passed(k) THEN told[e] + 1 ELSE told[e]]
    /\ saving' = [saving EXCEPT ![c] = k]
    /\ UNCHANGED <<phase, faultVars, gameVars, ints, todo, snap>>

(* SetInt, the second half of diffUp; its error is only logged.            *)
EndDiff(c) ==
    /\ todo' = [todo EXCEPT ![c] = @ \ {saving[c]}]
    /\ saving' = [saving EXCEPT ![c] = None]
    /\ UNCHANGED <<phase, recordVars, gameVars, snap, reportVars>>

(* Mutation of SetInt: only a first observation is stored.                 *)
SetIntIfAbsent(c) ==
    /\ saving[c] # None
    /\ WriteOK
    /\ ints' = [ints EXCEPT ![saving[c]] = IF @ = None THEN snap[saving[c]] ELSE @]
    /\ EndDiff(c)

(* Mutation of SetInt: the number is read again instead of the snapshot.   *)
SetIntLatest(c) ==
    /\ saving[c] # None
    /\ WriteOK
    /\ ints' = [ints EXCEPT ![saving[c]] = game[saving[c]]]
    /\ EndDiff(c)

SetInt(c) ==
    /\ saving[c] # None
    /\ WriteOK
    /\ ints' = [ints EXCEPT ![saving[c]] = snap[saving[c]]]
    /\ EndDiff(c)

SetIntFails(c) ==
    /\ saving[c] # None
    /\ WriteFails \/ WriteRefused
    /\ UNCHANGED ints
    /\ EndDiff(c)

-----------------------------------------------------------------------------
(* The process.                                                            *)
Stop == /\ \/ Cancel
           \/ CloseStore(AllIdle)
        /\ UNCHANGED diffVars

Exit == /\ ShutdownFlushes \/ ShutdownTimesOut \/ Crash
        /\ todo' = [c \in Callers |-> {}]
        /\ saving' = [c \in Callers |-> None]
        /\ UNCHANGED <<gameVars, ints, snap, reportVars>>

Start == Restart /\ UNCHANGED diffVars

Send == (Export \/ ExportFails) /\ UNCHANGED diffVars

Handle(c) ==
    \/ \E k \in Keys : Same(c, k) \/ Rebase(c, k) \/ EmitRise(c, k)
    \/ SetInt(c)
    \/ SetIntFails(c)

Next ==
    \/ \E k \in Keys : Grow(k) \/ Reset(k)
    \/ \E c \in Callers : Poll(c) \/ Handle(c)
    \/ Stop
    \/ Exit
    \/ Start
    \/ Send

Spec == Init /\ [][Next]_vars

(* As in SeenEvents: polls recur, handlers run on, stops complete, a       *)
(* process that ended is started again; nothing else is assumed.           *)
Fairness ==
    /\ \A c \in Callers : WF_vars(Poll(c)) /\ WF_vars(Handle(c))
    /\ WF_vars(CloseStore(AllIdle) /\ UNCHANGED diffVars)
    /\ WF_vars(Exit /\ phase = "closed")
    /\ WF_vars(Start)

FairSpec == Spec /\ Fairness

-----------------------------------------------------------------------------
TypeOK ==
    /\ PipelineTypeOK(Keys)
    /\ game \in [Keys -> 0..MaxValue]
    /\ ints \in [Keys -> (0..MaxValue) \union {None}]
    /\ todo \in [Callers -> SUBSET Keys]
    /\ snap \in [Keys -> 0..MaxValue]
    /\ saving \in [Callers -> Keys \union {None}]
    /\ reported \in [Keys -> Nat]
    /\ told \in [Values -> Nat]
    /\ grown \in [Keys -> Nat]
    /\ newCycle \in [Keys -> BOOLEAN]

(* No event invents progress: the rises emitted for a key add up to no     *)
(* more than it grew, even across resets the polls did not see; each crash *)
(* or failed write can repeat one rise (events.go:52-65, 104-106).         *)
NeverOverReports ==
    \A k \in Keys : reported[k] <= grown[k] + Faults * MaxValue

(* For a number that only rises, all growth up to the stored baseline has  *)
(* been reported, whatever crashed or failed in between: the baseline      *)
(* never moves over a rise that was not emitted (events.go:52-54).         *)
NothingUnreported ==
    \A k \in Keys \ Resettable :
        ints[k] # None => reported[k] + (game[k] - ints[k]) >= grown[k]

(* Doc of OnResets: at a reset "the baseline resets silently, so the next  *)
(* completion re-emits" (events.go:104-106).  A count completed after a    *)
(* reset then exceeds the baseline that the next poll compares it with.    *)
CompletionAfterResetRises ==
    \A k \in Keys :
        (AllIdle /\ newCycle[k] /\ game[k] > 0 /\ ints[k] # None)
            => game[k] > ints[k]

(* A number that only rises is eventually observed: the baseline reaches   *)
(* any value the game has reached (the poll loop, poller.go:814-853).      *)
BaselineCatchesUp ==
    \A k \in Keys \ Resettable, v \in 0..MaxValue :
        game[k] >= v ~> ints[k] # None /\ ints[k] >= v

(* The baselines of rising numbers keep the promise of module Delivery:    *)
(* every value reached after the snapshot of the first baseline is reported*)
(* before the baseline passes it, and again only after a fault, although   *)
(* one event covers all the values of a rise (events.go:52-66).            *)
Promise == INSTANCE Delivery WITH
    Items <- Values,
    offered <- {e \in Values : game[e[1]] < e[2] + grown[e[1]] /\ e[2] <= game[e[1]]},
    reported <- told,
    noted <- {e \in Values : ints[e[1]] # None /\ e[2] <= ints[e[1]]},
    faults <- Faults

ImplementsDelivery == Promise!Spec
=============================================================================
