-------------------------------- MODULE Poller --------------------------------
(***************************************************************************)
(* The poller of internal/poller with the snapshot store of internal/store *)
(* and the shutdown of cmd/gw2-collector: one goroutine per family, each   *)
(* polling once at its start and then on the ticks of its ticker, until    *)
(* the context is cancelled and main's Wait returns.                       *)
(*                                                                         *)
(* The goroutines share the store and nothing else.  Every step of a poll  *)
(* is an action of its own, so polls of different families interleave at   *)
(* each call and each setter.  An answer is identified by the time it was  *)
(* given: fetching <<"bank", 0>> at time t returns the bank as of t.       *)
(***************************************************************************)
EXTENDS PlanRules

CONSTANTS
    Slices,      \* sets of families whose goroutines get to run
    Lacks,       \* pairs <<what, t>>: at time t the account has no "what"
    MaxTime,     \* bound: the clock
    MaxFailures  \* bound: failed calls that no cancellation explains

Times == 1..MaxTime
Steps == UNION {{PlanOf[f][n] : n \in StepsOf(f)} : f \in Families}
Endpoints == {s.of : s \in Steps}
Answers == [of : Endpoints, at : Times]

(* Store keys are named by the pairs the setters of the plans carry.       *)
StoreKeys == {s.of : s \in {r \in Steps : r.op \in Setting}}

ASSUME PollerAssumption ==
    /\ MaxTime \in Nat \ {0}
    /\ MaxFailures \in Nat
    /\ \A f \in Families : Len(PlanOf[f]) \in Nat \ {0}
    /\ \A s \in Steps : s.op = "stored" => s.of \in StoreKeys
    /\ \A S \in Slices : S \subseteq Families

VARIABLES
    now,          \* the clock
    awake,        \* the families whose goroutines are scheduled
    cancelled,    \* the root context is cancelled
    main,         \* main: "running", or "stopped" once Wait has returned
    pc,           \* pc[f]: the step of the poll under way, 0 in the select
    exited,       \* families whose goroutine has returned
    ticker,       \* ticker[f]: "none", or its channel "empty" or "full"
    got,          \* got[f]: the answers the poll under way has so far
    begun,        \* begun[f]: when the last poll began
    cached,       \* cached[f]: calls that succeeded and are not made again
    snapshot,     \* snapshot[k]: the answers in the snapshot of key k
    snapBegun,    \* history: when the poll that set snapshot[k] began
    lastSuccess,  \* lastSuccess[k], 0 where absent
    lastOK,       \* history: when a poll of f last returned nil, 0 for never
    handed,       \* history: the time of the last answer given to a handler
    failures      \* history: failed calls so far

loopVars  == <<pc, exited, ticker, begun, got>>
storeVars == <<snapshot, snapBegun, lastSuccess>>
mainVars  == <<now, awake, cancelled, main>>
vars == <<mainVars, loopVars, cached, storeVars, lastOK, handed, failures>>

Init ==
    /\ now = 1
    /\ awake \in Slices
    /\ cancelled = FALSE
    /\ main = "running"
    /\ pc = [f \in Families |-> 1]
    /\ exited = {}
    /\ ticker = [f \in Families |-> "none"]
    /\ got = [f \in Families |-> {}]
    /\ begun = [f \in Families |-> 1]
    /\ cached = [f \in Families |-> {}]
    /\ snapshot = [k \in StoreKeys |-> {}]
    /\ snapBegun = [k \in StoreKeys |-> 1]
    /\ lastSuccess = [k \in StoreKeys |-> 0]
    /\ lastOK = [f \in Families |-> 0]
    /\ handed = [e \in Endpoints |-> 0]
    /\ failures = 0

-----------------------------------------------------------------------------
(* Time passes and the game moves on; a stop is asked for.                 *)
Advance ==
    /\ now < MaxTime
    /\ now' = now + 1
    /\ UNCHANGED <<awake, cancelled, main, loopVars, cached, storeVars,
                   lastOK, handed, failures>>

Cancel ==
    /\ ~cancelled
    /\ cancelled' = TRUE
    /\ UNCHANGED <<now, awake, main, loopVars, cached, storeVars,
                   lastOK, handed, failures>>

(* Mutation of WaitReturns: main does not wait.                            *)
NoWait ==
    /\ cancelled
    /\ main = "running"
    /\ main' = "stopped"
    /\ UNCHANGED <<now, awake, cancelled, loopVars, cached, storeVars,
                   lastOK, handed, failures>>

(* p.Wait returns; the deferred calls of main follow.                      *)
WaitReturns ==
    /\ cancelled
    /\ main = "running"
    /\ exited = awake
    /\ main' = "stopped"
    /\ UNCHANGED <<now, awake, cancelled, loopVars, cached, storeVars,
                   lastOK, handed, failures>>

-----------------------------------------------------------------------------
(* Mutation of Tick: ticks that are not taken pile up.                     *)
TickPilesUp(f) ==
    /\ ticker[f] \in {"empty", "full"}
    /\ f \notin exited
    /\ ticker' = [ticker EXCEPT ![f] = IF @ = "empty" THEN "full" ELSE "two"]
    /\ UNCHANGED <<mainVars, pc, exited, begun, got, cached, storeVars,
                   lastOK, handed, failures>>

(* The loop of run.  A ticker holds one tick at most and drops the rest.   *)
Tick(f) ==
    /\ ticker[f] = "empty"
    /\ f \notin exited
    /\ ticker' = [ticker EXCEPT ![f] = "full"]
    /\ UNCHANGED <<mainVars, pc, exited, begun, got, cached, storeVars,
                   lastOK, handed, failures>>

InSelect(f) == f \in awake /\ f \notin exited /\ pc[f] = 0

(* Mutation of StartPoll: answers of earlier polls are kept.               *)
StartPollKeeping(f) ==
    /\ InSelect(f)
    /\ ticker[f] = "full"
    /\ ticker' = [ticker EXCEPT ![f] = "empty"]
    /\ pc' = [pc EXCEPT ![f] = 1]
    /\ begun' = [begun EXCEPT ![f] = now]
    /\ UNCHANGED <<mainVars, exited, got, cached, storeVars,
                   lastOK, handed, failures>>

StartPoll(f) ==
    /\ InSelect(f)
    /\ ticker[f] = "full"
    /\ ticker' = [ticker EXCEPT ![f] = "empty"]
    /\ pc' = [pc EXCEPT ![f] = 1]
    /\ begun' = [begun EXCEPT ![f] = now]
    /\ got' = [got EXCEPT ![f] = {}]
    /\ UNCHANGED <<mainVars, exited, cached, storeVars,
                   lastOK, handed, failures>>

(* Mutation of SeeDone: a tick that is ready goes first.                   *)
SeeDoneIfQuiet(f) ==
    /\ InSelect(f)
    /\ cancelled
    /\ ticker[f] # "full"
    /\ exited' = exited \union {f}
    /\ UNCHANGED <<mainVars, pc, ticker, begun, got, cached, storeVars,
                   lastOK, handed, failures>>

SeeDone(f) ==
    /\ InSelect(f)
    /\ cancelled
    /\ exited' = exited \union {f}
    /\ UNCHANGED <<mainVars, pc, ticker, begun, got, cached, storeVars,
                   lastOK, handed, failures>>

(* The poll returns: back to the select, whose ticker the first poll makes.*)
Leave(f) ==
    /\ pc' = [pc EXCEPT ![f] = 0]
    /\ ticker' = [ticker EXCEPT ![f] = IF @ = "none" THEN "empty" ELSE @]

AtStep(f) == f \in awake /\ f \notin exited /\ pc[f] \in StepsOf(f)

Step(f) == PlanOf[f][pc[f]]
NextStep(f) == pc' = [pc EXCEPT ![f] = @ + 1] /\ UNCHANGED ticker

Finish(f) ==
    /\ f \in awake
    /\ pc[f] > Len(PlanOf[f])
    /\ Leave(f)
    /\ lastOK' = [lastOK EXCEPT ![f] = now]
    /\ UNCHANGED <<mainVars, exited, begun, got, cached, storeVars,
                   handed, failures>>

-----------------------------------------------------------------------------
(* The calls of a poll.  A step asks the API unless it finds what it needs *)
(* in the process: a stored snapshot, or definitions fetched before.       *)
Answer(f) == [of |-> Step(f).of, at |-> now]
IsStored(f) == Step(f).op = "stored" /\ snapshot[Step(f).of] # {}
IsCached(f) == Step(f).op = "once" /\ Step(f).of \in cached[f]

Asks(f) == /\ Step(f).op \in Asking
           /\ ~IsStored(f)
           /\ ~IsCached(f)

(* A cancelled context fails every call.                                   *)
CallOK(f) ==
    /\ AtStep(f) /\ Asks(f)
    /\ ~cancelled
    /\ got' = [got EXCEPT ![f] = @ \union {Answer(f)}]
    /\ cached' = IF Step(f).op = "once"
                 THEN [cached EXCEPT ![f] = @ \union {Step(f).of}]
                 ELSE cached
    /\ NextStep(f)
    /\ UNCHANGED <<mainVars, exited, begun, storeVars, lastOK, handed, failures>>

Fails == \/ cancelled /\ UNCHANGED failures
         \/ ~cancelled /\ failures < MaxFailures /\ failures' = failures + 1

(* The error is returned, whatever the poll has already set or emitted.    *)
CallFails(f) ==
    /\ AtStep(f) /\ Asks(f) /\ Step(f).op # "soft"
    /\ Fails
    /\ Leave(f)
    /\ UNCHANGED <<mainVars, exited, begun, got, cached, storeVars,
                   lastOK, handed>>

SoftCallFails(f) ==
    /\ AtStep(f) /\ Step(f).op = "soft"
    /\ Fails
    /\ NextStep(f)
    /\ UNCHANGED <<mainVars, exited, begun, got, cached, storeVars,
                   lastOK, handed>>

UseStored(f) ==
    /\ AtStep(f) /\ IsStored(f)
    /\ got' = [got EXCEPT ![f] =
                 @ \union {a \in snapshot[Step(f).of] : a.of = Step(f).of}]
    /\ NextStep(f)
    /\ UNCHANGED <<mainVars, exited, begun, cached, storeVars,
                   lastOK, handed, failures>>

SkipCall(f) ==
    /\ AtStep(f) /\ (IsCached(f) \/ Step(f).op = "missing")
    /\ NextStep(f)
    /\ UNCHANGED <<mainVars, exited, begun, got, cached, storeVars,
                   lastOK, handed, failures>>

(* No guild to poll, no world to look up: return nil and set nothing.      *)
Nothing(f) ==
    \E a \in got[f] : a.of = <<"account", 0>> /\ <<Step(f).of[1], a.at>> \in Lacks

ReturnEarly(f) ==
    /\ AtStep(f) /\ Step(f).op = "unless"
    /\ Nothing(f)
    /\ Leave(f)
    /\ lastOK' = [lastOK EXCEPT ![f] = now]
    /\ UNCHANGED <<mainVars, exited, begun, got, cached, storeVars,
                   handed, failures>>

GoOn(f) ==
    /\ AtStep(f) /\ Step(f).op = "unless"
    /\ ~Nothing(f)
    /\ NextStep(f)
    /\ UNCHANGED <<mainVars, exited, begun, got, cached, storeVars,
                   lastOK, handed, failures>>

(* A setter swaps the snapshot and marks its key under one lock.           *)
SetSnapshot(f) ==
    /\ AtStep(f) /\ Step(f).op \in Setting
    /\ LET k == Step(f).of IN
       /\ snapshot' = [snapshot EXCEPT ![k] = got[f]]
       /\ snapBegun' = [snapBegun EXCEPT ![k] = begun[f]]
       /\ lastSuccess' = IF Step(f).op = "set"
                         THEN [lastSuccess EXCEPT ![k] = now]
                         ELSE lastSuccess
    /\ NextStep(f)
    /\ UNCHANGED <<mainVars, exited, begun, got, cached, lastOK, handed, failures>>

(* A call of the emitter; without the answer there is nothing to hand over.*)
CallEmitter(f) ==
    /\ AtStep(f) /\ Step(f).op = "emit"
    /\ LET e == Step(f).of
           given == {a \in got[f] : a.of = e}
       IN  handed' = IF given = {} THEN handed
                     ELSE [handed EXCEPT ![e] = (CHOOSE a \in given : TRUE).at]
    /\ NextStep(f)
    /\ UNCHANGED <<mainVars, exited, begun, got, cached, storeVars,
                   lastOK, failures>>

-----------------------------------------------------------------------------
PollStep(f) ==
    \/ CallOK(f)
    \/ CallFails(f)
    \/ SoftCallFails(f)
    \/ UseStored(f)
    \/ SkipCall(f)
    \/ ReturnEarly(f)
    \/ GoOn(f)
    \/ SetSnapshot(f)
    \/ CallEmitter(f)
    \/ Finish(f)

(* The process has ended: nothing more happens.                            *)
Ended == main = "stopped" /\ UNCHANGED vars

Next ==
    \/ Advance
    \/ Cancel
    \/ WaitReturns
    \/ \E f \in Families : \/ Tick(f)
                           \/ StartPoll(f)
                           \/ SeeDone(f)
                           \/ PollStep(f)
    \/ Ended

Spec == Init /\ [][Next]_vars

(* Calls return (the client has a timeout), tickers tick, and goroutines   *)
(* are scheduled.  The select picks at random among its ready cases, so a  *)
(* case that stays ready is not passed over for ever: SF for SeeDone.      *)
Fairness ==
    /\ WF_vars(WaitReturns)
    /\ \A f \in Families :
          /\ WF_vars(Tick(f))
          /\ WF_vars(StartPoll(f))
          /\ SF_vars(SeeDone(f))
          /\ WF_vars(PollStep(f))

FairSpec == Spec /\ Fairness

-----------------------------------------------------------------------------
TypeOK ==
    /\ now \in Times
    /\ awake \in Slices
    /\ cancelled \in BOOLEAN
    /\ main \in {"running", "stopped"}
    /\ pc \in [Families -> Nat]
    /\ \A f \in Families : pc[f] <= Len(PlanOf[f]) + 1
    /\ exited \subseteq Families
    /\ ticker \in [Families -> {"none", "empty", "full"}]
    /\ got \in [Families -> SUBSET Answers]
    /\ begun \in [Families -> Times]
    /\ cached \in [Families -> SUBSET Endpoints]
    /\ snapshot \in [StoreKeys -> SUBSET Answers]
    /\ snapBegun \in [StoreKeys -> Times]
    /\ lastSuccess \in [StoreKeys -> {0} \union Times]
    /\ lastOK \in [Families -> {0} \union Times]
    /\ handed \in [Endpoints -> {0} \union Times]
    /\ failures \in 0..MaxFailures

SharedWith(f, e) ==
    \E n \in StepsOf(f) : Does(f, n, {"stored"}, e)

(* A stored snapshot is whole: it has every answer its struct is built     *)
(* from, fetched in the poll that set it; only what the plan takes from    *)
(* another family's snapshot is older.  A poll that fails half way leaves  *)
(* the previous snapshot (the setters stand after the last fatal call).    *)
SnapshotIsWhole ==
    \A k \in StoreKeys : snapshot[k] # {} =>
        \A e \in NeedsOf[k[1]] : \E a \in snapshot[k] :
            /\ a.of = e
            /\ a.at >= snapBegun[k] \/ \E f \in Families : SharedWith(f, e)

(* No poll is ever at a step against PlanRules: each handler of the emitter*)
(* is fed by one family, from one call of the poll under way (poller.go:76,*)
(* 97, 326, 428, 525, 541, 619); no snapshot is set before the last call it*)
(* needs has succeeded, and what guild, story and wvw take from another    *)
(* family's snapshot is always in it; a family other than pvp and commerce *)
(* marks its own key only when nothing can fail any more (store.go:460).   *)
StepsKeepToRules ==
    \A f \in Families : AtStep(f) =>
        /\ FeedsAlone(f, pc[f])
        /\ SetsWhole(f, pc[f])
        /\ TakesNeeded(f, pc[f])
        /\ MarksLast(f, pc[f])

(* The timestamp of a family is never later than its last successful poll  *)
(* (store.go:460, metrics.go:518), for the families that set their key     *)
(* when nothing can fail any more.                                         *)
Honest(f) == pc[f] = 0 /\ OwnKey(f) \in StoreKeys
                => lastSuccess[OwnKey(f)] <= lastOK[f]

MarkedOnlyBySuccess == \A f \in Families \ Late : Honest(f)

(* Doc of LastSuccess: "the time of the last successful poll for each      *)
(* family" (store.go:460): the same, for every family.                     *)
LastSuccessIsSuccess == \A f \in Families : Honest(f)

(* README.md:57-58: "a last-successful-poll timestamp per endpoint family":*)
(* a family with a successful poll behind it has a timestamp.              *)
EveryFamilyHasTimestamp ==
    \A f \in Families : lastOK[f] > 0 =>
        OwnKey(f) \in StoreKeys /\ lastSuccess[OwnKey(f)] > 0

(* What the emitter is given for an endpoint never goes back in time, so   *)
(* diffUp never meets an older number after a newer one: each handler is   *)
(* fed by one goroutine, from calls of the poll under way.                 *)
HandlersSeeTimeForward ==
    [][\A e \in Endpoints : handed'[e] >= handed[e]]_vars

(* Once Wait has returned nothing is stored or emitted any more, so the    *)
(* state file can be closed (main.go:104-106, poller.go:745-746).          *)
NothingAfterWait == [][main = "stopped" => UNCHANGED <<storeVars, handed>>]_vars

(* A stop asked for in the middle of any polls is carried out, even if the *)
(* tickers keep the select busy (poller.go:843-851).                       *)
StopTerminates == cancelled ~> main = "stopped"

(* When the game stops changing and the calls stop failing, the snapshots  *)
(* of the families at work catch up, those built from another family's     *)
(* snapshot included (poller.go:290, 436, 462).                            *)
UpToDate(f) ==
    OwnKey(f) \in StoreKeys =>
        /\ snapshot[OwnKey(f)] # {}
        /\ \A a \in snapshot[OwnKey(f)] : a.at = MaxTime

StoreConverges ==
    <>[](now = MaxTime /\ ~cancelled) => <>[](\A f \in awake : UpToDate(f))
=============================================================================
