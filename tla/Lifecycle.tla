------------------------------- MODULE Lifecycle -------------------------------
(***************************************************************************)
(* The life of the process: config.FromEnv and run of cmd/gw2-collector,   *)
(* around the reference cache whose first refresh it waits for.            *)
(*                                                                         *)
(* run opens one thing after another and defers its release; whichever     *)
(* way it returns, the deferred calls run in reverse order.  A panic in    *)
(* any goroutine ends the process where it stands, without them.           *)
(***************************************************************************)
EXTENDS ReferenceCache, Integers

CONSTANTS
    Intervals,   \* settings that become tickers
    Environment  \* the environments looked at: settings to their raw values

Unusable  == {"unset", "blank", "garbage"}  \* the default is taken
Parsable  == {"positive", "zero", "negative"}
Settings  == Intervals \union {"key"}

ASSUME EnvironmentAssumption ==
    /\ "key" \notin Intervals
    /\ Environment \subseteq [Settings -> Unusable \union Parsable]

VARIABLES
    raw,       \* the environment of the process
    config,    \* the intervals as FromEnv parses them
    stage,     \* where run stands
    deferred,  \* the releases deferred so far; the last one runs first
    open,      \* what is open: "signals", "telemetry", "state", "callback"
    polling    \* the intervals whose poller goroutines have not returned

lifeVars == <<raw, config, stage, deferred, open, polling>>
allVars  == <<vars, lifeVars>>

LifeInit ==
    /\ Init
    /\ raw \in Environment
    /\ config = [s \in Intervals |-> "none"]
    /\ stage = "config"
    /\ deferred = <<>>
    /\ open = {}
    /\ polling = {}

(* Mutation of EnvDuration: what cannot be parsed counts as zero.          *)
EnvDurationZero(value) == IF value \in {"unset", "blank"} THEN "positive"
                          ELSE IF value = "garbage" THEN "zero" ELSE value

(* envDuration: all of the defaults are positive.                          *)
EnvDuration(value) == IF value \in Unusable THEN "positive" ELSE value

-----------------------------------------------------------------------------
(* A step of run before the pollers start.                                 *)
At(s) == stage = s /\ UNCHANGED <<vars, raw, polling>>

Acquire(what) ==
    /\ open' = open \union {what}
    /\ deferred' = Append(deferred, what)

(* A step of the set-up fails: run returns the error.                      *)
SetupFails ==
    /\ stage \in {"telemetry", "client", "state", "register"}
    /\ stage' = "returning"
    /\ UNCHANGED <<vars, raw, config, deferred, open, polling>>

(* FromEnv, and the handler of signals: it takes the key to go on.  An     *)
(* empty variable is as good as none.                                      *)
NoKey ==
    /\ At("config")
    /\ raw["key"] \in {"unset", "blank"}
    /\ stage' = "returning"
    /\ UNCHANGED <<config, deferred, open>>

FromEnv ==
    /\ At("config")
    /\ raw["key"] \notin {"unset", "blank"}
    /\ config' = [s \in Intervals |-> EnvDuration(raw[s])]
    /\ Acquire("signals")
    /\ stage' = "telemetry"

SetupTelemetry ==
    /\ At("telemetry")
    /\ Acquire("telemetry")
    /\ stage' = "client"
    /\ UNCHANGED config

NewClient ==
    /\ At("client")
    /\ stage' = "state"
    /\ UNCHANGED <<config, deferred, open>>

(* Mutation of OpenState: its release runs after all the others.           *)
OpenStateLate ==
    /\ At("state")
    /\ open' = open \union {"state"}
    /\ deferred' = <<"state">> \o deferred
    /\ stage' = "refresh"
    /\ UNCHANGED config

OpenState ==
    /\ At("state")
    /\ Acquire("state")
    /\ stage' = "refresh"
    /\ UNCHANGED config

(* The first refresh, which run waits for; then the loop is started.       *)
StartupRefresh ==
    /\ stage = "refresh"
    /\ Refresh("startup")
    /\ stage' = IF pc'["startup"] = "off" THEN "register" ELSE stage
    /\ UNCHANGED <<raw, config, deferred, open, polling>>

RegisterCallback ==
    /\ At("register")
    /\ Acquire("callback")
    /\ stage' = "start"
    /\ UNCHANGED config

StartPollers ==
    /\ stage = "start"
    /\ polling' = Intervals
    /\ stage' = "serve"
    /\ UNCHANGED <<vars, raw, config, deferred, open>>

-----------------------------------------------------------------------------
Alive == stage \notin {"exited", "crashed"}

(* SIGINT or SIGTERM: the root context is done.  Before its handler is in  *)
(* place, and once that has been released, the signal ends the process.    *)
Signal ==
    /\ Alive
    /\ IF "signals" \in open
       THEN Cancel /\ UNCHANGED stage
       ELSE stage' = "crashed" /\ UNCHANGED vars
    /\ UNCHANGED <<raw, config, deferred, open, polling>>

(* The reference goroutine.  run does not wait for it.                     *)
ReferenceLoop ==
    /\ Alive
    /\ Refresh("loop") \/ WaitPasses \/ SeeDone
    /\ UNCHANGED lifeVars

GameMovesOn == NewBuild /\ UNCHANGED lifeVars

(* A poller makes its ticker after its first poll, cancelled or not.       *)
TickerPanics(s) ==
    /\ Alive
    /\ s \in polling
    /\ config[s] # "positive"
    /\ stage' = "crashed"
    /\ UNCHANGED <<vars, raw, config, deferred, open, polling>>

PollerReturns(s) ==
    /\ Alive
    /\ s \in polling
    /\ cancelled
    /\ config[s] = "positive"
    /\ polling' = polling \ {s}
    /\ UNCHANGED <<vars, raw, config, stage, deferred, open>>

(* Mutation of WaitForPollers: run returns when the context is done.       *)
DoneIsEnough ==
    /\ stage = "serve"
    /\ cancelled
    /\ stage' = "returning"
    /\ UNCHANGED <<vars, raw, config, deferred, open, polling>>

WaitForPollers ==
    /\ stage = "serve"
    /\ cancelled
    /\ polling = {}
    /\ stage' = "returning"
    /\ UNCHANGED <<vars, raw, config, deferred, open, polling>>

(* A deferred call: Unregister, Close, the flush, stop.                    *)
Release ==
    /\ stage = "returning"
    /\ deferred # <<>>
    /\ open' = open \ {deferred[Len(deferred)]}
    /\ deferred' = SubSeq(deferred, 1, Len(deferred) - 1)
    /\ UNCHANGED <<vars, raw, config, stage, polling>>

Exit ==
    /\ stage = "returning"
    /\ deferred = <<>>
    /\ stage' = "exited"
    /\ UNCHANGED <<vars, raw, config, deferred, open, polling>>

Over == ~Alive /\ UNCHANGED allVars

RunStep ==
    \/ NoKey \/ FromEnv
    \/ SetupTelemetry \/ NewClient \/ OpenState
    \/ StartupRefresh
    \/ RegisterCallback \/ StartPollers
    \/ WaitForPollers
    \/ Release \/ Exit

LifeNext ==
    \/ RunStep
    \/ SetupFails
    \/ Signal
    \/ ReferenceLoop
    \/ GameMovesOn
    \/ \E s \in Intervals : TickerPanics(s) \/ PollerReturns(s)
    \/ Over

LifeSpec == LifeInit /\ [][LifeNext]_allVars

(* run goes on, the calls of its defers return (the flush has 10 seconds); *)
(* the loop is fair as in ReferenceCache.                                  *)
LifeFairness ==
    /\ WF_allVars(RunStep)
    /\ \A s \in Intervals : WF_allVars(PollerReturns(s))
    /\ WF_allVars(Alive /\ Refresh("loop") /\ UNCHANGED lifeVars)
    /\ WF_allVars(Alive /\ WaitPasses /\ UNCHANGED lifeVars)
    /\ SF_allVars(Alive /\ SeeDone /\ UNCHANGED lifeVars)

FairLifeSpec == LifeSpec /\ LifeFairness

-----------------------------------------------------------------------------
Stages == {"config", "telemetry", "client", "state", "refresh", "register",
           "start", "serve", "returning", "exited", "crashed"}
Resources == {"signals", "telemetry", "state", "callback"}

LifeTypeOK ==
    /\ TypeOK
    /\ raw \in Environment
    /\ config \in [Intervals -> {"none"} \union Parsable]
    /\ stage \in Stages
    /\ deferred \in Seq(Resources)
    /\ open \subseteq Resources
    /\ polling \subseteq Intervals

(* Nothing is released under its users, on any way out: the pollers have   *)
(* state file and telemetry, the callback and the state file close before  *)
(* the flush (main.go:47-54, 76, 95, 104-107).                             *)
UsersComeFirst ==
    stage # "crashed" =>
        /\ polling # {} => {"telemetry", "state", "callback"} \subseteq open
        /\ "callback" \in open => {"telemetry", "state"} \subseteq open
        /\ "state" \in open => {"telemetry"} \subseteq open
        /\ stage = "exited" => open = {}

(* A stop asked for at any point of the start-up or of the service ends    *)
(* with everything released, as long as no interval is set to zero or less:*)
(* the first refresh gives up, the pollers return, and what cannot be      *)
(* parsed falls back to a default a ticker can take (poller.go:841).       *)
Sane == \A s \in Intervals : raw[s] \notin {"zero", "negative"}

StopEndsClean ==
    Sane /\ cancelled ~> ~Alive /\ open = {}

(* A process that comes to serve, and goes on, has the tables of the       *)
(* latest build in the end, however the first refresh went.                *)
ServiceIsCurrent ==
    []~cancelled /\ <>[](stage = "serve")
        => <>[](\A t \in TableIds : d[t] = game)
=============================================================================
