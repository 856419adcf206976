---------------------------- MODULE ReferenceCache ----------------------------
(***************************************************************************)
(* The reference-data cache of internal/reference.  Cache.Refresh rebuilds *)
(* all tables when the game build has changed and publishes them by one    *)
(* pointer store; main refreshes once at startup and then Cache.Start's    *)
(* goroutine goes on, hourly, or every minute while nothing is loaded.     *)
(*                                                                         *)
(* A table is identified by the build it was fetched at.  The build may    *)
(* change between any two calls of a refresh.                              *)
(***************************************************************************)
EXTENDS Naturals, Sequences

CONSTANTS
    Tables,      \* the tables, in the order Refresh fetches them
    None,        \* no table
    MaxBuild,    \* bound: the game builds
    MaxFailures  \* bound: failed calls that no cancellation explains

ASSUME ReferenceAssumption ==
    /\ Tables \in Seq(STRING) \ {<<>>}
    /\ MaxBuild \in Nat \ {0}
    /\ MaxFailures \in Nat
    /\ None \notin Nat

Builds == 1..MaxBuild
TableIds == 1..Len(Tables)
Refreshers == {"startup", "loop"}

VARIABLES
    game,       \* the build the API reports now
    cancelled,  \* the root context is done
    d,          \* d[t]: the build table t of the published data is from
    build,      \* the recorded build, 0 before the first refresh
    pc,         \* pc[r]: "off", "wait", "build", "tables", "publish", "record"
    target,     \* target[r]: the build Refresh read first
    fetched,    \* fetched[r]: the tables fetched so far
    failures    \* history: failed calls so far

cacheVars   == <<d, build>>
refreshVars == <<pc, target, fetched>>
vars == <<game, cancelled, cacheVars, refreshVars, failures>>

(* Mutation of Init: main starts the loop before the first refresh is over.*)
InitConcurrent ==
    /\ game = 1
    /\ cancelled = FALSE
    /\ d = [t \in TableIds |-> None]
    /\ build = 0
    /\ pc = [r \in Refreshers |-> IF r = "startup" THEN "build" ELSE "wait"]
    /\ target = [r \in Refreshers |-> 0]
    /\ fetched = [r \in Refreshers |-> <<>>]
    /\ failures = 0

Init ==
    /\ game = 1
    /\ cancelled = FALSE
    /\ d = [t \in TableIds |-> None]
    /\ build = 0
    /\ pc = [r \in Refreshers |-> IF r = "startup" THEN "build" ELSE "off"]
    /\ target = [r \in Refreshers |-> 0]
    /\ fetched = [r \in Refreshers |-> <<>>]
    /\ failures = 0

Goto(r, label) == pc' = [pc EXCEPT ![r] = label]

Loaded == \A t \in TableIds : d[t] # None

-----------------------------------------------------------------------------
NewBuild ==
    /\ game < MaxBuild
    /\ game' = game + 1
    /\ UNCHANGED <<cancelled, cacheVars, refreshVars, failures>>

Cancel ==
    /\ ~cancelled
    /\ cancelled' = TRUE
    /\ UNCHANGED <<game, cacheVars, refreshVars, failures>>

-----------------------------------------------------------------------------
(* Refresh returns, with or without an error: main starts the loop once    *)
(* the startup refresh is over, and the loop goes back to its select.      *)
Return(r) ==
    pc' = IF r = "startup" THEN [startup |-> "off", loop |-> "wait"]
                           ELSE [pc EXCEPT ![r] = "wait"]

(* A cancelled context fails every call.                                   *)
Fails == \/ cancelled /\ UNCHANGED failures
         \/ ~cancelled /\ failures < MaxFailures /\ failures' = failures + 1

CallFails(r) ==
    /\ pc[r] = "build" \/ pc[r] = "tables"
    /\ Fails
    /\ Return(r)
    /\ UNCHANGED <<game, cancelled, cacheVars, target, fetched>>

(* Mutation of Unchanged: the build is not compared.                       *)
UnchangedIfLoaded == Loaded

(* The build comes first; tables of the recorded build are kept.           *)
Unchanged ==
    Loaded /\ build = game

ReadBuild(r) ==
    /\ pc[r] = "build"
    /\ ~cancelled
    /\ target' = [target EXCEPT ![r] = game]
    /\ fetched' = [fetched EXCEPT ![r] = <<>>]
    /\ IF Unchanged THEN Return(r) ELSE Goto(r, "tables")
    /\ UNCHANGED <<game, cancelled, cacheVars, failures>>

(* Mutation of FetchTable: a table that cannot be fetched stays empty.     *)
FetchTableOrNothing(r) ==
    /\ pc[r] = "tables"
    /\ ~cancelled
    /\ \E table \in {game, 0} : fetched' = [fetched EXCEPT ![r] = Append(@, table)]
    /\ IF Len(fetched[r]) + 1 = Len(Tables) THEN Goto(r, "publish")
                                            ELSE UNCHANGED pc
    /\ UNCHANGED <<game, cancelled, cacheVars, target, failures>>

FetchTable(r) ==
    /\ pc[r] = "tables"
    /\ ~cancelled
    /\ fetched' = [fetched EXCEPT ![r] = Append(@, game)]
    /\ IF Len(fetched[r]) + 1 = Len(Tables) THEN Goto(r, "publish")
                                            ELSE UNCHANGED pc
    /\ UNCHANGED <<game, cancelled, cacheVars, target, failures>>

(* The two stores at the end: the tables, then the build they answer to.   *)
Publish(r) ==
    /\ pc[r] = "publish"
    /\ d' = [t \in TableIds |-> fetched[r][t]]
    /\ Goto(r, "record")
    /\ UNCHANGED <<game, cancelled, build, target, fetched, failures>>

(* Mutation of Record: the build as it is now.                             *)
RecordNow(r) ==
    /\ pc[r] = "record"
    /\ build' = game
    /\ Return(r)
    /\ UNCHANGED <<game, cancelled, d, target, fetched, failures>>

Record(r) ==
    /\ pc[r] = "record"
    /\ build' = target[r]
    /\ Return(r)
    /\ UNCHANGED <<game, cancelled, d, target, fetched, failures>>

-----------------------------------------------------------------------------
(* The select of Start: the wait passes, or the context is done.           *)
WaitPasses ==
    /\ pc["loop"] = "wait"
    /\ Goto("loop", "build")
    /\ UNCHANGED <<game, cancelled, cacheVars, target, fetched, failures>>

SeeDone ==
    /\ pc["loop"] = "wait"
    /\ cancelled
    /\ Goto("loop", "off")
    /\ UNCHANGED <<game, cancelled, cacheVars, target, fetched, failures>>

Refresh(r) ==
    \/ ReadBuild(r)
    \/ FetchTable(r)
    \/ CallFails(r)
    \/ Publish(r)
    \/ Record(r)

(* After the loop has returned only the world moves.                       *)
Ended ==
    /\ cancelled
    /\ \A r \in Refreshers : pc[r] = "off"
    /\ UNCHANGED vars

Next ==
    \/ NewBuild
    \/ Cancel
    \/ \E r \in Refreshers : Refresh(r)
    \/ WaitPasses
    \/ SeeDone
    \/ Ended

Spec == Init /\ [][Next]_vars

-----------------------------------------------------------------------------
TypeOK ==
    /\ game \in Builds
    /\ cancelled \in BOOLEAN
    /\ d \in [TableIds -> Builds \union {None}]
    /\ build \in {0} \union Builds
    /\ pc \in [Refreshers ->
                 {"off", "wait", "build", "tables", "publish", "record"}]
    /\ target \in [Refreshers -> {0} \union Builds]
    /\ fetched \in [Refreshers -> Seq(Builds)]
    /\ failures \in 0..MaxFailures

(* Tables are never older than the build recorded for them, although the   *)
(* build may change under a refresh: the gate that keeps resident tables   *)
(* ("unchanged") never keeps stale ones (reference.go:109-111).            *)
RecordedBuildIsCovered ==
    build > 0 => \A t \in TableIds : d[t] # None /\ d[t] >= build

(* A published table is never replaced by an older one, or by none: the    *)
(* startup refresh and the loop do not overlap, and a failed refresh keeps *)
(* the good data (reference.go:101-103, main.go:82-87).                    *)
TablesNeverGoBack ==
    [][\A t \in TableIds :
          d[t] # None => d'[t] # None /\ d'[t] >= d[t]]_vars
=============================================================================
