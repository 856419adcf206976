---------------------------- MODULE LifecycleProofs ----------------------------
(***************************************************************************)
(* Proofs about ReferenceCache and Lifecycle, for any intervals,           *)
(* environments, tables, builds and failures.                              *)
(*                                                                         *)
(* First the cache alone.  Its inductive invariant: at most one refresh    *)
(* runs; the tables it has fetched are no older than the build it read     *)
(* first and than the tables they will replace; nothing is newer than the  *)
(* game.                                                                   *)
(*                                                                         *)
(* Then the process.  Its steps are steps of the cache or leave it alone,  *)
(* so what is proved of the cache holds in the process.  For the order of  *)
(* the releases the inductive invariant says which releases are deferred   *)
(* at each stage, and that what is open is what is deferred.               *)
(***************************************************************************)
EXTENDS Lifecycle, SequenceTheorems, TLAPS

Covers(t, b) == d[t] # None /\ d[t] >= b

RefreshOK(r) ==
    /\ pc[r] \in {"tables", "publish"} =>
          /\ target[r] \in Builds /\ target[r] <= game
          /\ \A t \in 1..Len(fetched[r]) :
                /\ target[r] <= fetched[r][t] /\ fetched[r][t] <= game
                /\ d[t] # None => d[t] <= fetched[r][t]
    /\ pc[r] = "tables" => Len(fetched[r]) < Len(Tables)
    /\ pc[r] = "publish" => Len(fetched[r]) = Len(Tables)
    /\ pc[r] = "record" =>
          target[r] \in Builds /\ \A t \in TableIds : Covers(t, target[r])

OneRefresh == pc["startup"] = "off" \/ pc["loop"] = "off"

NotAhead == \A t \in TableIds : d[t] # None => d[t] <= game

IInv ==
    /\ TypeOK
    /\ OneRefresh
    /\ NotAhead
    /\ RecordedBuildIsCovered
    /\ \A r \in Refreshers : RefreshOK(r)

-----------------------------------------------------------------------------
(* The initial states: nothing loaded, the startup refresh begins.         *)
LEMMA InitIInv == Init => IInv
<1> SUFFICES ASSUME Init PROVE IInv
  OBVIOUS
<1> USE ReferenceAssumption DEF Init
<1>1. TypeOK
  <2>1. cancelled \in BOOLEAN
    BY Zenon
  <2>2. fetched \in [Refreshers -> Seq(Builds)]
    OBVIOUS
  <2>3. pc \in [Refreshers -> {"off", "wait", "build", "tables", "publish", "record"}]
    OBVIOUS
  <2> QED BY <2>1, <2>2, <2>3 DEF TypeOK, Builds
<1>2. OneRefresh /\ NotAhead /\ RecordedBuildIsCovered
  BY DEF OneRefresh, NotAhead, RecordedBuildIsCovered, Refreshers
<1>3. \A r \in Refreshers : RefreshOK(r)
  BY DEF RefreshOK
<1> QED BY <1>1, <1>2, <1>3 DEF IInv

(* There is a table to fetch.                                              *)
LEMMA TableCount == Len(Tables) \in Nat \ {0}
<1>1. Len(Tables) \in Nat /\ Len(Tables) # 0
  BY ReferenceAssumption
<1> QED BY <1>1

(* A refresher that is not off is the only one.                            *)
LEMMA Alone ==
    ASSUME OneRefresh, NEW r \in Refreshers, NEW q \in Refreshers,
           pc[r] # "off", q # r
    PROVE  pc[q] = "off"
BY DEF OneRefresh, Refreshers

-----------------------------------------------------------------------------
(* Returning ends the refresh; only the loop can be busy afterwards.       *)
LEMMA ReturnKeeps ==
    ASSUME TypeOK, OneRefresh, NEW r \in Refreshers, pc[r] # "off", Return(r)
    PROVE  /\ pc' \in [Refreshers ->
                         {"off", "wait", "build", "tables", "publish", "record"}]
           /\ \A q \in Refreshers : pc'[q] \in {"off", "wait"}
           /\ OneRefresh'
<1>1. CASE r = "startup"
  <2>1. pc' = [startup |-> "off", loop |-> "wait"]
    BY <1>1 DEF Return
  <2> QED BY <2>1 DEF Refreshers, OneRefresh
<1>2. CASE r # "startup"
  <2>1. r = "loop" /\ pc' = [pc EXCEPT !["loop"] = "wait"] /\ pc["startup"] = "off"
    BY <1>2, Alone DEF Return, Refreshers
  <2> QED BY <2>1 DEF Refreshers, OneRefresh, TypeOK
<1> QED BY <1>1, <1>2

(* A label of a refresh that goes on.                                      *)
LEMMA GotoKeeps ==
    ASSUME TypeOK, OneRefresh, NEW r \in Refreshers, pc[r] # "off",
           NEW label \in {"off", "wait", "build", "tables", "publish", "record"},
           Goto(r, label)
    PROVE  /\ pc' \in [Refreshers ->
                         {"off", "wait", "build", "tables", "publish", "record"}]
           /\ pc'[r] = label
           /\ \A q \in Refreshers \ {r} : pc'[q] = "off"
           /\ OneRefresh'
BY Alone DEF Goto, TypeOK, OneRefresh, Refreshers

(* A step that ends a refresh, or begins one, leaving the data alone.      *)
LEMMA IdleStep ==
    ASSUME IInv, game' = game, UNCHANGED cacheVars, cancelled' \in BOOLEAN,
           pc' \in [Refreshers ->
                      {"off", "wait", "build", "tables", "publish", "record"}],
           \A q \in Refreshers : pc'[q] \in {"off", "wait", "build"},
           OneRefresh', failures' \in 0..MaxFailures,
           target' \in [Refreshers -> {0} \union Builds],
           fetched' \in [Refreshers -> Seq(Builds)]
    PROVE  IInv'
<1>1. TypeOK'
  BY DEF IInv, TypeOK, cacheVars
<1>2. NotAhead' /\ RecordedBuildIsCovered'
  BY DEF IInv, NotAhead, RecordedBuildIsCovered, cacheVars
<1>3. \A q \in Refreshers : RefreshOK(q)'
  BY DEF RefreshOK
<1> QED BY <1>1, <1>2, <1>3 DEF IInv

-----------------------------------------------------------------------------
(* A new build leaves everything behind the game.                          *)
LEMMA NewBuildIInv ==
    ASSUME IInv, NewBuild
    PROVE  IInv'
<1> USE ReferenceAssumption
<1>1. game' = game + 1 /\ game \in Builds /\ game' \in Builds
  BY DEF NewBuild, IInv, TypeOK, Builds
<1>2. UNCHANGED <<cancelled, cacheVars, refreshVars, failures>>
  BY DEF NewBuild
<1>3. TypeOK' /\ OneRefresh' /\ RecordedBuildIsCovered'
  BY <1>1, <1>2 DEF IInv, TypeOK, OneRefresh, RecordedBuildIsCovered,
                    cacheVars, refreshVars
<1>4. NotAhead'
  BY <1>1, <1>2 DEF IInv, TypeOK, NotAhead, cacheVars, Builds
<1>5. ASSUME NEW r \in Refreshers PROVE RefreshOK(r)'
  <2>1. \A t \in 1..Len(fetched[r]) : fetched[r][t] \in Builds
    BY DEF IInv, TypeOK
  <2> QED
    BY <1>1, <1>2, <2>1 DEF IInv, RefreshOK, Covers, cacheVars, refreshVars, Builds
<1> QED BY <1>3, <1>4, <1>5 DEF IInv

(* A cancellation only shows.                                              *)
LEMMA CancelIInv ==
    ASSUME IInv, Cancel
    PROVE  IInv'
<1>1. cancelled' \in BOOLEAN
  BY Zenon DEF Cancel
<1>2. UNCHANGED <<game, cacheVars, refreshVars, failures>>
  BY DEF Cancel
<1>3. TypeOK' /\ OneRefresh' /\ NotAhead' /\ RecordedBuildIsCovered'
  BY <1>1, <1>2 DEF IInv, TypeOK, OneRefresh, NotAhead, RecordedBuildIsCovered,
                    cacheVars, refreshVars
<1>4. \A r \in Refreshers : RefreshOK(r)'
  BY <1>2 DEF IInv, RefreshOK, Covers, cacheVars, refreshVars
<1> QED BY <1>3, <1>4 DEF IInv

(* The select of the loop.                                                 *)
LEMMA LoopIInv ==
    ASSUME IInv, WaitPasses \/ SeeDone
    PROVE  IInv'
<1>1. /\ UNCHANGED <<game, cancelled, cacheVars, target, fetched, failures>>
      /\ pc["loop"] = "wait"
  BY DEF WaitPasses, SeeDone
<1>2. PICK label \in {"build", "off"} : Goto("loop", label)
  BY DEF WaitPasses, SeeDone
<1>3. /\ pc' \in [Refreshers ->
                    {"off", "wait", "build", "tables", "publish", "record"}]
      /\ \A q \in Refreshers : pc'[q] \in {"off", "wait", "build"}
      /\ OneRefresh'
  <2>1. "loop" \in Refreshers
    BY DEF Refreshers
  <2> QED BY <1>1, <1>2, <2>1, GotoKeeps DEF IInv
<1> QED BY <1>1, <1>3, IdleStep DEF IInv, TypeOK

(* A call that fails ends the refresh.                                     *)
LEMMA CallFailsIInv ==
    ASSUME IInv, NEW r \in Refreshers, CallFails(r)
    PROVE  IInv'
<1>1. /\ UNCHANGED <<game, cancelled, cacheVars, target, fetched>>
      /\ pc[r] # "off" /\ Return(r)
  BY DEF CallFails
<1>2. failures' \in 0..MaxFailures
  BY ReferenceAssumption DEF CallFails, Fails, IInv, TypeOK
<1> QED BY <1>1, <1>2, ReturnKeeps, IdleStep DEF IInv, TypeOK

-----------------------------------------------------------------------------
(* The build is read before any table.                                     *)
LEMMA ReadBuildIInv ==
    ASSUME IInv, NEW r \in Refreshers, ReadBuild(r)
    PROVE  IInv'
<1>1. /\ UNCHANGED <<game, cancelled, cacheVars, failures>> /\ pc[r] # "off"
      /\ target' = [target EXCEPT ![r] = game]
      /\ fetched' = [fetched EXCEPT ![r] = <<>>]
      /\ Return(r) \/ Goto(r, "tables")
  BY DEF ReadBuild
<1>2. /\ target' \in [Refreshers -> {0} \union Builds]
      /\ fetched' \in [Refreshers -> Seq(Builds)]
      /\ target'[r] = game /\ game \in Builds /\ fetched'[r] = <<>>
  BY <1>1 DEF IInv, TypeOK
<1>3. CASE Return(r)
  BY <1>1, <1>2, <1>3, ReturnKeeps, IdleStep DEF IInv, TypeOK
<1>4. CASE Goto(r, "tables")
  <2>1. /\ pc' \in [Refreshers ->
                      {"off", "wait", "build", "tables", "publish", "record"}]
        /\ pc'[r] = "tables"
        /\ \A q \in Refreshers \ {r} : pc'[q] = "off"
        /\ OneRefresh'
    BY <1>1, <1>4, GotoKeeps DEF IInv
  <2>2. TypeOK' /\ NotAhead' /\ RecordedBuildIsCovered'
    BY <1>1, <1>2, <2>1
    DEF IInv, TypeOK, NotAhead, RecordedBuildIsCovered, cacheVars
  <2>3. ASSUME NEW q \in Refreshers PROVE RefreshOK(q)'
    <3>1. CASE q = r
      <4>1. Len(fetched'[r]) = 0 /\ 1..Len(fetched'[r]) = {}
        BY <1>2
      <4>2. target'[r] \in Builds /\ target'[r] <= game'
        BY <1>1, <1>2 DEF Builds
      <4> QED BY <2>1, <3>1, <4>1, <4>2, TableCount DEF RefreshOK
    <3>2. CASE q # r
      BY <2>1, <3>2 DEF RefreshOK
    <3> QED BY <3>1, <3>2
  <2> QED BY <2>1, <2>2, <2>3 DEF IInv
<1> QED BY <1>1, <1>3, <1>4

(* A table fetched now is as new as the game, and so no older than the     *)
(* build read first and than the resident table.                           *)
LEMMA FetchTableIInv ==
    ASSUME IInv, NEW r \in Refreshers, FetchTable(r)
    PROVE  IInv'
<1>1. /\ UNCHANGED <<game, cancelled, cacheVars, target, failures>>
      /\ pc[r] = "tables"
      /\ fetched' = [fetched EXCEPT ![r] = Append(@, game)]
      /\ IF Len(fetched[r]) + 1 = Len(Tables) THEN Goto(r, "publish")
                                              ELSE pc' = pc
  BY DEF FetchTable
<1>2. /\ fetched[r] \in Seq(Builds) /\ game \in Builds /\ RefreshOK(r)
      /\ fetched'[r] = Append(fetched[r], game)
      /\ fetched' \in [Refreshers -> Seq(Builds)]
  BY <1>1 DEF IInv, TypeOK
<1>3. /\ Len(fetched'[r]) = Len(fetched[r]) + 1
      /\ \A t \in 1..Len(fetched[r]) : fetched'[r][t] = fetched[r][t]
      /\ fetched'[r][Len(fetched[r]) + 1] = game
      /\ Len(fetched[r]) \in Nat
  BY <1>2
<1>4. /\ pc' \in [Refreshers ->
                    {"off", "wait", "build", "tables", "publish", "record"}]
      /\ pc'[r] = IF Len(fetched[r]) + 1 = Len(Tables) THEN "publish" ELSE "tables"
      /\ \A q \in Refreshers \ {r} : pc'[q] = "off"
      /\ OneRefresh'
  <2>1. CASE Len(fetched[r]) + 1 = Len(Tables)
    BY <1>1, <2>1, GotoKeeps DEF IInv
  <2>2. CASE Len(fetched[r]) + 1 # Len(Tables)
    BY <1>1, <2>2, Alone DEF IInv, TypeOK, OneRefresh
  <2> QED BY <2>1, <2>2
<1>5. TypeOK' /\ NotAhead' /\ RecordedBuildIsCovered'
  BY <1>1, <1>2, <1>4
  DEF IInv, TypeOK, NotAhead, RecordedBuildIsCovered, cacheVars
<1>6. RefreshOK(r)'
  <2>1. /\ target'[r] = target[r] /\ target[r] \in Builds /\ target[r] <= game
        /\ Len(fetched[r]) < Len(Tables)
    <3>1. /\ target[r] \in Builds /\ target[r] <= game
          /\ Len(fetched[r]) < Len(Tables)
      BY <1>1, <1>2 DEF RefreshOK
    <3> QED BY <1>1, <3>1
  <2>2. ASSUME NEW t \in 1..Len(fetched'[r])
        PROVE  /\ target[r] <= fetched'[r][t] /\ fetched'[r][t] <= game
               /\ d[t] # None => d[t] <= fetched'[r][t]
    <3>1. CASE t \in 1..Len(fetched[r])
      BY <1>1, <1>2, <1>3, <3>1 DEF RefreshOK
    <3>2. CASE t = Len(fetched[r]) + 1
      <4>1. t \in TableIds
        BY <1>3, <2>1, <3>2, TableCount DEF TableIds
      <4> QED BY <1>2, <1>3, <2>1, <3>2, <4>1 DEF IInv, NotAhead, Builds
    <3> QED BY <1>3, <3>1, <3>2
  <2> QED
    BY <1>1, <1>3, <1>4, <2>1, <2>2, TableCount DEF RefreshOK, cacheVars
<1>7. \A q \in Refreshers \ {r} : RefreshOK(q)'
  BY <1>4 DEF RefreshOK
<1> QED BY <1>4, <1>5, <1>6, <1>7 DEF IInv

-----------------------------------------------------------------------------
(* The tables that are published replace none that are newer.              *)
LEMMA PublishGoesForward ==
    ASSUME IInv, NEW r \in Refreshers, Publish(r), NEW t \in TableIds
    PROVE  /\ d'[t] = fetched[r][t] /\ d'[t] \in Builds /\ d'[t] <= game
           /\ target[r] \in Builds /\ target[r] <= d'[t]
           /\ d[t] # None => d[t] <= d'[t]
<1>1. pc[r] = "publish" /\ RefreshOK(r) /\ fetched[r] \in Seq(Builds)
  BY DEF Publish, IInv, TypeOK
<1>2. t \in 1..Len(fetched[r])
  BY <1>1 DEF RefreshOK, TableIds
<1>3. d'[t] = fetched[r][t] /\ fetched[r][t] \in Builds
  BY <1>1, <1>2 DEF Publish
<1> QED BY <1>1, <1>2, <1>3 DEF RefreshOK

(* The tables published are no older than those they replace.              *)
LEMMA PublishIInv ==
    ASSUME IInv, NEW r \in Refreshers, Publish(r)
    PROVE  IInv'
<1> USE ReferenceAssumption
<1>1. /\ UNCHANGED <<game, cancelled, build, target, fetched, failures>>
      /\ pc[r] = "publish" /\ Goto(r, "record")
      /\ d' = [t \in TableIds |-> fetched[r][t]]
  BY DEF Publish
<1>2. /\ pc' \in [Refreshers ->
                    {"off", "wait", "build", "tables", "publish", "record"}]
      /\ pc'[r] = "record"
      /\ \A q \in Refreshers \ {r} : pc'[q] = "off"
      /\ OneRefresh'
  BY <1>1, GotoKeeps DEF IInv
<1>3. \A t \in TableIds :
          /\ d'[t] \in Builds /\ d'[t] # None /\ d'[t] <= game
          /\ target[r] \in Builds /\ target[r] <= d'[t]
          /\ d[t] # None => d[t] <= d'[t]
  BY PublishGoesForward DEF Builds
<1>4. TypeOK' /\ NotAhead'
  BY <1>1, <1>2, <1>3 DEF IInv, TypeOK, NotAhead
<1>5. RecordedBuildIsCovered'
  <2> SUFFICES ASSUME build' > 0, NEW t \in TableIds
               PROVE  d'[t] # None /\ d'[t] >= build'
    BY DEF RecordedBuildIsCovered
  <2>1. d[t] # None /\ d[t] >= build
    BY <1>1 DEF IInv, RecordedBuildIsCovered
  <2>2. d[t] \in Builds /\ build \in 0..MaxBuild
    BY <2>1 DEF IInv, TypeOK, Builds
  <2> QED BY <1>1, <1>3, <2>1, <2>2 DEF Builds
<1>6. ASSUME NEW q \in Refreshers PROVE RefreshOK(q)'
  <2>1. CASE q = r
    <3>1. target[r] \in Builds
      BY <1>1 DEF IInv, RefreshOK
    <3> QED BY <1>1, <1>2, <1>3, <2>1, <3>1 DEF RefreshOK, Covers, Builds
  <2>2. CASE q # r
    BY <1>2, <2>2 DEF RefreshOK
  <2> QED BY <2>1, <2>2
<1> QED BY <1>2, <1>4, <1>5, <1>6 DEF IInv

(* The build that is recorded is the one read before the tables.           *)
LEMMA RecordIInv ==
    ASSUME IInv, NEW r \in Refreshers, Record(r)
    PROVE  IInv'
<1>1. /\ UNCHANGED <<game, cancelled, d, target, fetched, failures>>
      /\ pc[r] = "record" /\ build' = target[r] /\ Return(r)
  BY DEF Record
<1>2. /\ target[r] \in Builds
      /\ \A t \in TableIds : Covers(t, target[r])
  BY <1>1 DEF IInv, RefreshOK
<1>3. /\ pc' \in [Refreshers ->
                    {"off", "wait", "build", "tables", "publish", "record"}]
      /\ \A q \in Refreshers : pc'[q] \in {"off", "wait"}
      /\ OneRefresh'
  BY <1>1, ReturnKeeps DEF IInv
<1>4. TypeOK' /\ NotAhead' /\ RecordedBuildIsCovered'
  BY <1>1, <1>2, <1>3
  DEF IInv, TypeOK, NotAhead, RecordedBuildIsCovered, Covers
<1>5. \A q \in Refreshers : RefreshOK(q)'
  BY <1>3 DEF RefreshOK
<1> QED BY <1>3, <1>4, <1>5 DEF IInv

-----------------------------------------------------------------------------
(* IInv holds in every state, whatever the tables, builds and failures.    *)
LEMMA NextIInv ==
    ASSUME IInv, [Next]_vars
    PROVE  IInv'
<1>1. CASE NewBuild \/ Cancel
  BY <1>1, NewBuildIInv, CancelIInv
<1>2. CASE \E r \in Refreshers : Refresh(r)
  BY <1>2, CallFailsIInv, ReadBuildIInv, FetchTableIInv, PublishIInv, RecordIInv
  DEF Refresh
<1>3. CASE WaitPasses \/ SeeDone
  BY <1>3, LoopIInv
<1>4. CASE Ended \/ UNCHANGED vars
  <2>1. UNCHANGED vars
    BY <1>4 DEF Ended
  <2>2. TypeOK' /\ OneRefresh' /\ NotAhead' /\ RecordedBuildIsCovered'
    BY <2>1 DEF vars, cacheVars, refreshVars, IInv, TypeOK, OneRefresh, NotAhead,
                RecordedBuildIsCovered
  <2>3. \A r \in Refreshers : RefreshOK(r)'
    BY <2>1 DEF vars, cacheVars, refreshVars, IInv, RefreshOK, Covers
  <2> QED BY <2>2, <2>3 DEF IInv
<1> QED BY <1>1, <1>2, <1>3, <1>4 DEF Next

(* Every state is well typed, and satisfies the rest of the invariant.     *)
THEOREM Invariant == Spec => []IInv
BY InitIInv, NextIInv, PTL DEF Spec

(* Every state is well typed.                                              *)
THEOREM TypeCorrect == Spec => []TypeOK
<1>1. IInv => TypeOK
  BY DEF IInv
<1> QED BY Invariant, <1>1, PTL

(* The recorded build is never newer than a resident table, so a refresh   *)
(* that finds it unchanged keeps no stale table.                           *)
THEOREM RecordIsCovered == Spec => []RecordedBuildIsCovered
<1>1. IInv => RecordedBuildIsCovered
  BY DEF IInv
<1> QED BY Invariant, <1>1, PTL

(* No step replaces a published table by an older one, or by none.         *)
THEOREM TablesGoForward == Spec => TablesNeverGoBack
<1> DEFINE Forward == \A t \in TableIds :
                         d[t] # None => d'[t] # None /\ d'[t] >= d[t]
<1>1. IInv /\ [Next]_vars => [Forward]_vars
  <2> SUFFICES ASSUME IInv, Next PROVE Forward
    OBVIOUS
  <2>1. CASE d' = d
    BY <2>1 DEF IInv, TypeOK, Builds
  <2>2. CASE d' # d
    <3>1. PICK r \in Refreshers : Publish(r)
      BY <2>2 DEF Next, NewBuild, Cancel, Refresh, CallFails, ReadBuild, FetchTable,
                  Record, WaitPasses, SeeDone, Ended, cacheVars, vars
    <3>2. ASSUME NEW t \in TableIds, d[t] # None
          PROVE  d'[t] # None /\ d'[t] >= d[t]
      <4>1. d[t] <= d'[t] /\ d'[t] \in Builds /\ d[t] \in Builds
        BY <3>1, <3>2, PublishGoesForward DEF IInv, TypeOK
      <4> QED BY <4>1, ReferenceAssumption DEF Builds
    <3> QED BY <3>2
  <2> QED BY <2>1, <2>2
<1>2. [][Forward]_vars => TablesNeverGoBack
  BY PTL DEF TablesNeverGoBack
<1> QED BY Invariant, <1>1, <1>2, PTL DEF Spec

-----------------------------------------------------------------------------

(* What is deferred is a first part of what run opens, in the order of its *)
(* text, and what is open is what is deferred.                             *)
StackOK ==
    /\ deferred \in Seq(Resources)
    /\ Len(deferred) \in 0..4
    /\ Len(deferred) >= 1 => deferred[1] = "signals"
    /\ Len(deferred) >= 2 => deferred[2] = "telemetry"
    /\ Len(deferred) >= 3 => deferred[3] = "state"
    /\ Len(deferred) >= 4 => deferred[4] = "callback"

OpenOK ==
    /\ open \subseteq Resources
    /\ "signals" \in open <=> Len(deferred) >= 1
    /\ "telemetry" \in open <=> Len(deferred) >= 2
    /\ "state" \in open <=> Len(deferred) >= 3
    /\ "callback" \in open <=> Len(deferred) >= 4

(* How much is deferred when run stands at a stage.                        *)
StageOK ==
    /\ stage \in Stages
    /\ stage = "config" => Len(deferred) = 0
    /\ stage = "telemetry" => Len(deferred) = 1
    /\ stage \in {"client", "state"} => Len(deferred) = 2
    /\ stage \in {"refresh", "register"} => Len(deferred) = 3
    /\ stage \in {"start", "serve"} => Len(deferred) = 4
    /\ stage = "exited" => Len(deferred) = 0

LifeIInv ==
    /\ StackOK
    /\ OpenOK
    /\ StageOK
    /\ polling # {} => stage \in {"serve", "crashed"}

-----------------------------------------------------------------------------
(* Every step of the process is one of the cache, or none.                 *)
LEMMA LifeStepIsCacheStep == [LifeNext]_allVars => [Next]_vars
<1> SUFFICES ASSUME [LifeNext]_allVars PROVE [Next]_vars
  OBVIOUS
<1>1. CASE RunStep
  <2>1. CASE StartupRefresh
    BY <2>1 DEF StartupRefresh, Next, Refreshers
  <2>2. CASE ~StartupRefresh
    BY <1>1, <2>2 DEF RunStep, NoKey, FromEnv, SetupTelemetry, NewClient,
        OpenState, RegisterCallback, StartPollers, WaitForPollers, Release,
        Exit, At
  <2> QED BY <2>1, <2>2
<1>2. CASE SetupFails
  BY <1>2 DEF SetupFails
<1>3. CASE Signal
  BY <1>3 DEF Signal, Next
<1>4. CASE ReferenceLoop
  BY <1>4 DEF ReferenceLoop, Next, Refreshers
<1>5. CASE GameMovesOn
  BY <1>5 DEF GameMovesOn, Next
<1>6. CASE \E s \in Intervals : TickerPanics(s) \/ PollerReturns(s)
  BY <1>6 DEF TickerPanics, PollerReturns
<1>7. CASE Over \/ UNCHANGED allVars
  BY <1>7 DEF Over, allVars
<1> QED
  BY <1>1, <1>2, <1>3, <1>4, <1>5, <1>6, <1>7 DEF LifeNext

(* The process runs the cache as ReferenceCache has it: the life of the    *)
(* process takes nothing away from what is proved of the cache alone.      *)
THEOREM LifecycleRunsCache == LifeSpec => Spec
<1>1. LifeInit => Init
  BY DEF LifeInit
<1> QED
  BY <1>1, LifeStepIsCacheStep, PTL DEF LifeSpec, Spec

(* In the process, too, the tables are never older than the build recorded *)
(* for them (reference.go:109-111).                                        *)
THEOREM ProcessRecordIsCovered == LifeSpec => []RecordedBuildIsCovered
  BY LifecycleRunsCache, RecordIsCovered, PTL

-----------------------------------------------------------------------------
LEMMA LifeInitIInv == LifeInit => LifeIInv
  BY DEF LifeInit, LifeIInv, Stages, StackOK, OpenOK, StageOK

(* What Acquire opens is deferred on top.                                  *)
LEMMA AcquireKeepsStack ==
    ASSUME NEW what \in Resources,
           StackOK, OpenOK,
           Acquire(what),
           \/ Len(deferred) = 0 /\ what = "signals"
           \/ Len(deferred) = 1 /\ what = "telemetry"
           \/ Len(deferred) = 2 /\ what = "state"
           \/ Len(deferred) = 3 /\ what = "callback"
    PROVE  StackOK' /\ OpenOK' /\ Len(deferred') = Len(deferred) + 1
<1> DEFINE n == Len(deferred)
<1>1. deferred \in Seq(Resources) /\ n \in 0..3
  BY DEF StackOK
<1>2. /\ deferred' \in Seq(Resources)
      /\ Len(deferred') = n + 1
      /\ deferred'[n + 1] = what
      /\ \A i \in 1..n : deferred'[i] = deferred[i]
  BY <1>1 DEF Acquire
<1>3. StackOK'
  <2>1. /\ n + 1 >= 1 => deferred'[1] = "signals"
        /\ n + 1 >= 2 => deferred'[2] = "telemetry"
        /\ n + 1 >= 3 => deferred'[3] = "state"
        /\ n + 1 >= 4 => deferred'[4] = "callback"
    BY <1>1, <1>2 DEF StackOK
  <2> QED BY <1>1, <1>2, <2>1 DEF StackOK
<1>4. open' = open \union {what}
  BY DEF Acquire
<1>5. OpenOK'
  BY <1>1, <1>2, <1>4 DEF OpenOK, Resources
<1> QED
  BY <1>2, <1>3, <1>5

(* What Release closes is what was opened last.                            *)
LEMMA ReleaseKeepsStack ==
    ASSUME StackOK, OpenOK, Release PROVE StackOK' /\ OpenOK'
<1>1. PICK n \in 0..4 : n = Len(deferred)
  BY DEF StackOK
<1>2. PICK top : top = deferred[n]
  OBVIOUS
<1>3. deferred \in Seq(Resources) /\ n # 0
  BY <1>1 DEF StackOK, Release
<1>4. open' = open \ {top} /\ deferred' = SubSeq(deferred, 1, n - 1)
  BY <1>1, <1>2 DEF Release
<1>5. /\ deferred' \in Seq(Resources)
      /\ Len(deferred') = n - 1
      /\ \A i \in 1..(n - 1) : deferred'[i] = deferred[i]
  <2>1. n - 1 \in Int /\ 1 \in Int /\ (1 <= n - 1 \/ n - 1 = 0)
    BY <1>3
  <2>2. \A i \in 1..(n - 1) : deferred[i] \in Resources
    BY <1>1, <1>3
  <2>3. /\ deferred' \in Seq(Resources)
        /\ Len(deferred') = IF 1 <= n - 1 THEN n - 1 - 1 + 1 ELSE 0
        /\ \A i \in 1..(n - 1 - 1 + 1) : deferred'[i] = deferred[1 + i - 1]
    BY <1>4, <2>1, <2>2, SubSeqProperties
  <2> QED BY <2>1, <2>3
<1>6. StackOK'
  BY <1>1, <1>3, <1>5 DEF StackOK
<1>7. /\ n = 1 => top = "signals"
      /\ n = 2 => top = "telemetry"
      /\ n = 3 => top = "state"
      /\ n = 4 => top = "callback"
  <2>1. /\ n = 1 => deferred[1] = "signals"
        /\ n = 2 => deferred[2] = "telemetry"
        /\ n = 3 => deferred[3] = "state"
        /\ n = 4 => deferred[4] = "callback"
    BY <1>1 DEF StackOK
  <2> QED BY <1>2, <2>1
<1>8. OpenOK'
  <2>1. /\ open \subseteq Resources
        /\ "signals" \in open <=> n >= 1
        /\ "telemetry" \in open <=> n >= 2
        /\ "state" \in open <=> n >= 3
        /\ "callback" \in open <=> n >= 4
    BY <1>1 DEF OpenOK
  <2>2. n \in 1..4
    BY <1>3
  <2>3. /\ open' \subseteq Resources
        /\ "signals" \in open' <=> n - 1 >= 1
        /\ "telemetry" \in open' <=> n - 1 >= 2
        /\ "state" \in open' <=> n - 1 >= 3
        /\ "callback" \in open' <=> n - 1 >= 4
    BY <1>4, <1>7, <2>1, <2>2
  <2> QED BY <1>5, <2>3 DEF OpenOK
<1> QED
  BY <1>6, <1>8

(* The invariant is preserved, stage by stage.                             *)
LEMMA LifeNextIInv == LifeIInv /\ [LifeNext]_allVars => LifeIInv'
<1> SUFFICES ASSUME LifeIInv, [LifeNext]_allVars PROVE LifeIInv'
  OBVIOUS
<1> USE DEF LifeIInv
<1> DEFINE Same == UNCHANGED <<deferred, open>>
<1>0. Same => StackOK' /\ OpenOK'
  BY DEF StackOK, OpenOK
<1>1. CASE FromEnv \/ SetupTelemetry \/ OpenState \/ RegisterCallback
  <2>0. "signals" \in Resources /\ "telemetry" \in Resources
        /\ "state" \in Resources /\ "callback" \in Resources
    BY DEF Resources
  <2>1. CASE FromEnv
    <3>1. stage = "config" /\ stage' = "telemetry" /\ polling' = polling
          /\ Acquire("signals") /\ Len(deferred) = 0
      BY <2>1 DEF FromEnv, At, StageOK
    <3>2. StackOK' /\ OpenOK' /\ Len(deferred') = 1
      BY <2>0, <3>1, AcquireKeepsStack
    <3> QED BY <3>1, <3>2 DEF StageOK, Stages
  <2>2. CASE SetupTelemetry
    <3>1. stage = "telemetry" /\ stage' = "client" /\ polling' = polling
          /\ Acquire("telemetry") /\ Len(deferred) = 1
      BY <2>2 DEF SetupTelemetry, At, StageOK
    <3>2. StackOK' /\ OpenOK' /\ Len(deferred') = 2
      BY <2>0, <3>1, AcquireKeepsStack
    <3> QED BY <3>1, <3>2 DEF StageOK, Stages
  <2>3. CASE OpenState
    <3>1. stage = "state" /\ stage' = "refresh" /\ polling' = polling
          /\ Acquire("state") /\ Len(deferred) = 2
      BY <2>3 DEF OpenState, At, StageOK
    <3>2. StackOK' /\ OpenOK' /\ Len(deferred') = 3
      BY <2>0, <3>1, AcquireKeepsStack
    <3> QED BY <3>1, <3>2 DEF StageOK, Stages
  <2>4. CASE RegisterCallback
    <3>1. stage = "register" /\ stage' = "start" /\ polling' = polling
          /\ Acquire("callback") /\ Len(deferred) = 3
      BY <2>4 DEF RegisterCallback, At, StageOK
    <3>2. StackOK' /\ OpenOK' /\ Len(deferred') = 4
      BY <2>0, <3>1, AcquireKeepsStack
    <3> QED BY <3>1, <3>2 DEF StageOK, Stages
  <2> QED BY <1>1, <2>1, <2>2, <2>3, <2>4
<1>2. CASE NoKey \/ NewClient \/ SetupFails
  BY <1>0, <1>2 DEF NoKey, NewClient, SetupFails, At, StageOK, Stages
<1>3. CASE StartupRefresh
  BY <1>0, <1>3 DEF StartupRefresh, StageOK, Stages
<1>4. CASE StartPollers \/ WaitForPollers
  BY <1>0, <1>4 DEF StartPollers, WaitForPollers, StageOK, Stages
<1>5. CASE Release
  BY <1>5, ReleaseKeepsStack DEF Release, StageOK, Stages
<1>6. CASE Exit
  <2>1. Len(deferred) = 0
    BY <1>6 DEF Exit, StackOK
  <2> QED BY <1>0, <1>6, <2>1 DEF Exit, StageOK, Stages
<1>7. CASE Signal
  BY <1>0, <1>7 DEF Signal, Alive, StageOK, Stages
<1>8. CASE ReferenceLoop \/ GameMovesOn \/ Over \/ UNCHANGED allVars
  BY <1>0, <1>8 DEF ReferenceLoop, GameMovesOn, Over, allVars, lifeVars, StageOK
<1>9. CASE \E s \in Intervals : TickerPanics(s) \/ PollerReturns(s)
  BY <1>0, <1>9 DEF TickerPanics, PollerReturns, Alive, StageOK, Stages
<1> QED
  BY <1>1, <1>2, <1>3, <1>4, <1>5, <1>6, <1>7, <1>8, <1>9 DEF LifeNext, RunStep

(* Nothing is released under its users, whatever step of the set-up fails  *)
(* and whenever the stop is asked for (main.go:47-54, 76, 95, 104-107).    *)
THEOREM ReleasesAreOrdered == LifeSpec => []UsersComeFirst
<1>1. LifeIInv => UsersComeFirst
  <2> SUFFICES ASSUME LifeIInv, stage # "crashed" PROVE UsersComeFirst
    BY DEF UsersComeFirst
  <2>1. Len(deferred) \in 0..4
    BY DEF LifeIInv, StackOK
  <2>2. polling # {} => Len(deferred) = 4
    BY DEF LifeIInv, StageOK
  <2>3. stage = "exited" => open = {}
    BY DEF LifeIInv, StageOK, OpenOK, Resources
  <2> QED
    <3>1. polling # {} => {"telemetry", "state", "callback"} \subseteq open
      BY <2>2 DEF LifeIInv, OpenOK
    <3>2. /\ "callback" \in open => {"telemetry", "state"} \subseteq open
          /\ "state" \in open => {"telemetry"} \subseteq open
      BY <2>1 DEF LifeIInv, OpenOK
    <3> QED BY <2>3, <3>1, <3>2 DEF UsersComeFirst
<1> QED
  BY <1>1, LifeInitIInv, LifeNextIInv, PTL DEF LifeSpec

-----------------------------------------------------------------------------
(* The settings of the process and the pollers they start.                 *)
SettingsOK ==
    /\ raw \in Environment
    /\ config \in [Intervals -> {"none"} \union Parsable]
    /\ polling \subseteq Intervals

LEMMA LifeNextSettings == SettingsOK /\ [LifeNext]_allVars => SettingsOK'
<1> SUFFICES ASSUME SettingsOK, [LifeNext]_allVars PROVE SettingsOK'
  OBVIOUS
<1> USE DEF SettingsOK
<1>1. CASE FromEnv
  <2>1. \A s \in Intervals : raw[s] \in Unusable \union Parsable
    BY EnvironmentAssumption DEF Settings
  <2>2. \A s \in Intervals : EnvDuration(raw[s]) \in Parsable
    BY <2>1 DEF EnvDuration, Unusable, Parsable
  <2>3. UNCHANGED <<raw, polling>>
        /\ config' = [s \in Intervals |-> EnvDuration(raw[s])]
    BY <1>1 DEF FromEnv, At
  <2> QED BY <2>2, <2>3
<1>2. CASE RunStep /\ ~FromEnv
  BY <1>2 DEF RunStep, NoKey, SetupTelemetry, NewClient, OpenState,
      StartupRefresh, RegisterCallback, StartPollers, WaitForPollers, Release,
      Exit, At
<1>3. CASE ~RunStep
  BY <1>3 DEF LifeNext, SetupFails, Signal, ReferenceLoop, GameMovesOn,
      TickerPanics, PollerReturns, Over, allVars, lifeVars
<1> QED
  BY <1>1, <1>2, <1>3

(* Every state of the process is well typed: of its cache as of run.       *)
THEOREM LifecycleTypeCorrect == LifeSpec => []LifeTypeOK
<1>1. LifeInit => SettingsOK
  BY DEF LifeInit, SettingsOK
<1>2. LifeIInv /\ SettingsOK /\ TypeOK => LifeTypeOK
  BY DEF LifeIInv, SettingsOK, StackOK, OpenOK, StageOK, LifeTypeOK
<1>3. LifeSpec => []TypeOK
  BY LifecycleRunsCache, TypeCorrect, PTL
<1> QED
  BY <1>1, <1>2, <1>3, LifeInitIInv, LifeNextIInv, LifeNextSettings, PTL
  DEF LifeSpec

(* In the process, too, no step replaces a published table by an older     *)
(* one: the first refresh, which run waits for, and the loop do not        *)
(* overlap (reference.go:101-103, main.go:82-87).                          *)
THEOREM ProcessTablesGoForward == LifeSpec => TablesNeverGoBack
  BY LifecycleRunsCache, TablesGoForward, PTL
=============================================================================
