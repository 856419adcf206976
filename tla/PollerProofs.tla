------------------------------ MODULE PollerProofs ------------------------------
(***************************************************************************)
(* Proofs about Poller, for any families, plans, clock and failures.       *)
(*                                                                         *)
(* What depends on the order of the calls inside a poll function is proved *)
(* from the rules of PlanRules, which those theorems name as hypotheses.   *)
(* The second half of this module discharges them: the plans of PollPlans  *)
(* keep to the rules for every shape of the account, so the same promises  *)
(* hold of the polls of poller.go as they are written.                     *)
(***************************************************************************)
EXTENDS Poller, PollPlans, SequenceTheorems, NaturalsInduction,
        WellFoundedInduction, TLAPS

(* Only goroutines that run return, and main does not stop before them.    *)
StopOK ==
    /\ awake \subseteq Families
    /\ exited \subseteq awake
    /\ main = "stopped" => exited = awake

(* Nothing is of a time to come.                                           *)
ClockOK ==
    /\ \A f \in Families : begun[f] <= now
    /\ \A f \in Families : \A a \in got[f] : a.at <= now
    /\ \A k \in StoreKeys : \A a \in snapshot[k] : a.at <= now
    /\ \A e \in Endpoints : handed[e] <= now
    /\ \A k \in StoreKeys : lastSuccess[k] <= now

(* A poll under way has at most one answer for a handler, from a call that *)
(* it has behind it, and the handler has seen nothing later.               *)
Feeds(f, e) == \E n \in StepsOf(f) : Does(f, n, {"emit"}, e)

FeedsOK ==
    \A f \in Families, e \in Endpoints : pc[f] > 0 /\ Feeds(f, e) =>
        /\ \A a \in got[f] : a.of = e =>
              /\ handed[e] <= a.at
              /\ \E m \in StepsOf(f) : m < pc[f] /\ Does(f, m, Asking, e)
        /\ \A a, b \in got[f] : a.of = e /\ b.of = e => a = b

(* A poll under way has the answer of every call it cannot do without and  *)
(* has behind it.                                                          *)
GatheredOK ==
    \A f \in Families : \A m \in StepsOf(f) : m < pc[f] =>
        /\ PlanOf[f][m].op = "get" =>
              \E a \in got[f] : a.of = PlanOf[f][m].of /\ a.at >= begun[f]
        /\ PlanOf[f][m].op = "stored" =>
              \E a \in got[f] : a.of = PlanOf[f][m].of

(* A mark later than the last success is of the poll under way, past its   *)
(* setter.                                                                 *)
PastSetter(f) ==
    \E m \in StepsOf(f) : m < pc[f] /\ Does(f, m, {"set"}, OwnKey(f))

MarksOK ==
    \A f \in Families \ Late :
        OwnKey(f) \in StoreKeys /\ lastSuccess[OwnKey(f)] > lastOK[f]
            => PastSetter(f)

-----------------------------------------------------------------------------
(* What the plans are made of.                                             *)
LEMMA PlanLength ==
    ASSUME NEW f \in Families
    PROVE  /\ Len(PlanOf[f]) \in Nat
           /\ 0 <= Len(PlanOf[f]) + 1 /\ 1 <= Len(PlanOf[f]) + 1
<1>1. Len(PlanOf[f]) \in Nat
  BY PollerAssumption
<1> QED BY <1>1

LEMMA PlanFacts ==
    ASSUME NEW f \in Families, NEW n \in StepsOf(f)
    PROVE  /\ PlanOf[f][n] \in Steps
           /\ PlanOf[f][n].of \in Endpoints
           /\ PlanOf[f][n].op \in Setting => PlanOf[f][n].of \in StoreKeys
           /\ PlanOf[f][n].op = "stored" => PlanOf[f][n].of \in StoreKeys
<1>1. PlanOf[f][n] \in Steps
  BY DEF Steps
<1> QED
  BY <1>1, PollerAssumption DEF Endpoints, StoreKeys

(* A step of a poll: where it stands and what it is.                       *)
LEMMA AtStepFacts ==
    ASSUME TypeOK, NEW f \in Families, AtStep(f)
    PROVE  /\ pc[f] \in StepsOf(f) /\ pc[f] > 0 /\ pc[f] <= Len(PlanOf[f])
           /\ Step(f).of \in Endpoints
           /\ Step(f).op \in Setting => Step(f).of \in StoreKeys
           /\ Step(f).op = "stored" => Step(f).of \in StoreKeys
           /\ Answer(f) \in Answers
<1>1. pc[f] \in StepsOf(f) /\ Len(PlanOf[f]) \in Nat
  BY PollerAssumption DEF AtStep
<1>2. Step(f) = PlanOf[f][pc[f]]
  BY DEF Step
<1>3. now \in Times
  BY DEF TypeOK
<1> QED
  BY <1>1, <1>2, <1>3, PlanFacts DEF StepsOf, Answer, Answers

-----------------------------------------------------------------------------
LEMMA InitTypes == Init => TypeOK
<1> SUFFICES ASSUME Init PROVE TypeOK
  OBVIOUS
<1>1. 1 \in Times /\ 0 \in {0} \union Times
  BY PollerAssumption DEF Times
<1>2. \A f \in Families : 1 <= Len(PlanOf[f]) + 1
  BY PlanLength
<1>3. now \in Times /\ awake \in Slices /\ failures \in 0..MaxFailures
  BY <1>1, PollerAssumption DEF Init
<1>4. /\ pc \in [Families -> Nat]
      /\ \A f \in Families : pc[f] <= Len(PlanOf[f]) + 1
  BY <1>2 DEF Init
<1>5. /\ got \in [Families -> SUBSET Answers]
      /\ begun \in [Families -> Times]
      /\ cached \in [Families -> SUBSET Endpoints]
      /\ snapshot \in [StoreKeys -> SUBSET Answers]
      /\ snapBegun \in [StoreKeys -> Times]
      /\ lastSuccess \in [StoreKeys -> {0} \union Times]
      /\ lastOK \in [Families -> {0} \union Times]
      /\ handed \in [Endpoints -> {0} \union Times]
  BY <1>1 DEF Init
<1>6. /\ cancelled \in BOOLEAN /\ main \in {"running", "stopped"}
      /\ exited \subseteq Families
      /\ ticker \in [Families -> {"none", "empty", "full"}]
  BY DEF Init
<1> QED
  BY <1>3, <1>4, <1>5, <1>6 DEF TypeOK

(* The poll's program counter moves inside its plan.                       *)
LEMMA MovesTypes ==
    ASSUME TypeOK, NEW f \in Families,
           \/ AtStep(f) /\ NextStep(f)
           \/ Leave(f)
    PROVE  /\ pc' \in [Families -> Nat]
           /\ \A g \in Families : pc'[g] <= Len(PlanOf[g]) + 1
           /\ ticker' \in [Families -> {"none", "empty", "full"}]
<1> USE DEF TypeOK
<1>1. CASE AtStep(f) /\ NextStep(f)
  <2>1. pc[f] \in Nat /\ pc[f] <= Len(PlanOf[f]) /\ Len(PlanOf[f]) \in Nat
    BY <1>1, AtStepFacts, PollerAssumption
  <2> QED BY <1>1, <2>1 DEF NextStep
<1>2. CASE Leave(f)
  <2>1. 0 <= Len(PlanOf[f]) + 1
    BY PlanLength
  <2> QED BY <1>2, <2>1 DEF Leave
<1> QED BY <1>1, <1>2

LEMMA PollStepTypes ==
    ASSUME TypeOK, NEW f \in Families, PollStep(f)
    PROVE  TypeOK'
<1> USE DEF TypeOK
<1>0. now \in {0} \union Times /\ now \in Times
  OBVIOUS
<1>1. CASE CallOK(f)
  <2>1. Answer(f) \in Answers /\ Step(f).of \in Endpoints
    BY <1>1, AtStepFacts DEF CallOK
  <2>2. got' \in [Families -> SUBSET Answers]
    BY <1>1, <2>1 DEF CallOK
  <2>3. cached' \in [Families -> SUBSET Endpoints]
    BY <1>1, <2>1 DEF CallOK
  <2> QED
    BY <1>1, <2>2, <2>3, MovesTypes DEF CallOK, mainVars, storeVars
<1>2. CASE CallFails(f) \/ SoftCallFails(f)
  <2>1. failures' \in 0..MaxFailures
    BY <1>2, PollerAssumption DEF CallFails, SoftCallFails, Fails
  <2> QED
    BY <1>2, <2>1, MovesTypes DEF CallFails, SoftCallFails, mainVars, storeVars
<1>3. CASE UseStored(f)
  <2>1. snapshot[Step(f).of] \in SUBSET Answers
    BY <1>3, AtStepFacts DEF UseStored, IsStored
  <2>2. got' \in [Families -> SUBSET Answers]
    BY <1>3, <2>1 DEF UseStored
  <2> QED
    BY <1>3, <2>2, MovesTypes DEF UseStored, mainVars, storeVars
<1>4. CASE SkipCall(f) \/ GoOn(f)
  BY <1>4, MovesTypes DEF SkipCall, GoOn, mainVars, storeVars
<1>5. CASE ReturnEarly(f) \/ Finish(f)
  BY <1>0, <1>5, MovesTypes DEF ReturnEarly, Finish, mainVars, storeVars
<1>6. CASE SetSnapshot(f)
  <2>1. Step(f).of \in StoreKeys
    BY <1>6, AtStepFacts DEF SetSnapshot
  <2>2. /\ snapshot' \in [StoreKeys -> SUBSET Answers]
        /\ snapBegun' \in [StoreKeys -> Times]
        /\ lastSuccess' \in [StoreKeys -> {0} \union Times]
    BY <1>0, <1>6, <2>1 DEF SetSnapshot
  <2> QED
    BY <1>6, <2>2, MovesTypes DEF SetSnapshot, mainVars
<1>7. CASE CallEmitter(f)
  <2> DEFINE given == {a \in got[f] : a.of = Step(f).of}
             at == (CHOOSE a \in given : TRUE).at
  <2>1. given # {} => at \in Times
    BY DEF Answers
  <2>2. handed' = IF given = {} THEN handed
                  ELSE [handed EXCEPT ![Step(f).of] = at]
    BY <1>7 DEF CallEmitter
  <2>3. handed' \in [Endpoints -> {0} \union Times]
    <3> HIDE DEF at
    <3> QED BY <2>1, <2>2
  <2> QED
    BY <1>7, <2>3, MovesTypes DEF CallEmitter, mainVars, storeVars
<1> QED
  BY <1>1, <1>2, <1>3, <1>4, <1>5, <1>6, <1>7 DEF PollStep

LEMMA NextTypes == TypeOK /\ [Next]_vars => TypeOK'
<1> SUFFICES ASSUME TypeOK, [Next]_vars PROVE TypeOK'
  OBVIOUS
<1> USE DEF TypeOK
<1>1. CASE Advance
  <2>1. now' \in Times
    BY <1>1, PollerAssumption DEF Advance, Times
  <2> QED BY <1>1, <2>1 DEF Advance, loopVars, storeVars
<1>2. CASE Cancel \/ WaitReturns
  BY <1>2 DEF Cancel, WaitReturns, loopVars, storeVars
<1>3. ASSUME NEW f \in Families, Tick(f) \/ StartPoll(f) \/ SeeDone(f)
      PROVE  TypeOK'
  <2>1. 1 <= Len(PlanOf[f]) + 1
    BY PlanLength
  <2>2. CASE Tick(f) \/ SeeDone(f)
    BY <2>2 DEF Tick, SeeDone, InSelect, mainVars, storeVars
  <2>3. CASE StartPoll(f)
    BY <2>1, <2>3 DEF StartPoll, mainVars, storeVars
  <2> QED
    BY <1>3, <2>2, <2>3
<1>4. ASSUME NEW f \in Families, PollStep(f) PROVE TypeOK'
  BY <1>4, PollStepTypes
<1>5. CASE Ended \/ UNCHANGED vars
  BY <1>5 DEF Ended, vars, mainVars, loopVars, storeVars
<1> QED
  BY <1>1, <1>2, <1>3, <1>4, <1>5 DEF Next

(* Every state is well typed: polls stand inside their plans, and the      *)
(* store holds answers under the keys the setters have.                    *)
THEOREM TypeCorrect == Spec => []TypeOK
  BY InitTypes, NextTypes, PTL DEF Spec

-----------------------------------------------------------------------------
(* The shutdown.                                                           *)
LEMMA NextStop == TypeOK /\ StopOK /\ [Next]_vars => StopOK'
<1> SUFFICES ASSUME TypeOK, StopOK, [Next]_vars PROVE StopOK'
  OBVIOUS
<1> USE DEF StopOK
<1>1. CASE Advance \/ Cancel \/ WaitReturns
  BY <1>1 DEF Advance, Cancel, WaitReturns, loopVars
<1>2. ASSUME NEW f \in Families, Tick(f) \/ StartPoll(f) \/ PollStep(f)
      PROVE  UNCHANGED <<awake, exited, main>>
  BY <1>2 DEF Tick, StartPoll, PollStep, CallOK, CallFails, SoftCallFails,
      UseStored, SkipCall, ReturnEarly, GoOn, SetSnapshot, CallEmitter, Finish,
      mainVars
<1>3. ASSUME NEW f \in Families, SeeDone(f) PROVE StopOK'
  BY <1>3 DEF SeeDone, InSelect, mainVars
<1>4. CASE Ended \/ UNCHANGED vars
  BY <1>4 DEF Ended, vars, mainVars, loopVars
<1> QED
  BY <1>1, <1>2, <1>3, <1>4 DEF Next

LEMMA InitStop == Init => StopOK
  BY PollerAssumption DEF Init, StopOK

(* Once main's Wait has returned no goroutine stores or emits anything,    *)
(* however many polls were under way when the stop was asked for, so the   *)
(* state file can be closed (main.go:104-106, poller.go:745-746).          *)
THEOREM WaitIsTheEnd == Spec => NothingAfterWait
<1> DEFINE Quiet == main = "stopped" => UNCHANGED <<storeVars, handed>>
<1>1. StopOK /\ [Next]_vars => [Quiet]_vars
  <2> SUFFICES ASSUME StopOK, Next, main = "stopped"
               PROVE  UNCHANGED <<storeVars, handed>>
    OBVIOUS
  <2>1. \A f \in Families : ~AtStep(f)
    BY DEF StopOK, AtStep
  <2>2. ASSUME NEW f \in Families, PollStep(f)
        PROVE  UNCHANGED <<storeVars, handed>>
    BY <2>1, <2>2 DEF PollStep, CallOK, CallFails, SoftCallFails, UseStored,
       SkipCall, ReturnEarly, GoOn, SetSnapshot, CallEmitter, Finish
  <2>3. ASSUME NEW f \in Families, Tick(f) \/ StartPoll(f) \/ SeeDone(f)
        PROVE  UNCHANGED <<storeVars, handed>>
    BY <2>3 DEF Tick, StartPoll, SeeDone
  <2> QED
    BY <2>2, <2>3 DEF Next, Advance, Cancel, WaitReturns, Ended, vars
<1>2. [][Quiet]_vars => NothingAfterWait
  BY PTL DEF NothingAfterWait
<1> QED
  BY <1>1, <1>2, InitStop, NextStop, InitTypes, NextTypes, PTL DEF Spec

-----------------------------------------------------------------------------
(* The clock.                                                              *)
LEMMA InitClock == Init => ClockOK
<1> SUFFICES ASSUME Init PROVE ClockOK
  OBVIOUS
<1>1. /\ now = 1
      /\ \A f \in Families : begun[f] = 1 /\ got[f] = {}
      /\ \A k \in StoreKeys : snapshot[k] = {} /\ lastSuccess[k] = 0
      /\ \A e \in Endpoints : handed[e] = 0
  BY DEF Init
<1> QED
  BY <1>1 DEF ClockOK

(* What a poll has so far: its own, and what it just got.                  *)
LEMMA PollStepGot ==
    ASSUME TypeOK, NEW f \in Families, PollStep(f)
    PROVE  /\ UNCHANGED <<now, begun>>
           /\ \A g \in Families : g # f => got'[g] = got[g]
           /\ got[f] \subseteq got'[f]
           /\ \A a \in got'[f] :
                 \/ a \in got[f]
                 \/ a = Answer(f)
                 \/ /\ Step(f).op = "stored" /\ a.of = Step(f).of
                    /\ Step(f).of \in StoreKeys /\ a \in snapshot[Step(f).of]
<1> USE DEF TypeOK
<1>1. CASE CallOK(f)
  BY <1>1 DEF CallOK, mainVars
<1>2. CASE UseStored(f)
  <2>1. Step(f).op = "stored" /\ Step(f).of \in StoreKeys
    BY <1>2, AtStepFacts DEF UseStored, IsStored
  <2> QED BY <1>2, <2>1 DEF UseStored, mainVars
<1>3. CASE ~CallOK(f) /\ ~UseStored(f)
  BY <1>3 DEF PollStep, CallFails, SoftCallFails, SkipCall, ReturnEarly, GoOn,
              SetSnapshot, CallEmitter, Finish, mainVars
<1> QED
  BY <1>1, <1>2, <1>3

LEMMA NextClock == TypeOK /\ ClockOK /\ [Next]_vars => ClockOK'
<1> SUFFICES ASSUME TypeOK, ClockOK, [Next]_vars PROVE ClockOK'
  OBVIOUS
<1>0. /\ now \in Nat
      /\ \A f \in Families : begun[f] \in Nat /\ got[f] \subseteq Answers
      /\ \A k \in StoreKeys : snapshot[k] \subseteq Answers
                             /\ lastSuccess[k] \in Nat
      /\ \A e \in Endpoints : handed[e] \in Nat
      /\ \A a \in Answers : a.at \in Nat
  BY DEF TypeOK, Times, Answers
<1>1. CASE Advance
  <2>1. now' = now + 1 /\ UNCHANGED <<begun, got, snapshot, lastSuccess, handed>>
    BY <1>1 DEF Advance, loopVars, storeVars
  <2>2. \A t \in Nat : t <= now => t <= now'
    BY <1>0, <2>1
  <2> QED BY <1>0, <2>1, <2>2 DEF ClockOK
<1>2. CASE Cancel \/ WaitReturns
  BY <1>2 DEF Cancel, WaitReturns, loopVars, storeVars, ClockOK
<1>3. ASSUME NEW f \in Families, Tick(f) \/ SeeDone(f)
      PROVE  ClockOK'
  BY <1>3 DEF Tick, SeeDone, mainVars, storeVars, ClockOK
<1>4. ASSUME NEW f \in Families, StartPoll(f)
      PROVE  ClockOK'
  <2>1. /\ UNCHANGED <<now, snapshot, lastSuccess, handed>>
        /\ \A g \in Families : /\ begun'[g] = begun[g] \/ begun'[g] = now
                               /\ got'[g] = got[g] \/ got'[g] = {}
    BY <1>4 DEF StartPoll, mainVars, storeVars, TypeOK
  <2> QED BY <1>0, <2>1 DEF ClockOK
<1>5. ASSUME NEW f \in Families, PollStep(f)
      PROVE  ClockOK'
  <2>1. UNCHANGED <<now, begun>>
    BY <1>5, PollStepGot
  <2>2. \A g \in Families : \A a \in got'[g] : a.at <= now
    <3>1. \A a \in got'[f] : a.at <= now
      <4>1. Answer(f).at = now
        BY DEF Answer
      <4> QED BY <1>0, <1>5, <4>1, PollStepGot DEF ClockOK
    <3> QED BY <1>5, <3>1, PollStepGot DEF ClockOK
  <2>3. /\ \A k \in StoreKeys : \A a \in snapshot'[k] : a.at <= now
        /\ \A k \in StoreKeys : lastSuccess'[k] <= now
    <3>1. CASE SetSnapshot(f)
      <4>1. \A k \in StoreKeys :
              /\ snapshot'[k] = snapshot[k] \/ snapshot'[k] = got[f]
              /\ lastSuccess'[k] = lastSuccess[k] \/ lastSuccess'[k] = now
        BY <3>1 DEF SetSnapshot, TypeOK
      <4> QED BY <1>0, <4>1 DEF ClockOK
    <3>2. CASE ~SetSnapshot(f)
      <4>1. UNCHANGED <<snapshot, lastSuccess>>
        BY <1>5, <3>2 DEF PollStep, CallOK, CallFails, SoftCallFails, UseStored,
           SkipCall, ReturnEarly, GoOn, CallEmitter, Finish, storeVars
      <4> QED BY <4>1 DEF ClockOK
    <3> QED BY <3>1, <3>2
  <2>4. \A e \in Endpoints : handed'[e] <= now
    <3>1. CASE CallEmitter(f)
      <4> DEFINE given == {a \in got[f] : a.of = Step(f).of}
                 chosen == CHOOSE a \in given : TRUE
      <4>1. given # {} => chosen.at <= now
        BY DEF ClockOK
      <4>2. handed' = IF given = {} THEN handed
                      ELSE [handed EXCEPT ![Step(f).of] = chosen.at]
        BY <3>1 DEF CallEmitter
      <4>3. handed \in [Endpoints -> {0} \union Times]
        BY DEF TypeOK
      <4> HIDE DEF chosen, given
      <4> QED BY <4>1, <4>2, <4>3 DEF ClockOK
    <3>2. CASE ~CallEmitter(f)
      <4>1. UNCHANGED handed
        BY <1>5, <3>2 DEF PollStep, CallOK, CallFails, SoftCallFails, UseStored,
           SkipCall, ReturnEarly, GoOn, SetSnapshot, Finish
      <4> QED BY <4>1 DEF ClockOK
    <3> QED BY <3>1, <3>2
  <2>5. \A g \in Families : begun'[g] <= now
    BY <2>1 DEF ClockOK
  <2> QED BY <2>1, <2>2, <2>3, <2>4, <2>5 DEF ClockOK
<1>6. CASE Ended \/ UNCHANGED vars
  BY <1>6 DEF Ended, vars, mainVars, loopVars, storeVars, ClockOK
<1> QED
  BY <1>1, <1>2, <1>3, <1>4, <1>5, <1>6 DEF Next

-----------------------------------------------------------------------------
(* Where a step takes its poll, and what it leaves of the others.          *)
LEMMA PollStepMoves ==
    ASSUME TypeOK, NEW f \in Families, PollStep(f)
    PROVE  /\ \A g \in Families : g # f => pc'[g] = pc[g]
           /\ \/ pc'[f] = 0
              \/ AtStep(f) /\ pc'[f] = pc[f] + 1
<1> USE DEF TypeOK
<1>1. CASE Leave(f)
  BY <1>1 DEF Leave
<1>2. CASE AtStep(f) /\ NextStep(f)
  BY <1>2 DEF NextStep
<1> QED
  BY <1>1, <1>2 DEF PollStep, CallOK, CallFails, SoftCallFails, UseStored,
     SkipCall, ReturnEarly, GoOn, SetSnapshot, CallEmitter, Finish

(* The steps of Next that are not a step of a poll leave every poll as it  *)
(* is, or begin a new one.                                                 *)
LEMMA OtherStep ==
    ASSUME TypeOK, [Next]_vars, \A f \in Families : ~PollStep(f)
    PROVE  /\ UNCHANGED <<snapshot, snapBegun, lastSuccess, lastOK, handed>>
           /\ \A f \in Families :
                 \/ pc'[f] = pc[f] /\ got'[f] = got[f] /\ begun'[f] = begun[f]
                 \/ pc'[f] = 1 /\ got'[f] = {} /\ pc[f] = 0
<1>1. CASE Advance \/ Cancel \/ WaitReturns \/ Ended \/ UNCHANGED vars
  BY <1>1 DEF Advance, Cancel, WaitReturns, Ended, vars, mainVars, loopVars,
              storeVars
<1>2. ASSUME NEW f \in Families, Tick(f) \/ SeeDone(f)
      PROVE  UNCHANGED <<pc, got, begun, storeVars, lastOK, handed>>
  BY <1>2 DEF Tick, SeeDone
<1>3. ASSUME NEW f \in Families, StartPoll(f)
      PROVE  /\ UNCHANGED <<storeVars, lastOK, handed>>
             /\ pc[f] = 0
             /\ pc' = [pc EXCEPT ![f] = 1]
             /\ got' = [got EXCEPT ![f] = {}]
             /\ begun' = [begun EXCEPT ![f] = now]
  BY <1>3 DEF StartPoll, InSelect
<1> QED
  BY <1>1, <1>2, <1>3 DEF Next, storeVars, TypeOK

(* One goroutine feeds a handler, from one call.                           *)
LEMMA FeederFacts ==
    ASSUME OneFeeder, NEW f \in Families, NEW e, Feeds(f, e)
    PROVE  /\ \A g \in Families \ {f} : ~Feeds(g, e)
           /\ \A m \in StepsOf(f) : ~Does(f, m, {"stored"}, e)
           /\ \A m, o \in StepsOf(f) :
                 Does(f, m, Asking, e) /\ Does(f, o, Asking, e) => m = o
<1>1. PICK n \in StepsOf(f) : PlanOf[f][n].op = "emit" /\ PlanOf[f][n].of = e
  BY DEF Feeds, Does
<1> QED
  BY <1>1 DEF OneFeeder, FeedsAlone, Feeds

LEMMA InitFeeds == Init => FeedsOK
  BY DEF Init, FeedsOK

(* A step of a poll gives a handler nothing older than it had.             *)
LEMMA EmitForward ==
    ASSUME TypeOK, FeedsOK, NEW f \in Families, CallEmitter(f),
           NEW e \in Endpoints
    PROVE  /\ handed'[e] >= handed[e]
           /\ ~Feeds(f, e) => handed'[e] = handed[e]
           /\ \A a \in got[f] : a.of = e /\ handed[e] <= a.at
                                    /\ (\A b \in got[f] : b.of = e => a = b)
                  => handed'[e] <= a.at
<1> DEFINE given == {a \in got[f] : a.of = Step(f).of}
           chosen == CHOOSE a \in given : TRUE
<1>1. handed' = IF given = {} THEN handed
                ELSE [handed EXCEPT ![Step(f).of] = chosen.at]
  BY DEF CallEmitter
<1>2. handed \in [Endpoints -> {0} \union Times]
  BY DEF TypeOK
<1>3. pc[f] > 0 /\ Step(f).of \in Endpoints /\ Feeds(f, Step(f).of)
  <2>1. AtStep(f) /\ Step(f).op = "emit"
    BY DEF CallEmitter
  <2>2. pc[f] \in StepsOf(f) /\ pc[f] > 0 /\ Step(f).of \in Endpoints
    BY <2>1, AtStepFacts
  <2> QED BY <2>1, <2>2 DEF Feeds, Does, Step
<1>4. given # {} => chosen \in given
  OBVIOUS
<1>5. given # {} => chosen.at >= handed[Step(f).of]
  <2>1. given # {} => chosen \in got[f] /\ chosen.of = Step(f).of
    BY <1>4
  <2>2. chosen \in got[f] => chosen.at \in Nat
    BY DEF TypeOK, Answers, Times
  <2>3. handed[Step(f).of] \in Nat
    BY <1>2, <1>3 DEF Times
  <2>4. given # {} => handed[Step(f).of] <= chosen.at
    BY <1>3, <2>1 DEF FeedsOK
  <2> HIDE DEF given, chosen
  <2> QED BY <2>1, <2>2, <2>3, <2>4
<1>6. handed[e] \in Nat /\ handed[e] >= handed[e]
  BY <1>2 DEF Times
<1>7. CASE given # {} /\ e = Step(f).of
  <2>1. handed'[e] = chosen.at
    <3> HIDE DEF given, chosen
    <3> QED BY <1>1, <1>2, <1>7
  <2>2. ASSUME NEW a \in got[f], a.of = e, handed[e] <= a.at,
               \A b \in got[f] : b.of = e => a = b
        PROVE  handed'[e] <= a.at
    <3>1. chosen = a
      BY <1>4, <1>7, <2>2
    <3>2. a.at \in Nat
      BY DEF TypeOK, Answers, Times
    <3> HIDE DEF chosen
    <3> QED BY <2>1, <3>1, <3>2
  <2> HIDE DEF given, chosen
  <2> QED BY <1>3, <1>5, <1>7, <2>1, <2>2
<1>8. CASE given = {} \/ e # Step(f).of
  <2>1. handed'[e] = handed[e]
    <3> HIDE DEF given, chosen
    <3> QED BY <1>1, <1>2, <1>8
  <2> QED BY <1>6, <2>1
<1> QED
  BY <1>7, <1>8

LEMMA NextFeeds ==
    ASSUME OneFeeder
    PROVE  TypeOK /\ ClockOK /\ FeedsOK /\ [Next]_vars => FeedsOK'
<1> SUFFICES ASSUME TypeOK, ClockOK, FeedsOK, [Next]_vars PROVE FeedsOK'
  OBVIOUS
<1>1. CASE \A f \in Families : ~PollStep(f)
  <2> SUFFICES ASSUME NEW f \in Families, NEW e \in Endpoints,
                      pc'[f] > 0, Feeds(f, e)
               PROVE  /\ \A a \in got'[f] : a.of = e =>
                            /\ handed'[e] <= a.at
                            /\ \E m \in StepsOf(f) :
                                  m < pc'[f] /\ Does(f, m, Asking, e)
                      /\ \A a, b \in got'[f] : a.of = e /\ b.of = e => a = b
    BY DEF FeedsOK
  <2>1. handed' = handed
    BY <1>1, OtherStep
  <2>2. \/ pc'[f] = pc[f] /\ got'[f] = got[f]
        \/ got'[f] = {}
    BY <1>1, OtherStep
  <2> QED BY <2>1, <2>2 DEF FeedsOK
<1>2. ASSUME NEW f \in Families, PollStep(f)
      PROVE  FeedsOK'
  <2>1. ASSUME NEW g \in Families, NEW e \in Endpoints, pc'[g] > 0, Feeds(g, e),
               g # f
        PROVE  /\ pc'[g] = pc[g] /\ got'[g] = got[g]
               /\ handed'[e] = handed[e]
    <3>1. pc'[g] = pc[g] /\ got'[g] = got[g]
      BY <1>2, <2>1, PollStepMoves, PollStepGot
    <3>2. ~Feeds(f, e)
      BY <2>1, FeederFacts
    <3>3. CASE CallEmitter(f)
      BY <3>1, <3>2, <3>3, EmitForward
    <3>4. CASE ~CallEmitter(f)
      BY <1>2, <3>1, <3>4 DEF PollStep, CallOK, CallFails, SoftCallFails,
         UseStored, SkipCall, ReturnEarly, GoOn, SetSnapshot, Finish
    <3> QED BY <3>1, <3>3, <3>4
  <2>2. ASSUME NEW e \in Endpoints, pc'[f] > 0, Feeds(f, e)
        PROVE  /\ \A a \in got'[f] : a.of = e =>
                     /\ handed'[e] <= a.at
                     /\ \E m \in StepsOf(f) : m < pc'[f] /\ Does(f, m, Asking, e)
               /\ \A a, b \in got'[f] : a.of = e /\ b.of = e => a = b
    <3>1. /\ AtStep(f) /\ pc'[f] = pc[f] + 1
          /\ pc[f] \in StepsOf(f) /\ pc[f] > 0 /\ pc[f] \in Nat
      BY <1>2, <2>2, PollStepMoves, AtStepFacts DEF TypeOK
    <3>2. \A m \in StepsOf(f) : m < pc[f] => m < pc'[f]
      BY <3>1 DEF StepsOf
    <3>3. CASE CallEmitter(f)
      <4>1. got' = got
        BY <3>3 DEF CallEmitter
      <4>2. \A a, b \in got[f] : a.of = e /\ b.of = e => a = b
        BY <2>2, <3>1 DEF FeedsOK
      <4>3. \A a \in got[f] : a.of = e => handed'[e] <= a.at
        BY <2>2, <3>1, <3>3, <4>2, EmitForward DEF FeedsOK
      <4> QED BY <2>2, <3>1, <3>2, <4>1, <4>2, <4>3 DEF FeedsOK
    <3>4. CASE ~CallEmitter(f)
      <4>1. handed' = handed
        BY <1>2, <3>4 DEF PollStep, CallOK, CallFails, SoftCallFails,
           UseStored, SkipCall, ReturnEarly, GoOn, SetSnapshot, Finish
      <4>2. CASE CallOK(f) /\ Step(f).of = e
        <5>1. Does(f, pc[f], Asking, e)
          BY <4>2 DEF CallOK, Asks, Does, Step
        <5>2. \A a \in got[f] : a.of # e
          <6> SUFFICES ASSUME NEW a \in got[f], a.of = e PROVE FALSE
            OBVIOUS
          <6>1. PICK m \in StepsOf(f) : m < pc[f] /\ Does(f, m, Asking, e)
            BY <2>2, <3>1 DEF FeedsOK
          <6>2. m = pc[f]
            BY <2>2, <3>1, <5>1, <6>1, FeederFacts
          <6> QED BY <3>1, <6>1, <6>2
        <5>3. \A a \in got'[f] : a.of = e => a = Answer(f)
          BY <4>2, <5>2 DEF CallOK, TypeOK
        <5>4. handed[e] <= Answer(f).at
          BY DEF ClockOK, Answer
        <5> QED BY <3>1, <4>1, <5>1, <5>3, <5>4
      <4>3. CASE ~CallOK(f) \/ Step(f).of # e
        <5>1. \A a \in got'[f] : a.of = e => a \in got[f]
          <6>1. CASE CallOK(f)
            BY <4>3, <6>1 DEF CallOK, TypeOK, Answer
          <6>2. CASE UseStored(f)
            <7>1. Does(f, pc[f], {"stored"}, Step(f).of)
              BY <6>2 DEF UseStored, IsStored, Does, Step
            <7>2. Step(f).of # e
              BY <2>2, <3>1, <7>1, FeederFacts
            <7> QED BY <6>2, <7>2 DEF UseStored, TypeOK
          <6>3. CASE ~CallOK(f) /\ ~UseStored(f)
            BY <1>2, <6>3 DEF PollStep, CallFails, SoftCallFails, SkipCall,
               ReturnEarly, GoOn, SetSnapshot, CallEmitter, Finish
          <6> QED BY <6>1, <6>2, <6>3
        <5> QED BY <2>2, <3>1, <3>2, <4>1, <5>1 DEF FeedsOK
      <4> QED BY <4>2, <4>3
    <3> QED BY <3>3, <3>4
  <2>3. \A g \in Families, e \in Endpoints : pc'[g] > 0 /\ Feeds(g, e) =>
           /\ \A a \in got'[g] : a.of = e =>
                 /\ handed'[e] <= a.at
                 /\ \E m \in StepsOf(g) : m < pc'[g] /\ Does(g, m, Asking, e)
           /\ \A a, b \in got'[g] : a.of = e /\ b.of = e => a = b
    <3> SUFFICES ASSUME NEW g \in Families, NEW e \in Endpoints,
                        pc'[g] > 0, Feeds(g, e)
                 PROVE  /\ \A a \in got'[g] : a.of = e =>
                              /\ handed'[e] <= a.at
                              /\ \E m \in StepsOf(g) :
                                    m < pc'[g] /\ Does(g, m, Asking, e)
                        /\ \A a, b \in got'[g] :
                              a.of = e /\ b.of = e => a = b
      OBVIOUS
    <3>1. CASE g = f
      BY <2>2, <3>1
    <3>2. CASE g # f
      BY <2>1, <3>2 DEF FeedsOK
    <3> QED BY <3>1, <3>2
  <2> QED BY <2>3 DEF FeedsOK
<1> QED
  BY <1>1, <1>2

(* No handler is ever given an answer older than the one before, however   *)
(* the polls interleave, fail and overtake one another: what diffUp        *)
(* compares is in the order of the game.                                   *)
THEOREM HandlersNeverSeePast ==
    ASSUME OneFeeder
    PROVE  Spec => HandlersSeeTimeForward
<1> DEFINE Forward == \A e \in Endpoints : handed'[e] >= handed[e]
<1>1. TypeOK /\ FeedsOK /\ [Next]_vars => [Forward]_vars
  <2> SUFFICES ASSUME TypeOK, FeedsOK, [Next]_vars, NEW e \in Endpoints
               PROVE  handed'[e] >= handed[e]
    OBVIOUS
  <2>1. handed[e] \in Nat
    BY DEF TypeOK, Times
  <2>2. CASE \E f \in Families : CallEmitter(f)
    BY <2>2, EmitForward
  <2>3. CASE ~\E f \in Families : CallEmitter(f)
    <3>1. UNCHANGED handed
      <4>1. ASSUME NEW f \in Families, PollStep(f), ~CallEmitter(f)
            PROVE  UNCHANGED handed
        BY <4>1 DEF PollStep, CallOK, CallFails, SoftCallFails,
           UseStored, SkipCall, ReturnEarly, GoOn, SetSnapshot, Finish
      <4> QED BY <2>3, <4>1, OtherStep
    <3> QED BY <2>1, <3>1
  <2> QED BY <2>2, <2>3
<1>2. [][Forward]_vars => HandlersSeeTimeForward
  BY PTL DEF HandlersSeeTimeForward
<1> QED
  BY <1>1, <1>2, InitTypes, NextTypes, InitClock, NextClock, InitFeeds,
     NextFeeds, PTL DEF Spec

-----------------------------------------------------------------------------
(* A poll does not get past a call it cannot do without but by its answer. *)
LEMMA GetsPast ==
    ASSUME TypeOK, NEW f \in Families, PollStep(f), pc'[f] = pc[f] + 1
    PROVE  /\ Step(f).op = "get" => CallOK(f)
           /\ Step(f).op = "stored" => CallOK(f) \/ UseStored(f)
<1>1. ~Leave(f)
  <2>1. pc[f] \in Nat /\ pc[f] + 1 # 0
    BY DEF TypeOK
  <2> QED BY <2>1 DEF Leave, TypeOK
<1>2. ~CallFails(f) /\ ~ReturnEarly(f) /\ ~Finish(f)
  BY <1>1 DEF CallFails, ReturnEarly, Finish
<1>3. Step(f).op \in {"get", "stored"} =>
         ~SoftCallFails(f) /\ ~SkipCall(f) /\ ~GoOn(f) /\ ~SetSnapshot(f)
         /\ ~CallEmitter(f)
  BY DEF SoftCallFails, SkipCall, IsCached, GoOn, SetSnapshot, CallEmitter, Setting
<1>4. Step(f).op = "get" => ~UseStored(f)
  BY DEF UseStored, IsStored
<1> QED
  BY <1>2, <1>3, <1>4 DEF PollStep

LEMMA InitWhole == Init => GatheredOK /\ SnapshotIsWhole
<1> SUFFICES ASSUME Init PROVE GatheredOK /\ SnapshotIsWhole
  OBVIOUS
<1>1. \A f \in Families : \A m \in StepsOf(f) : ~(m < pc[f])
  BY PlanLength DEF Init, StepsOf
<1>2. \A k \in StoreKeys : snapshot[k] = {}
  BY DEF Init
<1> QED BY <1>1, <1>2 DEF GatheredOK, SnapshotIsWhole

LEMMA NextGathered ==
    ASSUME StoredIsNeeded
    PROVE  TypeOK /\ ClockOK /\ GatheredOK /\ SnapshotIsWhole /\ [Next]_vars
              => GatheredOK'
<1> SUFFICES ASSUME TypeOK, ClockOK, GatheredOK, SnapshotIsWhole, [Next]_vars,
                    NEW f \in Families, NEW m \in StepsOf(f), m < pc'[f]
             PROVE  /\ PlanOf[f][m].op = "get" => \E a \in got'[f] :
                          a.of = PlanOf[f][m].of /\ a.at >= begun'[f]
                    /\ PlanOf[f][m].op = "stored" => \E a \in got'[f] :
                          a.of = PlanOf[f][m].of
  BY DEF GatheredOK
<1>0. m \in Nat /\ m >= 1
  BY PlanLength DEF StepsOf
<1>1. CASE \A g \in Families : ~PollStep(g)
  <2>1. \/ pc'[f] = pc[f] /\ got'[f] = got[f] /\ begun'[f] = begun[f]
        \/ pc'[f] = 1
    BY <1>1, OtherStep
  <2> QED BY <1>0, <2>1 DEF GatheredOK
<1>2. ASSUME NEW g \in Families, PollStep(g), g # f
      PROVE  pc'[f] = pc[f] /\ got'[f] = got[f] /\ begun'[f] = begun[f]
  BY <1>2, PollStepMoves, PollStepGot
<1>3. CASE PollStep(f)
  <2>1. AtStep(f) /\ pc'[f] = pc[f] + 1 /\ pc[f] \in Nat
    BY <1>0, <1>3, PollStepMoves DEF TypeOK
  <2>2. begun' = begun /\ got[f] \subseteq got'[f]
    BY <1>3, PollStepGot
  <2>3. CASE m < pc[f]
    BY <2>2, <2>3 DEF GatheredOK
  <2>4. CASE m = pc[f]
    <3>1. PlanOf[f][m] = Step(f)
      BY <2>4 DEF Step
    <3>2. CASE CallOK(f)
      <4>1. Answer(f) \in got'[f]
        BY <3>2 DEF CallOK, TypeOK
      <4>2. Answer(f).of = Step(f).of /\ Answer(f).at = now
        BY DEF Answer
      <4>3. now >= begun[f]
        BY DEF ClockOK, TypeOK, Times
      <4> QED BY <2>2, <3>1, <4>1, <4>2, <4>3
    <3>3. CASE UseStored(f) /\ Step(f).op = "stored"
      <4>1. Step(f).of \in StoreKeys /\ snapshot[Step(f).of] # {}
        BY <2>1, <3>3, AtStepFacts DEF UseStored, IsStored
      <4>2. Step(f).of \in NeedsOf[Step(f).of[1]]
        BY <3>1, <3>3 DEF StoredIsNeeded, TakesNeeded
      <4>3. \E a \in snapshot[Step(f).of] : a.of = Step(f).of
        BY <4>1, <4>2 DEF SnapshotIsWhole
      <4> QED BY <3>1, <3>3, <4>3 DEF UseStored, TypeOK
    <3> QED BY <1>3, <2>1, <3>1, <3>2, <3>3, GetsPast
  <2> QED BY <1>0, <2>1, <2>3, <2>4
<1> QED
  BY <1>1, <1>2, <1>3 DEF GatheredOK

LEMMA NextWhole ==
    ASSUME WholeWhenSet
    PROVE  TypeOK /\ GatheredOK /\ SnapshotIsWhole /\ [Next]_vars
              => SnapshotIsWhole'
<1> SUFFICES ASSUME TypeOK, GatheredOK, SnapshotIsWhole, [Next]_vars
             PROVE  SnapshotIsWhole'
  OBVIOUS
<1>1. ASSUME NEW f \in Families, SetSnapshot(f)
      PROVE  SnapshotIsWhole'
  <2> DEFINE n == pc[f]
             k == Step(f).of
  <2>1. AtStep(f) /\ PlanOf[f][n] = Step(f) /\ Step(f).op \in Setting
    BY <1>1 DEF SetSnapshot, Step
  <2>2. k \in StoreKeys /\ n \in StepsOf(f) /\ n \in Nat /\ n <= Len(PlanOf[f])
    BY <2>1, AtStepFacts DEF TypeOK
  <2>3. /\ snapshot' = [snapshot EXCEPT ![k] = got[f]]
        /\ snapBegun' = [snapBegun EXCEPT ![k] = begun[f]]
    BY <1>1 DEF SetSnapshot
  <2>4. /\ snapshot'[k] = got[f] /\ snapBegun'[k] = begun[f]
        /\ \A q \in StoreKeys : q # k => /\ snapshot'[q] = snapshot[q]
                                        /\ snapBegun'[q] = snapBegun[q]
    BY <2>2, <2>3 DEF TypeOK
  <2>5. ASSUME NEW e \in NeedsOf[k[1]]
        PROVE  \E a \in got[f] : /\ a.of = e
                                 /\ a.at >= begun[f] \/ SharedWith(f, e)
    <3>1. PICK m \in 1..(n - 1) : Does(f, m, {"get", "stored"}, e)
      BY <2>1, <2>2 DEF WholeWhenSet, SetsWhole
    <3>2. m \in StepsOf(f) /\ m < pc[f]
      BY <2>2, PlanLength DEF StepsOf
    <3>3. CASE PlanOf[f][m].op = "get"
      BY <3>1, <3>2, <3>3 DEF GatheredOK, Does
    <3>4. CASE PlanOf[f][m].op = "stored"
      <4>1. SharedWith(f, e)
        BY <3>1, <3>2, <3>4 DEF SharedWith, Does
      <4> QED BY <3>1, <3>2, <3>4, <4>1 DEF GatheredOK, Does
    <3> QED BY <3>1, <3>3, <3>4 DEF Does
  <2> HIDE DEF k
  <2> QED BY <2>2, <2>4, <2>5 DEF SnapshotIsWhole
<1>2. ASSUME NEW f \in Families, PollStep(f), ~SetSnapshot(f)
      PROVE  UNCHANGED <<snapshot, snapBegun>>
  BY <1>2 DEF PollStep, CallOK, CallFails, SoftCallFails, UseStored,
     SkipCall, ReturnEarly, GoOn, CallEmitter, Finish, storeVars
<1>3. CASE UNCHANGED <<snapshot, snapBegun>>
  BY <1>3 DEF SnapshotIsWhole
<1> QED
  BY <1>1, <1>2, <1>3, OtherStep

(* No snapshot is ever half of one poll and half of another, wherever      *)
(* polls fail, stop or interleave: the last good one stays until a poll    *)
(* has everything the next one is made of.                                 *)
THEOREM StoredIsWhole ==
    ASSUME WholeWhenSet, StoredIsNeeded
    PROVE  Spec => []SnapshotIsWhole
  BY InitTypes, NextTypes, InitClock, NextClock, InitWhole, NextGathered,
     NextWhole, PTL DEF Spec

-----------------------------------------------------------------------------
LEMMA InitMarks == Init => MarksOK
<1> SUFFICES ASSUME Init, NEW f \in Families, OwnKey(f) \in StoreKeys
             PROVE  ~(lastSuccess[OwnKey(f)] > lastOK[f])
  BY DEF MarksOK
<1>1. lastSuccess[OwnKey(f)] = 0 /\ lastOK[f] = 0
  BY DEF Init
<1> QED BY <1>1

(* A poll that goes on stays past its setter.                              *)
LEMMA StaysPast ==
    ASSUME TypeOK, NEW f \in Families, PastSetter(f),
           pc'[f] = pc[f] \/ pc'[f] = pc[f] + 1
    PROVE  PastSetter(f)'
<1>1. PICK m \in StepsOf(f) : m < pc[f] /\ Does(f, m, {"set"}, OwnKey(f))
  BY DEF PastSetter
<1>2. m \in Nat /\ pc[f] \in Nat
  BY PlanLength DEF StepsOf, TypeOK
<1>3. m < pc'[f]
  BY <1>1, <1>2
<1> QED BY <1>1, <1>3 DEF PastSetter

LEMMA NextMarks ==
    ASSUME MarkedLast
    PROVE  TypeOK /\ ClockOK /\ MarksOK /\ [Next]_vars => MarksOK'
<1> SUFFICES ASSUME TypeOK, ClockOK, MarksOK, [Next]_vars,
                    NEW f \in Families \ Late, OwnKey(f) \in StoreKeys,
                    lastSuccess'[OwnKey(f)] > lastOK'[f]
             PROVE  PastSetter(f)'
  BY DEF MarksOK
<1> DEFINE k == OwnKey(f)
<1>0. /\ \A t \in {0} \union Times : t \in Nat
      /\ lastSuccess[k] \in Nat /\ lastOK[f] \in Nat /\ now \in Nat
      /\ lastSuccess[k] <= now /\ pc[f] \in Nat
  BY DEF TypeOK, Times, ClockOK
<1>1. CASE \A g \in Families : ~PollStep(g)
  <2>1. UNCHANGED <<lastSuccess, lastOK>>
    BY <1>1, OtherStep
  <2>2. PastSetter(f)
    BY <2>1 DEF MarksOK
  <2>3. pc[f] # 0
    BY <2>2, PlanLength DEF PastSetter, StepsOf
  <2>4. pc'[f] = pc[f]
    BY <1>1, <2>3, OtherStep
  <2> QED BY <2>2, <2>4, StaysPast
<1>2. ASSUME NEW g \in Families, PollStep(g)
      PROVE  PastSetter(f)'
  <2>0. AtStep(g) \/ Finish(g)
    BY <1>2 DEF PollStep, CallOK, CallFails, SoftCallFails, UseStored,
       SkipCall, ReturnEarly, GoOn, SetSnapshot, CallEmitter
  <2>1. CASE SetSnapshot(g) /\ Step(g).op = "set" /\ Step(g).of = k
    <3>1. AtStep(g) /\ pc[g] \in StepsOf(g) /\ pc[g] \in Nat
          /\ Does(g, pc[g], {"set"}, k)
      BY <2>1, AtStepFacts DEF SetSnapshot, Does, Step, TypeOK
    <3>2. g = f
      BY <3>1 DEF MarkedLast, MarksLast
    <3>3. pc'[f] = pc[f] + 1
      BY <2>1, <3>2 DEF SetSnapshot, NextStep, TypeOK
    <3>4. pc[f] < pc'[f]
      BY <1>0, <3>3
    <3> QED BY <3>1, <3>2, <3>4 DEF PastSetter
  <2>2. CASE ~(SetSnapshot(g) /\ Step(g).op = "set" /\ Step(g).of = k)
    <3>1. lastSuccess'[k] = lastSuccess[k]
      <4>1. CASE SetSnapshot(g)
        BY <2>2, <4>1 DEF SetSnapshot, TypeOK
      <4>2. CASE ~SetSnapshot(g)
        BY <1>2, <4>2 DEF PollStep, CallOK, CallFails, SoftCallFails, UseStored,
           SkipCall, ReturnEarly, GoOn, CallEmitter, Finish, storeVars
      <4> QED BY <4>1, <4>2
    <3>2. ~(g = f /\ (Finish(g) \/ ReturnEarly(g)))
      <4> SUFFICES ASSUME g = f, Finish(g) \/ ReturnEarly(g) PROVE FALSE
        OBVIOUS
      <4>1. lastOK'[f] = now
        BY DEF Finish, ReturnEarly, TypeOK
      <4> QED BY <1>0, <3>1, <4>1
    <3>3. lastOK'[f] = lastOK[f]
      <4>1. CASE Finish(g) \/ ReturnEarly(g)
        BY <3>2, <4>1 DEF Finish, ReturnEarly, TypeOK
      <4>2. CASE ~(Finish(g) \/ ReturnEarly(g))
        BY <1>2, <4>2 DEF PollStep, CallOK, CallFails, SoftCallFails, UseStored,
           SkipCall, GoOn, SetSnapshot, CallEmitter
      <4> QED BY <4>1, <4>2
    <3>4. PastSetter(f)
      BY <3>1, <3>3 DEF MarksOK
    <3>5. ~(g = f /\ CallFails(g))
      <4> SUFFICES ASSUME g = f, CallFails(g) PROVE FALSE
        OBVIOUS
      <4>1. pc[f] \in StepsOf(f) /\ PlanOf[f][pc[f]].op \in Fatal
        BY AtStepFacts DEF CallFails, Asks, Asking, Step
      <4>2. PICK m \in StepsOf(f) : m < pc[f] /\ Does(f, m, {"set"}, k)
        BY <3>4 DEF PastSetter
      <4>3. m \in Nat /\ pc[f] > m
        BY <1>0, <4>2, PlanLength DEF StepsOf
      <4> QED BY <4>1, <4>2, <4>3 DEF MarkedLast, MarksLast
    <3>6. pc'[f] = pc[f] \/ pc'[f] = pc[f] + 1
      <4>1. CASE g # f
        BY <1>2, <4>1, PollStepMoves
      <4>2. CASE g = f
        BY <1>2, <3>2, <3>5, <4>2 DEF PollStep, CallOK, SoftCallFails, UseStored,
           SkipCall, GoOn, SetSnapshot, CallEmitter, NextStep, TypeOK
      <4> QED BY <4>1, <4>2
    <3> QED BY <3>4, <3>6, StaysPast
  <2> QED BY <2>1, <2>2
<1> QED
  BY <1>1, <1>2

(* No family has a timestamp later than its last successful poll, save     *)
(* those that set their key before their last call (store.go:460,          *)
(* metrics.go:518): a poll that fails leaves no mark.                      *)
THEOREM MarksAreSuccesses ==
    ASSUME MarkedLast
    PROVE  Spec => []MarkedOnlyBySuccess
<1>1. TypeOK /\ MarksOK => MarkedOnlyBySuccess
  <2> SUFFICES ASSUME TypeOK, MarksOK, NEW f \in Families \ Late,
                      pc[f] = 0, OwnKey(f) \in StoreKeys
               PROVE  lastSuccess[OwnKey(f)] <= lastOK[f]
    BY DEF MarkedOnlyBySuccess, Honest
  <2>1. ~PastSetter(f)
    BY PlanLength DEF PastSetter, StepsOf
  <2>2. lastSuccess[OwnKey(f)] \in Nat /\ lastOK[f] \in Nat
    BY DEF TypeOK, Times
  <2>3. ~(lastSuccess[OwnKey(f)] > lastOK[f])
    BY <2>1 DEF MarksOK
  <2> QED BY <2>2, <2>3
<1> QED
  BY <1>1, InitTypes, NextTypes, InitClock, NextClock, InitMarks, NextMarks,
     PTL DEF Spec

-----------------------------------------------------------------------------
(* The steps of the plans.  A loop of PollPlans is FlattenSeq of its turns;*)
(* it is defined by a recursive function, which exists because a smallest  *)
(* number of turns without one would have one.                             *)
LEMMA LeastOf ==
    ASSUME NEW B \in SUBSET Nat, B # {}
    PROVE  \E n \in B : \A m \in Nat : m < n => m \notin B
<1>1. IsWellFoundedOn(OpToRel(<, Nat), Nat)
  BY Zenon, NatLessThanWellFounded
<1>2. PICK n \in B : \A m \in B : <<m, n>> \notin OpToRel(<, Nat)
  BY Zenon, <1>1, WFMin
<1>3. ASSUME NEW m \in Nat, m < n, m \in B PROVE FALSE
  <2>1. <<m, n>> \in OpToRel(<, Nat)
    BY Zenon, <1>2, <1>3 DEF OpToRel
  <2> QED BY <1>2, <1>3, <2>1
<1> QED BY <1>2, <1>3

(* FlattenSeq by its recursive function.                                   *)
Joined(s, i, g) == IF i = 1 THEN s[i] ELSE g[i - 1] \o s[i]
IsFlatten(s, k, g) == g = [i \in 1..k |-> Joined(s, i, g)]
Flatten(s) == CHOOSE g : IsFlatten(s, Len(s), g)

(* FlattenSeq is the last entry of the function that joins the first       *)
(* entries.                                                                *)
LEMMA FlattenSeqIs ==
    ASSUME NEW s
    PROVE  FlattenSeq(s) = IF Len(s) = 0 THEN s ELSE Flatten(s)[Len(s)]
  BY DEF FlattenSeq, Flatten, IsFlatten, Joined

(* Each entry joins on one more sequence of the sequences given.           *)
LEMMA JoinType ==
    ASSUME NEW S, NEW s \in Seq(Seq(S)), NEW i \in 1..Len(s), NEW g,
           i # 1 => g[i - 1] \in Seq(S)
    PROVE  Joined(s, i, g) \in Seq(S)
<1>1. s[i] \in Seq(S)
  BY ElementOfSeq
<1>2. CASE i = 1
  BY <1>1, <1>2 DEF Joined
<1>3. CASE i # 1
  BY <1>1, <1>3, ConcatProperties DEF Joined
<1> QED BY <1>2, <1>3

(* The function exists: a least k without one for the first k entries      *)
(* would follow on one for k - 1, extended by one entry.                   *)
LEMMA FlattenExists ==
    ASSUME NEW S, NEW s \in Seq(Seq(S))
    PROVE  \E g \in [1..Len(s) -> Seq(S)] : IsFlatten(s, Len(s), g)
<1> DEFINE Has(k) == \E g \in [1..k -> Seq(S)] : IsFlatten(s, k, g)
           B == {k \in 0..Len(s) : ~Has(k)}
<1>0. Len(s) \in Nat
  BY LenProperties
<1> SUFFICES ASSUME B # {} PROVE FALSE
  BY <1>0
<1>1. PICK k \in B : \A m \in Nat : m < k => m \notin B
  <2>1. B \in SUBSET Nat
    BY <1>0
  <2> HIDE DEF B
  <2> QED BY <2>1, LeastOf
<1>2. k \in Nat /\ k <= Len(s) /\ ~Has(k)
  BY <1>0, <1>1
<1>3. CASE k = 0
  <2>1. 1..0 = {}
    OBVIOUS
  <2>2. [i \in 1..0 |-> Joined(s, i, <<>>)] \in [1..0 -> Seq(S)]
    BY <2>1
  <2> DEFINE g == [i \in 1..0 |-> Joined(s, i, <<>>)]
  <2>3. g = [i \in 1..0 |-> Joined(s, i, g)]
    BY <2>1
  <2> HIDE DEF g
  <2>4. IsFlatten(s, 0, g)
    BY <2>3 DEF IsFlatten
  <2> QED BY <1>2, <1>3, <2>2, <2>4 DEF g
<1>4. CASE k # 0
  <2>1. k - 1 \in Nat /\ k - 1 < k /\ k - 1 \in 0..Len(s) /\ k \in 1..Len(s)
    BY <1>0, <1>2, <1>4
  <2>2. Has(k - 1)
    BY <1>1, <2>1
  <2>3. PICK g \in [1..(k - 1) -> Seq(S)] : IsFlatten(s, k - 1, g)
    BY <2>2
  <2> DEFINE h == [i \in 1..k |-> Joined(s, i, g)]
  <2>4. ASSUME NEW i \in 1..k PROVE i # 1 => i - 1 \in 1..(k - 1)
    BY <2>1
  <2>5. ASSUME NEW i \in 1..k PROVE h[i] \in Seq(S)
    <3>1. i \in 1..Len(s)
      BY <1>0, <2>1
    <3>2. i # 1 => g[i - 1] \in Seq(S)
      BY <2>3, <2>4
    <3> QED BY <3>1, <3>2, JoinType
  <2>6. ASSUME NEW i \in 1..(k - 1) PROVE h[i] = g[i]
    <3> DEFINE G == [j \in 1..(k - 1) |-> Joined(s, j, g)]
    <3>1. g = G
      BY <2>3 DEF IsFlatten
    <3>2. G[i] = Joined(s, i, g) /\ i \in 1..k
      BY <2>1
    <3> HIDE DEF G
    <3> QED BY <3>1, <3>2
  <2>7. ASSUME NEW i \in 1..k PROVE h[i] = Joined(s, i, h)
    <3>1. i # 1 => h[i - 1] = g[i - 1]
      BY <2>4, <2>6
    <3>2. h[i] = Joined(s, i, g)
      OBVIOUS
    <3> HIDE DEF h
    <3> QED BY <3>1, <3>2 DEF Joined
  <2>8. h \in [1..k -> Seq(S)]
    BY <2>5
  <2>9. h = [i \in 1..k |-> Joined(s, i, h)]
    <3> HIDE DEF h
    <3> QED BY <2>7, <2>8
  <2> HIDE DEF h
  <2>10. IsFlatten(s, k, h)
    BY <2>9 DEF IsFlatten
  <2> QED BY <1>2, <2>8, <2>10
<1> QED BY <1>3, <1>4

(* So its entries are what its recursive definition says.                  *)
LEMMA FlattenStep ==
    ASSUME NEW S, NEW s \in Seq(Seq(S))
    PROVE  \A i \in 1..Len(s) : Flatten(s)[i] = Joined(s, i, Flatten(s))
<1>1. IsFlatten(s, Len(s), Flatten(s))
  BY FlattenExists DEF Flatten
<1> DEFINE G == [i \in 1..Len(s) |-> Joined(s, i, Flatten(s))]
<1>2. Flatten(s) = G
  BY <1>1 DEF IsFlatten
<1>3. \A i \in 1..Len(s) : G[i] = Joined(s, i, Flatten(s))
  OBVIOUS
<1> HIDE DEF G
<1> QED BY <1>2, <1>3

(* Where turn i of a loop begins in the steps of the whole loop.           *)
Start(s, i) == IF i = 1 THEN 0 ELSE Len(Flatten(s)[i - 1])

(* The first k turns stand one after another in the k-th entry, and        *)
(* nothing else does.                                                      *)
Lays(s, k) ==
    /\ \A i \in 1..k : Start(s, i) \in Nat
    /\ \A i \in 1..k, r \in Nat : r \in 1..Len(s[i]) =>
          /\ Start(s, i) + r \in 1..Len(Flatten(s)[k])
          /\ Flatten(s)[k][Start(s, i) + r] = s[i][r]
    /\ \A n \in 1..Len(Flatten(s)[k]) :
          \E i \in 1..k : \E r \in 1..Len(s[i]) : n = Start(s, i) + r

(* Every entry is a sequence of steps.                                     *)
LEMMA FlattenType ==
    ASSUME NEW S, NEW s \in Seq(Seq(S))
    PROVE  \A i \in 1..Len(s) : Flatten(s)[i] \in Seq(S)
<1>1. \A g : IsFlatten(s, Len(s), g) => g \in [1..Len(s) -> Seq(S)]
  <2> SUFFICES ASSUME NEW g, IsFlatten(s, Len(s), g)
               PROVE  g \in [1..Len(s) -> Seq(S)]
    OBVIOUS
  <2>0. Len(s) \in Nat
    BY LenProperties
  <2> DEFINE G == [i \in 1..Len(s) |-> Joined(s, i, g)]
             B == {i \in 1..Len(s) : g[i] \notin Seq(S)}
  <2>1. g = G
    BY DEF IsFlatten
  <2>2. \A i \in 1..Len(s) : G[i] = Joined(s, i, g)
    OBVIOUS
  <2>3. DOMAIN G = 1..Len(s) /\ G = [i \in DOMAIN G |-> G[i]]
    OBVIOUS
  <2> HIDE DEF G
  <2>4. ASSUME B # {} PROVE FALSE
    <3>1. PICK i \in B : \A m \in Nat : m < i => m \notin B
      <4>1. B \in SUBSET Nat
        BY <2>0
      <4> HIDE DEF B
      <4> QED BY <2>4, <4>1, LeastOf
    <3>2. i \in 1..Len(s) /\ g[i] \notin Seq(S)
      BY <3>1
    <3>3. i # 1 => i - 1 \in Nat /\ i - 1 < i /\ i - 1 \in 1..Len(s)
      BY <2>0, <3>2
    <3>4. i # 1 => g[i - 1] \in Seq(S)
      BY <3>1, <3>3
    <3>5. g[i] \in Seq(S)
      BY <2>1, <2>2, <3>2, <3>4, JoinType
    <3> QED BY <3>2, <3>5
  <2>5. \A i \in 1..Len(s) : g[i] \in Seq(S)
    BY <2>4
  <2> QED BY <2>1, <2>3, <2>5
<1>2. Flatten(s) \in [1..Len(s) -> Seq(S)]
  BY <1>1, FlattenExists DEF Flatten
<1> QED BY <1>2

(* The first turn stands at the start, every later one behind the others,  *)
(* and so all turns stand in the whole loop.                               *)
LEMMA LaysFirst ==
    ASSUME NEW S, NEW s \in Seq(Seq(S)), Len(s) > 0
    PROVE  Lays(s, 1)
<1>1. Len(s) \in Nat /\ 1 \in 1..Len(s)
  BY LenProperties
<1>2. Flatten(s)[1] = s[1]
  BY <1>1, FlattenStep DEF Joined
<1>3. s[1] \in Seq(S) /\ Len(s[1]) \in Nat
  BY <1>1, ElementOfSeq, LenProperties
<1>4. Start(s, 1) = 0
  BY DEF Start
<1>5. \A i \in 1..1 : i = 1
  OBVIOUS
<1>6. \A r \in Nat : 0 + r = r
  OBVIOUS
<1>7. \A i \in 1..1 : Start(s, i) \in Nat
  BY <1>4, <1>5
<1>8. ASSUME NEW i \in 1..1, NEW r \in Nat, r \in 1..Len(s[i])
      PROVE  /\ Start(s, i) + r \in 1..Len(Flatten(s)[1])
             /\ Flatten(s)[1][Start(s, i) + r] = s[i][r]
  <2>1. i = 1 /\ Start(s, i) + r = r
    BY <1>4, <1>5, <1>6
  <2> QED BY <1>2, <1>8, <2>1
<1>9. ASSUME NEW n \in 1..Len(Flatten(s)[1])
      PROVE  \E i \in 1..1 : \E r \in 1..Len(s[i]) : n = Start(s, i) + r
  <2>1. n \in 1..Len(s[1]) /\ n = Start(s, 1) + n
    BY <1>2, <1>3, <1>4
  <2>2. 1 \in 1..1
    OBVIOUS
  <2> QED BY <2>1, <2>2
<1> QED BY <1>7, <1>8, <1>9 DEF Lays

LEMMA LaysNext ==
    ASSUME NEW S, NEW s \in Seq(Seq(S)), NEW k \in Nat, k > 0, k + 1 <= Len(s),
           Lays(s, k)
    PROVE  Lays(s, k + 1)
<1> DEFINE F == Flatten(s)[k]
           G == Flatten(s)[k + 1]
           t == s[k + 1]
<1>1. /\ Len(s) \in Nat /\ k \in 1..Len(s) /\ k + 1 \in 1..Len(s)
      /\ k + 1 # 1 /\ (k + 1) - 1 = k
  BY LenProperties
<1>2. F \in Seq(S) /\ t \in Seq(S)
  BY <1>1, FlattenType, ElementOfSeq
<1>3. G = F \o t
  BY <1>1, FlattenStep DEF Joined
<1>4. Len(F) \in Nat /\ Len(t) \in Nat
  BY <1>2, LenProperties
<1>5. /\ Len(G) = Len(F) + Len(t)
      /\ \A n \in 1..Len(F) : G[n] = F[n]
      /\ \A n \in (Len(F) + 1)..(Len(F) + Len(t)) : G[n] = t[n - Len(F)]
  <2>1. /\ Len(F \o t) = Len(F) + Len(t)
        /\ \A n \in 1..(Len(F) + Len(t)) :
              (F \o t)[n] = IF n <= Len(F) THEN F[n] ELSE t[n - Len(F)]
    BY <1>2, ConcatProperties
  <2> HIDE DEF F, G, t
  <2> QED BY <1>3, <1>4, <2>1
<1>6. Start(s, k + 1) = Len(F)
  BY <1>1 DEF Start
<1>7. \A i \in 1..(k + 1) : i \in 1..k \/ i = k + 1
  OBVIOUS
<1>8. /\ \A i \in 1..k : Start(s, i) \in Nat
      /\ \A i \in 1..k, r \in Nat : r \in 1..Len(s[i]) =>
            /\ Start(s, i) + r \in 1..Len(F)
            /\ F[Start(s, i) + r] = s[i][r]
      /\ \A n \in 1..Len(F) :
            \E i \in 1..k : \E r \in 1..Len(s[i]) : n = Start(s, i) + r
  BY DEF Lays
<1> HIDE DEF F, G
<1>9. \A i \in 1..(k + 1) : Start(s, i) \in Nat
  BY <1>4, <1>6, <1>7, <1>8
<1>10. ASSUME NEW i \in 1..(k + 1), NEW r \in Nat, r \in 1..Len(s[i])
       PROVE  Start(s, i) + r \in 1..Len(G) /\ G[Start(s, i) + r] = s[i][r]
  <2>1. CASE i \in 1..k
    <3>1. Start(s, i) + r \in 1..Len(F) /\ F[Start(s, i) + r] = s[i][r]
      BY <1>8, <1>10, <2>1
    <3> QED BY <1>4, <1>5, <3>1
  <2>2. CASE i = k + 1
    <3>1. r \in 1..Len(t) /\ s[i][r] = t[r]
      BY <1>10, <2>2
    <3>2. /\ Len(F) + r \in (Len(F) + 1)..(Len(F) + Len(t))
          /\ (Len(F) + r) - Len(F) = r
          /\ Len(F) + r \in 1..(Len(F) + Len(t))
      <4> HIDE DEF t
      <4> QED BY <1>4, <3>1
    <3>3. G[Len(F) + r] = t[r]
      BY <1>5, <3>2
    <3> QED BY <1>5, <1>6, <2>2, <3>1, <3>2, <3>3
  <2> QED BY <1>7, <2>1, <2>2
<1>11. ASSUME NEW n \in 1..Len(G)
       PROVE  \E i \in 1..(k + 1) : \E r \in 1..Len(s[i]) : n = Start(s, i) + r
  <2>1. CASE n \in 1..Len(F)
    <3>1. PICK i \in 1..k : \E r \in 1..Len(s[i]) : n = Start(s, i) + r
      BY <1>8, <2>1
    <3>2. i \in 1..(k + 1)
      OBVIOUS
    <3> QED BY <3>1, <3>2
  <2>2. CASE n \notin 1..Len(F)
    <3> DEFINE r == n - Len(F)
    <3>1. r \in 1..Len(t) /\ n = Len(F) + r
      <4> HIDE DEF t
      <4> QED BY <1>4, <1>5, <2>2
    <3>2. k + 1 \in 1..(k + 1)
      OBVIOUS
    <3> HIDE DEF r
    <3> QED BY <1>6, <3>1, <3>2
  <2> QED BY <2>1, <2>2
<1> QED BY <1>9, <1>10, <1>11 DEF Lays, G

LEMMA LaysAll ==
    ASSUME NEW S, NEW s \in Seq(Seq(S)), Len(s) > 0
    PROVE  Lays(s, Len(s))
<1> DEFINE B == {k \in 1..Len(s) : ~Lays(s, k)}
<1>0. Len(s) \in Nat
  BY LenProperties
<1>1. ASSUME B # {} PROVE FALSE
  <2>1. PICK k \in B : \A m \in Nat : m < k => m \notin B
    <3>1. B \in SUBSET Nat
      BY <1>0
    <3> HIDE DEF B
    <3> QED BY <1>1, <3>1, LeastOf
  <2>2. k \in 1..Len(s) /\ ~Lays(s, k)
    BY <2>1
  <2>3. k # 1
    BY <2>2, LaysFirst
  <2>4. /\ k - 1 \in Nat /\ k - 1 > 0 /\ k - 1 < k /\ k - 1 \in 1..Len(s)
        /\ (k - 1) + 1 = k /\ (k - 1) + 1 <= Len(s)
    BY <1>0, <2>2, <2>3
  <2>5. Lays(s, k - 1)
    BY <2>1, <2>4
  <2>6. Lays(s, (k - 1) + 1)
    BY <2>4, <2>5, LaysNext
  <2> QED BY <2>2, <2>4, <2>6
<1>2. Len(s) \in 1..Len(s)
  BY <1>0
<1> QED BY <1>1, <1>2

(* Where step r of turn i stands, in a plan with a loop after pre.         *)
At(pre, s, i, r) == Len(pre) + (Start(s, i) + r)

(* P is pre, the turns s one after another, and post; the turns end at     *)
(* mid.                                                                    *)
LoopOf(P, pre, s, post, mid) ==
    /\ Len(P) = mid + Len(post) /\ Len(pre) <= mid
    /\ \A n \in 1..Len(pre) : P[n] = pre[n]
    /\ \A n \in 1..Len(post) : P[mid + n] = post[n]
    /\ \A i \in 1..Len(s) : \A r \in 1..Len(s[i]) :
          At(pre, s, i, r) \in (Len(pre) + 1)..mid /\ P[At(pre, s, i, r)] = s[i][r]
    /\ \A n \in (Len(pre) + 1)..mid :
          \E i \in 1..Len(s) : \E r \in 1..Len(s[i]) : n = At(pre, s, i, r)

(* The same of FlattenSeq, also of no turns at all.                        *)
LEMMA FlattenLays ==
    ASSUME NEW S, NEW s \in Seq(Seq(S))
    PROVE  /\ FlattenSeq(s) \in Seq(S)
           /\ \A i \in 1..Len(s) : Start(s, i) \in Nat
           /\ \A i \in 1..Len(s) : \A r \in 1..Len(s[i]) :
                 /\ Start(s, i) + r \in 1..Len(FlattenSeq(s))
                 /\ FlattenSeq(s)[Start(s, i) + r] = s[i][r]
           /\ \A n \in 1..Len(FlattenSeq(s)) :
                 \E i \in 1..Len(s) : \E r \in 1..Len(s[i]) : n = Start(s, i) + r
<1>0. Len(s) \in Nat
  BY LenProperties
<1>1. CASE Len(s) = 0
  <2>1. FlattenSeq(s) = s /\ s = <<>>
    BY <1>1, FlattenSeqIs, EmptySeq
  <2> QED BY <1>1, <2>1
<1>2. CASE Len(s) > 0
  <2>1. FlattenSeq(s) = Flatten(s)[Len(s)]
    BY <1>2, FlattenSeqIs
  <2>2. Lays(s, Len(s)) /\ Len(s) \in 1..Len(s)
    BY <1>0, <1>2, LaysAll
  <2>3. FlattenSeq(s) \in Seq(S)
    BY <2>1, <2>2, FlattenType
  <2>4. ASSUME NEW i \in 1..Len(s), NEW r \in 1..Len(s[i]) PROVE r \in Nat
    <3>1. Len(s[i]) \in Nat
      BY ElementOfSeq, LenProperties
    <3> QED BY <3>1
  <2> QED BY <2>1, <2>2, <2>3, <2>4 DEF Lays
<1> QED BY <1>0, <1>1, <1>2

(* A plan written as a loop between two fixed parts is one.                *)
LEMMA LoopLays ==
    ASSUME NEW S, NEW pre \in Seq(S), NEW s \in Seq(Seq(S)), NEW post \in Seq(S)
    PROVE  \E mid \in Nat :
              LoopOf((pre \o FlattenSeq(s)) \o post, pre, s, post, mid)
<1> DEFINE F == FlattenSeq(s)
           Q == pre \o F
           P == Q \o post
           mid == Len(pre) + Len(F)
<1>1. F \in Seq(S) /\ Q \in Seq(S)
  BY FlattenLays, ConcatProperties
<1>2. Len(pre) \in Nat /\ Len(F) \in Nat /\ Len(post) \in Nat
  BY <1>1, LenProperties
<1>3. /\ Len(Q) = mid
      /\ \A n \in 1..mid : Q[n] = IF n <= Len(pre) THEN pre[n] ELSE F[n - Len(pre)]
  BY <1>1, ConcatProperties
<1>4. /\ Len(P) = mid + Len(post)
      /\ \A n \in 1..(mid + Len(post)) :
            P[n] = IF n <= mid THEN Q[n] ELSE post[n - mid]
  BY <1>1, <1>3, ConcatProperties
<1>5. /\ \A i \in 1..Len(s) : Start(s, i) \in Nat
      /\ \A i \in 1..Len(s) : \A r \in 1..Len(s[i]) :
            /\ Start(s, i) + r \in 1..Len(F)
            /\ F[Start(s, i) + r] = s[i][r]
      /\ \A n \in 1..Len(F) :
            \E i \in 1..Len(s) : \E r \in 1..Len(s[i]) : n = Start(s, i) + r
  BY FlattenLays
<1> HIDE DEF F, Q, P
<1>6. mid \in Nat /\ Len(pre) <= mid
  BY <1>2
<1>7. \A n \in 1..Len(pre) : P[n] = pre[n]
  BY <1>2, <1>3, <1>4
<1>8. \A n \in 1..Len(post) : P[mid + n] = post[n]
  BY <1>2, <1>4
<1>9. \A x \in 1..Len(F) :
         Len(pre) + x \in (Len(pre) + 1)..mid /\ P[Len(pre) + x] = F[x]
  BY <1>2, <1>3, <1>4
<1>10. ASSUME NEW i \in 1..Len(s), NEW r \in 1..Len(s[i])
       PROVE  /\ At(pre, s, i, r) \in (Len(pre) + 1)..mid
              /\ P[At(pre, s, i, r)] = s[i][r]
  BY <1>5, <1>9 DEF At
<1>11. ASSUME NEW n \in (Len(pre) + 1)..mid
       PROVE  \E i \in 1..Len(s) : \E r \in 1..Len(s[i]) : n = At(pre, s, i, r)
  <2>1. n - Len(pre) \in 1..Len(F) /\ n = Len(pre) + (n - Len(pre))
    BY <1>2
  <2>2. PICK i \in 1..Len(s) : \E r \in 1..Len(s[i]) : n - Len(pre) = Start(s, i) + r
    BY <1>5, <2>1
  <2> QED BY <2>1, <2>2 DEF At
<1> HIDE DEF mid
<1>12. LoopOf(P, pre, s, post, mid)
  BY <1>4, <1>6, <1>7, <1>8, <1>10, <1>11 DEF LoopOf
<1> QED BY <1>6, <1>12 DEF F, Q, P

(* A loop of one call a turn: its steps are the calls, and it makes each.  *)
CallOf(op, path, i) == [op |-> op, of |-> <<path, i>>]

LoopCalls(P, pre, op, path, N, post, mid) ==
    /\ Len(P) = mid + Len(post) /\ Len(pre) <= mid
    /\ \A n \in 1..Len(pre) : P[n] = pre[n]
    /\ \A n \in 1..Len(post) : P[mid + n] = post[n]
    /\ \A n \in (Len(pre) + 1)..mid : \E i \in 1..N : P[n] = CallOf(op, path, i)
    /\ \A i \in 1..N : \E n \in (Len(pre) + 1)..mid : P[n] = CallOf(op, path, i)
    /\ \A n, m \in (Len(pre) + 1)..mid : P[n] = P[m] => n = m

(* Turns of one call each are turns of steps.                              *)
LEMMA TurnsAre ==
    ASSUME NEW S, NEW N \in Nat, NEW op, NEW path,
           \A i \in 1..N : CallOf(op, path, i) \in S,
           NEW turns, turns = [n \in 1..N |-> <<CallOf(op, path, n)>>]
    PROVE  turns \in Seq(Seq(S)) /\ Len(turns) = N
<1>1. \A n \in 1..N : <<CallOf(op, path, n)>> \in Seq(S)
  OBVIOUS
<1>2. turns \in [1..N -> Seq(S)]
  BY <1>1
<1> QED BY <1>2, LenProperties

(* A plan whose loop makes one call a turn makes the N calls, each once.   *)
LEMMA CallsLay ==
    ASSUME NEW S, NEW pre \in Seq(S), NEW post \in Seq(S),
           NEW N \in Nat, NEW op, NEW path,
           \A i \in 1..N : CallOf(op, path, i) \in S,
           NEW turns, turns = [n \in 1..N |-> <<CallOf(op, path, n)>>]
    PROVE  \E mid \in Nat : LoopCalls((pre \o FlattenSeq(turns)) \o post,
                                      pre, op, path, N, post, mid)
<1>1. turns \in Seq(Seq(S)) /\ Len(turns) = N
  BY TurnsAre
<1>2. \A i \in 1..N : Len(turns[i]) = 1 /\ turns[i][1] = CallOf(op, path, i)
  OBVIOUS
<1> DEFINE P == (pre \o FlattenSeq(turns)) \o post
<1>3. PICK mid \in Nat : LoopOf(P, pre, turns, post, mid)
  BY <1>1, LoopLays
<1> HIDE DEF P
<1>4. /\ Len(P) = mid + Len(post) /\ Len(pre) <= mid
      /\ \A n \in 1..Len(pre) : P[n] = pre[n]
      /\ \A n \in 1..Len(post) : P[mid + n] = post[n]
      /\ \A i \in 1..Len(turns) : \A r \in 1..Len(turns[i]) :
            /\ At(pre, turns, i, r) \in (Len(pre) + 1)..mid
            /\ P[At(pre, turns, i, r)] = turns[i][r]
      /\ \A n \in (Len(pre) + 1)..mid :
            \E i \in 1..Len(turns) : \E r \in 1..Len(turns[i]) :
               n = At(pre, turns, i, r)
  BY <1>3 DEF LoopOf
<1>5. ASSUME NEW n \in (Len(pre) + 1)..mid
      PROVE  \E i \in 1..N : P[n] = CallOf(op, path, i)
  <2>1. PICK i \in 1..Len(turns) : \E r \in 1..Len(turns[i]) : n = At(pre, turns, i, r)
    BY <1>4
  <2>a. PICK r \in 1..Len(turns[i]) : n = At(pre, turns, i, r)
    BY <2>1
  <2>2. r = 1 /\ i \in 1..N
    BY <1>1, <1>2, <2>a
  <2> QED BY <1>2, <1>4, <2>a, <2>2
<1>6. ASSUME NEW i \in 1..N
      PROVE  \E n \in (Len(pre) + 1)..mid : P[n] = CallOf(op, path, i)
  <2>1. 1 \in 1..Len(turns[i]) /\ i \in 1..Len(turns)
    BY <1>1, <1>2
  <2> QED BY <1>2, <1>4, <2>1
<1>7. ASSUME NEW n \in (Len(pre) + 1)..mid, NEW m \in (Len(pre) + 1)..mid,
             P[n] = P[m]
      PROVE  n = m
  <2>1. ASSUME NEW x \in (Len(pre) + 1)..mid
        PROVE  \E i \in 1..N : x = At(pre, turns, i, 1) /\ P[x] = CallOf(op, path, i)
    <3>1. PICK i \in 1..Len(turns) : \E r \in 1..Len(turns[i]) : x = At(pre, turns, i, r)
      BY <1>4
    <3>2. PICK r \in 1..Len(turns[i]) : x = At(pre, turns, i, r)
      BY <3>1
    <3>3. r = 1 /\ i \in 1..N
      BY <1>1, <1>2, <3>2
    <3> QED BY <1>2, <1>4, <3>2, <3>3
  <2>2. PICK i \in 1..N : n = At(pre, turns, i, 1) /\ P[n] = CallOf(op, path, i)
    BY <2>1
  <2>3. PICK j \in 1..N : m = At(pre, turns, j, 1) /\ P[m] = CallOf(op, path, j)
    BY <2>1
  <2>4. i = j
    BY <1>7, <2>2, <2>3 DEF CallOf
  <2> QED BY <2>2, <2>3, <2>4
<1>8. LoopCalls(P, pre, op, path, N, post, mid)
  BY <1>4, <1>5, <1>6, <1>7 DEF LoopCalls
<1> QED BY <1>8 DEF P

(* The same of a plan that begins with the loop.                           *)
LEMMA LoopFirst ==
    ASSUME NEW S, NEW s \in Seq(Seq(S))
    PROVE  <<>> \in Seq(S) /\ <<>> \o FlattenSeq(s) = FlattenSeq(s)
<1>1. FlattenSeq(s) \in Seq(S)
  BY FlattenLays
<1> QED BY <1>1, ConcatEmptySeq, EmptySeq

-----------------------------------------------------------------------------
(* The rules of PlanRules, said of one plan at a time.  Feeder is the      *)
(* family that feeds each handler of the emitter.                          *)
Feeder ==
    [account |-> "account", characters |-> "characters", log |-> "guild",
     resets |-> "resets", games |-> "pvp", unlocks |-> "unlocks",
     buys |-> "transactions", sells |-> "transactions"]

IsFed(path, f) == path \in DOMAIN Feeder /\ Feeder[path] = f

FeedsRule(P, f) ==
    \A n \in 1..Len(P) : P[n].op = "emit" =>
        /\ IsFed(P[n].of[1], f)
        /\ \A m \in 1..Len(P) : ~(P[m].op = "stored" /\ P[m].of = P[n].of)
        /\ \A m, o \in 1..Len(P) :
              /\ P[m].op \in Asking /\ P[m].of = P[n].of
              /\ P[o].op \in Asking /\ P[o].of = P[n].of
              => m = o

WholeRule(P) ==
    \A n \in 1..Len(P) : P[n].op \in Setting =>
        \A e \in Needs[P[n].of[1]] :
            \E m \in 1..(n - 1) : P[m].op \in {"get", "stored"} /\ P[m].of = e

TakenRule(P) ==
    \A n \in 1..Len(P) : P[n].op = "stored" => P[n].of \in Needs[P[n].of[1]]

MarkRule(P, f) ==
    \A n \in 1..Len(P) : P[n].op = "set" =>
        \A h \in DOMAIN Plan \ {"pvp", "commerce"} : P[n].of = <<h, 0>> =>
            h = f /\ \A m \in 1..Len(P) : m > n => P[m].op \notin Fatal

Keeps(P, f) == FeedsRule(P, f) /\ WholeRule(P) /\ TakenRule(P) /\ MarkRule(P, f)

(* The families that have a plan.                                          *)
LEMMA PlanFamilies ==
    DOMAIN Plan =
        {"account", "wallet", "characters", "progression", "achievements",
         "storage", "wizardsvault", "guild", "value", "resets", "story",
         "wvw", "pvp", "unlocks", "wardrobe", "transactions", "commerce"}
  BY DEF Plan

(* The plans without a loop are short sequences: each rule is read off the *)
(* steps.                                                                  *)
LEMMA AccountKeeps == Keeps(PollAccount, "account")
<1> DEFINE P == PollAccount
<1>1. /\ Len(P) = 3
      /\ P[1] = Get("account") /\ P[2] = Set("account")
      /\ P[3] = Emit("account", 0)
  BY DEF PollAccount
<1>2. \A n \in 1..3 : n \in {1, 2, 3}
  OBVIOUS
<1>3. Needs["account"] = Whole("account")
  BY DEF Needs
<1> HIDE DEF P
<1>4. IsFed("account", "account")
  BY DEF IsFed, Feeder
<1>5. FeedsRule(P, "account")
  BY <1>1, <1>2, <1>4 DEF FeedsRule, Asking, Fatal, IsFed, Emit, Get, Set
<1>6. WholeRule(P)
  BY <1>1, <1>2, <1>3 DEF WholeRule, Setting, Whole, Emit, Get, Set
<1>7. TakenRule(P)
  BY <1>1, <1>2 DEF TakenRule, Emit, Get, Set
<1>8. MarkRule(P, "account")
  BY <1>1, <1>2, PlanFamilies DEF MarkRule, Fatal, Emit, Get, Set
<1> QED BY <1>5, <1>6, <1>7, <1>8 DEF Keeps, P

LEMMA WalletKeeps == Keeps(PollWallet, "wallet")
<1> DEFINE P == PollWallet
<1>1. /\ Len(P) = 2
      /\ P[1] = Get("wallet") /\ P[2] = Set("wallet")
  BY DEF PollWallet
<1>2. \A n \in 1..2 : n \in {1, 2}
  OBVIOUS
<1>3. Needs["wallet"] = Whole("wallet")
  BY DEF Needs
<1> HIDE DEF P
<1>5. FeedsRule(P, "wallet")
  BY <1>1, <1>2 DEF FeedsRule, Asking, Fatal, IsFed, Get, Set
<1>6. WholeRule(P)
  BY <1>1, <1>2, <1>3 DEF WholeRule, Setting, Whole, Get, Set
<1>7. TakenRule(P)
  BY <1>1, <1>2 DEF TakenRule, Get, Set
<1>8. MarkRule(P, "wallet")
  BY <1>1, <1>2, PlanFamilies DEF MarkRule, Fatal, Get, Set
<1> QED BY <1>5, <1>6, <1>7, <1>8 DEF Keeps, P

LEMMA CharactersKeeps == Keeps(PollCharacters, "characters")
<1> DEFINE P == PollCharacters
<1>1. /\ Len(P) = 3
      /\ P[1] = Get("characters") /\ P[2] = Set("characters")
      /\ P[3] = Emit("characters", 0)
  BY DEF PollCharacters
<1>2. \A n \in 1..3 : n \in {1, 2, 3}
  OBVIOUS
<1>3. Needs["characters"] = Whole("characters")
  BY DEF Needs
<1> HIDE DEF P
<1>4. IsFed("characters", "characters")
  BY DEF IsFed, Feeder
<1>5. FeedsRule(P, "characters")
  BY <1>1, <1>2, <1>4 DEF FeedsRule, Asking, Fatal, IsFed, Emit, Get, Set
<1>6. WholeRule(P)
  BY <1>1, <1>2, <1>3 DEF WholeRule, Setting, Whole, Emit, Get, Set
<1>7. TakenRule(P)
  BY <1>1, <1>2 DEF TakenRule, Emit, Get, Set
<1>8. MarkRule(P, "characters")
  BY <1>1, <1>2, PlanFamilies DEF MarkRule, Fatal, Emit, Get, Set
<1> QED BY <1>5, <1>6, <1>7, <1>8 DEF Keeps, P

LEMMA ProgressionKeeps == Keeps(PollProgression, "progression")
<1> DEFINE P == PollProgression
<1>1. /\ Len(P) = 7
      /\ P[1] = Get("masteries") /\ P[2] = Get("mastery/points")
      /\ P[3] = Get("luck") /\ P[4] = Get("progression")
      /\ P[5] = Get("legendaryarmory") /\ P[6] = Get("armory")
      /\ P[7] = Set("progression")
  BY DEF PollProgression
<1>2. \A n \in 1..7 : n \in {1, 2, 3, 4, 5, 6, 7}
  OBVIOUS
<1>3. Needs["progression"] = {<<e, 0>> : e \in {"masteries", "mastery/points", "luck", "progression", "legendaryarmory", "armory"}}
  BY DEF Needs
<1> HIDE DEF P
<1>5. FeedsRule(P, "progression")
  BY <1>1, <1>2 DEF FeedsRule, Asking, Fatal, IsFed, Get, Set
<1>6. WholeRule(P)
  BY <1>1, <1>2, <1>3 DEF WholeRule, Setting, Whole, Get, Set
<1>7. TakenRule(P)
  BY <1>1, <1>2 DEF TakenRule, Get, Set
<1>8. MarkRule(P, "progression")
  BY <1>1, <1>2, PlanFamilies DEF MarkRule, Fatal, Get, Set
<1> QED BY <1>5, <1>6, <1>7, <1>8 DEF Keeps, P

LEMMA AchievementsKeeps == Keeps(PollAchievements, "achievements")
<1> DEFINE P == PollAchievements
<1>1. /\ Len(P) = 5
      /\ P[1] = Get("achievements") /\ P[2] = Once("categories", 0)
      /\ P[3] = Set("legendary") /\ P[4] = Missing("definitions")
      /\ P[5] = Set("achievements")
  BY DEF PollAchievements
<1>2. \A n \in 1..5 : n \in {1, 2, 3, 4, 5}
  OBVIOUS
<1>3. /\ Needs["achievements"] = Whole("achievements")
      /\ Needs["legendary"] = Whole("achievements")
  BY DEF Needs
<1> HIDE DEF P
<1>5. FeedsRule(P, "achievements")
  BY <1>1, <1>2 DEF FeedsRule, Asking, Fatal, IsFed, Get, Missing, Once, Set
<1>6. WholeRule(P)
  BY <1>1, <1>2, <1>3 DEF WholeRule, Setting, Whole, Get, Missing, Once, Set
<1>7. TakenRule(P)
  BY <1>1, <1>2 DEF TakenRule, Get, Missing, Once, Set
<1>8. MarkRule(P, "achievements")
  BY <1>1, <1>2, PlanFamilies DEF MarkRule, Fatal, Get, Missing, Once, Set
<1> QED BY <1>5, <1>6, <1>7, <1>8 DEF Keeps, P

LEMMA StorageKeeps == Keeps(PollStorage, "storage")
<1> DEFINE P == PollStorage
<1>1. /\ Len(P) = 4
      /\ P[1] = Get("bank") /\ P[2] = Get("inventory")
      /\ P[3] = Get("materials") /\ P[4] = Set("storage")
  BY DEF PollStorage
<1>2. \A n \in 1..4 : n \in {1, 2, 3, 4}
  OBVIOUS
<1>3. Needs["storage"] = {<<e, 0>> : e \in {"bank", "inventory", "materials"}}
  BY DEF Needs
<1> HIDE DEF P
<1>5. FeedsRule(P, "storage")
  BY <1>1, <1>2 DEF FeedsRule, Asking, Fatal, IsFed, Get, Set
<1>6. WholeRule(P)
  BY <1>1, <1>2, <1>3 DEF WholeRule, Setting, Whole, Get, Set
<1>7. TakenRule(P)
  BY <1>1, <1>2 DEF TakenRule, Get, Set
<1>8. MarkRule(P, "storage")
  BY <1>1, <1>2, PlanFamilies DEF MarkRule, Fatal, Get, Set
<1> QED BY <1>5, <1>6, <1>7, <1>8 DEF Keeps, P

LEMMA ValueKeeps == Keeps(PollValue, "value")
<1> DEFINE P == PollValue
<1>1. /\ Len(P) = 8
      /\ P[1] = Get("bank") /\ P[2] = Get("materials")
      /\ P[3] = Get("inventory") /\ P[4] = Get("characters")
      /\ P[5] = Get("wallet") /\ P[6] = Get("exchange/gems")
      /\ P[7] = Get("prices") /\ P[8] = Set("value")
  BY DEF PollValue
<1>2. \A n \in 1..8 : n \in {1, 2, 3, 4, 5, 6, 7, 8}
  OBVIOUS
<1>3. Needs["value"] = {<<e, 0>> : e \in {"bank", "materials", "inventory", "characters", "wallet", "exchange/gems", "prices"}}
  BY DEF Needs
<1> HIDE DEF P
<1>5. FeedsRule(P, "value")
  BY <1>1, <1>2 DEF FeedsRule, Asking, Fatal, IsFed, Get, Set
<1>6. WholeRule(P)
  BY <1>1, <1>2, <1>3 DEF WholeRule, Setting, Whole, Get, Set
<1>7. TakenRule(P)
  BY <1>1, <1>2 DEF TakenRule, Get, Set
<1>8. MarkRule(P, "value")
  BY <1>1, <1>2, PlanFamilies DEF MarkRule, Fatal, Get, Set
<1> QED BY <1>5, <1>6, <1>7, <1>8 DEF Keeps, P

LEMMA WvWKeeps == Keeps(PollWvW, "wvw")
<1> DEFINE P == PollWvW
<1>1. /\ Len(P) = 4
      /\ P[1] = Stored("account") /\ P[2] = Unless("world")
      /\ P[3] = Get("match") /\ P[4] = Set("wvw")
  BY DEF PollWvW
<1>2. \A n \in 1..4 : n \in {1, 2, 3, 4}
  OBVIOUS
<1>3. /\ Needs["account"] = Whole("account")
      /\ Needs["wvw"] = Whole("account") \union Whole("match")
  BY DEF Needs
<1> HIDE DEF P
<1>5. FeedsRule(P, "wvw")
  BY <1>1, <1>2 DEF FeedsRule, Asking, Fatal, IsFed, Get, Set, Stored, Unless
<1>6. WholeRule(P)
  BY <1>1, <1>2, <1>3 DEF WholeRule, Setting, Whole, Get, Set, Stored, Unless
<1>7. TakenRule(P)
  BY <1>1, <1>2, <1>3 DEF TakenRule, Whole, Get, Set, Stored, Unless
<1>8. MarkRule(P, "wvw")
  BY <1>1, <1>2, PlanFamilies DEF MarkRule, Fatal, Get, Set, Stored, Unless
<1> QED BY <1>5, <1>6, <1>7, <1>8 DEF Keeps, P

LEMMA PvPKeeps == Keeps(PollPvP, "pvp")
<1> DEFINE P == PollPvP
<1>1. /\ Len(P) = 6
      /\ P[1] = Get("pvp/stats") /\ P[2] = Set("pvp")
      /\ P[3] = Get("standings") /\ P[4] = SetUnmarked("standings")
      /\ P[5] = Get("games") /\ P[6] = Emit("games", 0)
  BY DEF PollPvP
<1>2. \A n \in 1..6 : n \in {1, 2, 3, 4, 5, 6}
  OBVIOUS
<1>3. /\ Needs["pvp"] = Whole("pvp/stats")
      /\ Needs["standings"] = Whole("standings")
  BY DEF Needs
<1> HIDE DEF P
<1>4. IsFed("games", "pvp")
  BY DEF IsFed, Feeder
<1>5. FeedsRule(P, "pvp")
  BY <1>1, <1>2, <1>4 DEF FeedsRule, Asking, Fatal, IsFed, Emit, Get, Set, SetUnmarked
<1>6. WholeRule(P)
  BY <1>1, <1>2, <1>3 DEF WholeRule, Setting, Whole, Emit, Get, Set, SetUnmarked
<1>7. TakenRule(P)
  BY <1>1, <1>2 DEF TakenRule, Emit, Get, Set, SetUnmarked
<1>8. MarkRule(P, "pvp")
  BY <1>1, <1>2, PlanFamilies DEF MarkRule, Fatal, Emit, Get, Set, SetUnmarked
<1> QED BY <1>5, <1>6, <1>7, <1>8 DEF Keeps, P

LEMMA WardrobeKeeps == Keeps(PollWardrobe, "wardrobe")
<1> DEFINE P == PollWardrobe
<1>1. /\ Len(P) = 5
      /\ P[1] = Get("skins") /\ P[2] = Missing("skins/defs")
      /\ P[3] = Get("dyes") /\ P[4] = Missing("dyes/defs")
      /\ P[5] = Set("wardrobe")
  BY DEF PollWardrobe
<1>2. \A n \in 1..5 : n \in {1, 2, 3, 4, 5}
  OBVIOUS
<1>3. Needs["wardrobe"] = Whole("skins") \union Whole("dyes")
  BY DEF Needs
<1> HIDE DEF P
<1>5. FeedsRule(P, "wardrobe")
  BY <1>1, <1>2 DEF FeedsRule, Asking, Fatal, IsFed, Get, Missing, Set
<1>6. WholeRule(P)
  BY <1>1, <1>2, <1>3 DEF WholeRule, Setting, Whole, Get, Missing, Set
<1>7. TakenRule(P)
  BY <1>1, <1>2 DEF TakenRule, Get, Missing, Set
<1>8. MarkRule(P, "wardrobe")
  BY <1>1, <1>2, PlanFamilies DEF MarkRule, Fatal, Get, Missing, Set
<1> QED BY <1>5, <1>6, <1>7, <1>8 DEF Keeps, P

LEMMA TransactionsKeeps == Keeps(PollTransactions, "transactions")
<1> DEFINE P == PollTransactions
<1>1. /\ Len(P) = 4
      /\ P[1] = Get("buys") /\ P[2] = Emit("buys", 0) /\ P[3] = Get("sells")
      /\ P[4] = Emit("sells", 0)
  BY DEF PollTransactions
<1>2. \A n \in 1..4 : n \in {1, 2, 3, 4}
  OBVIOUS
<1> HIDE DEF P
<1>4. IsFed("buys", "transactions") /\ IsFed("sells", "transactions")
  BY DEF IsFed, Feeder
<1>5. FeedsRule(P, "transactions")
  BY <1>1, <1>2, <1>4 DEF FeedsRule, Asking, Fatal, IsFed, Emit, Get
<1>6. WholeRule(P)
  BY <1>1, <1>2 DEF WholeRule, Setting, Whole, Emit, Get
<1>7. TakenRule(P)
  BY <1>1, <1>2 DEF TakenRule, Emit, Get
<1>8. MarkRule(P, "transactions")
  BY <1>1, <1>2, PlanFamilies DEF MarkRule, Fatal, Emit, Get
<1> QED BY <1>5, <1>6, <1>7, <1>8 DEF Keeps, P

(* The turns of a loop over 1..N.                                          *)
LEMMA UptoIs ==
    ASSUME NEW N \in Nat
    PROVE  Len(Upto(N)) = N /\ \A i \in 1..N : Upto(N)[i] = i
<1>1. Upto(N) \in [1..N -> Nat]
  BY DEF Upto
<1>2. Upto(N) \in Seq(Nat) /\ Len(Upto(N)) = N
  BY <1>1, LenProperties
<1> QED BY <1>2 DEF Upto

(* The rules, for a plan that sets one key and feeds at most one handler.  *)
LEMMA OneMark ==
    ASSUME NEW P, NEW f, NEW last \in Nat,
           \A n \in 1..Len(P) :
              P[n].op = "set" => n = last /\ P[n].of = <<f, 0>>,
           \A n \in 1..Len(P) : n > last => P[n].op \notin Fatal
    PROVE  MarkRule(P, f)
  BY DEF MarkRule

SetsAt(P, key, last) ==
    \A n \in 1..Len(P) : P[n].op \in Setting => n = last /\ P[n].of = <<key, 0>>
HasBefore(P, key, last) ==
    \A e \in Needs[key] :
       \E m \in 1..(last - 1) : P[m].op \in {"get", "stored"} /\ P[m].of = e

(* A single setter behind the calls of its snapshot stores it whole.       *)
LEMMA OneSetter ==
    ASSUME NEW P, NEW key, NEW last, SetsAt(P, key, last), HasBefore(P, key, last)
    PROVE  WholeRule(P)
<1> SUFFICES ASSUME NEW n \in 1..Len(P), P[n].op \in Setting,
                    NEW e \in Needs[P[n].of[1]]
             PROVE  \E m \in 1..(n - 1) : P[m].op \in {"get", "stored"} /\ P[m].of = e
  BY DEF WholeRule
<1>1. n = last /\ P[n].of = <<key, 0>> /\ P[n].of[1] = key
  BY DEF SetsAt
<1> QED BY <1>1 DEF HasBefore

(* A single handler, fed by a single call, is fed in order.                *)
LEMMA OneFeed ==
    ASSUME NEW P, NEW f, NEW path, IsFed(path, f),
           \A n \in 1..Len(P) : P[n].op = "emit" => P[n].of[1] = path,
           \A n \in 1..Len(P) : P[n].op = "stored" => P[n].of[1] # path,
           \A m, o \in 1..Len(P) :
              /\ P[m].op \in Asking /\ P[m].of[1] = path
              /\ P[o].op \in Asking /\ P[o].of = P[m].of
              => m = o
    PROVE  FeedsRule(P, f)
  BY DEF FeedsRule

(* The steps of a plan with one loop of calls.                             *)
LEMMA LoopSteps ==
    ASSUME NEW P, NEW pre, NEW op, NEW path, NEW N, NEW post, NEW mid \in Nat,
           Len(pre) \in Nat, Len(post) \in Nat,
           LoopCalls(P, pre, op, path, N, post, mid)
    PROVE  \A n \in 1..Len(P) :
              \/ n \in 1..Len(pre) /\ P[n] = pre[n]
              \/ n \in (Len(pre) + 1)..mid /\ \E i \in 1..N : P[n] = CallOf(op, path, i)
              \/ \E m \in 1..Len(post) : n = mid + m /\ P[n] = post[m]
<1> SUFFICES ASSUME NEW n \in 1..Len(P)
             PROVE  \/ n \in 1..Len(pre) /\ P[n] = pre[n]
                    \/ n \in (Len(pre) + 1)..mid /\ \E i \in 1..N : P[n] = CallOf(op, path, i)
                    \/ \E m \in 1..Len(post) : n = mid + m /\ P[n] = post[m]
  OBVIOUS
<1>1. CASE n \in 1..Len(pre)
  BY <1>1 DEF LoopCalls
<1>2. CASE n \in (Len(pre) + 1)..mid
  BY <1>2 DEF LoopCalls
<1>3. CASE n > mid
  <2>1. n - mid \in 1..Len(post) /\ n = mid + (n - mid)
    BY <1>3 DEF LoopCalls
  <2>2. P[mid + (n - mid)] = post[n - mid]
    BY <2>1 DEF LoopCalls
  <2> QED BY <2>1, <2>2
<1>4. n \in 1..Len(pre) \/ n \in (Len(pre) + 1)..mid \/ n > mid
  BY DEF LoopCalls
<1> QED BY <1>1, <1>2, <1>3, <1>4

(* The quests of each character.                                           *)
LEMMA StoryLoop ==
    ASSUME Roster \in Nat
    PROVE  \E mid \in Nat :
              LoopCalls(PollStory, <<Stored("characters")>>, "get", "quests",
                        Roster, <<Set("story")>>, mid)
<1> DEFINE turns == [n \in 1..Len(Upto(Roster)) |-> <<GetOf("quests", Upto(Roster)[n])>>]
           S == {Stored("characters"), Set("story")}
                   \union {CallOf("get", "quests", i) : i \in 1..Roster}
<1>1. turns = [n \in 1..Roster |-> <<CallOf("get", "quests", n)>>]
  BY UptoIs DEF GetOf, CallOf
<1>2. PollStory = (<<Stored("characters")>> \o FlattenSeq(turns)) \o <<Set("story")>>
  BY DEF PollStory, Each
<1>3. /\ Stored("characters") \in S /\ Set("story") \in S
      /\ \A i \in 1..Roster : CallOf("get", "quests", i) \in S
  OBVIOUS
<1> HIDE DEF turns, S
<1>4. <<Stored("characters")>> \in Seq(S) /\ <<Set("story")>> \in Seq(S)
  BY <1>3
<1> QED BY <1>1, <1>2, <1>3, <1>4, CallsLay

LEMMA StoryKeeps == ASSUME Roster \in Nat PROVE Keeps(PollStory, "story")
<1> DEFINE P == PollStory
           pre == <<Stored("characters")>>
           post == <<Set("story")>>
<1>1. PICK mid \in Nat : LoopCalls(P, pre, "get", "quests", Roster, post, mid)
  BY StoryLoop
<1>2. Len(pre) = 1 /\ pre[1] = Stored("characters") /\ Len(post) = 1 /\ post[1] = Set("story")
  OBVIOUS
<1> HIDE DEF P, pre, post
<1>3. /\ Len(P) = mid + 1 /\ mid >= 1 /\ P[1] = Stored("characters")
      /\ P[mid + 1] = Set("story")
      /\ \A i \in 1..Roster : \E n \in 2..mid : P[n] = CallOf("get", "quests", i)
  BY <1>1, <1>2 DEF LoopCalls
<1>4. \A n \in 1..Len(P) :
         \/ n = 1 
         \/ n \in 2..mid /\ \E i \in 1..Roster : P[n] = CallOf("get", "quests", i)
         \/ n = mid + 1
  BY <1>1, <1>2, LoopSteps
<1>5. FeedsRule(P, "story")
  BY <1>3, <1>4 DEF FeedsRule, Stored, Set, CallOf
<1>6. WholeRule(P)
  <2>1. Needs["story"] = AllOf("quests", Roster)
    BY DEF Needs
  <2>2. ASSUME NEW n \in 1..Len(P), P[n].op \in Setting PROVE n = mid + 1
    BY <1>3, <1>4, <2>2 DEF Setting, Stored, CallOf
  <2>3. ASSUME NEW e \in AllOf("quests", Roster)
        PROVE \E m \in 1..((mid + 1) - 1) : P[m].op \in {"get", "stored"} /\ P[m].of = e
    <3>1. PICK i \in 1..Roster : e = <<"quests", i>>
      BY DEF AllOf
    <3>2. PICK m \in 2..mid : P[m] = CallOf("get", "quests", i)
      BY <1>3
    <3>3. m \in 1..((mid + 1) - 1)
      OBVIOUS
    <3> QED BY <3>1, <3>2, <3>3 DEF CallOf
  <2> QED BY <1>3, <2>1, <2>2, <2>3 DEF WholeRule, Set
<1>7. TakenRule(P)
  <2>1. Needs["characters"] = Whole("characters")
    BY DEF Needs
  <2> QED BY <1>3, <1>4, <2>1 DEF TakenRule, Stored, Set, CallOf, Whole
<1>8. MarkRule(P, "story")
  BY <1>3, <1>4, PlanFamilies DEF MarkRule, Stored, Set, CallOf
<1> QED BY <1>5, <1>6, <1>7, <1>8 DEF Keeps, P

(* The objectives of the three periods.                                    *)
LEMMA VaultLoop ==
    \E mid \in Nat : LoopCalls(PollWizardsVault, <<>>, "get", "wizardsvault", 3,
                               <<Set("wizardsvault")>>, mid)
<1> DEFINE turns == [n \in 1..Len(Upto(3)) |-> <<GetOf("wizardsvault", Upto(3)[n])>>]
           S == {Set("wizardsvault")}
                   \union {CallOf("get", "wizardsvault", i) : i \in 1..3}
<1>1. turns = [n \in 1..3 |-> <<CallOf("get", "wizardsvault", n)>>]
  BY UptoIs DEF GetOf, CallOf
<1>2. PollWizardsVault = FlattenSeq(turns) \o <<Set("wizardsvault")>>
  BY DEF PollWizardsVault, Each
<1>3. /\ Set("wizardsvault") \in S
      /\ \A i \in 1..3 : CallOf("get", "wizardsvault", i) \in S
  OBVIOUS
<1> HIDE DEF turns, S
<1>4. <<Set("wizardsvault")>> \in Seq(S)
  BY <1>3
<1>5. turns \in Seq(Seq(S))
  BY <1>1, <1>3, TurnsAre
<1>6. <<>> \in Seq(S) /\ <<>> \o FlattenSeq(turns) = FlattenSeq(turns)
  BY <1>5, LoopFirst
<1> QED BY <1>1, <1>2, <1>3, <1>4, <1>6, CallsLay

LEMMA VaultKeeps == Keeps(PollWizardsVault, "wizardsvault")
<1> DEFINE P == PollWizardsVault
           pre == <<>>
           post == <<Set("wizardsvault")>>
<1>1. PICK mid \in Nat : LoopCalls(P, pre, "get", "wizardsvault", 3, post, mid)
  BY VaultLoop
<1>2. Len(pre) = 0 /\ Len(post) = 1 /\ post[1] = Set("wizardsvault")
  OBVIOUS
<1> HIDE DEF P, pre, post
<1>3. /\ Len(P) = mid + 1 /\ P[mid + 1] = Set("wizardsvault")
      /\ \A i \in 1..3 : \E n \in 1..mid : P[n] = CallOf("get", "wizardsvault", i)
  BY <1>1, <1>2 DEF LoopCalls
<1>4. \A n \in 1..Len(P) :
         \/ n \in 1..mid /\ \E i \in 1..3 : P[n] = CallOf("get", "wizardsvault", i)
         \/ n = mid + 1
  BY <1>1, <1>2, LoopSteps
<1>5. FeedsRule(P, "wizardsvault")
  BY <1>3, <1>4 DEF FeedsRule, Set, CallOf
<1>6. WholeRule(P)
  <2>1. Needs["wizardsvault"] = AllOf("wizardsvault", 3)
    BY DEF Needs
  <2>2. ASSUME NEW n \in 1..Len(P), P[n].op \in Setting PROVE n = mid + 1
    BY <1>3, <1>4, <2>2 DEF Setting, CallOf
  <2>3. ASSUME NEW e \in AllOf("wizardsvault", 3)
        PROVE  \E m \in 1..((mid + 1) - 1) : P[m].op \in {"get", "stored"} /\ P[m].of = e
    <3>1. PICK i \in 1..3 : e = <<"wizardsvault", i>>
      BY DEF AllOf
    <3>2. PICK m \in 1..mid : P[m] = CallOf("get", "wizardsvault", i)
      BY <1>3
    <3>3. m \in 1..((mid + 1) - 1)
      OBVIOUS
    <3> QED BY <3>1, <3>2, <3>3 DEF CallOf
  <2> QED BY <1>3, <2>1, <2>2, <2>3 DEF WholeRule, Set
<1>7. TakenRule(P)
  BY <1>3, <1>4 DEF TakenRule, Set, CallOf
<1>8. MarkRule(P, "wizardsvault")
  BY <1>3, <1>4, PlanFamilies DEF MarkRule, Set, CallOf
<1> QED BY <1>5, <1>6, <1>7, <1>8 DEF Keeps, P

(* The unlocked ids of each collection.                                    *)
LEMMA UnlocksLoop ==
    ASSUME Collections \in Nat
    PROVE  \E mid \in Nat :
              LoopCalls(PollUnlocks, <<>>, "get", "unlocks", Collections,
                        <<Set("unlocks"), Emit("unlocks", Collections)>>, mid)
<1> DEFINE turns == [n \in 1..Len(Upto(Collections)) |-> <<GetOf("unlocks", Upto(Collections)[n])>>]
           a == Set("unlocks")
           b == Emit("unlocks", Collections)
           S == {a, b} \union {CallOf("get", "unlocks", i) : i \in 1..Collections}
<1>1. turns = [n \in 1..Collections |-> <<CallOf("get", "unlocks", n)>>]
  BY UptoIs DEF GetOf, CallOf
<1>2. PollUnlocks = FlattenSeq(turns) \o <<a, b>>
  BY DEF PollUnlocks, Each
<1>3. /\ a \in S /\ b \in S
      /\ \A i \in 1..Collections : CallOf("get", "unlocks", i) \in S
  OBVIOUS
<1> HIDE DEF turns, S, a, b
<1>4. <<a, b>> \in Seq(S)
  BY <1>3
<1>5. turns \in Seq(Seq(S))
  BY <1>1, <1>3, TurnsAre
<1>6. <<>> \in Seq(S) /\ <<>> \o FlattenSeq(turns) = FlattenSeq(turns)
  BY <1>5, LoopFirst
<1>7. \E mid \in Nat : LoopCalls(PollUnlocks, <<>>, "get", "unlocks", Collections, <<a, b>>, mid)
  BY <1>1, <1>2, <1>3, <1>4, <1>6, CallsLay
<1> QED BY <1>7 DEF a, b

LEMMA UnlocksKeeps == ASSUME Collections \in Nat PROVE Keeps(PollUnlocks, "unlocks")
<1> DEFINE P == PollUnlocks
           pre == <<>>
           post == <<Set("unlocks"), Emit("unlocks", Collections)>>
<1>1. PICK mid \in Nat :
         LoopCalls(P, pre, "get", "unlocks", Collections, post, mid)
  BY UnlocksLoop
<1>2. /\ Len(pre) = 0 /\ Len(pre) + 1 = 1 /\ Len(post) = 2
      /\ post[1] = Set("unlocks") /\ post[2] = Emit("unlocks", Collections)
      /\ \A m \in 1..2 : m \in {1, 2}
  OBVIOUS
<1> HIDE DEF P, pre, post
<1>3. /\ Len(P) = mid + 2
      /\ \A i \in 1..Collections : \E n \in 1..mid : P[n] = CallOf("get", "unlocks", i)
      /\ \A n, m \in 1..mid : P[n] = P[m] => n = m
  BY <1>1, <1>2 DEF LoopCalls
<1>4. ASSUME NEW n \in 1..Len(P)
      PROVE  \/ /\ n \in 1..mid /\ P[n].op = "get"
                /\ \E i \in 1..Collections : P[n].of = <<"unlocks", i>>
             \/ n = mid + 1 /\ P[n].op = "set" /\ P[n].of = <<"unlocks", 0>>
             \/ n = mid + 2 /\ P[n].op = "emit" /\ P[n].of = <<"unlocks", Collections>>
  <2>1. \/ n \in 1..Len(pre) /\ P[n] = pre[n]
        \/ n \in (Len(pre) + 1)..mid /\ \E i \in 1..Collections : P[n] = CallOf("get", "unlocks", i)
        \/ \E m \in 1..Len(post) : n = mid + m /\ P[n] = post[m]
    BY <1>1, <1>2, LoopSteps
  <2>2. n \notin 1..Len(pre)
    BY <1>2
  <2>3. CASE n \in 1..mid /\ \E i \in 1..Collections : P[n] = CallOf("get", "unlocks", i)
    BY <2>3 DEF CallOf
  <2>4. CASE n = mid + 1 /\ P[n] = Set("unlocks")
    BY <2>4 DEF Set
  <2>5. CASE n = mid + 2 /\ P[n] = Emit("unlocks", Collections)
    BY <2>5 DEF Emit
  <2> QED BY <1>2, <2>1, <2>2, <2>3, <2>4, <2>5
<1>5. FeedsRule(P, "unlocks")
  <2>1. IsFed("unlocks", "unlocks")
    BY DEF IsFed, Feeder
  <2>2. ASSUME NEW n \in 1..Len(P), P[n].op = "emit"
        PROVE  P[n].of[1] = "unlocks"
    BY <1>4, <2>2
  <2>3. ASSUME NEW m \in 1..Len(P), P[m].op \in Asking PROVE m \in 1..mid
    BY <1>4, <2>3 DEF Asking, Fatal
  <2>4. ASSUME NEW m \in 1..Len(P) PROVE P[m].op # "stored"
    BY <1>4
  <2>5. ASSUME NEW m \in 1..mid, NEW o \in 1..mid, P[m].of = P[o].of PROVE m = o
    <3>1. /\ \E i \in 1..Collections : P[m] = CallOf("get", "unlocks", i)
          /\ \E i \in 1..Collections : P[o] = CallOf("get", "unlocks", i)
      BY <1>1, <1>2 DEF LoopCalls
    <3>2. P[m] = P[o]
      BY <2>5, <3>1 DEF CallOf
    <3> QED BY <1>3, <3>2
  <2> QED BY <2>1, <2>2, <2>3, <2>4, <2>5, OneFeed
<1>6. WholeRule(P)
  <2>1. Needs["unlocks"] = AllOf("unlocks", Collections)
    BY DEF Needs
  <2>2. ASSUME NEW n \in 1..Len(P), P[n].op \in Setting
        PROVE  n = mid + 1 /\ P[n].of = <<"unlocks", 0>>
    BY <1>4, <2>2 DEF Setting
  <2>3. ASSUME NEW e \in Needs["unlocks"]
        PROVE  \E m \in 1..((mid + 1) - 1) : P[m].op \in {"get", "stored"} /\ P[m].of = e
    <3>1. PICK i \in 1..Collections : e = <<"unlocks", i>>
      BY <2>1 DEF AllOf
    <3>2. PICK m \in 1..mid : P[m] = CallOf("get", "unlocks", i)
      BY <1>3
    <3>3. m \in 1..((mid + 1) - 1)
      OBVIOUS
    <3> QED BY <3>1, <3>2, <3>3 DEF CallOf
  <2>4. SetsAt(P, "unlocks", mid + 1) /\ HasBefore(P, "unlocks", mid + 1)
    BY <2>2, <2>3 DEF SetsAt, HasBefore
  <2> QED BY <2>4, OneSetter
<1>7. TakenRule(P)
  BY <1>4 DEF TakenRule
<1>8. MarkRule(P, "unlocks")
  <2>1. ASSUME NEW n \in 1..Len(P), P[n].op = "set"
        PROVE  n = mid + 1 /\ P[n].of = <<"unlocks", 0>>
    BY <1>4, <2>1
  <2>2. ASSUME NEW n \in 1..Len(P), n > mid + 1 PROVE P[n].op \notin Fatal
    BY <1>4, <2>2 DEF Fatal
  <2>3. mid + 1 \in Nat
    OBVIOUS
  <2> QED BY <2>1, <2>2, <2>3, OneMark
<1> QED BY <1>5, <1>6, <1>7, <1>8 DEF Keeps, P

(* Each list of finished things, and its handler at once.                  *)
LEMMA ResetsLoop ==
    ASSUME ResetKinds \in Nat
    PROVE  \E s : \E mid \in Nat :
              /\ LoopOf(PollResets, <<>>, s, <<Set("resets")>>, mid)
              /\ Len(s) = ResetKinds
              /\ \A i \in 1..ResetKinds :
                    s[i] = <<GetOf("resets", i), Emit("resets", i)>>
<1> DEFINE turns == [n \in 1..Len(Upto(ResetKinds)) |->
                        <<GetOf("resets", Upto(ResetKinds)[n]),
                          Emit("resets", Upto(ResetKinds)[n])>>]
           S == {Set("resets")} \union {GetOf("resets", i) : i \in 1..ResetKinds}
                                \union {Emit("resets", i) : i \in 1..ResetKinds}
<1>1. turns = [n \in 1..ResetKinds |-> <<GetOf("resets", n), Emit("resets", n)>>]
  BY UptoIs
<1>2. PollResets = FlattenSeq(turns) \o <<Set("resets")>>
  BY DEF PollResets, Each
<1>3. /\ Set("resets") \in S
      /\ \A i \in 1..ResetKinds : GetOf("resets", i) \in S /\ Emit("resets", i) \in S
  OBVIOUS
<1> HIDE DEF turns, S
<1>4. <<Set("resets")>> \in Seq(S)
  BY <1>3
<1>5. turns \in Seq(Seq(S)) /\ Len(turns) = ResetKinds
  <2>1. \A n \in 1..ResetKinds : <<GetOf("resets", n), Emit("resets", n)>> \in Seq(S)
    BY <1>3
  <2>2. turns \in [1..ResetKinds -> Seq(S)]
    BY <1>1, <2>1
  <2> QED BY <2>2, LenProperties
<1>6. <<>> \in Seq(S) /\ <<>> \o FlattenSeq(turns) = FlattenSeq(turns)
  BY <1>5, LoopFirst
<1>7. \E mid \in Nat : LoopOf(PollResets, <<>>, turns, <<Set("resets")>>, mid)
  BY <1>2, <1>4, <1>5, <1>6, LoopLays
<1>8. \A i \in 1..ResetKinds :
         turns[i] = <<GetOf("resets", i), Emit("resets", i)>>
  BY <1>1
<1> QED BY <1>5, <1>7, <1>8

LEMMA ResetsKeep == ASSUME ResetKinds \in Nat PROVE Keeps(PollResets, "resets")
<1> DEFINE P == PollResets
           pre == <<>>
           post == <<Set("resets")>>
<1>0. PICK s : \E mid \in Nat :
         /\ LoopOf(P, pre, s, post, mid)
         /\ Len(s) = ResetKinds
         /\ \A i \in 1..ResetKinds :
               s[i] = <<GetOf("resets", i), Emit("resets", i)>>
  BY ResetsLoop
<1>1. PICK mid \in Nat :
         /\ LoopOf(P, pre, s, post, mid)
         /\ Len(s) = ResetKinds
         /\ \A i \in 1..ResetKinds :
               s[i] = <<GetOf("resets", i), Emit("resets", i)>>
  BY <1>0
<1>2. Len(pre) = 0 /\ Len(pre) + 1 = 1 /\ Len(post) = 1 /\ post[1] = Set("resets")
  OBVIOUS
<1> HIDE DEF P, pre, post
<1>3. /\ Len(P) = mid + 1 /\ P[mid + 1] = Set("resets")
      /\ \A i \in 1..Len(s) : \A r \in 1..Len(s[i]) :
            At(pre, s, i, r) \in 1..mid /\ P[At(pre, s, i, r)] = s[i][r]
      /\ \A n \in 1..mid :
            \E i \in 1..Len(s) : \E r \in 1..Len(s[i]) : n = At(pre, s, i, r)
  BY <1>1, <1>2 DEF LoopOf
<1>4. ASSUME NEW i \in 1..Len(s)
      PROVE  Len(s[i]) = 2 /\ s[i][1] = GetOf("resets", i) /\ s[i][2] = Emit("resets", i)
  <2> DEFINE t == <<GetOf("resets", i), Emit("resets", i)>>
  <2>1. Len(t) = 2 /\ t[1] = GetOf("resets", i) /\ t[2] = Emit("resets", i)
    OBVIOUS
  <2>2. s[i] = t
    BY <1>1
  <2> HIDE DEF t
  <2> QED BY <2>1, <2>2
<1>5. ASSUME NEW n \in 1..Len(P)
      PROVE  \/ /\ n \in 1..mid /\ P[n].op = "get"
                /\ \E i \in 1..Len(s) : P[n].of = <<"resets", i>> /\ n = At(pre, s, i, 1)
             \/ /\ n \in 1..mid /\ P[n].op = "emit"
                /\ \E i \in 1..Len(s) : P[n].of = <<"resets", i>>
             \/ n = mid + 1 /\ P[n].op = "set" /\ P[n].of = <<"resets", 0>>
  <2>1. CASE n \in 1..mid
    <3>1. PICK i \in 1..Len(s) : \E r \in 1..Len(s[i]) : n = At(pre, s, i, r)
      BY <1>3, <2>1
    <3>2. PICK r \in 1..Len(s[i]) : n = At(pre, s, i, r)
      BY <3>1
    <3>3. r = 1 \/ r = 2
      <4>1. Len(s[i]) = 2
        BY <1>4
      <4>2. r \in 1..2
        BY <4>1
      <4> QED BY <4>2
    <3>4. P[n] = s[i][r]
      BY <1>3, <3>2
    <3>5. CASE r = 1
      <4>1. P[n] = GetOf("resets", i)
        BY <1>4, <3>4, <3>5
      <4>2. P[n].op = "get" /\ P[n].of = <<"resets", i>>
        BY <4>1 DEF GetOf
      <4> QED BY <2>1, <3>2, <3>5, <4>2
    <3>6. CASE r = 2
      <4>1. P[n] = Emit("resets", i)
        BY <1>4, <3>4, <3>6
      <4>2. P[n].op = "emit" /\ P[n].of = <<"resets", i>>
        BY <4>1 DEF Emit
      <4> QED BY <2>1, <4>2
    <3> QED BY <3>3, <3>5, <3>6
  <2>2. CASE n = mid + 1
    BY <1>3, <2>2 DEF Set
  <2> QED BY <1>3, <2>1, <2>2
<1>6. FeedsRule(P, "resets")
  <2>1. IsFed("resets", "resets")
    BY DEF IsFed, Feeder
  <2>2. ASSUME NEW n \in 1..Len(P), P[n].op = "emit" PROVE P[n].of[1] = "resets"
    BY <1>5, <2>2
  <2>3. ASSUME NEW m \in 1..Len(P), P[m].op \in Asking
        PROVE  \E i \in 1..Len(s) : P[m].of = <<"resets", i>> /\ m = At(pre, s, i, 1)
    BY <1>5, <2>3 DEF Asking, Fatal
  <2>4. ASSUME NEW m \in 1..Len(P), NEW o \in 1..Len(P), P[m].op \in Asking,
               P[o].op \in Asking, P[o].of = P[m].of
        PROVE  m = o
    BY <2>3, <2>4
  <2>5. ASSUME NEW m \in 1..Len(P) PROVE P[m].op # "stored"
    BY <1>5
  <2> QED BY <2>1, <2>2, <2>4, <2>5, OneFeed
<1>7. WholeRule(P)
  <2>1. Needs["resets"] = AllOf("resets", ResetKinds)
    BY DEF Needs
  <2>2. ASSUME NEW n \in 1..Len(P), P[n].op \in Setting
        PROVE  n = mid + 1 /\ P[n].of = <<"resets", 0>>
    BY <1>5, <2>2 DEF Setting
  <2>3. ASSUME NEW e \in Needs["resets"]
        PROVE  \E m \in 1..((mid + 1) - 1) : P[m].op \in {"get", "stored"} /\ P[m].of = e
    <3>1. PICK i \in 1..Len(s) : e = <<"resets", i>>
      BY <1>1, <2>1, <2>3 DEF AllOf
    <3>2. 1 \in 1..Len(s[i])
      BY <1>4
    <3>3. At(pre, s, i, 1) \in 1..mid /\ P[At(pre, s, i, 1)] = GetOf("resets", i)
      BY <1>3, <1>4, <3>2
    <3>4. (mid + 1) - 1 = mid
      OBVIOUS
    <3> QED BY <3>1, <3>3, <3>4 DEF GetOf
  <2>4. SetsAt(P, "resets", mid + 1) /\ HasBefore(P, "resets", mid + 1)
    BY <2>2, <2>3 DEF SetsAt, HasBefore
  <2> QED BY <2>4, OneSetter
<1>8. TakenRule(P)
  BY <1>5 DEF TakenRule
<1>9. MarkRule(P, "resets")
  <2>1. ASSUME NEW n \in 1..Len(P), P[n].op = "set"
        PROVE  n = mid + 1 /\ P[n].of = <<"resets", 0>>
    BY <1>5, <2>1
  <2>2. ASSUME NEW n \in 1..Len(P) PROVE ~(n > mid + 1)
    BY <1>3
  <2>3. mid + 1 \in Nat
    OBVIOUS
  <2> QED BY <2>1, <2>2, <2>3, OneMark
<1> QED BY <1>6, <1>7, <1>8, <1>9 DEF Keeps, P

(* The recipes of the tracked items, when there are any.                   *)
LEMMA CraftsLoop ==
    ASSUME Tracked \in Nat
    PROVE  \E S : \E mid \in Nat :
              /\ PollCrafts \in Seq(S)
              /\ LoopCalls(PollCrafts, <<Get("prices"), Set("prices")>>, "once",
                           "recipe", Tracked,
                           <<Missing("ingredients"), Set("craft_profits")>>, mid)
<1> DEFINE turns == [n \in 1..Len(Upto(Tracked)) |-> <<Once("recipe", Upto(Tracked)[n])>>]
           a == Get("prices")
           b == Set("prices")
           c == Missing("ingredients")
           d == Set("craft_profits")
           S == {a, b, c, d} \union {CallOf("once", "recipe", i) : i \in 1..Tracked}
<1>1. turns = [n \in 1..Tracked |-> <<CallOf("once", "recipe", n)>>]
  BY UptoIs DEF Once, CallOf
<1>2. PollCrafts = (<<a, b>> \o FlattenSeq(turns)) \o <<c, d>>
  BY DEF PollCrafts, Each
<1>3. /\ a \in S /\ b \in S /\ c \in S /\ d \in S
      /\ \A i \in 1..Tracked : CallOf("once", "recipe", i) \in S
  OBVIOUS
<1> HIDE DEF turns, S, a, b, c, d
<1>4. <<a, b>> \in Seq(S) /\ <<c, d>> \in Seq(S)
  BY <1>3
<1>5. PollCrafts \in Seq(S)
  <2>0. turns \in Seq(Seq(S))
    BY <1>1, <1>3, TurnsAre
  <2>1. FlattenSeq(turns) \in Seq(S)
    BY <2>0, FlattenLays
  <2>2. <<a, b>> \o FlattenSeq(turns) \in Seq(S)
    BY <1>4, <2>1, ConcatProperties
  <2> QED BY <1>2, <1>4, <2>2, ConcatProperties
<1>6. \E mid \in Nat :
         LoopCalls(PollCrafts, <<a, b>>, "once", "recipe", Tracked, <<c, d>>, mid)
  BY <1>1, <1>2, <1>3, <1>4, CallsLay
<1> QED BY <1>5, <1>6 DEF a, b, c, d

(* Its steps, one by one.                                                  *)
LEMMA CraftSteps ==
    ASSUME Tracked \in Nat
    PROVE  \E mid \in Nat :
              /\ mid >= 2 /\ Len(PollCrafts) = mid + 2
              /\ \A n \in 1..(mid + 2) :
                    \/ n = 1 /\ PollCrafts[n] = Get("prices")
                    \/ n = 2 /\ PollCrafts[n] = Set("prices")
                    \/ n \in 3..mid /\ PollCrafts[n].op = "once"
                    \/ n = mid + 1 /\ PollCrafts[n] = Missing("ingredients")
                    \/ n = mid + 2 /\ PollCrafts[n] = Set("craft_profits")
<1> DEFINE C == PollCrafts
           pre == <<Get("prices"), Set("prices")>>
           post == <<Missing("ingredients"), Set("craft_profits")>>
<1>1. PICK mid \in Nat : LoopCalls(C, pre, "once", "recipe", Tracked, post, mid)
  BY CraftsLoop
<1>2. /\ Len(pre) = 2 /\ Len(pre) + 1 = 3 /\ Len(post) = 2
      /\ pre[1] = Get("prices") /\ pre[2] = Set("prices")
      /\ post[1] = Missing("ingredients") /\ post[2] = Set("craft_profits")
      /\ \A m \in 1..2 : m \in {1, 2}
  OBVIOUS
<1> HIDE DEF C, pre, post
<1>3. Len(C) = mid + 2 /\ mid >= 2
  BY <1>1, <1>2 DEF LoopCalls
<1>4. ASSUME NEW n \in 1..(mid + 2)
      PROVE  \/ n = 1 /\ C[n] = Get("prices")
             \/ n = 2 /\ C[n] = Set("prices")
             \/ n \in 3..mid /\ C[n].op = "once"
             \/ n = mid + 1 /\ C[n] = Missing("ingredients")
             \/ n = mid + 2 /\ C[n] = Set("craft_profits")
  <2>1. \/ n \in 1..Len(pre) /\ C[n] = pre[n]
        \/ n \in (Len(pre) + 1)..mid /\ \E i \in 1..Tracked : C[n] = CallOf("once", "recipe", i)
        \/ \E m \in 1..Len(post) : n = mid + m /\ C[n] = post[m]
    BY <1>1, <1>2, <1>3, LoopSteps
  <2>2. CASE n \in 1..Len(pre) /\ C[n] = pre[n]
    BY <1>2, <2>2
  <2>3. CASE n \in 3..mid /\ \E i \in 1..Tracked : C[n] = CallOf("once", "recipe", i)
    BY <2>3 DEF CallOf
  <2>4. CASE \E m \in 1..Len(post) : n = mid + m /\ C[n] = post[m]
    BY <1>2, <2>4
  <2> QED BY <1>2, <2>1, <2>2, <2>3, <2>4
<1> QED BY <1>3, <1>4 DEF C

(* A poll of the trading post, with or without tracked items, asks for     *)
(* what its three snapshots need before it sets them.                      *)
LEMMA CommerceSteps ==
    ASSUME Tracked \in Nat
    PROVE  \E mid \in Nat :
              \A n \in 1..Len(PollCommerce) :
                 /\ PollCommerce[n].op \in {"get", "soft", "once", "missing", "set"}
                 /\ PollCommerce[n].op = "set" =>
                       \/ n = 6 /\ PollCommerce[n].of = <<"commerce", 0>>
                       \/ n = 8 /\ PollCommerce[n].of = <<"prices", 0>>
                       \/ n > 8 /\ PollCommerce[n].of = <<"craft_profits", 0>>
                 /\ n = 1 => PollCommerce[n] = Get("exchange/coins")
                 /\ n = 2 => PollCommerce[n] = Get("exchange/gems")
                 /\ n = 3 => PollCommerce[n] = Get("delivery")
                 /\ n = 7 => PollCommerce[n] = Get("prices")
<1> DEFINE P == PollCommerce
           Q == <<Get("exchange/coins"), Get("exchange/gems"), Get("delivery"),
                  Soft("open", 1), Soft("open", 2), Set("commerce")>>
           C == PollCrafts
<1>1. /\ Len(Q) = 6 /\ Q[1] = Get("exchange/coins") /\ Q[2] = Get("exchange/gems")
      /\ Q[3] = Get("delivery") /\ Q[4] = Soft("open", 1) /\ Q[5] = Soft("open", 2)
      /\ Q[6] = Set("commerce")
  OBVIOUS
<1>2. P = Q \o IF Tracked > 0 THEN C ELSE <<>>
  BY DEF PollCommerce
<1>3. PICK S : C \in Seq(S)
  BY CraftsLoop
<1>4. PICK mid \in Nat :
         /\ mid >= 2 /\ Len(C) = mid + 2
         /\ \A n \in 1..(mid + 2) :
               \/ n = 1 /\ C[n] = Get("prices")
               \/ n = 2 /\ C[n] = Set("prices")
               \/ n \in 3..mid /\ C[n].op = "once"
               \/ n = mid + 1 /\ C[n] = Missing("ingredients")
               \/ n = mid + 2 /\ C[n] = Set("craft_profits")
  BY CraftSteps
<1>5. \E T : Q \in Seq(T)
  <2> DEFINE a == Get("exchange/coins")
             b == Get("exchange/gems")
             c == Get("delivery")
             d == Soft("open", 1)
             e == Soft("open", 2)
             f == Set("commerce")
             T == {a, b, c, d, e, f}
  <2>1. a \in T /\ b \in T /\ c \in T /\ d \in T /\ e \in T /\ f \in T
    OBVIOUS
  <2> HIDE DEF a, b, c, d, e, f, T
  <2>2. <<a, b, c, d, e, f>> \in Seq(T)
    BY <2>1
  <2> QED BY <2>2 DEF a, b, c, d, e, f
<1> HIDE DEF P, Q, C
<1>6. ASSUME NEW n \in 1..6
      PROVE  /\ Q[n].op \in {"get", "soft", "set"}
             /\ Q[n].op = "set" => n = 6 /\ Q[n].of = <<"commerce", 0>>
  BY <1>1 DEF Get, Soft, Set
<1>7. /\ Len(P) >= 6 /\ \A n \in 1..6 : P[n] = Q[n]
      /\ Len(P) = 6 \/ Len(P) = 6 + (mid + 2)
      /\ \A n \in 7..Len(P) : P[n] = C[n - 6]
  <2>1. CASE Tracked > 0
    <3>1. PICK T : Q \in Seq(T) /\ C \in Seq(T)
      <4>1. PICK V : Q \in Seq(V)
        BY <1>5
      <4> DEFINE U == S \union V
      <4>2. Q \in Seq(U) /\ C \in Seq(U)
        BY <1>3, <4>1, SeqMonotonic
      <4> QED BY <4>2
    <3>2. P = Q \o C
      BY <1>2, <2>1
    <3>3. /\ Len(Q \o C) = Len(Q) + Len(C)
          /\ \A n \in 1..(Len(Q) + Len(C)) :
                (Q \o C)[n] = IF n <= Len(Q) THEN Q[n] ELSE C[n - Len(Q)]
      BY <3>1, ConcatProperties
    <3>4. Len(Q) = 6 /\ Len(C) = mid + 2
      BY <1>1, <1>4
    <3>5. /\ Len(P) = 6 + (mid + 2)
          /\ \A n \in 1..(6 + (mid + 2)) : P[n] = IF n <= 6 THEN Q[n] ELSE C[n - 6]
      BY <3>2, <3>3, <3>4
    <3> QED BY <3>5
  <2>2. CASE ~(Tracked > 0)
    <3>1. P = Q
      BY <1>2, <1>5, <2>2, ConcatEmptySeq
    <3>2. Len(P) = 6 /\ 7..Len(P) = {} /\ \A n \in 1..6 : P[n] = Q[n]
      BY <1>1, <3>1
    <3> QED BY <3>2
  <2> QED BY <2>1, <2>2
<1>8. ASSUME NEW n \in 1..Len(P)
      PROVE  \/ n \in 1..6 /\ P[n] = Q[n]
             \/ n = 7 /\ P[n] = Get("prices")
             \/ n = 8 /\ P[n] = Set("prices")
             \/ n > 8 /\ P[n].op = "once"
             \/ n > 8 /\ P[n] = Missing("ingredients")
             \/ n > 8 /\ P[n] = Set("craft_profits")
  <2>1. CASE n \in 1..6
    BY <1>7, <2>1
  <2>2. CASE n > 6
    <3>0. Len(P) = 6 + (mid + 2) /\ n \in 7..Len(P)
      BY <1>7, <2>2
    <3>1. n - 6 \in 1..(mid + 2) /\ P[n] = C[n - 6]
      BY <1>7, <3>0
    <3>2. \/ n - 6 = 1 /\ C[n - 6] = Get("prices")
          \/ n - 6 = 2 /\ C[n - 6] = Set("prices")
          \/ n - 6 \in 3..mid /\ C[n - 6].op = "once"
          \/ n - 6 = mid + 1 /\ C[n - 6] = Missing("ingredients")
          \/ n - 6 = mid + 2 /\ C[n - 6] = Set("craft_profits")
      BY <1>4, <3>1
    <3> QED BY <1>4, <2>2, <3>1, <3>2
  <2> QED BY <2>1, <2>2
<1>9. ASSUME NEW n \in 1..Len(P)
      PROVE  /\ P[n].op \in {"get", "soft", "once", "missing", "set"}
             /\ P[n].op = "set" =>
                   \/ n = 6 /\ P[n].of = <<"commerce", 0>>
                   \/ n = 8 /\ P[n].of = <<"prices", 0>>
                   \/ n > 8 /\ P[n].of = <<"craft_profits", 0>>
  <2>1. CASE n \in 1..6 /\ P[n] = Q[n]
    BY <1>6, <2>1
  <2>2. CASE n = 7 /\ P[n] = Get("prices")
    BY <2>2 DEF Get
  <2>3. CASE n = 8 /\ P[n] = Set("prices")
    BY <2>3 DEF Set
  <2>4. CASE n > 8 /\ P[n].op = "once"
    BY <2>4
  <2>5. CASE n > 8 /\ P[n] = Missing("ingredients")
    BY <2>5 DEF Missing
  <2>6. CASE n > 8 /\ P[n] = Set("craft_profits")
    BY <2>6 DEF Set
  <2> QED BY <1>8, <2>1, <2>2, <2>3, <2>4, <2>5, <2>6
<1>10. ASSUME NEW n \in 1..Len(P)
       PROVE  /\ n = 1 => P[n] = Get("exchange/coins")
              /\ n = 2 => P[n] = Get("exchange/gems")
              /\ n = 3 => P[n] = Get("delivery")
              /\ n = 7 => P[n] = Get("prices")
  BY <1>1, <1>8
<1> QED BY <1>9, <1>10 DEF P

LEMMA CommerceKeeps == ASSUME Tracked \in Nat PROVE Keeps(PollCommerce, "commerce")
<1> DEFINE P == PollCommerce
<1>1. \A n \in 1..Len(P) :
         /\ P[n].op \in {"get", "soft", "once", "missing", "set"}
         /\ P[n].op = "set" =>
               \/ n = 6 /\ P[n].of = <<"commerce", 0>>
               \/ n = 8 /\ P[n].of = <<"prices", 0>>
               \/ n > 8 /\ P[n].of = <<"craft_profits", 0>>
         /\ n = 1 => P[n] = Get("exchange/coins")
         /\ n = 2 => P[n] = Get("exchange/gems")
         /\ n = 3 => P[n] = Get("delivery")
         /\ n = 7 => P[n] = Get("prices")
  BY CommerceSteps
<1> HIDE DEF P
<1>2. FeedsRule(P, "commerce") /\ TakenRule(P)
  BY <1>1 DEF FeedsRule, TakenRule
<1>3. MarkRule(P, "commerce")
  BY <1>1, PlanFamilies DEF MarkRule
<1>4. ASSUME NEW n \in 1..Len(P), P[n].op \in Setting, NEW e \in Needs[P[n].of[1]]
      PROVE  \E m \in 1..(n - 1) : P[m].op \in {"get", "stored"} /\ P[m].of = e
  <2>1. \/ n = 6 /\ P[n].of = <<"commerce", 0>>
        \/ n = 8 /\ P[n].of = <<"prices", 0>>
        \/ n > 8 /\ P[n].of = <<"craft_profits", 0>>
    BY <1>1, <1>4 DEF Setting
  <2>2. CASE n = 6 /\ P[n].of = <<"commerce", 0>>
    <3>1. Needs["commerce"] = {<<x, 0>> : x \in {"exchange/coins", "exchange/gems", "delivery"}}
      BY DEF Needs
    <3>2. P[n].of[1] = "commerce"
      BY <2>2
    <3>3. \/ e = <<"exchange/coins", 0>>
          \/ e = <<"exchange/gems", 0>>
          \/ e = <<"delivery", 0>>
      BY <1>4, <3>1, <3>2
    <3>4. /\ P[1] = Get("exchange/coins") /\ P[2] = Get("exchange/gems")
          /\ P[3] = Get("delivery")
          /\ 1 \in 1..(n - 1) /\ 2 \in 1..(n - 1) /\ 3 \in 1..(n - 1)
      BY <1>1, <2>2
    <3> QED BY <3>3, <3>4 DEF Get
  <2>3. CASE n >= 8 /\ P[n].of[1] \in {"prices", "craft_profits"}
    <3>1. Needs["prices"] = Whole("prices") /\ Needs["craft_profits"] = Whole("prices")
      BY DEF Needs
    <3>2. e = <<"prices", 0>>
      BY <1>4, <2>3, <3>1 DEF Whole
    <3>3. P[7] = Get("prices") /\ 7 \in 1..(n - 1)
      BY <1>1, <2>3
    <3> QED BY <3>2, <3>3 DEF Get
  <2> QED BY <2>1, <2>2, <2>3
<1>5. WholeRule(P)
  BY <1>4 DEF WholeRule
<1> QED BY <1>2, <1>3, <1>5 DEF Keeps, P

GuildTurn(g) == <<GetOf("guild", g)>> \o IF g \in Led THEN LeaderOnly(g) ELSE <<>>

(* The turn of one guild: the guild, and what only its leader may read.    *)
LEMMA GuildTurnIs ==
    ASSUME NEW g, NEW S,
           GetOf("guild", g) \in S,
           \A path \in {"upgrades", "treasury", "stash", "storage", "log"} :
              Soft(path, g) \in S,
           Emit("log", g) \in S
    PROVE  /\ GuildTurn(g) \in Seq(S)
           /\ GuildTurn(g)[1] = GetOf("guild", g)
           /\ \/ Len(GuildTurn(g)) = 1
              \/ /\ Len(GuildTurn(g)) = 7
                 /\ GuildTurn(g)[2] = Soft("upgrades", g)
                 /\ GuildTurn(g)[3] = Soft("treasury", g)
                 /\ GuildTurn(g)[4] = Soft("stash", g)
                 /\ GuildTurn(g)[5] = Soft("storage", g)
                 /\ GuildTurn(g)[6] = Soft("log", g)
                 /\ GuildTurn(g)[7] = Emit("log", g)
<1> DEFINE t == GuildTurn(g)
           one == <<GetOf("guild", g)>>
           rest == LeaderOnly(g)
<1>1. /\ Soft("upgrades", g) \in S /\ Soft("treasury", g) \in S
      /\ Soft("stash", g) \in S /\ Soft("storage", g) \in S /\ Soft("log", g) \in S
  OBVIOUS
<1>2. one \in Seq(S) /\ Len(one) = 1 /\ one[1] = GetOf("guild", g)
  OBVIOUS
<1>3. /\ rest \in Seq(S) /\ Len(rest) = 6
      /\ rest[1] = Soft("upgrades", g) /\ rest[2] = Soft("treasury", g)
      /\ rest[3] = Soft("stash", g) /\ rest[4] = Soft("storage", g)
      /\ rest[5] = Soft("log", g) /\ rest[6] = Emit("log", g)
  <2> DEFINE u == Soft("upgrades", g)
             v == Soft("treasury", g)
             w == Soft("stash", g)
             x == Soft("storage", g)
             y == Soft("log", g)
             z == Emit("log", g)
  <2>1. rest = <<u, v, w, x, y, z>>
    BY DEF LeaderOnly
  <2>2. u \in S /\ v \in S /\ w \in S /\ x \in S /\ y \in S /\ z \in S
    BY <1>1
  <2> HIDE DEF rest, u, v, w, x, y, z
  <2>3. /\ rest \in Seq(S) /\ Len(rest) = 6
        /\ rest[1] = u /\ rest[2] = v /\ rest[3] = w /\ rest[4] = x
        /\ rest[5] = y /\ rest[6] = z
    BY <2>1, <2>2
  <2> QED BY <2>3 DEF u, v, w, x, y, z
<1>4. t = one \o IF g \in Led THEN rest ELSE <<>>
  BY DEF GuildTurn
<1> HIDE DEF t, one, rest
<1>5. CASE g \in Led
  <2>1. t = one \o rest
    BY <1>4, <1>5
  <2>2. /\ one \o rest \in Seq(S)
        /\ Len(one \o rest) = Len(one) + Len(rest)
        /\ \A n \in 1..(Len(one) + Len(rest)) :
              (one \o rest)[n] = IF n <= Len(one) THEN one[n] ELSE rest[n - Len(one)]
    BY <1>2, <1>3, ConcatProperties
  <2>3. /\ t \in Seq(S) /\ Len(t) = 7
        /\ \A n \in 1..7 : t[n] = IF n <= 1 THEN one[n] ELSE rest[n - 1]
    BY <1>2, <1>3, <2>1, <2>2
  <2>4. /\ t[1] = one[1] /\ t[2] = rest[1] /\ t[3] = rest[2] /\ t[4] = rest[3]
        /\ t[5] = rest[4] /\ t[6] = rest[5] /\ t[7] = rest[6]
    BY <2>3
  <2> QED BY <1>2, <1>3, <2>3, <2>4 DEF t
<1>6. CASE g \notin Led
  <2>1. t = one
    BY <1>2, <1>4, <1>6, ConcatEmptySeq
  <2> QED BY <1>2, <2>1 DEF t
<1> QED BY <1>5, <1>6

(* What a turn of the loop over the guilds is made of.                     *)
LEMMA GuildTurnSteps ==
    ASSUME NEW g
    PROVE  /\ Len(GuildTurn(g)) \in {1, 7}
           /\ GuildTurn(g)[1].op = "get" /\ GuildTurn(g)[1].of = <<"guild", g>>
           /\ \A r \in 2..Len(GuildTurn(g)) :
                 \/ /\ GuildTurn(g)[r].op = "soft"
                    /\ GuildTurn(g)[r].of[1] \in {"upgrades", "treasury", "stash", "storage"}
                 \/ /\ r = 6 /\ GuildTurn(g)[r].op = "soft"
                    /\ GuildTurn(g)[r].of = <<"log", g>>
                 \/ /\ r = 7 /\ GuildTurn(g)[r].op = "emit"
                    /\ GuildTurn(g)[r].of = <<"log", g>>
<1> DEFINE t == GuildTurn(g)
           S == {GetOf("guild", g), Emit("log", g)}
                   \union {Soft(path, g) :
                      path \in {"upgrades", "treasury", "stash", "storage", "log"}}
<1>1. /\ GetOf("guild", g) \in S /\ Emit("log", g) \in S
      /\ \A path \in {"upgrades", "treasury", "stash", "storage", "log"} :
            Soft(path, g) \in S
  OBVIOUS
<1> HIDE DEF t, S
<1>2. /\ t[1] = GetOf("guild", g)
      /\ \/ Len(t) = 1
         \/ /\ Len(t) = 7
            /\ t[2] = Soft("upgrades", g) /\ t[3] = Soft("treasury", g)
            /\ t[4] = Soft("stash", g) /\ t[5] = Soft("storage", g)
            /\ t[6] = Soft("log", g) /\ t[7] = Emit("log", g)
  BY <1>1, GuildTurnIs DEF t
<1>3. t[1].op = "get" /\ t[1].of = <<"guild", g>>
  BY <1>2 DEF GetOf
<1>4. CASE Len(t) = 1
  <2>1. 2..Len(t) = {}
    BY <1>4
  <2> QED BY <1>3, <1>4, <2>1 DEF t
<1>5. CASE Len(t) = 7
  <2>1. \A r \in 2..7 : r \in {2, 3, 4, 5, 6, 7}
    OBVIOUS
  <2>2. /\ t[2].op = "soft" /\ t[2].of[1] = "upgrades"
        /\ t[3].op = "soft" /\ t[3].of[1] = "treasury"
        /\ t[4].op = "soft" /\ t[4].of[1] = "stash"
        /\ t[5].op = "soft" /\ t[5].of[1] = "storage"
        /\ t[6].op = "soft" /\ t[6].of = <<"log", g>>
        /\ t[7].op = "emit" /\ t[7].of = <<"log", g>>
    BY <1>2, <1>5 DEF Soft, Emit
  <2>3. \A r \in 2..Len(t) :
           \/ /\ t[r].op = "soft"
              /\ t[r].of[1] \in {"upgrades", "treasury", "stash", "storage"}
           \/ /\ r = 6 /\ t[r].op = "soft" /\ t[r].of = <<"log", g>>
           \/ /\ r = 7 /\ t[r].op = "emit" /\ t[r].of = <<"log", g>>
    BY <1>5, <2>1, <2>2
  <2> QED BY <1>3, <1>5, <2>3 DEF t
<1> QED BY <1>2, <1>4, <1>5

(* The loop over the guilds, one turn for each.                            *)
LEMMA GuildLoop ==
    ASSUME Len(Guilds) \in Nat
    PROVE  \E s : \E mid \in Nat :
              /\ LoopOf(PollGuild, <<Stored("account"), Unless("guilds")>>, s,
                        <<Set("guild")>>, mid)
              /\ Len(s) = Len(Guilds)
              /\ \A i \in 1..Len(Guilds) : s[i] = GuildTurn(Guilds[i])
<1> DEFINE N == Len(Guilds)
           turns == [n \in 1..Len(Guilds) |->
                        <<GetOf("guild", Guilds[n])>>
                           \o IF Guilds[n] \in Led THEN LeaderOnly(Guilds[n]) ELSE <<>>]
           a == Stored("account")
           b == Unless("guilds")
           c == Set("guild")
           Soften(path) == {Soft(path, Guilds[i]) : i \in 1..N}
           S == {a, b, c} \union {GetOf("guild", Guilds[i]) : i \in 1..N}
                   \union {Emit("log", Guilds[i]) : i \in 1..N}
                   \union UNION {Soften(path) : path \in {"upgrades", "treasury", "stash", "storage", "log"}}
<1>1. turns = [n \in 1..N |-> GuildTurn(Guilds[n])]
  BY DEF GuildTurn
<1>2. PollGuild = (<<a, b>> \o FlattenSeq(turns)) \o <<c>>
  BY DEF PollGuild, Each
<1>3. /\ a \in S /\ b \in S /\ c \in S
      /\ \A i \in 1..N : GetOf("guild", Guilds[i]) \in S /\ Emit("log", Guilds[i]) \in S
  OBVIOUS
<1>4. ASSUME NEW i \in 1..N,
             NEW path \in {"upgrades", "treasury", "stash", "storage", "log"}
      PROVE  Soft(path, Guilds[i]) \in S
  <2>1. Soft(path, Guilds[i]) \in Soften(path)
    OBVIOUS
  <2> QED BY <2>1
<1> HIDE DEF turns, S, a, b, c
<1>5. <<a, b>> \in Seq(S) /\ <<c>> \in Seq(S)
  BY <1>3
<1>6. turns \in Seq(Seq(S)) /\ Len(turns) = N
  <2>1. \A n \in 1..N : GuildTurn(Guilds[n]) \in Seq(S)
    BY <1>3, <1>4, GuildTurnIs
  <2>2. turns \in [1..N -> Seq(S)]
    BY <1>1, <2>1
  <2> QED BY <2>2, LenProperties
<1>7. \E mid \in Nat : LoopOf(PollGuild, <<a, b>>, turns, <<c>>, mid)
  BY <1>2, <1>5, <1>6, LoopLays
<1>8. \A i \in 1..N : turns[i] = GuildTurn(Guilds[i])
  BY <1>1
<1> QED BY <1>6, <1>7, <1>8 DEF a, b, c

(* The steps of a poll of the guilds: at[i] is the call for the log of the *)
(* i-th of them.                                                           *)
GuildStep(P, n, mid, at) ==
    \/ n = 1
    \/ P[n].op = "unless"
    \/ P[n].op \in {"get", "soft"} /\ P[n].of[1] # "log"
    \/ \E i \in 1..Len(Guilds) :
          P[n].op = "soft" /\ n = at[i] /\ P[n].of = <<"log", Guilds[i]>>
    \/ \E i \in 1..Len(Guilds) : P[n].op = "emit" /\ P[n].of = <<"log", Guilds[i]>>
    \/ n = mid + 1

AsksGuild(P, i, mid) ==
    \E n \in 1..mid : P[n].op = "get" /\ P[n].of = <<"guild", Guilds[i]>>

GuildPlan(P, mid, at) ==
    /\ mid >= 2 /\ Len(P) = mid + 1
    /\ P[1] = Stored("account") /\ P[mid + 1] = Set("guild")
    /\ \A n \in 1..Len(P) : GuildStep(P, n, mid, at)
    /\ \A i \in 1..Len(Guilds) : AsksGuild(P, i, mid)

(* Every step of a poll of the guilds is one of those.                     *)
LEMMA GuildSteps ==
    ASSUME Len(Guilds) \in Nat
    PROVE  \E mid \in Nat : \E at : GuildPlan(PollGuild, mid, at)
<1> DEFINE P == PollGuild
           pre == <<Stored("account"), Unless("guilds")>>
           post == <<Set("guild")>>
<1>0. PICK s : \E mid \in Nat :
         /\ LoopOf(P, pre, s, post, mid)
         /\ Len(s) = Len(Guilds)
         /\ \A i \in 1..Len(Guilds) : s[i] = GuildTurn(Guilds[i])
  BY GuildLoop
<1>1. PICK mid \in Nat :
         /\ LoopOf(P, pre, s, post, mid)
         /\ Len(s) = Len(Guilds)
         /\ \A i \in 1..Len(Guilds) : s[i] = GuildTurn(Guilds[i])
  BY <1>0
<1>2. /\ Len(pre) = 2 /\ Len(pre) + 1 = 3 /\ Len(post) = 1
      /\ pre[1] = Stored("account") /\ pre[2] = Unless("guilds") /\ post[1] = Set("guild")
  OBVIOUS
<1> DEFINE at == [i \in 1..Len(Guilds) |-> At(pre, s, i, 6)]
<1> HIDE DEF P, pre, post
<1>3. /\ Len(P) = mid + 1 /\ mid >= 2 /\ P[mid + 1] = Set("guild")
      /\ P[1] = Stored("account") /\ P[2] = Unless("guilds")
      /\ \A i \in 1..Len(s) : \A r \in 1..Len(s[i]) :
            At(pre, s, i, r) \in 3..mid /\ P[At(pre, s, i, r)] = s[i][r]
      /\ \A n \in 3..mid :
            \E i \in 1..Len(s) : \E r \in 1..Len(s[i]) : n = At(pre, s, i, r)
  BY <1>1, <1>2 DEF LoopOf
<1>4. ASSUME NEW n \in 3..mid
      PROVE  \/ /\ P[n].op \in {"get", "soft"} /\ P[n].of[1] # "log"
             \/ \E i \in 1..Len(Guilds) :
                   /\ P[n].op = "soft" /\ n = at[i]
                   /\ P[n].of = <<"log", Guilds[i]>>
             \/ \E i \in 1..Len(Guilds) :
                   P[n].op = "emit" /\ P[n].of = <<"log", Guilds[i]>>
  <2>1. PICK i \in 1..Len(s) : \E r \in 1..Len(s[i]) : n = At(pre, s, i, r)
    BY <1>3
  <2>2. PICK r \in 1..Len(s[i]) : n = At(pre, s, i, r)
    BY <2>1
  <2>3. P[n] = s[i][r] /\ s[i] = GuildTurn(Guilds[i]) /\ i \in 1..Len(Guilds)
    BY <1>1, <1>3, <2>2
  <2> DEFINE t == GuildTurn(Guilds[i])
  <2>4. /\ Len(t) \in {1, 7}
        /\ t[1].op = "get" /\ t[1].of = <<"guild", Guilds[i]>>
        /\ \A q \in 2..Len(t) :
              \/ /\ t[q].op = "soft"
                 /\ t[q].of[1] \in {"upgrades", "treasury", "stash", "storage"}
              \/ /\ q = 6 /\ t[q].op = "soft" /\ t[q].of = <<"log", Guilds[i]>>
              \/ /\ q = 7 /\ t[q].op = "emit" /\ t[q].of = <<"log", Guilds[i]>>
    BY GuildTurnSteps
  <2> HIDE DEF t
  <2>5. r \in 1..Len(t) /\ P[n] = t[r]
    BY <2>3 DEF t
  <2>6. r = 1 \/ r \in 2..Len(t)
    BY <2>4, <2>5
  <2>7. CASE r = 1
    BY <2>4, <2>5, <2>7
  <2>8. CASE r \in 2..Len(t)
    <3>1. CASE /\ t[r].op = "soft"
               /\ t[r].of[1] \in {"upgrades", "treasury", "stash", "storage"}
      BY <2>5, <3>1
    <3>2. CASE r = 6 /\ t[r].op = "soft" /\ t[r].of = <<"log", Guilds[i]>>
      <4>1. n = at[i]
        BY <2>2, <2>3, <3>2
      <4> HIDE DEF at
      <4> QED BY <2>3, <2>5, <3>2, <4>1
    <3>3. CASE r = 7 /\ t[r].op = "emit" /\ t[r].of = <<"log", Guilds[i]>>
      BY <2>3, <2>5, <3>3
    <3> QED BY <2>4, <2>8, <3>1, <3>2, <3>3
  <2> QED BY <2>6, <2>7, <2>8
<1>5. ASSUME NEW i \in 1..Len(Guilds)
      PROVE  AsksGuild(P, i, mid)
  <2>1. /\ Len(s[i]) \in {1, 7} /\ i \in 1..Len(s)
        /\ s[i][1].op = "get" /\ s[i][1].of = <<"guild", Guilds[i]>>
    BY <1>1, GuildTurnSteps
  <2>2. 1 \in 1..Len(s[i])
    BY <2>1
  <2>3. At(pre, s, i, 1) \in 3..mid /\ P[At(pre, s, i, 1)] = s[i][1]
    BY <1>3, <2>1, <2>2
  <2>4. At(pre, s, i, 1) \in 1..mid
    BY <2>3
  <2> QED BY <2>1, <2>3, <2>4 DEF AsksGuild
<1> HIDE DEF at
<1>6. ASSUME NEW n \in 1..Len(P) PROVE GuildStep(P, n, mid, at)
  <2>1. n = 1 \/ n = 2 \/ n \in 3..mid \/ n = mid + 1
    BY <1>3
  <2>2. P[2].op = "unless"
    BY <1>3 DEF Unless
  <2>3. CASE n \in 3..mid
    BY <1>4, <2>3 DEF GuildStep
  <2> QED BY <2>1, <2>2, <2>3 DEF GuildStep
<1>7. GuildPlan(P, mid, at)
  BY <1>3, <1>5, <1>6 DEF GuildPlan
<1> QED BY <1>7 DEF P

(* The guilds are distinct, so each log comes from one call.               *)
LEMMA GuildKeeps ==
    ASSUME Len(Guilds) \in Nat,
           \A m, n \in 1..Len(Guilds) : Guilds[m] = Guilds[n] => m = n
    PROVE  Keeps(PollGuild, "guild")
<1> DEFINE P == PollGuild
           N == Len(Guilds)
<1>1. PICK mid \in Nat : \E at : GuildPlan(P, mid, at)
  BY GuildSteps
<1>a. PICK at : GuildPlan(P, mid, at)
  BY <1>1
<1> HIDE DEF P
<1>2. ASSUME NEW n \in 1..Len(P)
      PROVE  \/ n = 1
             \/ P[n].op = "unless"
             \/ P[n].op \in {"get", "soft"} /\ P[n].of[1] # "log"
             \/ \E i \in 1..N :
                   P[n].op = "soft" /\ n = at[i] /\ P[n].of = <<"log", Guilds[i]>>
             \/ \E i \in 1..N : P[n].op = "emit" /\ P[n].of = <<"log", Guilds[i]>>
             \/ n = mid + 1
  <2>1. GuildStep(P, n, mid, at)
    BY <1>a DEF GuildPlan
  <2> QED BY <2>1 DEF GuildStep
<1>b. ASSUME NEW i \in 1..N
      PROVE  \E n \in 1..mid : P[n].op = "get" /\ P[n].of = <<"guild", Guilds[i]>>
  <2>1. AsksGuild(P, i, mid)
    BY <1>a DEF GuildPlan
  <2> QED BY <2>1 DEF AsksGuild
<1>3. /\ mid >= 2 /\ Len(P) = mid + 1
      /\ P[1].op = "stored" /\ P[1].of = <<"account", 0>>
      /\ P[mid + 1].op = "set" /\ P[mid + 1].of = <<"guild", 0>>
  BY <1>a DEF GuildPlan, Stored, Set
<1>4. FeedsRule(P, "guild")
  <2>1. IsFed("log", "guild")
    BY DEF IsFed, Feeder
  <2>2. ASSUME NEW n \in 1..Len(P), P[n].op = "emit" PROVE P[n].of[1] = "log"
    BY <1>2, <1>3, <2>2
  <2>3. ASSUME NEW n \in 1..Len(P), P[n].op = "stored" PROVE P[n].of[1] # "log"
    <3>1. n = 1
      BY <1>2, <1>3, <2>3
    <3> QED BY <1>3, <3>1
  <2>4. ASSUME NEW m \in 1..Len(P), P[m].op \in Asking, P[m].of[1] = "log"
        PROVE  \E i \in 1..N : m = at[i] /\ P[m].of = <<"log", Guilds[i]>>
    <3>1. P[m].op # "unless" /\ P[m].op # "emit" /\ P[m].op # "set"
      BY <2>4 DEF Asking, Fatal
    <3>2. m # 1 /\ m # mid + 1
      BY <1>3, <2>4, <3>1
    <3> QED BY <1>2, <2>4, <3>1, <3>2
  <2>5. ASSUME NEW m \in 1..Len(P), NEW o \in 1..Len(P),
               P[m].op \in Asking, P[m].of[1] = "log",
               P[o].op \in Asking, P[o].of = P[m].of
        PROVE  m = o
    <3>1. PICK i \in 1..N : m = at[i] /\ P[m].of = <<"log", Guilds[i]>>
      BY <2>4, <2>5
    <3>2. PICK j \in 1..N : o = at[j] /\ P[o].of = <<"log", Guilds[j]>>
      BY <2>4, <2>5
    <3>3. Guilds[i] = Guilds[j]
      BY <2>5, <3>1, <3>2
    <3>4. i = j
      BY <3>3
    <3> QED BY <3>1, <3>2, <3>4
  <2> QED BY <2>1, <2>2, <2>3, <2>5, OneFeed
<1>5. WholeRule(P)
  <2>1. Needs["guild"] = {<<"guild", Guilds[n]>> : n \in 1..N}
    BY DEF Needs
  <2>2. ASSUME NEW n \in 1..Len(P), P[n].op \in Setting
        PROVE  n = mid + 1 /\ P[n].of = <<"guild", 0>>
    <3>1. n = mid + 1
      BY <1>2, <1>3, <2>2 DEF Setting
    <3> QED BY <1>3, <3>1
  <2>3. ASSUME NEW e \in Needs["guild"]
        PROVE  \E m \in 1..((mid + 1) - 1) : P[m].op \in {"get", "stored"} /\ P[m].of = e
    <3>1. PICK i \in 1..N : e = <<"guild", Guilds[i]>>
      BY <2>1, <2>3
    <3>2. (mid + 1) - 1 = mid
      OBVIOUS
    <3> QED BY <1>b, <3>1, <3>2
  <2>4. SetsAt(P, "guild", mid + 1) /\ HasBefore(P, "guild", mid + 1)
    BY <2>2, <2>3 DEF SetsAt, HasBefore
  <2> QED BY <2>4, OneSetter
<1>6. TakenRule(P)
  <2>1. ASSUME NEW n \in 1..Len(P), P[n].op = "stored" PROVE n = 1
    BY <1>2, <1>3, <2>1
  <2>2. Needs["account"] = {<<"account", 0>>}
    BY DEF Needs, Whole
  <2>3. P[1].of[1] = "account"
    BY <1>3
  <2> QED BY <1>3, <2>1, <2>2, <2>3 DEF TakenRule
<1>7. MarkRule(P, "guild")
  <2>1. ASSUME NEW n \in 1..Len(P), P[n].op = "set"
        PROVE  n = mid + 1 /\ P[n].of = <<"guild", 0>>
    <3>1. n = mid + 1
      BY <1>2, <1>3, <2>1
    <3> QED BY <1>3, <3>1
  <2>2. ASSUME NEW n \in 1..Len(P) PROVE ~(n > mid + 1)
    BY <1>3
  <2>3. mid + 1 \in Nat
    OBVIOUS
  <2> QED BY <2>1, <2>2, <2>3, OneMark
<1> QED BY <1>4, <1>5, <1>6, <1>7 DEF Keeps, P

-----------------------------------------------------------------------------
(* All plans of poller.go together.                                        *)
LEMMA EveryPlanKeeps == \A f \in DOMAIN Plan : Keeps(Plan[f], f)
<1>1. /\ Plan["account"] = PollAccount /\ Plan["wallet"] = PollWallet
      /\ Plan["characters"] = PollCharacters
      /\ Plan["progression"] = PollProgression
      /\ Plan["achievements"] = PollAchievements
      /\ Plan["storage"] = PollStorage
      /\ Plan["wizardsvault"] = PollWizardsVault /\ Plan["guild"] = PollGuild
      /\ Plan["value"] = PollValue /\ Plan["resets"] = PollResets
      /\ Plan["story"] = PollStory /\ Plan["wvw"] = PollWvW
      /\ Plan["pvp"] = PollPvP /\ Plan["unlocks"] = PollUnlocks
      /\ Plan["wardrobe"] = PollWardrobe
      /\ Plan["transactions"] = PollTransactions
      /\ Plan["commerce"] = PollCommerce
  BY DEF Plan
<1>2. /\ Keeps(PollAccount, "account") /\ Keeps(PollWallet, "wallet")
      /\ Keeps(PollCharacters, "characters")
      /\ Keeps(PollProgression, "progression")
      /\ Keeps(PollAchievements, "achievements")
      /\ Keeps(PollStorage, "storage")
      /\ Keeps(PollWizardsVault, "wizardsvault") /\ Keeps(PollGuild, "guild")
      /\ Keeps(PollValue, "value") /\ Keeps(PollResets, "resets")
      /\ Keeps(PollStory, "story") /\ Keeps(PollWvW, "wvw")
      /\ Keeps(PollPvP, "pvp") /\ Keeps(PollUnlocks, "unlocks")
      /\ Keeps(PollWardrobe, "wardrobe")
      /\ Keeps(PollTransactions, "transactions")
      /\ Keeps(PollCommerce, "commerce")
  BY PlanAssumption, AccountKeeps, WalletKeeps, CharactersKeeps,
     ProgressionKeeps, AchievementsKeeps, StorageKeeps, VaultKeeps, GuildKeeps,
     ValueKeeps, ResetsKeep, StoryKeeps, WvWKeeps, PvPKeeps, UnlocksKeeps,
     WardrobeKeeps, TransactionsKeeps, CommerceKeeps
<1> QED BY <1>1, <1>2, PlanFamilies

(* The machine runs the plans of poller.go, all of them or some.           *)
RunsPlans ==
    /\ Families \subseteq DOMAIN Plan
    /\ \A f \in Families : PlanOf[f] = Plan[f]
    /\ NeedsOf = Needs
    /\ {"pvp", "commerce"} \subseteq Late

(* And so of every family that runs.                                       *)
LEMMA PlanOfKeeps ==
    ASSUME RunsPlans, NEW f \in Families
    PROVE  Keeps(PlanOf[f], f)
<1>1. f \in DOMAIN Plan /\ PlanOf[f] = Plan[f]
  BY DEF RunsPlans
<1> QED BY <1>1, EveryPlanKeeps

(* The polls of poller.go keep to every rule, for an account with any      *)
(* number of guilds, led or not, of characters and of tracked items, and   *)
(* any number of collections and of reset families.                        *)
THEOREM PlansKeepToRules ==
    ASSUME RunsPlans
    PROVE  OneFeeder /\ WholeWhenSet /\ StoredIsNeeded /\ MarkedLast
<1>1. ASSUME NEW f \in Families, NEW n \in StepsOf(f) PROVE FeedsAlone(f, n)
  <2>1. FeedsRule(PlanOf[f], f)
    BY PlanOfKeeps DEF Keeps
  <2>2. ASSUME NEW g \in Families \ {f}, NEW m \in StepsOf(g),
               PlanOf[f][n].op = "emit",
               Does(g, m, {"emit"}, PlanOf[f][n].of)
        PROVE  FALSE
    <3>1. FeedsRule(PlanOf[g], g)
      BY PlanOfKeeps DEF Keeps
    <3>2. IsFed(PlanOf[f][n].of[1], f) /\ IsFed(PlanOf[g][m].of[1], g)
      BY <2>1, <2>2, <3>1 DEF FeedsRule, StepsOf, Does
    <3>3. PlanOf[g][m].of = PlanOf[f][n].of
      BY <2>2 DEF Does
    <3> QED BY <3>2, <3>3 DEF IsFed
  <2> QED BY <2>1, <2>2 DEF FeedsRule, FeedsAlone, StepsOf, Does
<1>2. ASSUME NEW f \in Families, NEW n \in StepsOf(f) PROVE SetsWhole(f, n)
  <2>1. WholeRule(PlanOf[f]) /\ NeedsOf = Needs
    BY PlanOfKeeps DEF Keeps, RunsPlans
  <2> QED BY <2>1 DEF WholeRule, SetsWhole, StepsOf, Does
<1>3. ASSUME NEW f \in Families, NEW n \in StepsOf(f) PROVE TakesNeeded(f, n)
  <2>1. TakenRule(PlanOf[f]) /\ NeedsOf = Needs
    BY PlanOfKeeps DEF Keeps, RunsPlans
  <2> QED BY <2>1 DEF TakenRule, TakesNeeded, StepsOf
<1>4. ASSUME NEW g \in Families, NEW n \in StepsOf(g) PROVE MarksLast(g, n)
  <2>1. MarkRule(PlanOf[g], g)
    BY PlanOfKeeps DEF Keeps
  <2>2. ASSUME NEW f \in Families \ Late, Does(g, n, {"set"}, OwnKey(f))
        PROVE  g = f /\ \A m \in StepsOf(f) : m > n => PlanOf[f][m].op \notin Fatal
    <3>1. f \in DOMAIN Plan \ {"pvp", "commerce"}
      BY DEF RunsPlans
    <3>2. PlanOf[g][n].op = "set" /\ PlanOf[g][n].of = <<f, 0>>
      BY <2>2 DEF Does, OwnKey
    <3>3. f = g /\ \A m \in 1..Len(PlanOf[g]) : m > n => PlanOf[g][m].op \notin Fatal
      BY <2>1, <3>1, <3>2 DEF MarkRule, StepsOf
    <3> QED BY <3>3 DEF StepsOf
  <2> QED BY <2>2 DEF MarksLast
<1> QED
  BY <1>1, <1>2, <1>3, <1>4 DEF OneFeeder, WholeWhenSet, StoredIsNeeded, MarkedLast

(* No poll ever comes to a step against the rules (poller.go:76-619,       *)
(* store.go:460), whatever the shape of the account.                       *)
THEOREM PollsKeepToRules ==
    ASSUME RunsPlans
    PROVE  Spec => []StepsKeepToRules
<1>1. TypeOK => StepsKeepToRules
  <2> SUFFICES ASSUME TypeOK, NEW f \in Families, AtStep(f)
               PROVE  /\ FeedsAlone(f, pc[f]) /\ SetsWhole(f, pc[f])
                      /\ TakesNeeded(f, pc[f]) /\ MarksLast(f, pc[f])
    BY DEF StepsKeepToRules
  <2>1. pc[f] \in StepsOf(f)
    BY AtStepFacts
  <2> QED
    BY <2>1, PlansKeepToRules DEF OneFeeder, WholeWhenSet, StoredIsNeeded, MarkedLast
<1> QED BY <1>1, TypeCorrect, PTL

(* The promises of the poller, kept by the polls of poller.go themselves.  *)
(* The emitter's handlers are given answers in the order of the game.      *)
THEOREM CollectorIsInOrder ==
    ASSUME RunsPlans
    PROVE  Spec => HandlersSeeTimeForward
  BY PlansKeepToRules, HandlersNeverSeePast

(* Every snapshot in the store is of one poll, and whole.                  *)
THEOREM CollectorStoresWhole ==
    ASSUME RunsPlans
    PROVE  Spec => []SnapshotIsWhole
  BY PlansKeepToRules, StoredIsWhole

(* A family's timestamp is of a poll that succeeded, but for pvp and       *)
(* commerce, which set their key before their last call.                   *)
THEOREM CollectorMarksSuccesses ==
    ASSUME RunsPlans
    PROVE  Spec => []MarkedOnlyBySuccess
  BY PlansKeepToRules, MarksAreSuccesses
===============================================================================
