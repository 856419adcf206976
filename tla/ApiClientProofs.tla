---------------------------- MODULE ApiClientProofs ----------------------------
(***************************************************************************)
(* Proofs about ApiClient, for any number of callers and any burst, number *)
(* of retries, deadline and length of the history.                         *)
(*                                                                         *)
(* The bound on what is sent is not inductive: tokens are promised before  *)
(* they are used, and given back.  The invariant counts what was sent with *)
(* what is promised, once against the bucket (all promises) and once for   *)
(* each horizon (the promises due by then); promised ticks of the future   *)
(* differ from each other, and the last of them is the bucket's debt.      *)
(* At the end: the arithmetic of the backoff, module Backoff.              *)
(***************************************************************************)
EXTENDS ApiClient, FiniteSetTheorems, FunctionTheorems, TLAPS

Reserved == {c \in Callers : pc[c] = "reserved"}
Due(k) == {c \in Callers : pc[c] = "reserved" /\ slot[c] <= k}

(* The ticks promised: distinct, and within the debt of the bucket.        *)
SlotsOK ==
    /\ \A c, e \in Reserved : slot[c] > 0 /\ slot[c] = slot[e] => c = e
    /\ \A c \in Reserved : slot[c] > 0 => slot[c] + tokens <= 0
    /\ lastEvent = IF tokens < 0 THEN 0 - tokens ELSE 0

(* What was sent, with what is promised.                                   *)
SendsOK ==
    \A n \in 0..Window :
        /\ sends[n] + Cardinality(Reserved) + tokens <= Burst + n
        /\ \A k \in Nat : sends[n] + Cardinality(Due(k)) <= Burst + n + k

(* The loop of get, caller by caller.                                      *)
CallOK(c) ==
    /\ attempt[c] <= MaxRetries
    /\ asked[c] <= attempt[c] + 1
    /\ pc[c] \in {"backoff", "ready", "reserved"} =>
          /\ asked[c] <= attempt[c]
          /\ status[c] \in {"none"} \union Retryable
    /\ pc[c] = "idle" /\ result[c] = "exhausted" =>
          attempt[c] = MaxRetries /\ status[c] \in Retryable

CallsOK == \A c \in Callers : CallOK(c)

-----------------------------------------------------------------------------
(* The Min and Max of the bucket, over two numbers.                        *)
LEMMA MinOfTwo ==
    ASSUME NEW a \in Int, NEW b \in Int
    PROVE  Min({a, b}) = IF a <= b THEN a ELSE b
  BY DEF Min

LEMMA MaxOfTwo ==
    ASSUME NEW a \in Int, NEW b \in Int
    PROVE  Max({a, b}) = IF a >= b THEN a ELSE b
  BY DEF Max

(* What a token more makes of the bucket, and a tick of a distance.        *)
LEMMA TokenMore ==
    TypeOK => Min({tokens + 1, Burst}) = IF tokens < Burst THEN tokens + 1 ELSE Burst
<1> SUFFICES ASSUME TypeOK
             PROVE  Min({tokens + 1, Burst}) = IF tokens < Burst THEN tokens + 1 ELSE Burst
  OBVIOUS
<1>1. tokens + 1 \in Int /\ Burst \in Int /\ tokens \in Int
  BY ClientAssumption DEF TypeOK
<1>2. Min({tokens + 1, Burst}) = IF tokens + 1 <= Burst THEN tokens + 1 ELSE Burst
  BY <1>1, MinOfTwo
<1> QED
  BY <1>1, <1>2

LEMMA TickLess ==
    ASSUME NEW n \in Nat PROVE Max({n - 1, 0}) = IF n = 0 THEN 0 ELSE n - 1
<1>1. n - 1 \in Int /\ 0 \in Int
  OBVIOUS
<1>2. Max({n - 1, 0}) = IF n - 1 >= 0 THEN n - 1 ELSE 0
  BY <1>1, MaxOfTwo
<1> QED
  BY <1>2

(* Promises are few enough to be counted.                                  *)
LEMMA Counts ==
    /\ IsFiniteSet(Reserved) /\ Cardinality(Reserved) \in Nat
    /\ \A k : /\ IsFiniteSet(Due(k)) /\ Cardinality(Due(k)) \in Nat
              /\ Cardinality(Due(k)) <= Cardinality(Reserved)
<1>1. IsFiniteSet(Callers)
  BY ClientAssumption
<1>2. Reserved \in SUBSET Callers /\ \A k : Due(k) \in SUBSET Reserved
  BY DEF Reserved, Due
<1>3. IsFiniteSet(Reserved)
  BY <1>1, <1>2, FS_Subset
<1>4. \A k : IsFiniteSet(Due(k)) /\ Cardinality(Due(k)) <= Cardinality(Reserved)
  BY <1>2, <1>3, FS_Subset
<1> QED
  BY <1>3, <1>4, FS_CardinalityType

-----------------------------------------------------------------------------
(* Types, action by action.                                                *)
LEMMA InitType == Init => TypeOK
  BY ClientAssumption DEF Init, TypeOK, Retryable, Final

LEMMA CallStepType ==
    ASSUME TypeOK, NEW c \in Callers, Call(c) \/ CallStep(c) \/ EndContext(c)
    PROVE  TypeOK'
<1> USE ClientAssumption DEF TypeOK, Retryable, Final, bucketVars, historyVars,
        callVars
<1>1. CASE Call(c)
  BY <1>1 DEF Call, Goto
<1>2. CASE EndContext(c)
  BY <1>2 DEF EndContext
<1>3. CASE WakeUp(c)
  BY <1>3 DEF WakeUp, Goto
<1>4. CASE BackoffEnds(c)
  BY <1>4 DEF BackoffEnds, Return, Goto
<1>5. CASE Retry(c)
  BY <1>5 DEF Retry, Goto
<1>6. CASE Exhausted(c)
  BY <1>6 DEF Exhausted, Return, Goto
<1>7. CASE Answered(c)
  BY <1>7 DEF Answered, Return, Goto
<1>8. CASE Reserve(c)
  BY <1>8 DEF Reserve, Delay, Goto
<1>9. CASE WaitRefused(c)
  BY <1>9 DEF WaitRefused, Outcome, Goto
<1>10. CASE Send(c)
  BY <1>10 DEF Send, Goto
<1>11. CASE CancelReservation(c)
  <2>1. /\ tokens' \in Int /\ tokens' <= Burst
        /\ lastEvent' \in Nat
    <3>1. CASE slot[c] = lastEvent
      <4>1. tokens' = Min({tokens + 1, Burst}) /\ lastEvent' = Max({lastEvent - 1, 0})
        BY <1>11, <3>1 DEF CancelReservation
      <4>2. tokens' = IF tokens < Burst THEN tokens + 1 ELSE Burst
        BY <4>1, TokenMore
      <4>3. lastEvent' = IF lastEvent = 0 THEN 0 ELSE lastEvent - 1
        BY <4>1, TickLess
      <4> QED BY <4>2, <4>3
    <3>2. CASE slot[c] # lastEvent
      BY <1>11, <3>2 DEF CancelReservation
    <3> QED BY <3>1, <3>2
  <2> QED BY <1>11, <2>1 DEF CancelReservation, Outcome, Goto
<1>12. CASE \E s \in Retryable \union Final : Receive(c, s)
  BY <1>12 DEF Receive, Outcome, Goto
<1> QED
  BY <1>1, <1>2, <1>3, <1>4, <1>5, <1>6, <1>7, <1>8, <1>9, <1>10, <1>11, <1>12
  DEF CallStep

LEMMA AdvanceType == TypeOK /\ Advance => TypeOK'
<1> SUFFICES ASSUME TypeOK, Advance PROVE TypeOK'
  OBVIOUS
<1> USE ClientAssumption
<1>1. tokens' \in Int /\ tokens' <= Burst /\ lastEvent' \in Nat
  <2>1. tokens' = IF tokens < Burst THEN tokens + 1 ELSE Burst
    BY TokenMore DEF Advance
  <2>2. lastEvent' = IF lastEvent = 0 THEN 0 ELSE lastEvent - 1
    BY TickLess DEF Advance, TypeOK
  <2> QED BY <2>1, <2>2 DEF TypeOK
<1>2. slot' \in [Callers -> Nat]
  <2>1. ASSUME NEW c \in Callers PROVE Max({slot[c] - 1, 0}) \in Nat
    <3>1. slot[c] \in Nat
      BY DEF TypeOK
    <3> QED BY <3>1, TickLess
  <2> QED BY <2>1 DEF Advance
<1>3. sends' \in [0..Window -> Nat]
  BY DEF Advance, TypeOK
<1> QED
  BY <1>1, <1>2, <1>3 DEF Advance, TypeOK

LEMMA NextType == TypeOK /\ [Next]_vars => TypeOK'
<1> SUFFICES ASSUME TypeOK, [Next]_vars PROVE TypeOK'
  OBVIOUS
<1>1. CASE UNCHANGED vars
  BY <1>1 DEF vars, bucketVars, callVars, historyVars, TypeOK
<1> QED
  BY <1>1, AdvanceType, CallStepType DEF Next

(* Types of the bucket, the callers and the history of ApiClient.          *)
THEOREM ClientTypeCorrect == Spec => []TypeOK
  BY InitType, NextType, PTL DEF Spec

-----------------------------------------------------------------------------
(* The loop of get: a step of one caller, and what it leaves to others.    *)
LEMMA StepCallsOK == TypeOK /\ CallsOK /\ [Next]_vars => CallsOK'
<1> SUFFICES ASSUME TypeOK, CallsOK, [Next]_vars, NEW c \in Callers PROVE CallOK(c)'
  BY DEF CallsOK
<1> USE ClientAssumption
<1>0. CallOK(c)
  BY DEF CallsOK
<1> DEFINE Of(d) == <<attempt[d], asked[d], pc[d], status[d], result[d]>>
<1>1. CASE Of(c)' = Of(c)
  BY <1>0, <1>1 DEF CallOK
<1>2. CASE Call(c)
  BY <1>0, <1>2 DEF Call, Goto, TypeOK, CallOK
<1>3. CASE WakeUp(c)
  BY <1>0, <1>3 DEF WakeUp, Goto, TypeOK, CallOK, historyVars
<1>4. CASE BackoffEnds(c)
  BY <1>0, <1>4 DEF BackoffEnds, Return, Goto, TypeOK, CallOK, historyVars
<1>5. CASE Retry(c)
  BY <1>0, <1>5 DEF Retry, Goto, TypeOK, CallOK, historyVars
<1>6. CASE Exhausted(c)
  BY <1>0, <1>6 DEF Exhausted, Return, Goto, TypeOK, CallOK, historyVars
<1>7. CASE Answered(c)
  BY <1>0, <1>7 DEF Answered, Return, Goto, TypeOK, CallOK, historyVars, Final
<1>8. CASE Reserve(c)
  BY <1>0, <1>8 DEF Reserve, Goto, TypeOK, CallOK, historyVars
<1>9. CASE WaitRefused(c)
  BY <1>0, <1>9 DEF WaitRefused, Outcome, Goto, TypeOK, CallOK, historyVars
<1>10. CASE Send(c)
  BY <1>0, <1>10 DEF Send, Goto, TypeOK, CallOK, historyVars
<1>11. CASE CancelReservation(c)
  BY <1>0, <1>11 DEF CancelReservation, Outcome, Goto, TypeOK, CallOK, historyVars
<1>12. CASE \E s \in Retryable \union Final : Receive(c, s)
  BY <1>0, <1>12 DEF Receive, Outcome, Goto, TypeOK, CallOK, historyVars
<1>13. ASSUME NEW d \in Callers, d # c, Call(d) \/ CallStep(d) \/ EndContext(d)
       PROVE  Of(c)' = Of(c)
  BY <1>13 DEF TypeOK, Call, CallStep, EndContext, WakeUp, BackoffEnds, Retry,
      Exhausted, Answered, Reserve, WaitRefused, Send, CancelReservation, Receive,
      Return, Outcome, Goto, callVars, historyVars
<1>14. CASE Advance \/ EndContext(c) \/ UNCHANGED vars
  <2> Of(c)' = Of(c)
    BY <1>14 DEF Advance, EndContext, vars, callVars, historyVars
  <2> QED BY <1>1
<1> QED
  BY <1>1, <1>2, <1>3, <1>4, <1>5, <1>6, <1>7, <1>8, <1>9, <1>10, <1>11, <1>12,
     <1>13, <1>14 DEF Next, CallStep

LEMMA InitCallsOK == Init => CallsOK
  BY ClientAssumption DEF Init, CallsOK, CallOK

LEMMA CallsAlways == Spec => [](TypeOK /\ CallsOK)
  BY InitType, InitCallsOK, NextType, StepCallsOK, PTL DEF Spec

(* A call of get sends at most one request for each of its attempts, and   *)
(* is out of retries only when the last of them came to nothing.           *)
THEOREM AttemptsBounded == Spec => []AttemptsAreBounded
<1>1. TypeOK /\ CallsOK => AttemptsAreBounded
  BY ClientAssumption DEF TypeOK, CallsOK, CallOK, AttemptsAreBounded
<1> QED
  BY <1>1, CallsAlways, PTL

(* Only a retryable outcome lets a request be repeated.                    *)
THEOREM FinalIsNotRepeated == Spec => OnlyRetryableIsRepeated
<1> DEFINE Repeat == \A c \in Callers :
               asked'[c] > asked[c] => status[c] \in {"none"} \union Retryable
<1>1. TypeOK /\ CallsOK /\ [Next]_vars => [Repeat]_vars
  <2> SUFFICES ASSUME TypeOK, CallsOK, Next, NEW c \in Callers, asked'[c] > asked[c]
               PROVE  status[c] \in {"none"} \union Retryable
    OBVIOUS
  <2>1. pc[c] = "reserved"
    <3>1. asked # asked' /\ asked[c] \in Nat
      BY ClientAssumption DEF TypeOK
    <3>2. PICK d \in Callers : Call(d) \/ Send(d)
      <4>1. ~Advance
        BY <3>1 DEF Advance
      <4>2. ASSUME NEW e \in Callers, EndContext(e) \/ Call(e) \/ CallStep(e)
            PROVE  Call(e) \/ Send(e)
        BY <3>1, <4>2 DEF CallStep, EndContext, WakeUp, BackoffEnds, Retry,
            Exhausted, Answered, Reserve, WaitRefused, CancelReservation, Receive,
            historyVars
      <4>3. \E e \in Callers : EndContext(e) \/ Call(e) \/ CallStep(e)
        BY <4>1 DEF Next
      <4> QED BY <4>2, <4>3
    <3>3. asked \in [Callers -> Nat]
      BY DEF TypeOK
    <3>4. ~Call(d)
      <4> HIDE DEF Repeat
      <4> SUFFICES ASSUME Call(d) PROVE FALSE
        OBVIOUS
      <4>1. asked' = [asked EXCEPT ![d] = 0]
        BY DEF Call
      <4> QED BY <3>1, <3>3, <4>1
    <3>5. d = c /\ Send(d)
      <4>1. Send(d) /\ asked' = [asked EXCEPT ![d] = @ + 1]
        BY <3>2, <3>4 DEF Send
      <4> QED BY <3>1, <3>3, <4>1
    <3> QED BY <3>5 DEF Send
  <2> QED BY <2>1 DEF CallsOK, CallOK
<1> QED
  BY <1>1, CallsAlways, PTL DEF Spec, OnlyRetryableIsRepeated

-----------------------------------------------------------------------------
(* The bucket.  Steps that neither promise nor use a token leave it alone. *)
LEMMA QuietSteps ==
    ASSUME SlotsOK, SendsOK, UNCHANGED <<tokens, lastEvent, slot, sends>>,
           Reserved' = Reserved
    PROVE  SlotsOK' /\ SendsOK'
<1>1. \A k : Due(k) = {c \in Reserved : slot[c] <= k}
  BY DEF Due, Reserved
<1>2. \A k : Due(k)' = {c \in Reserved' : slot'[c] <= k}
  BY DEF Due, Reserved
<1>3. \A k : Due(k)' = Due(k)
  BY <1>1, <1>2
<1> QED
  BY <1>3 DEF SlotsOK, SendsOK

(* A token is promised: its tick is the next one of the bucket's debt.     *)
LEMMA ReserveKeeps ==
    ASSUME TypeOK, SlotsOK, SendsOK, NEW c \in Callers, Reserve(c)
    PROVE  SlotsOK' /\ SendsOK'
<1> USE ClientAssumption
<1>1. /\ tokens \in Int /\ Burst \in Nat /\ Delay \in Nat
      /\ Delay = IF tokens > 0 THEN 0 ELSE 1 - tokens
      /\ tokens' = tokens - 1 /\ lastEvent' = Delay /\ sends' = sends
      /\ slot \in [Callers -> Nat] /\ sends \in [0..Window -> Nat]
  BY DEF TypeOK, Reserve, Delay, historyVars
<1>2. slot' = [slot EXCEPT ![c] = Delay]
  BY DEF Reserve
<1>3. c \notin Reserved /\ Reserved' = Reserved \union {c}
  BY DEF Reserve, Reserved, Goto, TypeOK
<1>4. \A k \in Nat : Due(k)' = IF Delay <= k THEN Due(k) \union {c} ELSE Due(k)
  BY <1>1, <1>2, <1>3 DEF Due, Reserve, Reserved, Goto, TypeOK
<1>5. \A k \in Nat : c \notin Due(k)
  BY <1>3 DEF Due, Reserved
<1>6. Cardinality(Reserved') = Cardinality(Reserved) + 1
  BY <1>3, Counts, FS_AddElement
<1>7. \A k \in Nat : Cardinality(Due(k)') = IF Delay <= k THEN Cardinality(Due(k)) + 1
                                                          ELSE Cardinality(Due(k))
  BY <1>4, <1>5, Counts, FS_AddElement
<1>8. SlotsOK'
  <2>1. ASSUME NEW d \in Reserved PROVE d \in Callers /\ d # c /\ slot'[d] = slot[d]
    BY <1>1, <1>2, <1>3 DEF Reserved
  <2>2. slot'[c] = Delay
    BY <1>1, <1>2
  <2>3. ASSUME NEW d \in Reserved, slot[d] > 0
        PROVE  slot[d] + tokens <= 0 /\ slot[d] \in Nat
    BY <1>1, <2>3 DEF SlotsOK, Reserved
  <2>4. ASSUME NEW d \in Reserved', slot'[d] > 0
        PROVE  slot'[d] + tokens' <= 0
    BY <1>1, <1>3, <2>1, <2>2, <2>3, <2>4
  <2>5. ASSUME NEW d \in Reserved', NEW e \in Reserved', slot'[d] > 0,
               slot'[d] = slot'[e]
        PROVE  d = e
    <3>1. CASE d \in Reserved /\ e \in Reserved
      BY <2>1, <2>5, <3>1 DEF SlotsOK
    <3>2. CASE d \in Reserved /\ e = c
      BY <1>1, <2>1, <2>2, <2>3, <2>5, <3>2
    <3>3. CASE d = c /\ e \in Reserved
      BY <1>1, <2>1, <2>2, <2>3, <2>5, <3>3
    <3> QED BY <1>3, <3>1, <3>2, <3>3
  <2>6. lastEvent' = IF tokens' < 0 THEN 0 - tokens' ELSE 0
    BY <1>1
  <2> QED BY <2>4, <2>5, <2>6 DEF SlotsOK
<1>9. SendsOK'
  <2> SUFFICES ASSUME NEW n \in 0..Window
               PROVE  /\ sends'[n] + Cardinality(Reserved') + tokens' <= Burst + n
                      /\ \A k \in Nat :
                            sends'[n] + Cardinality(Due(k)') <= Burst + n + k
    BY DEF SendsOK
  <2>0. n \in Nat /\ sends[n] \in Nat /\ Cardinality(Reserved) \in Nat
    BY <1>1, Counts
  <2>1. sends[n] + Cardinality(Reserved) + tokens <= Burst + n
    BY DEF SendsOK
  <2>2. ASSUME NEW k \in Nat
        PROVE  sends'[n] + Cardinality(Due(k)') <= Burst + n + k
    <3>1. /\ Cardinality(Due(k)) \in Nat
          /\ Cardinality(Due(k)) <= Cardinality(Reserved)
          /\ sends[n] + Cardinality(Due(k)) <= Burst + n + k
      BY Counts DEF SendsOK
    <3>2. CASE Delay <= k
      BY <1>1, <1>7, <2>0, <2>1, <3>1, <3>2
    <3>3. CASE ~(Delay <= k)
      BY <1>1, <1>7, <3>1, <3>3
    <3> QED BY <3>2, <3>3
  <2>3. sends'[n] + Cardinality(Reserved') + tokens' <= Burst + n
    BY <1>1, <1>6, <2>0, <2>1
  <2> QED BY <2>2, <2>3
<1> QED
  BY <1>8, <1>9

(* What loses a promise: its caller sends, or gives it back.               *)
LEMMA Released ==
    ASSUME TypeOK, NEW c \in Reserved, Reserved' = Reserved \ {c},
           \A d \in Reserved' : slot'[d] = slot[d]
    PROVE  /\ Cardinality(Reserved') = Cardinality(Reserved) - 1
           /\ \A k \in Nat :
                 /\ Cardinality(Due(k)') <= Cardinality(Due(k))
                 /\ slot[c] = 0 => Cardinality(Due(k)') = Cardinality(Due(k)) - 1
<1>1. Cardinality(Reserved') = Cardinality(Reserved) - 1
  BY Counts, FS_RemoveElement
<1>2. ASSUME NEW k \in Nat PROVE Due(k)' = Due(k) \ {c}
  <2>1. Due(k) = {d \in Reserved : slot[d] <= k}
    BY DEF Due, Reserved
  <2>2. Due(k)' = {d \in Reserved' : slot'[d] <= k}
    BY DEF Due, Reserved
  <2>3. \A d \in Reserved' : slot'[d] = slot[d]
    OBVIOUS
  <2>4. {d \in Reserved' : slot'[d] <= k} = {d \in Reserved' : slot[d] <= k}
    BY <2>3
  <2>5. {d \in Reserved' : slot[d] <= k} = {d \in Reserved : slot[d] <= k} \ {c}
    <3>1. Reserved' = Reserved \ {c}
      OBVIOUS
    <3> QED BY <3>1
  <2> QED BY <2>1, <2>2, <2>4, <2>5
<1>3. ASSUME NEW k \in Nat, slot[c] = 0 PROVE c \in Due(k)
  BY <1>3 DEF Due, Reserved
<1>4. ASSUME NEW k \in Nat
      PROVE  /\ Cardinality(Due(k)') <= Cardinality(Due(k))
             /\ slot[c] = 0 => Cardinality(Due(k)') = Cardinality(Due(k)) - 1
  <2>1. IsFiniteSet(Due(k)) /\ Cardinality(Due(k)) \in Nat
    BY Counts
  <2>2. Cardinality(Due(k) \ {c}) = IF c \in Due(k) THEN Cardinality(Due(k)) - 1
                                                    ELSE Cardinality(Due(k))
    BY <2>1, FS_RemoveElement
  <2>3. Cardinality(Due(k)') = Cardinality(Due(k) \ {c})
    BY <1>2
  <2>4. slot[c] = 0 => c \in Due(k)
    BY <1>3
  <2> QED BY <2>1, <2>2, <2>3, <2>4
<1> QED
  BY <1>1, <1>4

(* A request is sent: a promise due now becomes a request.                 *)
LEMMA SendKeeps ==
    ASSUME TypeOK, SlotsOK, SendsOK, NEW c \in Callers, Send(c)
    PROVE  SlotsOK' /\ SendsOK'
<1> USE ClientAssumption
<1>1. /\ tokens \in Int /\ Burst \in Nat
      /\ sends \in [0..Window -> Nat] /\ slot[c] = 0
      /\ UNCHANGED <<tokens, lastEvent, slot>>
      /\ sends' = [n \in 0..Window |-> sends[n] + 1]
  BY DEF TypeOK, Send, bucketVars
<1>2. c \in Reserved /\ Reserved' = Reserved \ {c}
  BY DEF Send, Reserved, Goto, TypeOK
<1>3. /\ Cardinality(Reserved') = Cardinality(Reserved) - 1
      /\ \A k \in Nat : Cardinality(Due(k)') = Cardinality(Due(k)) - 1
  <2>1. \A d \in Reserved' : slot'[d] = slot[d]
    BY <1>1
  <2> QED BY <1>1, <1>2, <2>1, Released
<1>4. SlotsOK'
  BY <1>1, <1>2 DEF SlotsOK
<1>5. ASSUME NEW n \in 0..Window
      PROVE  /\ sends'[n] + Cardinality(Reserved') + tokens' <= Burst + n
             /\ \A k \in Nat : sends'[n] + Cardinality(Due(k)') <= Burst + n + k
  <2>1. n \in Nat /\ sends[n] \in Nat /\ sends'[n] = sends[n] + 1
    BY <1>1
  <2>2. sends[n] + Cardinality(Reserved) + tokens <= Burst + n
    BY DEF SendsOK
  <2>3. \A k \in Nat : sends[n] + Cardinality(Due(k)) <= Burst + n + k
    BY DEF SendsOK
  <2>4. sends'[n] + Cardinality(Reserved') + tokens' <= Burst + n
    BY <1>1, <1>3, <2>1, <2>2, Counts
  <2>5. ASSUME NEW k \in Nat
        PROVE  sends'[n] + Cardinality(Due(k)') <= Burst + n + k
    <3>1. Cardinality(Due(k)) \in Nat
      BY Counts
    <3>2. Cardinality(Due(k)') = Cardinality(Due(k)) - 1
      BY <1>3
    <3>3. sends[n] + Cardinality(Due(k)) <= Burst + n + k
      BY <2>3
    <3> QED BY <1>1, <2>1, <3>1, <3>2, <3>3
  <2> QED BY <2>4, <2>5
<1> QED
  BY <1>4, <1>5 DEF SendsOK

(* A promise is given back: to the bucket if it was the last one.          *)
LEMMA CancelKeeps ==
    ASSUME TypeOK, SlotsOK, SendsOK, NEW c \in Callers, CancelReservation(c)
    PROVE  SlotsOK' /\ SendsOK'
<1> USE ClientAssumption
<1>1. /\ tokens \in Int /\ Burst \in Nat \ {0} /\ lastEvent \in Nat /\ sends' = sends
      /\ sends \in [0..Window -> Nat] /\ slot \in [Callers -> Nat]
      /\ slot' = [slot EXCEPT ![c] = 0]
      /\ lastEvent = IF tokens < 0 THEN 0 - tokens ELSE 0
  BY DEF TypeOK, CancelReservation, historyVars, SlotsOK
<1>2. c \in Reserved /\ Reserved' = Reserved \ {c}
  BY DEF CancelReservation, Outcome, Reserved, Goto, TypeOK
<1>3. \A d \in Reserved' : d \in Callers /\ d # c /\ slot'[d] = slot[d]
  BY <1>1, <1>2 DEF Reserved
<1>4. /\ Cardinality(Reserved') = Cardinality(Reserved) - 1
      /\ \A k \in Nat : Cardinality(Due(k)') <= Cardinality(Due(k))
  BY <1>2, <1>3, Released
<1>5. \/ /\ slot[c] = lastEvent
         /\ tokens' = IF tokens < Burst THEN tokens + 1 ELSE Burst
         /\ lastEvent' = IF lastEvent = 0 THEN 0 ELSE lastEvent - 1
      \/ UNCHANGED <<tokens, lastEvent>>
  <2>1. CASE slot[c] = lastEvent
    <3>1. tokens' = Min({tokens + 1, Burst}) /\ lastEvent' = Max({lastEvent - 1, 0})
      BY <2>1 DEF CancelReservation
    <3> QED BY <1>1, <2>1, <3>1, TokenMore, TickLess
  <2>2. CASE slot[c] # lastEvent
    BY <2>2 DEF CancelReservation
  <2> QED BY <2>1, <2>2
<1>6. ASSUME NEW d \in Reserved', slot'[d] > 0
      PROVE  slot'[d] + tokens' <= 0
  <2>1. slot'[d] = slot[d] /\ d \in Reserved /\ d # c /\ slot[d] \in Nat
    BY <1>1, <1>2, <1>3
  <2>2. slot[d] + tokens <= 0 /\ slot[d] # slot[c]
    BY <1>2, <1>6, <2>1 DEF SlotsOK
  <2> QED BY <1>1, <1>5, <1>6, <2>1, <2>2
<1>7. SlotsOK'
  <2>1. \A d, e \in Reserved' : slot'[d] > 0 /\ slot'[d] = slot'[e] => d = e
    BY <1>2, <1>3 DEF SlotsOK
  <2>2. lastEvent' = IF tokens' < 0 THEN 0 - tokens' ELSE 0
    BY <1>1, <1>5
  <2> QED BY <1>6, <2>1, <2>2 DEF SlotsOK
<1>8. ASSUME NEW n \in 0..Window
      PROVE  /\ sends'[n] + Cardinality(Reserved') + tokens' <= Burst + n
             /\ \A k \in Nat : sends'[n] + Cardinality(Due(k)') <= Burst + n + k
  <2>1. n \in Nat /\ sends[n] \in Nat /\ sends'[n] = sends[n]
    BY <1>1
  <2>2. sends[n] + Cardinality(Reserved) + tokens <= Burst + n
    BY DEF SendsOK
  <2>3. \A k \in Nat : sends[n] + Cardinality(Due(k)) <= Burst + n + k
    BY DEF SendsOK
  <2>4. tokens' \in Int /\ tokens' <= tokens + 1
    BY <1>1, <1>5 DEF TypeOK
  <2>5. \A k \in Nat : Cardinality(Due(k)') \in Nat
    <3>1. \A k \in Nat : IsFiniteSet(Due(k)')
      <4>1. \A k \in Nat : Due(k)' \in SUBSET Callers
        BY DEF Due
      <4> QED BY <4>1, FS_Subset
    <3> QED BY <3>1, FS_CardinalityType
  <2>6. sends'[n] + Cardinality(Reserved') + tokens' <= Burst + n
    BY <1>1, <1>4, <2>1, <2>2, <2>4, Counts
  <2>7. ASSUME NEW k \in Nat
        PROVE  sends'[n] + Cardinality(Due(k)') <= Burst + n + k
    <3>1. Cardinality(Due(k)) \in Nat
      BY Counts
    <3>2. Cardinality(Due(k)') \in Nat /\ Cardinality(Due(k)') <= Cardinality(Due(k))
      BY <1>4, <2>5
    <3>3. sends[n] + Cardinality(Due(k)) <= Burst + n + k
      BY <2>3
    <3> QED BY <1>1, <2>1, <3>1, <3>2, <3>3
  <2> QED BY <2>6, <2>7
<1> QED
  BY <1>7, <1>8 DEF SendsOK

(* Promised ticks differ, so at most k of them lie among the next k.       *)
LEMMA DueAreFew ==
    ASSUME TypeOK, SlotsOK, NEW k \in Nat, \A c \in Reserved : slot[c] > 0
    PROVE  Cardinality(Due(k)) <= k
<1> DEFINE f == [c \in Due(k) |-> slot[c]]
<1>1. \A c \in Due(k) : c \in Reserved /\ slot[c] \in 1..k
  BY DEF Due, Reserved, TypeOK
<1>2. f \in [Due(k) -> 1..k]
  BY <1>1
<1>3. \A c, e \in Due(k) : f[c] = f[e] => c = e
  BY <1>1 DEF SlotsOK
<1>4. f \in Injection(Due(k), 1..k)
  <2> HIDE DEF f
  <2> QED BY <1>2, <1>3, Fun_IsInj
<1>5. IsFiniteSet(1..k) /\ Cardinality(1..k) = k
  <2>1. 1 \in Int /\ k \in Int
    OBVIOUS
  <2> QED BY <2>1, FS_Interval
<1> QED
  <2> HIDE DEF f
  <2> QED BY <1>4, <1>5, FS_Injection

(* A tick passes: everybody who holds a token of this tick has sent, and   *)
(* the promises come one tick nearer.                                      *)
LEMMA AdvanceKeeps ==
    TypeOK /\ SlotsOK /\ SendsOK /\ Advance => SlotsOK' /\ SendsOK'
<1> SUFFICES ASSUME TypeOK, SlotsOK, SendsOK, Advance PROVE SlotsOK' /\ SendsOK'
  OBVIOUS
<1> USE ClientAssumption
<1>1. /\ tokens \in Int /\ tokens <= Burst /\ Burst \in Nat \ {0} /\ lastEvent \in Nat
      /\ sends \in [0..Window -> Nat] /\ slot \in [Callers -> Nat]
      /\ sends' = [n \in 0..Window |-> IF n = 0 THEN 0 ELSE sends[n - 1]]
      /\ lastEvent = IF tokens < 0 THEN 0 - tokens ELSE 0
  BY DEF TypeOK, Advance, SlotsOK
<1>2. tokens' = IF tokens < Burst THEN tokens + 1 ELSE Burst
  BY TokenMore DEF Advance
<1>3. lastEvent' = IF lastEvent = 0 THEN 0 ELSE lastEvent - 1
  BY <1>1, TickLess DEF Advance
<1>4. Reserved' = Reserved
  BY DEF Advance, Reserved
<1>5. \A c \in Reserved : slot[c] \in Nat /\ slot[c] > 0 /\ slot'[c] = slot[c] - 1
  <2> SUFFICES ASSUME NEW c \in Reserved
               PROVE  slot[c] \in Nat /\ slot[c] > 0 /\ slot'[c] = slot[c] - 1
    OBVIOUS
  <2>1. c \in Callers /\ slot[c] \in Nat /\ slot[c] > 0
    BY <1>1 DEF Reserved, Advance
  <2>2. slot'[c] = Max({slot[c] - 1, 0})
    BY <2>1 DEF Advance
  <2> QED BY <2>1, <2>2, TickLess
<1>6. ASSUME NEW k \in Nat PROVE Due(k)' = Due(k + 1)
  <2>1. Due(k)' = {c \in Reserved : slot'[c] <= k}
    BY <1>4 DEF Due, Reserved
  <2>2. Due(k + 1) = {c \in Reserved : slot[c] <= k + 1}
    BY DEF Due, Reserved
  <2> QED BY <1>5, <2>1, <2>2
<1>7. SlotsOK'
  <2>1. \A c, e \in Reserved' : slot'[c] > 0 /\ slot'[c] = slot'[e] => c = e
    BY <1>4, <1>5 DEF SlotsOK
  <2>2. ASSUME NEW c \in Reserved', slot'[c] > 0 PROVE slot'[c] + tokens' <= 0
    <3>1. slot[c] \in Nat /\ slot'[c] = slot[c] - 1 /\ slot[c] + tokens <= 0
      BY <1>4, <1>5 DEF SlotsOK
    <3> QED BY <1>1, <1>2, <3>1
  <2>3. lastEvent' = IF tokens' < 0 THEN 0 - tokens' ELSE 0
    BY <1>1, <1>2, <1>3
  <2> QED BY <2>1, <2>2, <2>3 DEF SlotsOK
<1>8. Cardinality(Reserved) + tokens' <= Burst
  <2>1. CASE tokens < 0
    <3> DEFINE m == 0 - tokens
    <3>1. m \in Nat
      BY <1>1, <2>1
    <3>2. Reserved = Due(m)
      BY <1>1, <1>5 DEF SlotsOK, Due, Reserved
    <3>3. Cardinality(Reserved) <= m
      <4> HIDE DEF m
      <4> QED BY <1>5, <3>1, <3>2, DueAreFew
    <3> QED BY <1>1, <1>2, <2>1, <3>3, Counts
  <2>2. CASE tokens >= 0
    <3>1. Reserved = {}
      <4>1. \A c \in Reserved : slot[c] \in Nat /\ slot[c] > 0 /\ slot[c] + tokens <= 0
        BY <1>5 DEF SlotsOK
      <4> QED BY <1>1, <2>2, <4>1
    <3>2. Cardinality(Reserved) = 0
      BY <3>1, FS_EmptySet
    <3> QED BY <1>1, <1>2, <3>2
  <2> QED BY <1>1, <2>1, <2>2
<1>9. ASSUME NEW n \in 0..Window
      PROVE  /\ sends'[n] + Cardinality(Reserved') + tokens' <= Burst + n
             /\ \A k \in Nat : sends'[n] + Cardinality(Due(k)') <= Burst + n + k
  <2>1. Cardinality(Reserved) \in Nat /\ tokens' \in Int /\ tokens' <= tokens + 1
    BY <1>1, <1>2, Counts
  <2>2. CASE n = 0
    <3>1. sends'[n] = 0
      BY <1>1, <2>2
    <3>2. ASSUME NEW k \in Nat PROVE sends'[n] + Cardinality(Due(k)') <= Burst + n + k
      <4>1. Cardinality(Due(k)') = Cardinality(Due(k + 1))
        BY <1>6
      <4>2. k + 1 \in Nat /\ Cardinality(Due(k + 1)) \in Nat
        BY Counts
      <4>3. Cardinality(Due(k + 1)) <= k + 1
        BY <1>5, <4>2, DueAreFew
      <4> QED BY <1>1, <2>2, <3>1, <4>1, <4>2, <4>3
    <3> QED BY <1>1, <1>4, <1>8, <2>1, <2>2, <3>1, <3>2
  <2>3. CASE n # 0
    <3>1. n \in Nat /\ n - 1 \in 0..Window /\ sends[n - 1] \in Nat
      BY <1>1, <2>3
    <3>2. sends'[n] = sends[n - 1]
      BY <1>1, <2>3
    <3>3. sends[n - 1] + Cardinality(Reserved) + tokens <= Burst + (n - 1)
      BY <3>1 DEF SendsOK
    <3>4. ASSUME NEW k \in Nat PROVE sends'[n] + Cardinality(Due(k)') <= Burst + n + k
      <4>1. Cardinality(Due(k)') = Cardinality(Due(k + 1))
        BY <1>6
      <4>2. k + 1 \in Nat /\ Cardinality(Due(k + 1)) \in Nat
        BY Counts
      <4>3. sends[n - 1] + Cardinality(Due(k + 1)) <= Burst + (n - 1) + (k + 1)
        BY <3>1, <4>2 DEF SendsOK
      <4> QED BY <1>1, <3>1, <3>2, <4>1, <4>2, <4>3
    <3>5. sends'[n] + Cardinality(Reserved') + tokens' <= Burst + n
      BY <1>1, <1>4, <2>1, <3>1, <3>2, <3>3
    <3> QED BY <3>4, <3>5
  <2> QED BY <2>2, <2>3
<1> QED
  BY <1>7, <1>9 DEF SendsOK

LEMMA InitKeeps == Init => SlotsOK /\ SendsOK
<1> SUFFICES ASSUME Init PROVE SlotsOK /\ SendsOK
  OBVIOUS
<1> USE ClientAssumption
<1>1. Reserved = {} /\ \A k : Due(k) = {}
  BY DEF Init, Reserved, Due
<1>2. Cardinality(Reserved) = 0 /\ \A k : Cardinality(Due(k)) = 0
  BY <1>1, FS_EmptySet
<1>3. SlotsOK
  BY <1>1 DEF Init, SlotsOK
<1>4. SendsOK
  BY <1>2 DEF Init, SendsOK
<1> QED
  BY <1>3, <1>4

LEMMA NextKeeps == TypeOK /\ SlotsOK /\ SendsOK /\ [Next]_vars => SlotsOK' /\ SendsOK'
<1> SUFFICES ASSUME TypeOK, SlotsOK, SendsOK, [Next]_vars PROVE SlotsOK' /\ SendsOK'
  OBVIOUS
<1> DEFINE Quiet == /\ UNCHANGED <<tokens, lastEvent, slot, sends>>
                    /\ Reserved' = Reserved
<1>1. CASE Quiet
  BY <1>1, QuietSteps
<1>2. CASE Advance
  BY <1>2, AdvanceKeeps
<1>3. CASE UNCHANGED vars
  BY <1>1, <1>3 DEF vars, bucketVars, callVars, historyVars, Reserved
<1>4. ASSUME NEW c \in Callers, EndContext(c) \/ Call(c) \/ CallStep(c)
      PROVE  Quiet \/ Reserve(c) \/ Send(c) \/ CancelReservation(c)
  <2>1. ASSUME pc[c] # "reserved", NEW l \in {"idle", "backoff", "ready", "sent", "judge"},
               Goto(c, l)
        PROVE  Reserved' = Reserved
    BY <2>1 DEF Reserved, Goto, TypeOK
  <2>2. CASE EndContext(c)
    BY <2>2 DEF EndContext, Reserved, bucketVars, callVars, historyVars
  <2>3. CASE Call(c)
    BY <2>1, <2>3 DEF Call, bucketVars
  <2>4. CASE WakeUp(c)
    BY <2>1, <2>4 DEF WakeUp, bucketVars, historyVars
  <2>5. CASE BackoffEnds(c)
    BY <2>1, <2>5 DEF BackoffEnds, Return, bucketVars, historyVars
  <2>6. CASE Retry(c)
    BY <2>1, <2>6 DEF Retry, bucketVars, historyVars
  <2>7. CASE Exhausted(c)
    BY <2>1, <2>7 DEF Exhausted, Return, bucketVars, historyVars
  <2>8. CASE Answered(c)
    BY <2>1, <2>8 DEF Answered, Return, bucketVars, historyVars
  <2>9. CASE WaitRefused(c)
    BY <2>1, <2>9 DEF WaitRefused, Outcome, bucketVars, historyVars
  <2>10. CASE \E s \in Retryable \union Final : Receive(c, s)
    BY <2>1, <2>10 DEF Receive, Outcome, bucketVars, historyVars
  <2> QED
    BY <1>4, <2>2, <2>3, <2>4, <2>5, <2>6, <2>7, <2>8, <2>9, <2>10 DEF CallStep
<1>5. ASSUME NEW c \in Callers, EndContext(c) \/ Call(c) \/ CallStep(c)
      PROVE  SlotsOK' /\ SendsOK'
  BY <1>1, <1>4, <1>5, ReserveKeeps, SendKeeps, CancelKeeps
<1> QED
  BY <1>2, <1>3, <1>5 DEF Next

(* For any number of callers, retrying at will, no window of time sees     *)
(* more requests than the burst and what the rate adds in it.              *)
THEOREM LimitHolds == Spec => []NeverBurstsPastLimit
<1>1. TypeOK /\ SendsOK => NeverBurstsPastLimit
  <2> SUFFICES ASSUME TypeOK, SendsOK, NEW n \in 0..Window
               PROVE  sends[n] <= Burst + n
    BY DEF NeverBurstsPastLimit
  <2>1. sends[n] + Cardinality(Due(0)) <= Burst + n + 0
    BY DEF SendsOK
  <2>2. sends[n] \in Nat /\ Cardinality(Due(0)) \in Nat
    BY Counts DEF TypeOK
  <2>3. Burst \in Nat /\ n \in Nat
    BY ClientAssumption
  <2> QED BY <2>1, <2>2, <2>3
<1> QED
  BY <1>1, InitType, NextType, InitKeeps, NextKeeps, PTL DEF Spec

-----------------------------------------------------------------------------
(* The arithmetic of the backoff (module Backoff): the shifts are computed *)
(* one by one up to the sixth, from which on the cap decides.              *)

(* What is left of a shift: nothing is cut off before the 35th.            *)
LEMMA KeptIsBase == \A n \in 0..34 : Kept(n) = Base
  BY SMT DEF Kept, Bits, Base

LEMMA AboveCapFromSix == \A n \in 0..34 : AboveCap(n) <=> n >= 6
<1> SUFFICES ASSUME NEW n \in 0..34 PROVE AboveCap(n) <=> n >= 6
  OBVIOUS
<1>1. CASE n >= 6
  BY SMT, <1>1, KeptIsBase DEF AboveCap, Base
<1>2. CASE n < 6
  <2>1. 2^0 = 1 /\ 2^1 = 2 /\ 2^2 = 4 /\ 2^3 = 8 /\ 2^4 = 16 /\ 2^5 = 32
    OBVIOUS
  <2>2. n = 0 \/ n = 1 \/ n = 2 \/ n = 3 \/ n = 4 \/ n = 5
    BY <1>2
  <2>3. 2^n \in {1, 2, 4, 8, 16, 32}
    BY Zenon, <2>1, <2>2
  <2>4. ~(Base * 2^n > Cap)
    BY SMT, <2>3 DEF Base, Cap
  <2> QED BY <1>2, <2>4 DEF AboveCap
<1> QED BY <1>1, <1>2

LEMMA BoundIs ==
  /\ Bound(1) = Base /\ Bound(2) = 2 * Base /\ Bound(3) = 4 * Base
  /\ Bound(4) = 8 * Base /\ Bound(5) = 16 * Base /\ Bound(6) = 32 * Base
  /\ \A a \in 7..35 : Bound(a) = Cap
<1>1. 2^0 = 1 /\ 2^1 = 2 /\ 2^2 = 4 /\ 2^3 = 8 /\ 2^4 = 16 /\ 2^5 = 32
  OBVIOUS
<1>2. /\ ~AboveCap(0) /\ ~AboveCap(1) /\ ~AboveCap(2) /\ ~AboveCap(3)
      /\ ~AboveCap(4) /\ ~AboveCap(5)
  BY AboveCapFromSix
<1>3. ASSUME NEW n \in 0..5 PROVE Bound(n + 1) = Base * 2^n
  <2>1. (n + 1) - 1 = n /\ n < 6 /\ ~AboveCap(n)
    BY AboveCapFromSix
  <2> QED BY <2>1 DEF Bound
<1>4. /\ Bound(0 + 1) = Base * 2^0 /\ Bound(1 + 1) = Base * 2^1
      /\ Bound(2 + 1) = Base * 2^2 /\ Bound(3 + 1) = Base * 2^3
      /\ Bound(4 + 1) = Base * 2^4 /\ Bound(5 + 1) = Base * 2^5
  BY <1>3
<1>5. ASSUME NEW a \in 7..35 PROVE Bound(a) = Cap
  BY AboveCapFromSix DEF Bound
<1> QED
  BY SMT, <1>1, <1>4, <1>5 DEF Base

LEMMA PanicsAt36 == Panics(36)
<1>1. 2^21 = 2097152 /\ 2^20 = 1048576
  BY SMT
<1>2. Signed(1953125, 21) = 1953125 - 2097152
  BY SMT, <1>1 DEF Signed
<1>3. Kept(35) = 1953125 - 2097152
  BY SMT, <1>2 DEF Kept, Bits, Base
<1>4. ~AboveCap(35)
  BY SMT, <1>3 DEF AboveCap
<1>5. Bound(36) = Kept(35)
  BY SMT, <1>4 DEF Bound
<1> QED BY SMT, <1>3, <1>5 DEF Panics

(* The bound of the jitter doubles from 500 ms up to 30 s and stays there  *)
(* as far as the 35th attempt; the 36th panics (client.go:733-742).        *)
THEOREM BackoffDoublesToItsCap == BackoffIsSane
<1>1. Bound(1) = Base
  BY BoundIs
<1>2. \A a \in 2..35 :
         Bound(a) = IF 2 * Bound(a - 1) > Cap THEN Cap ELSE 2 * Bound(a - 1)
  <2> SUFFICES ASSUME NEW a \in 2..35
               PROVE  Bound(a) = IF 2 * Bound(a - 1) > Cap THEN Cap
                                                           ELSE 2 * Bound(a - 1)
    OBVIOUS
  <2>1. CASE a \in 8..35
    <3>1. Bound(a) = Cap /\ Bound(a - 1) = Cap
      BY <2>1, BoundIs
    <3> QED BY SMT, <3>1 DEF Cap
  <2>2. CASE a = 7
    <3>1. Bound(7) = Cap /\ Bound(6) = 32 * Base /\ a - 1 = 6
      BY <2>2, BoundIs
    <3> QED BY SMT, <2>2, <3>1 DEF Cap, Base
  <2>3. CASE a \in {2, 3, 4, 5, 6}
    <3>1. \/ a = 2 /\ a - 1 = 1
          \/ a = 3 /\ a - 1 = 2
          \/ a = 4 /\ a - 1 = 3
          \/ a = 5 /\ a - 1 = 4
          \/ a = 6 /\ a - 1 = 5
      BY <2>3
    <3> QED BY SMT, <3>1, BoundIs DEF Cap, Base
  <2> QED BY <2>1, <2>2, <2>3
<1>3. ASSUME NEW a \in 1..35 PROVE ~Panics(a)
  <2>1. a \in {1, 2, 3, 4, 5, 6} \/ a \in 7..35
    OBVIOUS
  <2>2. CASE a \in 7..35
    BY SMT, <2>2, BoundIs DEF Panics, Cap
  <2>3. CASE a \in {1, 2, 3, 4, 5, 6}
    BY SMT, <2>3, BoundIs DEF Panics, Base
  <2> QED BY <2>1, <2>2, <2>3
<1>4. \A a \in 1..100 : Panics(a) => a >= 36
  BY <1>3
<1> QED BY <1>1, <1>2, <1>4, PanicsAt36 DEF BackoffIsSane
=============================================================================
