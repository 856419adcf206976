------------------------------ MODULE ApiClient ------------------------------
(***************************************************************************)
(* The GW2 API client of internal/gw2: Client.get, which retries, and the  *)
(* rate-limited transport under it, whose token bucket all goroutines      *)
(* share.                                                                  *)
(*                                                                         *)
(* Time passes in ticks, at each of which the bucket gains a token (one    *)
(* every 1/RateLimitPerSec seconds); only distances in time are kept.      *)
(* Limiter.Wait reserves the next free token, possibly one of the future,  *)
(* and sleeps until its tick; it refuses at once when that tick lies       *)
(* beyond the deadline of the request.  Timers fire on their tick.  The    *)
(* bucket is golang.org/x/time/rate, outside this repository, modelled     *)
(* from how the transport uses it.                                         *)
(***************************************************************************)
EXTENDS Integers, FiniteSets, FiniteSetsExt, Backoff

CONSTANTS
    Callers,     \* goroutines that call the API
    Burst,       \* Options.RateBurst
    MaxRetries,  \* Options.MaxRetries
    Timeout,     \* Options.RequestTimeout, in ticks
    Window       \* bound: how many ticks back the history reaches

ASSUME ClientAssumption ==
    /\ IsFiniteSet(Callers)
    /\ Burst \in Nat \ {0}
    /\ MaxRetries \in Nat
    /\ Timeout \in Nat
    /\ Window \in Nat

VARIABLES
    tokens,     \* tokens in the bucket, negative when some are promised
    lastEvent,  \* ticks until the latest reservation, 0 once it is past
    live,       \* the callers whose context is not done
    pc,         \* "idle", "backoff", "ready", "reserved", "sent" or "judge"
    attempt,    \* attempt[c]: the loop variable of get
    slot,       \* slot[c]: ticks until c's token
    status,     \* status[c]: what the last attempt came to
    result,     \* result[c]: what get returned, "none" while it runs
    sends,      \* history: sends[n] requests in this tick and the n before
    asked       \* history: asked[c] requests sent for the call under way

bucketVars == <<tokens, lastEvent>>
callVars   == <<pc, attempt, slot, status, result>>
historyVars == <<sends, asked>>
vars == <<bucketVars, live, callVars, historyVars>>

Retryable == {"busy", "broken"}  \* 429 or 5xx; transport error or cut body
Final     == {"ok", "garbled", "refused"}  \* 2xx; undecodable 2xx; other 4xx

(* Mutation of Init: a bucket made one token too large.                    *)
InitOverfull ==
    /\ tokens = Burst + 1
    /\ lastEvent = 0
    /\ live = Callers
    /\ pc = [c \in Callers |-> "idle"]
    /\ attempt = [c \in Callers |-> 0]
    /\ slot = [c \in Callers |-> 0]
    /\ status = [c \in Callers |-> "none"]
    /\ result = [c \in Callers |-> "none"]
    /\ sends = [n \in 0..Window |-> 0]
    /\ asked = [c \in Callers |-> 0]

Init ==
    /\ tokens = Burst
    /\ lastEvent = 0
    /\ live = Callers
    /\ pc = [c \in Callers |-> "idle"]
    /\ attempt = [c \in Callers |-> 0]
    /\ slot = [c \in Callers |-> 0]
    /\ status = [c \in Callers |-> "none"]
    /\ result = [c \in Callers |-> "none"]
    /\ sends = [n \in 0..Window |-> 0]
    /\ asked = [c \in Callers |-> 0]

Goto(c, label) == pc' = [pc EXCEPT ![c] = label]

-----------------------------------------------------------------------------
(* A tick: the bucket gains a token up to its burst, promised ones first.  *)
(* Whoever holds a token of this tick sends before the next one.           *)
Advance ==
    /\ \A c \in Callers : pc[c] = "reserved" => slot[c] > 0
    /\ tokens' = Min({tokens + 1, Burst})
    /\ lastEvent' = Max({lastEvent - 1, 0})
    /\ slot' = [c \in Callers |-> Max({slot[c] - 1, 0})]
    /\ sends' = [n \in 0..Window |-> IF n = 0 THEN 0 ELSE sends[n - 1]]
    /\ UNCHANGED <<live, pc, attempt, status, result, asked>>

(* The context of a caller ends: shutdown, or the 90 s of the first        *)
(* reference refresh.                                                      *)
EndContext(c) ==
    /\ c \in live
    /\ live' = live \ {c}
    /\ UNCHANGED <<bucketVars, callVars, historyVars>>

-----------------------------------------------------------------------------
(* get: the loop over attempts.                                            *)
Call(c) ==
    /\ pc[c] = "idle"
    /\ attempt' = [attempt EXCEPT ![c] = 0]
    /\ status' = [status EXCEPT ![c] = "none"]
    /\ result' = [result EXCEPT ![c] = "none"]
    /\ asked' = [asked EXCEPT ![c] = 0]
    /\ Goto(c, "ready")
    /\ UNCHANGED <<bucketVars, live, slot, sends>>

Return(c, r) ==
    /\ Goto(c, "idle")
    /\ result' = [result EXCEPT ![c] = r]

(* sleepWithBackoff: a jittered sleep of any length up to the cap, or an   *)
(* early return when the context is done.                                  *)
WakeUp(c) ==
    /\ pc[c] = "backoff"
    /\ Goto(c, "ready")
    /\ UNCHANGED <<bucketVars, live, attempt, slot, status, result, historyVars>>

BackoffEnds(c) ==
    /\ pc[c] = "backoff"
    /\ c \notin live
    /\ Return(c, "cancelled")
    /\ UNCHANGED <<bucketVars, live, attempt, slot, status, historyVars>>

(* An attempt comes to s; the loop looks at it next.                       *)
Outcome(c, s) ==
    /\ Goto(c, "judge")
    /\ status' = [status EXCEPT ![c] = s]

(* Mutations of Retry: one attempt too many; any failure is retried.       *)
RetryOnceMore(c) ==
    /\ pc[c] = "judge"
    /\ status[c] \in Retryable
    /\ attempt[c] <= MaxRetries
    /\ attempt' = [attempt EXCEPT ![c] = @ + 1]
    /\ Goto(c, "backoff")
    /\ UNCHANGED <<bucketVars, live, slot, status, result, historyVars>>

RetryAny(c) ==
    /\ pc[c] = "judge"
    /\ status[c] # "ok"
    /\ attempt[c] < MaxRetries
    /\ attempt' = [attempt EXCEPT ![c] = @ + 1]
    /\ Goto(c, "backoff")
    /\ UNCHANGED <<bucketVars, live, slot, status, result, historyVars>>

Retry(c) ==
    /\ pc[c] = "judge"
    /\ status[c] \in Retryable
    /\ attempt[c] < MaxRetries
    /\ attempt' = [attempt EXCEPT ![c] = @ + 1]
    /\ Goto(c, "backoff")
    /\ UNCHANGED <<bucketVars, live, slot, status, result, historyVars>>

(* Mutation of Exhausted: off by one.                                      *)
ExhaustedLater(c) ==
    /\ pc[c] = "judge"
    /\ status[c] \in Retryable
    /\ attempt[c] > MaxRetries
    /\ Return(c, "exhausted")
    /\ UNCHANGED <<bucketVars, live, attempt, slot, status, historyVars>>

Exhausted(c) ==
    /\ pc[c] = "judge"
    /\ status[c] \in Retryable
    /\ attempt[c] >= MaxRetries
    /\ Return(c, "exhausted")
    /\ UNCHANGED <<bucketVars, live, attempt, slot, status, historyVars>>

Answered(c) ==
    /\ pc[c] = "judge"
    /\ status[c] \in Final
    /\ Return(c, status[c])
    /\ UNCHANGED <<bucketVars, live, attempt, slot, status, historyVars>>

-----------------------------------------------------------------------------
(* The transport: Limiter.Wait, then the request.                          *)
Delay == IF tokens > 0 THEN 0 ELSE 1 - tokens

(* Mutation of Reserve: only the first attempt takes a token.              *)
ReserveFirstOnly(c) ==
    /\ pc[c] = "ready"
    /\ c \in live
    /\ Delay <= Timeout
    /\ tokens' = IF attempt[c] = 0 THEN tokens - 1 ELSE tokens
    /\ slot' = [slot EXCEPT ![c] = Delay]
    /\ lastEvent' = Delay
    /\ Goto(c, "reserved")
    /\ UNCHANGED <<live, attempt, status, result, historyVars>>

Reserve(c) ==
    /\ pc[c] = "ready"
    /\ c \in live
    /\ Delay <= Timeout
    /\ tokens' = tokens - 1
    /\ slot' = [slot EXCEPT ![c] = Delay]
    /\ lastEvent' = Delay
    /\ Goto(c, "reserved")
    /\ UNCHANGED <<live, attempt, status, result, historyVars>>

(* The wait would exceed the deadline, or the context is done already.     *)
WaitRefused(c) ==
    /\ pc[c] = "ready"
    /\ c \notin live \/ Delay > Timeout
    /\ Outcome(c, "broken")
    /\ UNCHANGED <<bucketVars, live, attempt, slot, result, historyVars>>

Send(c) ==
    /\ pc[c] = "reserved"
    /\ c \in live
    /\ slot[c] = 0
    /\ sends' = [n \in 0..Window |-> sends[n] + 1]
    /\ asked' = [asked EXCEPT ![c] = @ + 1]
    /\ Goto(c, "sent")
    /\ UNCHANGED <<bucketVars, live, attempt, slot, status, result>>

(* The context ends during the wait: the token goes back to the bucket if  *)
(* no later one has been promised since.                                   *)
CancelReservation(c) ==
    /\ pc[c] = "reserved"
    /\ c \notin live
    /\ Outcome(c, "broken")
    /\ slot' = [slot EXCEPT ![c] = 0]
    /\ IF slot[c] = lastEvent
       THEN /\ tokens' = Min({tokens + 1, Burst})
            /\ lastEvent' = Max({lastEvent - 1, 0})
       ELSE UNCHANGED <<tokens, lastEvent>>
    /\ UNCHANGED <<live, attempt, result, historyVars>>

(* The answer comes, or the request times out or is cut off.               *)
Receive(c, s) ==
    /\ pc[c] = "sent"
    /\ s \in Retryable \union Final
    /\ Outcome(c, s)
    /\ UNCHANGED <<bucketVars, live, attempt, slot, result, historyVars>>

-----------------------------------------------------------------------------
CallStep(c) ==
    \/ WakeUp(c)
    \/ BackoffEnds(c)
    \/ Retry(c)
    \/ Exhausted(c)
    \/ Answered(c)
    \/ Reserve(c)
    \/ WaitRefused(c)
    \/ Send(c)
    \/ CancelReservation(c)
    \/ \E s \in Retryable \union Final : Receive(c, s)

Next ==
    \/ Advance
    \/ \E c \in Callers : EndContext(c) \/ Call(c) \/ CallStep(c)

Spec == Init /\ [][Next]_vars

(* Time passes, timers fire and requests end (the client has a timeout).   *)
FairSpec ==
    /\ Spec
    /\ WF_vars(Advance)
    /\ \A c \in Callers : WF_vars(CallStep(c))

-----------------------------------------------------------------------------
TypeOK ==
    /\ tokens \in Int
    /\ tokens <= Burst
    /\ lastEvent \in Nat
    /\ live \subseteq Callers
    /\ pc \in [Callers -> {"idle", "backoff", "ready", "reserved", "sent", "judge"}]
    /\ attempt \in [Callers -> Nat]
    /\ slot \in [Callers -> Nat]
    /\ status \in [Callers -> {"none"} \union Retryable \union Final]
    /\ result \in [Callers -> {"none", "cancelled", "exhausted"} \union Final]
    /\ sends \in [0..Window -> Nat]
    /\ asked \in [Callers -> Nat]

(* However many goroutines call and retry, no window of time sees more     *)
(* requests than the burst and what the rate adds in it: "retried attempts *)
(* also consume tokens and cannot burst past the limit" (client.go:52-53). *)
NeverBurstsPastLimit ==
    \A n \in 0..Window : sends[n] <= Burst + n

(* One call of get sends at most 1 + MaxRetries requests, and says that it *)
(* is out of retries only when all of its attempts came to nothing.        *)
AttemptsAreBounded ==
    \A c \in Callers :
        /\ asked[c] <= MaxRetries + 1
        /\ pc[c] = "idle" /\ result[c] = "exhausted" =>
              attempt[c] = MaxRetries /\ status[c] \in Retryable

(* A request is repeated only after a retryable outcome: an answer that is *)
(* final, a refusal included, ends the call (client.go:654-664).           *)
OnlyRetryableIsRepeated ==
    [][\A c \in Callers :
          asked'[c] > asked[c] => status[c] \in {"none"} \union Retryable]_vars

(* Every call of get returns, through backoff, full bucket and shutdown.   *)
EveryCallReturns == \A c \in Callers : pc[c] # "idle" ~> pc[c] = "idle"
=============================================================================
