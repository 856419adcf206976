--------------------------- MODULE SeenEventsProofs ---------------------------
(***************************************************************************)
(* Proofs about SeenEvents, for any ids, callers, queue size and number of *)
(* faults.                                                                 *)
(*                                                                         *)
(* IInv is the inductive invariant: besides the properties it says which   *)
(* calls can be under way (an id being marked belongs to its caller, was   *)
(* emitted and is not yet seen), that the state file is open while there   *)
(* is one, and where the records of emitted ids are.                       *)
(*                                                                         *)
(* Then the ledger of Delivery: what it promises follows from its own      *)
(* specification, and SeenEvents implements it.                            *)
(***************************************************************************)
EXTENDS SeenEvents, EventPipelineProofs

CallsOK ==
    \A c \in Callers :
        /\ todo[c] \subseteq IdsOf[c]
        /\ marking[c] # None =>
              /\ marking[c] \in todo[c]
              /\ marking[c] \notin seen
              /\ emitted[marking[c]] > 0

StoreOpenWhileHandling == AllIdle \/ StoreOpen

EmittedIsKept ==
    ~lossy => \A id \in Ids : emitted[id] > 0 => id \in Kept

IInv ==
    /\ TypeOK
    /\ CallsOK
    /\ StoreOpenWhileHandling
    /\ EmittedIsKept
    /\ DownIsEmpty
    /\ MarkedOnlyAfterEmit
    /\ RepeatsOnlyAfterFaults

-----------------------------------------------------------------------------
(* The initial states: nothing seen, nothing emitted, no call.             *)
LEMMA InitIInv == Init => IInv
<1> SUFFICES ASSUME Init PROVE IInv
  OBVIOUS
<1> USE PipelineAssumption, SeenAssumption DEF Init, PipelineInit
<1>1. TypeOK
  <2>1. queue \in Seq(Ids) /\ Len(queue) <= QueueCap
    <3>1. queue = <<>>
      OBVIOUS
    <3>2. queue \in Seq(Ids) /\ Len(queue) = 0
      BY <3>1
    <3> QED BY <3>2
  <2>2. lossy \in BOOLEAN
    BY Zenon
  <2> QED
    BY <2>1, <2>2 DEF TypeOK, PipelineTypeOK
<1>2. CallsOK /\ StoreOpenWhileHandling /\ DownIsEmpty /\ MarkedOnlyAfterEmit
  BY DEF CallsOK, StoreOpenWhileHandling, AllIdle, Idle, DownIsEmpty,
         MarkedOnlyAfterEmit
<1>3. EmittedIsKept /\ RepeatsOnlyAfterFaults
  BY DEF EmittedIsKept, RepeatsOnlyAfterFaults, Faults
<1> QED BY <1>1, <1>2, <1>3 DEF IInv

-----------------------------------------------------------------------------
(* Two callers never mark the same id: their ids are disjoint.             *)
LEMMA OneMarker ==
    ASSUME TypeOK, CallsOK, NEW c \in Callers, NEW e \in Callers,
           marking[c] # None, marking[e] = marking[c]
    PROVE  c = e
BY SeenAssumption DEF TypeOK, CallsOK

(* The steps that emit nothing and mark nothing.                           *)
LEMMA QuietStep ==
    ASSUME IInv, PipelineTypeOK(Ids)', KeepsRecords, DownIsEmpty',
           UNCHANGED <<seen, emitted>>,
           todo' \in [Callers -> SUBSET Ids],
           \A c \in Callers : todo'[c] \subseteq IdsOf[c],
           \A c \in Callers : marking[c] # None => marking[c] \in todo'[c],
           UNCHANGED marking,
           upcoming' \subseteq Ids, window' \subseteq Ids,
           Faults' = Faults,
           StoreOpenWhileHandling'
    PROVE  IInv'
<1> USE DEF IInv
<1>1. TypeOK'
  BY DEF TypeOK
<1>2. CallsOK'
  BY DEF CallsOK
<1>3. EmittedIsKept'
  BY DEF EmittedIsKept, KeepsRecords
<1>4. MarkedOnlyAfterEmit' /\ RepeatsOnlyAfterFaults'
  BY DEF MarkedOnlyAfterEmit, RepeatsOnlyAfterFaults, BeingMarked
<1> QED BY <1>1, <1>2, <1>3, <1>4

(* Completing an id and dropping it from the window disturb no call.       *)
LEMMA WorldIInv ==
    ASSUME IInv, NEW id \in Ids, Complete(id) \/ Rotate(id)
    PROVE  IInv'
<1>1. UNCHANGED <<pipelineVars, seen, callVars, emitted>>
  BY DEF Complete, Rotate
<1>2. PipelineTypeOK(Ids)' /\ KeepsRecords /\ DownIsEmpty' /\ Faults' = Faults
  BY <1>1 DEF IInv, TypeOK, PipelineTypeOK, KeepsRecords, Kept, Queued,
              DownIsEmpty, Faults, pipelineVars
<1>3. StoreOpenWhileHandling'
  BY <1>1 DEF IInv, StoreOpenWhileHandling, AllIdle, Idle, StoreOpen,
              callVars, pipelineVars
<1>4. upcoming' \subseteq Ids /\ window' \subseteq Ids
  BY DEF Complete, Rotate, IInv, TypeOK
<1> QED
  BY <1>1, <1>2, <1>3, <1>4, QuietStep DEF IInv, TypeOK, CallsOK, callVars

(* A poll hands its caller ids of its own only.                            *)
LEMMA PollIInv ==
    ASSUME IInv, NEW c \in Callers, Poll(c)
    PROVE  IInv'
<1> USE SeenAssumption
<1>1. PipelineTypeOK(Ids)' /\ KeepsRecords /\ DownIsEmpty' /\ Faults' = Faults
  BY DEF Poll, IInv, TypeOK, PipelineTypeOK, KeepsRecords, Kept, Queued,
         DownIsEmpty, Faults, pipelineVars
<1>2. StoreOpenWhileHandling'
  BY DEF Poll, StoreOpenWhileHandling, StoreOpen, pipelineVars
<1>3. todo' \in [Callers -> SUBSET Ids]
  BY DEF Poll, IInv, TypeOK
<1>4. \A e \in Callers : /\ todo'[e] \subseteq IdsOf[e]
                         /\ marking[e] # None => marking[e] \in todo'[e]
  BY DEF Poll, Idle, IInv, TypeOK, CallsOK
<1> QED
  BY <1>1, <1>2, <1>3, <1>4, QuietStep DEF Poll, IInv, TypeOK, worldVars

(* Passing over an id leaves its record where it is.                       *)
LEMMA SkipIInv ==
    ASSUME IInv, NEW c \in Callers, NEW id \in Ids, Skip(c, id)
    PROVE  IInv'
<1>1. PipelineTypeOK(Ids)' /\ KeepsRecords /\ DownIsEmpty' /\ Faults' = Faults
  BY DEF Skip, IInv, TypeOK, PipelineTypeOK, KeepsRecords, Kept, Queued,
         DownIsEmpty, Faults, pipelineVars
<1>2. StoreOpenWhileHandling'
  BY DEF Skip, HasSeen, StoreOpenWhileHandling, StoreOpen, pipelineVars
<1>3. todo' \in [Callers -> SUBSET Ids]
  BY DEF Skip, IInv, TypeOK
<1>4. \A e \in Callers : /\ todo'[e] \subseteq IdsOf[e]
                         /\ marking[e] # None => marking[e] \in todo'[e]
  BY DEF Skip, IInv, TypeOK, CallsOK
<1> QED
  BY <1>1, <1>2, <1>3, <1>4, QuietStep DEF Skip, IInv, TypeOK, worldVars

(* Only an id that is neither seen nor being marked is emitted: the state  *)
(* file is open, so "not seen" is its true answer, and no other caller     *)
(* works on the id.                                                        *)
LEMMA EmitNewIInv ==
    ASSUME IInv, NEW c \in Callers, NEW id \in Ids, EmitNew(c, id)
    PROVE  IInv'
<1> USE SeenAssumption
<1>1. /\ Emit(id) /\ id \in todo[c] /\ marking[c] = None
      /\ emitted' = [emitted EXCEPT ![id] = @ + 1]
      /\ marking' = [marking EXCEPT ![c] = id]
      /\ UNCHANGED <<phase, faultVars, worldVars, seen, todo>>
  BY DEF EmitNew
<1>2. PipelineTypeOK(Ids)' /\ KeepsRecords /\ id \in Kept'
  BY <1>1, EmitKeeps DEF IInv, TypeOK
<1>3. StoreOpen
  BY <1>1 DEF IInv, StoreOpenWhileHandling, AllIdle, Idle
<1>4. id \notin seen
  BY <1>3 DEF EmitNew, HasSeen
<1>5. ~BeingMarked(id)
  BY <1>1 DEF BeingMarked, IInv, TypeOK, CallsOK
<1>6. TypeOK'
  BY <1>1, <1>2 DEF IInv, TypeOK, worldVars
<1>7. \A i \in Ids : /\ emitted'[i] = IF i = id THEN emitted[i] + 1 ELSE emitted[i]
                     /\ emitted[i] \in Nat
  BY <1>1 DEF IInv, TypeOK
<1>8. CallsOK'
  <2> SUFFICES ASSUME NEW e \in Callers
               PROVE  /\ todo[e] \subseteq IdsOf[e]
                      /\ marking'[e] # None => /\ marking'[e] \in todo[e]
                                               /\ marking'[e] \notin seen
                                               /\ emitted'[marking'[e]] > 0
    BY <1>1 DEF CallsOK
  <2>1. CASE e = c
    BY <2>1, <1>1, <1>4, <1>7 DEF IInv, TypeOK, CallsOK
  <2>2. CASE e # c
    <3>1. marking'[e] = marking[e] /\ marking[e] \in Ids \union {None}
      BY <2>2, <1>1 DEF IInv, TypeOK
    <3> QED BY <3>1, <1>7 DEF IInv, CallsOK
  <2> QED BY <2>1, <2>2
<1>9. StoreOpenWhileHandling' /\ DownIsEmpty'
  BY <1>1, <1>3 DEF StoreOpenWhileHandling, StoreOpen, DownIsEmpty
<1>10. EmittedIsKept'
  BY <1>2, <1>7 DEF IInv, EmittedIsKept, KeepsRecords
<1>11. MarkedOnlyAfterEmit'
  BY <1>1, <1>7 DEF IInv, TypeOK, MarkedOnlyAfterEmit
<1>12. RepeatsOnlyAfterFaults'
  <2> SUFFICES ASSUME NEW i \in Ids
               PROVE  emitted'[i] <= Faults' + (IF i \in seen' \/ BeingMarked(i)' THEN 1 ELSE 0)
    BY DEF RepeatsOnlyAfterFaults
  <2>1. Faults' = Faults /\ Faults \in Nat
    BY <1>1 DEF Faults, faultVars, IInv, TypeOK, PipelineTypeOK
  <2>2. emitted[i] <= Faults + (IF i \in seen \/ BeingMarked(i) THEN 1 ELSE 0)
    BY DEF IInv, RepeatsOnlyAfterFaults
  <2>3. CASE i = id
    <3>1. marking'[c] = i
      BY <2>3, <1>1 DEF IInv, TypeOK
    <3>2. BeingMarked(i)'
      BY <3>1 DEF BeingMarked
    <3> QED BY <2>1, <2>2, <2>3, <3>2, <1>4, <1>5, <1>7
  <2>4. CASE i # id
    <3>1. BeingMarked(i) => BeingMarked(i)'
      BY <1>1 DEF BeingMarked, IInv, TypeOK
    <3> QED BY <2>1, <2>2, <2>4, <3>1, <1>1, <1>7
  <2> QED BY <2>3, <2>4
<1> QED
  BY <1>6, <1>8, <1>9, <1>10, <1>11, <1>12 DEF IInv

-----------------------------------------------------------------------------
(* What both endings of a turn do to the calls, and to the id they end.    *)
LEMMA EndTurnKeeps ==
    ASSUME IInv, NEW c \in Callers, marking[c] # None, EndTurn(c),
           seen' \subseteq seen \union {marking[c]},
           UNCHANGED <<crashes, stops>>,
           writeFailures' \in 0..MaxWriteFailures, writeFailures' >= writeFailures
    PROVE  /\ TypeOK' /\ CallsOK' /\ StoreOpenWhileHandling'
           /\ EmittedIsKept' /\ DownIsEmpty' /\ MarkedOnlyAfterEmit'
           /\ \A i \in Ids : i # marking[c] /\ BeingMarked(i) => BeingMarked(i)'
<1> USE SeenAssumption DEF EndTurn
<1> DEFINE m == marking[c]
<1>1. m \in Ids /\ m \in todo[c] /\ emitted[m] > 0
  BY DEF IInv, TypeOK, CallsOK
<1>2. /\ phase' = phase /\ queue' = queue /\ delivered' = delivered /\ lossy' = lossy
      /\ upcoming' = upcoming /\ window' = window /\ emitted' = emitted
  BY DEF recordVars, worldVars
<1>3. TypeOK'
  <2>1. PipelineTypeOK(Ids)'
    BY <1>2 DEF IInv, TypeOK, PipelineTypeOK
  <2>2. todo' \in [Callers -> SUBSET Ids] /\ marking' \in [Callers -> Ids \union {None}]
    BY DEF IInv, TypeOK
  <2>3. seen' \subseteq Ids
    BY <1>1 DEF IInv, TypeOK
  <2> QED
    BY <1>2, <2>1, <2>2, <2>3 DEF IInv, TypeOK
<1>4. CallsOK'
  <2> SUFFICES ASSUME NEW e \in Callers
               PROVE  /\ todo'[e] \subseteq IdsOf[e]
                      /\ marking'[e] # None => /\ marking'[e] \in todo'[e]
                                               /\ marking'[e] \notin seen'
                                               /\ emitted'[marking'[e]] > 0
    BY DEF CallsOK
  <2>1. CASE e = c
    BY <2>1 DEF IInv, TypeOK, CallsOK
  <2>2. CASE e # c
    <3>1. marking'[e] = marking[e] /\ todo'[e] = todo[e]
      BY <2>2 DEF IInv, TypeOK
    <3>2. marking[e] # None => marking[e] # m
      BY <2>2, OneMarker DEF IInv
    <3> QED BY <1>2, <3>1, <3>2 DEF IInv, CallsOK
  <2> QED BY <2>1, <2>2
<1>5. StoreOpenWhileHandling' /\ DownIsEmpty'
  <2>1. StoreOpen
    BY <1>1 DEF IInv, StoreOpenWhileHandling, AllIdle, Idle
  <2> QED
    BY <1>2, <2>1 DEF StoreOpenWhileHandling, StoreOpen, DownIsEmpty
<1>6. EmittedIsKept' /\ MarkedOnlyAfterEmit'
  BY <1>1, <1>2 DEF IInv, EmittedIsKept, Kept, Queued, MarkedOnlyAfterEmit
<1>7. \A i \in Ids : i # m /\ BeingMarked(i) => BeingMarked(i)'
  BY DEF BeingMarked, IInv, TypeOK
<1> QED BY <1>3, <1>4, <1>5, <1>6, <1>7

(* The mark follows the emit and ends the turn.                            *)
LEMMA MarkSeenIInv ==
    ASSUME IInv, NEW c \in Callers, MarkSeen(c)
    PROVE  IInv'
<1>1. /\ marking[c] # None /\ EndTurn(c) /\ UNCHANGED faultVars
      /\ seen' = seen \union {marking[c]}
  BY DEF MarkSeen, WriteOK
<1>2. writeFailures' \in 0..MaxWriteFailures /\ writeFailures' >= writeFailures
  BY <1>1, PipelineAssumption DEF faultVars, IInv, TypeOK, PipelineTypeOK
<1>3. /\ TypeOK' /\ CallsOK' /\ StoreOpenWhileHandling'
      /\ EmittedIsKept' /\ DownIsEmpty' /\ MarkedOnlyAfterEmit'
      /\ \A i \in Ids : i # marking[c] /\ BeingMarked(i) => BeingMarked(i)'
  BY <1>1, <1>2, EndTurnKeeps DEF faultVars
<1>4. RepeatsOnlyAfterFaults'
  <2> SUFFICES ASSUME NEW i \in Ids
               PROVE  emitted'[i] <= Faults' + (IF i \in seen' \/ BeingMarked(i)' THEN 1 ELSE 0)
    BY DEF RepeatsOnlyAfterFaults
  <2>1. Faults' = Faults /\ emitted' = emitted
    BY <1>1 DEF faultVars, Faults, EndTurn
  <2>2. emitted[i] <= Faults + (IF i \in seen \/ BeingMarked(i) THEN 1 ELSE 0)
    BY DEF IInv, RepeatsOnlyAfterFaults
  <2>3. CASE i = marking[c]
    <3>1. i \in seen' /\ BeingMarked(i)
      BY <1>1, <2>3 DEF BeingMarked
    <3> QED BY <2>1, <2>2, <3>1
  <2>4. CASE i # marking[c]
    <3>1. (i \in seen \/ BeingMarked(i)) => (i \in seen' \/ BeingMarked(i)')
      BY <1>1, <1>3, <2>4
    <3>2. (i \in seen' \/ BeingMarked(i)') => (i \in seen \/ BeingMarked(i))
      BY <1>1, <2>4, SeenAssumption DEF BeingMarked, EndTurn, IInv, TypeOK
    <3> QED BY <2>1, <2>2, <3>1, <3>2
  <2> QED BY <2>3, <2>4
<1> QED BY <1>3, <1>4 DEF IInv

(* A failed mark leaves the id unmarked: it may be emitted once more, and  *)
(* the failure is counted.  No write is refused, the file is open.         *)
LEMMA MarkSeenFailsIInv ==
    ASSUME IInv, NEW c \in Callers, MarkSeenFails(c)
    PROVE  IInv'
<1> USE PipelineAssumption
<1>1. marking[c] # None /\ EndTurn(c) /\ seen' = seen
  BY DEF MarkSeenFails
<1>2. StoreOpen
  BY <1>1 DEF IInv, CallsOK, StoreOpenWhileHandling, AllIdle, Idle
<1>3. /\ writeFailures < MaxWriteFailures /\ writeFailures' = writeFailures + 1
      /\ UNCHANGED <<crashes, stops>>
  BY <1>2 DEF MarkSeenFails, WriteFails, WriteRefused
<1>4. /\ writeFailures \in Nat /\ crashes \in Nat
      /\ writeFailures' \in 0..MaxWriteFailures /\ writeFailures' >= writeFailures
  BY <1>3 DEF IInv, TypeOK, PipelineTypeOK
<1>5. /\ TypeOK' /\ CallsOK' /\ StoreOpenWhileHandling'
      /\ EmittedIsKept' /\ DownIsEmpty' /\ MarkedOnlyAfterEmit'
      /\ \A i \in Ids : i # marking[c] /\ BeingMarked(i) => BeingMarked(i)'
  BY <1>1, <1>3, <1>4, EndTurnKeeps
<1>6. RepeatsOnlyAfterFaults'
  <2> SUFFICES ASSUME NEW i \in Ids
               PROVE  emitted'[i] <= Faults' + (IF i \in seen' \/ BeingMarked(i)' THEN 1 ELSE 0)
    BY DEF RepeatsOnlyAfterFaults
  <2>1. Faults' = Faults + 1 /\ Faults \in Nat
    BY <1>3, <1>4 DEF Faults
  <2>2. /\ emitted[i] <= Faults + (IF i \in seen \/ BeingMarked(i) THEN 1 ELSE 0)
        /\ emitted[i] \in Nat /\ emitted'[i] = emitted[i]
    BY <1>1 DEF IInv, TypeOK, RepeatsOnlyAfterFaults, EndTurn
  <2> QED BY <1>1, <2>1, <2>2
<1> QED BY <1>5, <1>6 DEF IInv

-----------------------------------------------------------------------------
(* The steps of the process and of the exporter that end no call.          *)
LEMMA StopStartSendIInv ==
    ASSUME IInv, Stop \/ Start \/ Send
    PROVE  IInv'
<1>1. UNCHANGED seenVars /\ Faults' = Faults
  BY DEF Stop, Start, Send, Cancel, CloseStore, Restart, Export, ExportFails, Faults
<1>2. PipelineStep
  <2>1. CASE Stop
    BY <2>1 DEF Stop, PipelineStep, CloseStore
  <2>2. CASE Start \/ Send
    BY <2>2 DEF Start, Send, PipelineStep
  <2> QED BY <2>1, <2>2
<1>3. PipelineTypeOK(Ids)' /\ KeepsRecords /\ DownIsEmpty'
  BY <1>2, PipelineStepKeeps, DownStaysEmpty DEF IInv, TypeOK
<1>4. StoreOpenWhileHandling'
  BY <1>1 DEF Stop, Start, Send, Cancel, CloseStore, Restart, Export, ExportFails,
              IInv, StoreOpenWhileHandling, AllIdle, Idle, StoreOpen, seenVars, callVars
<1> QED
  BY <1>1, <1>3, <1>4, QuietStep
  DEF seenVars, callVars, worldVars, IInv, TypeOK, CallsOK

(* An orderly exit finds no call under way; a crash cuts calls short, and  *)
(* is counted.                                                             *)
LEMMA ExitIInv ==
    ASSUME IInv, Exit
    PROVE  IInv'
<1> USE SeenAssumption
<1>1. NoCall /\ UNCHANGED <<worldVars, seen, emitted>> /\ PipelineStep
  BY DEF Exit, PipelineStep
<1>2. PipelineTypeOK(Ids)' /\ KeepsRecords /\ DownIsEmpty'
  BY <1>1, PipelineStepKeeps, DownStaysEmpty DEF IInv, TypeOK
<1>3. TypeOK' /\ CallsOK' /\ StoreOpenWhileHandling'
  <2>1. todo' = [c \in Callers |-> {}] /\ marking' = [c \in Callers |-> None]
    BY <1>1 DEF NoCall
  <2> QED
    BY <1>1, <1>2, <2>1 DEF IInv, TypeOK, CallsOK, StoreOpenWhileHandling,
                            AllIdle, Idle, worldVars
<1>4. EmittedIsKept' /\ MarkedOnlyAfterEmit'
  BY <1>1, <1>2 DEF IInv, EmittedIsKept, KeepsRecords, MarkedOnlyAfterEmit
<1>5. RepeatsOnlyAfterFaults'
  <2> SUFFICES ASSUME NEW i \in Ids
               PROVE  emitted'[i] <= Faults' + (IF i \in seen' \/ BeingMarked(i)' THEN 1 ELSE 0)
    BY DEF RepeatsOnlyAfterFaults
  <2>1. /\ emitted[i] <= Faults + (IF i \in seen \/ BeingMarked(i) THEN 1 ELSE 0)
        /\ emitted[i] \in Nat /\ emitted'[i] = emitted[i] /\ seen' = seen
        /\ crashes \in Nat /\ writeFailures \in Nat
    BY <1>1, PipelineAssumption DEF IInv, TypeOK, PipelineTypeOK, RepeatsOnlyAfterFaults
  <2>2. CASE Crash
    <3>1. Faults' = Faults + 1 /\ Faults \in Nat
      BY <2>1, <2>2 DEF Crash, Faults
    <3> QED BY <2>1, <3>1
  <2>3. CASE ShutdownFlushes \/ ShutdownTimesOut
    <3>1. Faults' = Faults /\ Faults \in Nat /\ ~StoreOpen
      BY <2>1, <2>3 DEF ShutdownFlushes, ShutdownTimesOut, Faults, StoreOpen
    <3>2. ~BeingMarked(i)
      BY <3>1 DEF IInv, StoreOpenWhileHandling, AllIdle, Idle, CallsOK, BeingMarked
    <3> QED BY <2>1, <3>1, <3>2
  <2> QED BY <2>2, <2>3 DEF Exit
<1> QED BY <1>2, <1>3, <1>4, <1>5 DEF IInv

-----------------------------------------------------------------------------
(* IInv holds in every state, whatever the ids, the callers, the size of   *)
(* the queue and the number of faults.                                     *)
THEOREM Invariant == Spec => []IInv
<1>1. IInv /\ [Next]_vars => IInv'
  <2> SUFFICES ASSUME IInv, [Next]_vars PROVE IInv'
    OBVIOUS
  <2>1. CASE \E id \in Ids : Complete(id) \/ Rotate(id)
    BY <2>1, WorldIInv
  <2>2. CASE \E c \in Callers : Poll(c)
    BY <2>2, PollIInv
  <2>3. CASE \E c \in Callers : Handle(c)
    BY <2>3, SkipIInv, EmitNewIInv, MarkSeenIInv, MarkSeenFailsIInv DEF Handle
  <2>4. CASE Stop \/ Start \/ Send
    BY <2>4, StopStartSendIInv
  <2>5. CASE Exit
    BY <2>5, ExitIInv
  <2>6. CASE UNCHANGED vars
    <3>1. PipelineTypeOK(Ids)' /\ KeepsRecords /\ DownIsEmpty' /\ Faults' = Faults
      BY <2>6 DEF vars, pipelineVars, IInv, TypeOK, PipelineTypeOK, KeepsRecords,
                  Kept, Queued, DownIsEmpty, Faults
    <3>2. StoreOpenWhileHandling'
      BY <2>6 DEF vars, pipelineVars, seenVars, callVars, IInv,
                  StoreOpenWhileHandling, AllIdle, Idle, StoreOpen
    <3> QED
      BY <2>6, <3>1, <3>2, QuietStep
      DEF vars, seenVars, callVars, worldVars, IInv, TypeOK, CallsOK
  <2> QED
    BY <2>1, <2>2, <2>3, <2>4, <2>5, <2>6 DEF Next
<1> QED
  BY InitIInv, <1>1, PTL DEF Spec

(* Every state is well typed.                                              *)
THEOREM TypeCorrect == Spec => []TypeOK
<1>1. IInv => TypeOK
  BY DEF IInv
<1> QED BY Invariant, <1>1, PTL

(* The mark never runs ahead of the emit.                                  *)
THEOREM MarksFollowEmits == Spec => []MarkedOnlyAfterEmit
<1>1. IInv => MarkedOnlyAfterEmit
  BY DEF IInv
<1> QED BY Invariant, <1>1, PTL

(* An id is emitted at most once more than there were crashes and failed   *)
(* writes.                                                                 *)
THEOREM RepeatsAreBounded == Spec => []RepeatsOnlyAfterFaults
<1>1. IInv => RepeatsOnlyAfterFaults
  BY DEF IInv
<1> QED BY Invariant, <1>1, PTL

(* When the process is down and the pipeline dropped nothing, what is      *)
(* marked seen was delivered.                                              *)
THEOREM StopLosesNothing == Spec => []StopFlushesMarked
<1>1. IInv => StopFlushesMarked
  <2> SUFFICES ASSUME IInv, phase = "down", ~lossy, NEW id \in seen
               PROVE  id \in delivered
    BY DEF StopFlushesMarked
  <2>1. id \in Ids /\ emitted[id] > 0
    BY DEF IInv, TypeOK, MarkedOnlyAfterEmit
  <2>2. id \in Kept
    BY <2>1 DEF IInv, EmittedIsKept
  <2>3. Queued = {}
    <3>1. queue = <<>>
      BY DEF IInv, DownIsEmpty
    <3> QED BY <3>1 DEF Queued
  <2> QED BY <2>2, <2>3 DEF Kept
<1> QED BY Invariant, <1>1, PTL

-----------------------------------------------------------------------------
(* Each step of a handler, of the game and of the process is one step of   *)
(* Delivery, or none.                                                      *)
LEMMA EmitNewReports ==
    ASSUME IInv, NEW c \in Callers, NEW id \in Ids, EmitNew(c, id)
    PROVE  Promise!Report({id})
<1>1. id \in todo[c] /\ marking[c] = None /\ ~HasSeen(id)
  BY DEF EmitNew
<1>2. id \notin seen
  BY <1>1 DEF IInv, StoreOpenWhileHandling, AllIdle, Idle, HasSeen
<1>3. ~BeingMarked(id)
  BY <1>1, SeenAssumption DEF IInv, TypeOK, CallsOK, BeingMarked
<1>4. emitted[id] <= Faults
  <2>1. emitted[id] \in Nat /\ Faults \in Nat
    BY PipelineAssumption DEF IInv, TypeOK, PipelineTypeOK, Faults
  <2> QED BY <1>2, <1>3, <2>1 DEF IInv, RepeatsOnlyAfterFaults
<1>5. /\ emitted' = [i \in Ids |-> IF i \in {id} THEN emitted[i] + 1 ELSE emitted[i]]
      /\ UNCHANGED <<window, seen>> /\ Faults' = Faults
  BY DEF EmitNew, faultVars, worldVars, Faults, IInv, TypeOK
<1> QED BY <1>2, <1>4, <1>5 DEF Promise!Report

LEMMA EndOfTurnNotes ==
    ASSUME IInv, NEW c \in Callers, MarkSeen(c) \/ MarkSeenFails(c)
    PROVE  Promise!Next \/ UNCHANGED Promise!vars
<1> USE PipelineAssumption
<1>0. UNCHANGED <<window, emitted>> /\ marking[c] # None
  BY DEF MarkSeen, MarkSeenFails, EndTurn, worldVars
<1>1. CASE MarkSeen(c)
  <2>1. {marking[c]} \in SUBSET Ids /\ emitted[marking[c]] > 0
    BY <1>0 DEF IInv, TypeOK, CallsOK
  <2>2. seen' = seen \union {marking[c]} /\ Faults' = Faults
    BY <1>1 DEF MarkSeen, WriteOK, faultVars, Faults
  <2>3. Promise!Note({marking[c]})
    BY <1>0, <2>1, <2>2 DEF Promise!Note
  <2> QED BY <2>1, <2>3 DEF Promise!Next
<1>2. CASE MarkSeenFails(c) /\ WriteFails
  <2>1. UNCHANGED seen /\ Faults' = Faults + 1
    BY <1>2 DEF MarkSeenFails, WriteFails, Faults, IInv, TypeOK, PipelineTypeOK
  <2> QED BY <1>0, <2>1 DEF Promise!Next, Promise!Fault
<1>3. CASE MarkSeenFails(c) /\ WriteRefused
  <2>1. UNCHANGED seen /\ Faults' = Faults
    BY <1>3 DEF MarkSeenFails, WriteRefused, faultVars, Faults
  <2> QED BY <1>0, <2>1 DEF Promise!vars
<1> QED BY <1>1, <1>2, <1>3 DEF MarkSeenFails

LEMMA ProcessStepDelivers ==
    ASSUME IInv, Stop \/ Exit \/ Start \/ Send
    PROVE  Promise!Next \/ UNCHANGED Promise!vars
<1>1. UNCHANGED <<window, emitted, seen>>
  BY DEF Stop, Exit, Start, Send, seenVars, worldVars
<1>2. CASE Exit /\ Crash
  <2>1. Faults' = Faults + 1
    BY <1>2, PipelineAssumption DEF Crash, Faults, IInv, TypeOK, PipelineTypeOK
  <2> QED BY <1>1, <2>1 DEF Promise!Next, Promise!Fault
<1>3. CASE (Exit /\ ~Crash) \/ Stop \/ Start \/ Send
  <2>1. Faults' = Faults
    BY <1>3 DEF Exit, Stop, Start, Send, ShutdownFlushes, ShutdownTimesOut, Cancel,
                CloseStore, Restart, Export, ExportFails, Faults
  <2> QED BY <1>1, <2>1 DEF Promise!vars
<1> QED BY <1>2, <1>3

(* The seen-set implements Delivery, for any ids, callers and faults.      *)
THEOREM SeenSetDelivers == Spec => ImplementsDelivery
<1>1. Init => Promise!Init
  BY DEF Init, PipelineInit, Faults, Promise!Init
<1>2. IInv /\ [Next]_vars => [Promise!Next]_(Promise!vars)
  <2> SUFFICES ASSUME IInv, [Next]_vars
               PROVE  Promise!Next \/ UNCHANGED Promise!vars
    OBVIOUS
  <2>1. ASSUME NEW id \in Ids, Complete(id) PROVE Promise!Next
    <3>1. /\ window' = window \union {id}
          /\ UNCHANGED <<seen, emitted>> /\ Faults' = Faults
      BY <2>1 DEF Complete, pipelineVars, Faults
    <3>2. id \in seen => emitted[id] > 0
      BY DEF IInv, MarkedOnlyAfterEmit
    <3>3. Promise!Offer(id)
      BY <3>1, <3>2 DEF Promise!Offer
    <3> QED BY <3>3 DEF Promise!Next
  <2>2. ASSUME NEW id \in Ids, Rotate(id) PROVE Promise!Next
    <3>1. /\ window' = window \ {id}
          /\ UNCHANGED <<seen, emitted>> /\ Faults' = Faults
      BY <2>2 DEF Rotate, pipelineVars, Faults
    <3>2. Promise!Withdraw({id})
      BY <3>1 DEF Promise!Withdraw
    <3> QED BY <3>2 DEF Promise!Next
  <2>3. ASSUME NEW c \in Callers, Poll(c) \/ \E id \in Ids : Skip(c, id)
        PROVE  UNCHANGED Promise!vars
    <3>1. UNCHANGED <<window, seen, emitted>> /\ Faults' = Faults
      BY <2>3 DEF Poll, Skip, worldVars, pipelineVars, Faults
    <3> QED BY <3>1 DEF Promise!vars
  <2>4. ASSUME NEW c \in Callers, NEW id \in Ids, EmitNew(c, id)
        PROVE  Promise!Next
    BY <2>4, EmitNewReports DEF Promise!Next
  <2>5. CASE UNCHANGED vars
    BY <2>5 DEF vars, seenVars, worldVars, pipelineVars, Faults, Promise!vars
  <2> QED
    BY <2>1, <2>2, <2>3, <2>4, <2>5, EndOfTurnNotes, ProcessStepDelivers
    DEF Next, Handle
<1> QED
  BY <1>1, <1>2, Invariant, PTL DEF Spec, ImplementsDelivery, Promise!Spec

-----------------------------------------------------------------------------
(* What Delivery's steps do to the four values they are about.             *)
LEMMA PromiseMoves ==
    ASSUME [Promise!Next]_(Promise!vars)
    PROVE  Moves(Ids, window, emitted, seen, Faults, window', emitted', seen', Faults')
<1> USE DEF Moves
<1>1. ASSUME NEW i \in Ids, Promise!Offer(i)
      PROVE  Moves(Ids, window, emitted, seen, Faults, window', emitted', seen', Faults')
  BY <1>1 DEF Promise!Offer
<1>2. ASSUME NEW batch \in SUBSET Ids, Promise!Withdraw(batch)
      PROVE  Moves(Ids, window, emitted, seen, Faults, window', emitted', seen', Faults')
  BY <1>2 DEF Promise!Withdraw
<1>3. ASSUME NEW batch \in SUBSET Ids, Promise!Report(batch)
      PROVE  Moves(Ids, window, emitted, seen, Faults, window', emitted', seen', Faults')
  BY <1>3 DEF Promise!Report
<1>4. ASSUME NEW batch \in SUBSET Ids, Promise!Note(batch)
      PROVE  Moves(Ids, window, emitted, seen, Faults, window', emitted', seen', Faults')
  BY <1>4 DEF Promise!Note
<1>5. CASE Promise!Fault
  BY <1>5 DEF Promise!Fault
<1>6. CASE UNCHANGED Promise!vars
  BY <1>6 DEF Promise!vars
<1> QED BY <1>1, <1>2, <1>3, <1>4, <1>5, <1>6 DEF Promise!Next

(* What follows from Delivery alone, for any set of items: an item that is *)
(* noted while the API shows it has been reported, and no item is reported *)
(* more often than once more than there were faults.                       *)
THEOREM DeliveryIsKept ==
    Promise!Spec => [](Promise!NothingPassedOver /\ Promise!RepeatsNeedFaults)
<1>1. Promise!Init => Delivered(Ids, window, emitted, seen, Faults)
  <2> SUFFICES ASSUME Promise!Init
               PROVE  Delivered(Ids, window, emitted, seen, Faults)
    OBVIOUS
  <2>1. window = {} /\ emitted = [i \in Ids |-> 0] /\ seen = {} /\ Faults = 0
    BY DEF Promise!Init
  <2> QED BY <2>1 DEF Delivered
<1>2. Delivered(Ids, window, emitted, seen, Faults) /\ [Promise!Next]_(Promise!vars)
        => Delivered(Ids, window, emitted, seen, Faults)'
  <2> SUFFICES ASSUME Delivered(Ids, window, emitted, seen, Faults),
                      [Promise!Next]_(Promise!vars)
               PROVE  Delivered(Ids, window', emitted', seen', Faults')
    OBVIOUS
  <2> QED BY PromiseMoves, MovesKeepPromise
<1>3. Delivered(Ids, window, emitted, seen, Faults)
        => Promise!NothingPassedOver /\ Promise!RepeatsNeedFaults
  BY DEF Delivered, Promise!NothingPassedOver, Promise!RepeatsNeedFaults
<1> QED BY <1>1, <1>2, <1>3, PTL DEF Promise!Spec

(* The seen-set inherits both: nothing the API shows is passed over, and   *)
(* nothing is reported more than once without a fault.                     *)
THEOREM SeenSetKeepsPromise ==
    Spec => [](Promise!NothingPassedOver /\ Promise!RepeatsNeedFaults)
  BY SeenSetDelivers, DeliveryIsKept, PTL DEF ImplementsDelivery
=============================================================================
