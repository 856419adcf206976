------------------------- MODULE EventPipelineProofs -------------------------
(***************************************************************************)
(* Lemmas about the actions of EventPipeline, for the proofs of the        *)
(* modules that extend it.                                                 *)
(***************************************************************************)
EXTENDS EventPipeline, TLAPS

(* The records the pipeline still answers for.                             *)
Kept == delivered \union Queued

(* What every pipeline action does to the types, and to what is kept while *)
(* nothing has been dropped.                                               *)
PipelineStep ==
    \/ Cancel \/ CloseStore(TRUE) \/ ShutdownFlushes \/ ShutdownTimesOut
    \/ Crash \/ Restart \/ Export \/ ExportFails

KeepsRecords == ~lossy' => ~lossy /\ Kept \subseteq Kept'

(* A process that is down holds nothing in memory.                         *)
DownIsEmpty == phase = "down" => queue = <<>>

-----------------------------------------------------------------------------
(* Emitting keeps the types, and the new record is in the queue.           *)
LEMMA EmitKeeps ==
    ASSUME NEW Records, PipelineTypeOK(Records), NEW r \in Records, Emit(r),
           UNCHANGED <<phase, faultVars>>
    PROVE  PipelineTypeOK(Records)' /\ KeepsRecords /\ r \in Kept'
<1> USE PipelineAssumption
<1>1. CASE Len(queue) < QueueCap
  <2>1. queue' = Append(queue, r) /\ lossy' = lossy
    BY <1>1 DEF Emit
  <2>2. /\ queue' \in Seq(Records)
        /\ Len(queue') = Len(queue) + 1
        /\ \A i \in 1..Len(queue) : queue'[i] = queue[i]
        /\ queue'[Len(queue) + 1] = r
    BY <2>1 DEF PipelineTypeOK
  <2>3. Queued \subseteq Queued' /\ r \in Queued'
    BY <2>2 DEF Queued, PipelineTypeOK
  <2> QED
    BY <1>1, <2>1, <2>2, <2>3 DEF Emit, PipelineTypeOK, KeepsRecords, Kept, faultVars
<1>2. CASE ~(Len(queue) < QueueCap)
  <2>1. queue' = Append(Tail(queue), r) /\ lossy' = TRUE
    BY <1>2 DEF Emit
  <2>2. Len(queue) = QueueCap /\ queue # <<>>
    BY <1>2 DEF PipelineTypeOK
  <2>3. Tail(queue) \in Seq(Records) /\ Len(Tail(queue)) = Len(queue) - 1
    BY <2>2 DEF PipelineTypeOK
  <2>4. /\ queue' \in Seq(Records)
        /\ Len(queue') = Len(queue)
        /\ queue'[Len(queue)] = r
    BY <2>1, <2>2, <2>3 DEF PipelineTypeOK
  <2>5. r \in Queued'
    BY <2>2, <2>4 DEF Queued
  <2> QED
    BY <1>2, <2>1, <2>4, <2>5 DEF Emit, PipelineTypeOK, KeepsRecords, Kept, faultVars
<1> QED BY <1>1, <1>2

(* The pipeline's own actions keep the types, and drop records only when   *)
(* they say so.                                                            *)
LEMMA PipelineStepKeeps ==
    ASSUME NEW Records, PipelineTypeOK(Records), PipelineStep
    PROVE  PipelineTypeOK(Records)' /\ KeepsRecords
<1> USE PipelineAssumption DEF PipelineTypeOK, KeepsRecords, Kept, Queued
<1>0. Queued \subseteq Records
  OBVIOUS
<1>1. CASE Cancel BY <1>1 DEF Cancel
<1>2. CASE CloseStore(TRUE) BY <1>2 DEF CloseStore
<1>3. CASE ShutdownFlushes BY <1>0, <1>3 DEF ShutdownFlushes
<1>4. CASE ShutdownTimesOut BY <1>4 DEF ShutdownTimesOut
<1>5. CASE Crash
  <2>1. queue' = <<>> /\ delivered' = delivered
    BY <1>5 DEF Crash
  <2>2. PipelineTypeOK(Records)'
    <3>1. lossy' \in BOOLEAN
      BY <1>5, Zenon DEF Crash
    <3>2. /\ phase' = "down" /\ queue' \in Seq(Records) /\ Len(queue') = 0
          /\ delivered' = delivered
          /\ crashes' \in 0..MaxCrashes
          /\ writeFailures' = writeFailures /\ stops' = stops
      BY <1>5 DEF Crash
    <3> QED BY <3>1, <3>2
  <2>3. ~lossy' => ~lossy /\ Queued = {}
    BY <1>5 DEF Crash
  <2> QED BY <2>1, <2>2, <2>3
<1>6. CASE Restart BY <1>6 DEF Restart
<1>7. CASE Export BY <1>0, <1>7 DEF Export
<1>8. CASE ExportFails BY <1>8 DEF ExportFails
<1> QED BY <1>1, <1>2, <1>3, <1>4, <1>5, <1>6, <1>7, <1>8 DEF PipelineStep

(* Only emitting fills the queue, so the processor stays empty while the   *)
(* process is down.                                                        *)
LEMMA DownStaysEmpty ==
    ASSUME DownIsEmpty, PipelineStep
    PROVE  DownIsEmpty'
BY DEF DownIsEmpty, PipelineStep, Cancel, CloseStore, ShutdownFlushes,
       ShutdownTimesOut, Crash, Restart, Export, ExportFails

-----------------------------------------------------------------------------
(* What Delivery promises, of the values of its four variables, and what a *)
(* step of it may do to them.                                              *)
Delivered(Items, offered, reported, noted, faults) ==
    /\ offered \subseteq Items /\ noted \subseteq Items
    /\ reported \in [Items -> Nat] /\ faults \in Nat
    /\ \A i \in noted \cap offered : reported[i] > 0
    /\ \A i \in Items : reported[i] <= faults + 1

Moves(Items, offered, reported, noted, faults, newOffered, newReported, newNoted, newFaults) ==
    \/ /\ \E i \in Items : /\ i \in noted => reported[i] > 0
                           /\ newOffered = offered \union {i}
       /\ newReported = reported /\ newNoted = noted /\ newFaults = faults
    \/ /\ newOffered \subseteq offered
       /\ newReported = reported /\ newNoted = noted /\ newFaults = faults
    \/ /\ \E batch \in SUBSET Items :
             /\ \A i \in batch : i \notin noted /\ reported[i] <= faults
             /\ newReported = [i \in Items |-> IF i \in batch THEN reported[i] + 1
                                                              ELSE reported[i]]
       /\ newOffered = offered /\ newNoted = noted /\ newFaults = faults
    \/ /\ \E batch \in SUBSET Items :
             /\ \A i \in batch \cap offered : reported[i] > 0
             /\ newNoted = noted \union batch
       /\ newOffered = offered /\ newReported = reported /\ newFaults = faults
    \/ /\ newFaults = faults + 1
       /\ newOffered = offered /\ newReported = reported /\ newNoted = noted

(* The promise is inductive: a report is of what was not noted and paid    *)
(* for, a note of what was reported.                                       *)
LEMMA MovesKeepPromise ==
    ASSUME NEW Items,
           NEW offered, NEW reported, NEW noted, NEW faults,
           NEW newOffered, NEW newReported, NEW newNoted, NEW newFaults,
           Delivered(Items, offered, reported, noted, faults),
           Moves(Items, offered, reported, noted, faults,
                 newOffered, newReported, newNoted, newFaults)
    PROVE  Delivered(Items, newOffered, newReported, newNoted, newFaults)
<1> USE DEF Delivered
<1>1. CASE /\ \E i \in Items : /\ i \in noted => reported[i] > 0
                               /\ newOffered = offered \union {i}
           /\ newReported = reported /\ newNoted = noted /\ newFaults = faults
  BY <1>1
<1>2. CASE /\ newOffered \subseteq offered
           /\ newReported = reported /\ newNoted = noted /\ newFaults = faults
  BY <1>2
<1>3. CASE /\ \E batch \in SUBSET Items :
                 /\ \A i \in batch : i \notin noted /\ reported[i] <= faults
                 /\ newReported = [i \in Items |-> IF i \in batch THEN reported[i] + 1
                                                                  ELSE reported[i]]
           /\ newOffered = offered /\ newNoted = noted /\ newFaults = faults
  BY <1>3
<1>4. CASE /\ \E batch \in SUBSET Items :
                 /\ \A i \in batch \cap offered : reported[i] > 0
                 /\ newNoted = noted \union batch
           /\ newOffered = offered /\ newReported = reported /\ newFaults = faults
  BY <1>4
<1>5. CASE /\ newFaults = faults + 1
           /\ newOffered = offered /\ newReported = reported /\ newNoted = noted
  BY <1>5
<1> QED BY <1>1, <1>2, <1>3, <1>4, <1>5 DEF Moves
=============================================================================
