------------------------- MODULE GuildLogEventsProofs -------------------------
(***************************************************************************)
(* Proofs about GuildLogEvents, for any guilds, logs and faults.           *)
(*                                                                         *)
(* The inductive invariant places every entry: a call under way has still  *)
(* to emit exactly the entries of its answer that it has not emitted, all  *)
(* of them above the stored watermark and none above the one it will       *)
(* store, and entries the game adds meanwhile lie above both.              *)
(***************************************************************************)
EXTENDS GuildLogEvents, EventPipelineProofs

(* The watermark hides i, or will when the call under way stores it.       *)
Behind(g, i) ==
    \/ i <= watermark[g]
    \/ maxID[g] # None /\ i <= maxID[g] /\ i \notin todo[g]

CallOK(g) ==
    /\ watermark[g] <= top[g]
    /\ \A i \in shown[g] : i <= top[g]
    /\ maxID[g] = None => todo[g] = {}
    /\ maxID[g] # None => watermark[g] < maxID[g] /\ maxID[g] <= top[g]
    /\ \A i \in todo[g] : watermark[g] < i /\ i <= maxID[g]

GuildInv(g) ==
    /\ CallOK(g)
    /\ \A i \in shown[g] : Behind(g, i) => emitted[g][i] > 0
    /\ \A i \in LogIds :
          emitted[g][i] <= Faults + (IF Behind(g, i) THEN 1 ELSE 0)

StoreOpenWhileHandling == AllIdle \/ StoreOpen

IInv ==
    /\ TypeOK
    /\ StoreOpenWhileHandling
    /\ \A g \in Guilds : GuildInv(g)

-----------------------------------------------------------------------------
(* The initial states: empty logs, nothing emitted.                        *)
LEMMA InitIInv == Init => IInv
<1> SUFFICES ASSUME Init PROVE IInv
  OBVIOUS
<1> USE PipelineAssumption, GuildLogAssumption DEF Init, PipelineInit
<1>1. TypeOK
  <2>1. queue \in Seq(Guilds \X LogIds) /\ Len(queue) <= QueueCap
    <3>1. queue = <<>>
      OBVIOUS
    <3>2. queue \in Seq(Guilds \X LogIds) /\ Len(queue) = 0
      BY <3>1
    <3> QED BY <3>2
  <2>2. lossy \in BOOLEAN
    BY Zenon
  <2> QED
    BY <2>1, <2>2 DEF TypeOK, PipelineTypeOK
<1>2. StoreOpenWhileHandling
  BY DEF StoreOpenWhileHandling, AllIdle, Idle
<1>3. ASSUME NEW g \in Guilds PROVE GuildInv(g)
  BY DEF GuildInv, CallOK, Behind, Faults, LogIds
<1> QED BY <1>1, <1>2, <1>3 DEF IInv

(* Steps outside the pipeline keep its types, the faults and the file.     *)
LEMMA PipelineFrame ==
    ASSUME TypeOK, UNCHANGED pipelineVars
    PROVE  /\ PipelineTypeOK(Guilds \X LogIds)'
           /\ Faults' = Faults
           /\ StoreOpen' <=> StoreOpen
BY DEF pipelineVars, TypeOK, PipelineTypeOK, Faults, StoreOpen

(* The types of the variables of one guild.                                *)
LEMMA Ranges ==
    ASSUME IInv, NEW g \in Guilds
    PROVE  /\ top[g] \in 0..MaxLogId /\ watermark[g] \in 0..MaxLogId
           /\ shown[g] \subseteq LogIds /\ todo[g] \subseteq LogIds
           /\ maxID[g] # None => maxID[g] \in LogIds
           /\ \A i \in LogIds : emitted[g][i] \in Nat /\ i \in Nat
           /\ Faults \in Nat
<1>1. Faults \in Nat
  BY PipelineAssumption DEF IInv, TypeOK, PipelineTypeOK, Faults
<1> QED BY <1>1, GuildLogAssumption DEF IInv, TypeOK, LogIds

(* A guild whose log and whose call are left alone.                        *)
LEMMA Untouched ==
    ASSUME IInv, NEW g \in Guilds,
           top'[g] = top[g], shown'[g] = shown[g], watermark'[g] = watermark[g],
           todo'[g] = todo[g], maxID'[g] = maxID[g], emitted'[g] = emitted[g],
           Faults' \in Nat, Faults' >= Faults
    PROVE  GuildInv(g)'
<1>1. CallOK(g)'
  BY DEF IInv, GuildInv, CallOK
<1>2. \A i \in LogIds : Behind(g, i)' <=> Behind(g, i)
  BY DEF Behind
<1>3. \A i \in shown'[g] : Behind(g, i)' => emitted'[g][i] > 0
  BY <1>2, Ranges DEF IInv, GuildInv
<1>4. \A i \in LogIds :
          emitted'[g][i] <= Faults' + (IF Behind(g, i)' THEN 1 ELSE 0)
  BY <1>2, Ranges DEF IInv, GuildInv
<1> QED BY <1>1, <1>3, <1>4 DEF GuildInv

-----------------------------------------------------------------------------
(* The game: a new entry lies above the watermarks.                        *)
LEMMA WorldIInv ==
    ASSUME IInv, NEW h \in Guilds,
           AppendEntry(h) \/ \E i \in LogIds : Rotate(h, i)
    PROVE  IInv'
<1> USE GuildLogAssumption DEF LogIds
<1>1. UNCHANGED <<pipelineVars, watermark, callVars, emitted>>
  BY DEF AppendEntry, Rotate
<1>2. /\ PipelineTypeOK(Guilds \X LogIds)' /\ Faults' = Faults
      /\ (StoreOpen' <=> StoreOpen) /\ Faults \in Nat
  BY <1>1, PipelineFrame, Ranges DEF IInv
<1>3. /\ top' \in [Guilds -> 0..MaxLogId] /\ shown' \in [Guilds -> SUBSET LogIds]
      /\ \A g \in Guilds \ {h} : top'[g] = top[g] /\ shown'[g] = shown[g]
      /\ \/ top'[h] = top[h] + 1 /\ shown'[h] = shown[h] \union {top[h] + 1}
         \/ top'[h] = top[h] /\ shown'[h] \subseteq shown[h]
  <2>1. CASE AppendEntry(h)
    BY <2>1 DEF AppendEntry, IInv, TypeOK
  <2>2. CASE \E i \in LogIds : Rotate(h, i)
    BY <2>2 DEF Rotate, IInv, TypeOK
  <2> QED BY <2>1, <2>2
<1>4. TypeOK' /\ StoreOpenWhileHandling'
  BY <1>1, <1>2, <1>3 DEF IInv, TypeOK, callVars, StoreOpenWhileHandling, AllIdle, Idle
<1>5. ASSUME NEW g \in Guilds PROVE GuildInv(g)'
  <2>1. CASE g # h
    BY <1>1, <1>2, <1>3, <2>1, Untouched DEF callVars
  <2>2. CASE g = h
    <3>1. \A i \in LogIds : Behind(g, i)' <=> Behind(g, i)
      BY <1>1 DEF Behind, callVars
    <3>2. GuildInv(g) /\ CallOK(g)
      BY DEF IInv, GuildInv
    <3>3. CallOK(g)'
      BY <1>1, <1>3, <2>2, <3>2, Ranges DEF CallOK, callVars
    <3>4. ASSUME NEW i \in shown'[g], Behind(g, i)' PROVE emitted'[g][i] > 0
      <4>1. i \in LogIds /\ Behind(g, i)
        BY <1>3, <3>1, <3>4
      <4>2. i \in shown[g]
        BY <1>3, <2>2, <3>2, <4>1, Ranges DEF CallOK, Behind
      <4> QED BY <1>1, <3>2, <4>1, <4>2 DEF GuildInv
    <3>5. \A i \in LogIds :
              emitted'[g][i] <= Faults' + (IF Behind(g, i)' THEN 1 ELSE 0)
      BY <1>1, <1>2, <3>1, <3>2 DEF GuildInv
    <3> QED BY <3>3, <3>4, <3>5 DEF GuildInv
  <2> QED BY <2>1, <2>2
<1> QED BY <1>4, <1>5 DEF IInv

(* A poll takes on the fresh entries, all of them above the watermark.     *)
LEMMA OnGuildLogIInv ==
    ASSUME IInv, NEW h \in Guilds, OnGuildLog(h)
    PROVE  IInv'
<1> USE GuildLogAssumption
<1>1. PICK newest \in Fresh(h) :
          /\ \A i \in Fresh(h) : i <= newest
          /\ maxID' = [maxID EXCEPT ![h] = newest]
  BY DEF OnGuildLog
<1>2. /\ UNCHANGED <<pipelineVars, top, shown, watermark, emitted>>
      /\ todo' = [todo EXCEPT ![h] = Fresh(h)] /\ StoreOpen /\ Idle(h)
  BY DEF OnGuildLog, StoreOpen
<1>3. /\ PipelineTypeOK(Guilds \X LogIds)' /\ Faults' = Faults
      /\ (StoreOpen' <=> StoreOpen) /\ Faults \in Nat
  BY <1>2, PipelineFrame, Ranges DEF IInv
<1>4. /\ Fresh(h) = {i \in shown[h] : i > watermark[h]}
      /\ Fresh(h) \subseteq LogIds /\ newest \in LogIds /\ newest # None
  BY <1>2, Ranges DEF Fresh, PrevInt, LogIds
<1>5. TypeOK'
  BY <1>1, <1>2, <1>3, <1>4 DEF IInv, TypeOK
<1>6. StoreOpenWhileHandling'
  BY <1>2, <1>3 DEF StoreOpenWhileHandling
<1>7. ASSUME NEW g \in Guilds PROVE GuildInv(g)'
  <2>1. CASE g # h
    <3>1. todo'[g] = todo[g] /\ maxID'[g] = maxID[g]
      BY <1>1, <1>2, <2>1 DEF IInv, TypeOK
    <3> QED BY <1>2, <1>3, <3>1, Untouched
  <2>2. CASE g = h
    <3>1. todo'[g] = Fresh(g) /\ maxID'[g] = newest /\ maxID[g] = None
      BY <1>1, <1>2, <2>2 DEF IInv, TypeOK, Idle
    <3>2. GuildInv(g) /\ CallOK(g)
      BY DEF IInv, GuildInv
    <3>3. CallOK(g)'
      BY <1>1, <1>2, <1>4, <2>2, <3>1, <3>2, Ranges DEF CallOK
    <3>4. ASSUME NEW i \in shown[g] PROVE Behind(g, i)' => Behind(g, i)
      BY <1>2, <1>4, <2>2, <3>1, Ranges DEF Behind
    <3>5. ASSUME NEW i \in LogIds PROVE Behind(g, i) => Behind(g, i)'
      BY <1>2, <3>1 DEF Behind
    <3> QED
      BY <1>2, <1>3, <3>2, <3>3, <3>4, <3>5, Ranges DEF GuildInv
  <2> QED BY <2>1, <2>2
<1> QED BY <1>5, <1>6, <1>7 DEF IInv

(* Emitting an entry moves it behind the coming watermark.                 *)
LEMMA EmitEntryIInv ==
    ASSUME IInv, NEW h \in Guilds, NEW j \in LogIds, EmitEntry(h, j)
    PROVE  IInv'
<1> USE GuildLogAssumption
<1>1. /\ j \in todo[h] /\ Emit(<<h, j>>)
      /\ todo' = [todo EXCEPT ![h] = @ \ {j}]
      /\ emitted' = [emitted EXCEPT ![h][j] = @ + 1]
      /\ UNCHANGED <<phase, faultVars, top, shown, watermark, maxID>>
  BY DEF EmitEntry
<1>2. PipelineTypeOK(Guilds \X LogIds)'
  BY <1>1, EmitKeeps DEF IInv, TypeOK
<1>3. Faults' = Faults /\ Faults \in Nat /\ StoreOpen' = StoreOpen
  BY <1>1, Ranges DEF Faults, faultVars, StoreOpen
<1>4. /\ emitted' \in [Guilds -> [LogIds -> Nat]]
      /\ \A g \in Guilds \ {h} : emitted'[g] = emitted[g] /\ todo'[g] = todo[g]
      /\ emitted'[h][j] = emitted[h][j] + 1
      /\ \A i \in LogIds \ {j} : emitted'[h][i] = emitted[h][i]
      /\ todo'[h] = todo[h] \ {j}
  BY <1>1 DEF IInv, TypeOK
<1>5. TypeOK' /\ StoreOpenWhileHandling'
  BY <1>1, <1>2, <1>3, <1>4 DEF IInv, TypeOK, StoreOpenWhileHandling, AllIdle, Idle
<1>6. ASSUME NEW g \in Guilds PROVE GuildInv(g)'
  <2>1. CASE g # h
    BY <1>1, <1>3, <1>4, <2>1, Untouched
  <2>2. CASE g = h
    <3>1. GuildInv(g) /\ CallOK(g) /\ maxID[g] # None /\ ~Behind(g, j)
      BY <1>1, <2>2, Ranges DEF IInv, GuildInv, CallOK, Behind
    <3>2. CallOK(g)'
      BY <1>1, <1>4, <2>2, <3>1 DEF CallOK
    <3>3. Behind(g, j)' /\ \A i \in LogIds \ {j} : Behind(g, i)' <=> Behind(g, i)
      BY <1>1, <1>4, <2>2, <3>1 DEF Behind, CallOK
    <3>4. \A i \in shown'[g] : Behind(g, i)' => emitted'[g][i] > 0
      BY <1>1, <1>4, <2>2, <3>1, <3>3, Ranges DEF GuildInv
    <3>5. \A i \in LogIds :
              emitted'[g][i] <= Faults' + (IF Behind(g, i)' THEN 1 ELSE 0)
      BY <1>3, <1>4, <2>2, <3>1, <3>3, Ranges DEF GuildInv
    <3> QED BY <3>2, <3>4, <3>5 DEF GuildInv
  <2> QED BY <2>1, <2>2
<1> QED BY <1>5, <1>6 DEF IInv

-----------------------------------------------------------------------------
(* A call cut short may repeat its entries; the fault that cut it short is *)
(* counted.                                                                *)
LEMMA CutShort ==
    ASSUME IInv, NEW g \in Guilds,
           top'[g] = top[g], shown'[g] = shown[g], watermark'[g] = watermark[g],
           todo'[g] = {}, maxID'[g] = None, emitted'[g] = emitted[g],
           Faults' = Faults + 1
    PROVE  GuildInv(g)'
<1>1. GuildInv(g) /\ CallOK(g)
  BY DEF IInv, GuildInv
<1>2. CallOK(g)'
  BY <1>1 DEF CallOK
<1>3. \A i \in LogIds : Behind(g, i)' => Behind(g, i)
  BY DEF Behind
<1>4. \A i \in shown'[g] : Behind(g, i)' => emitted'[g][i] > 0
  BY <1>1, <1>3, Ranges DEF GuildInv
<1>5. \A i \in LogIds :
          emitted'[g][i] <= Faults' + (IF Behind(g, i)' THEN 1 ELSE 0)
  BY <1>1, Ranges DEF GuildInv
<1> QED BY <1>2, <1>4, <1>5 DEF GuildInv

(* What both endings of a call have in common.                             *)
LEMMA EndCallKeeps ==
    ASSUME IInv, NEW h \in Guilds, EndCall(h),
           UNCHANGED <<crashes, stops>>, writeFailures' \in 0..MaxWriteFailures,
           watermark' \in [Guilds -> 0..MaxLogId]
    PROVE  /\ TypeOK' /\ StoreOpenWhileHandling' /\ StoreOpen
           /\ maxID[h] \in LogIds /\ maxID'[h] = None /\ todo'[h] = {} /\ todo[h] = {}
           /\ \A g \in Guilds \ {h} : maxID'[g] = maxID[g]
           /\ top' = top /\ shown' = shown /\ todo' = todo /\ emitted' = emitted
<1> USE DEF EndCall
<1>1. StoreOpen
  BY DEF IInv, StoreOpenWhileHandling, AllIdle, Idle
<1>2. PipelineTypeOK(Guilds \X LogIds)' /\ StoreOpen'
  BY <1>1 DEF IInv, TypeOK, PipelineTypeOK, recordVars, StoreOpen
<1>3. TypeOK' /\ StoreOpenWhileHandling'
  BY <1>2 DEF IInv, TypeOK, StoreOpenWhileHandling
<1> QED BY <1>1, <1>3 DEF IInv, TypeOK

(* The whole batch is emitted when its watermark is stored.                *)
LEMMA SetIntIInv ==
    ASSUME IInv, NEW h \in Guilds, SetInt(h)
    PROVE  IInv'
<1> USE GuildLogAssumption
<1>1. /\ EndCall(h) /\ UNCHANGED faultVars
      /\ watermark' = [watermark EXCEPT ![h] = maxID[h]]
  BY DEF SetInt, WriteOK
<1>2. maxID[h] \in LogIds /\ maxID[h] \in 0..MaxLogId
  BY <1>1 DEF EndCall, IInv, TypeOK, LogIds
<1>3. /\ writeFailures' \in 0..MaxWriteFailures /\ UNCHANGED <<crashes, stops>>
      /\ watermark' \in [Guilds -> 0..MaxLogId]
      /\ Faults' = Faults /\ Faults \in Nat
  BY <1>1, <1>2, Ranges DEF faultVars, Faults, IInv, TypeOK, PipelineTypeOK
<1>4. /\ TypeOK' /\ StoreOpenWhileHandling'
      /\ maxID'[h] = None /\ todo'[h] = {} /\ todo[h] = {}
      /\ \A g \in Guilds \ {h} : maxID'[g] = maxID[g]
      /\ top' = top /\ shown' = shown /\ todo' = todo /\ emitted' = emitted
  BY <1>1, <1>3, EndCallKeeps
<1>5. ASSUME NEW g \in Guilds PROVE GuildInv(g)'
  <2>1. CASE g # h
    <3>1. watermark'[g] = watermark[g]
      BY <1>1, <2>1 DEF IInv, TypeOK
    <3> QED BY <1>3, <1>4, <2>1, <3>1, Untouched
  <2>2. CASE g = h
    <3>1. GuildInv(g) /\ CallOK(g) /\ watermark'[g] = maxID[g] /\ maxID[g] # None
      BY <1>1, <2>2 DEF IInv, TypeOK, GuildInv, EndCall
    <3>2. CallOK(g)'
      BY <1>4, <2>2, <3>1 DEF CallOK
    <3>3. \A i \in LogIds : Behind(g, i)' <=> Behind(g, i)
      BY <1>2, <1>4, <2>2, <3>1, Ranges DEF Behind, CallOK
    <3> QED BY <1>3, <1>4, <3>1, <3>2, <3>3, Ranges DEF GuildInv
  <2> QED BY <2>1, <2>2
<1> QED BY <1>4, <1>5 DEF IInv

(* A failed write leaves the old watermark, and is counted.                *)
LEMMA SetIntFailsIInv ==
    ASSUME IInv, NEW h \in Guilds, SetIntFails(h)
    PROVE  IInv'
<1> USE PipelineAssumption
<1>1. EndCall(h) /\ watermark' = watermark
  BY DEF SetIntFails
<1>2. StoreOpen
  BY <1>1 DEF EndCall, IInv, StoreOpenWhileHandling, AllIdle, Idle
<1>3. /\ writeFailures < MaxWriteFailures /\ writeFailures' = writeFailures + 1
      /\ UNCHANGED <<crashes, stops>>
  BY <1>2 DEF SetIntFails, WriteFails, WriteRefused
<1>4. /\ writeFailures' \in 0..MaxWriteFailures
      /\ Faults' = Faults + 1 /\ Faults \in Nat
  BY <1>3 DEF IInv, TypeOK, PipelineTypeOK, Faults
<1>5. /\ TypeOK' /\ StoreOpenWhileHandling'
      /\ maxID'[h] = None /\ todo'[h] = {}
      /\ \A g \in Guilds \ {h} : maxID'[g] = maxID[g]
      /\ top' = top /\ shown' = shown /\ todo' = todo /\ emitted' = emitted
  BY <1>1, <1>3, <1>4, EndCallKeeps DEF IInv, TypeOK
<1>6. ASSUME NEW g \in Guilds PROVE GuildInv(g)'
  <2>1. CASE g # h
    BY <1>1, <1>4, <1>5, <2>1, Untouched
  <2>2. CASE g = h
    BY <1>1, <1>4, <1>5, <2>2, CutShort
  <2> QED BY <2>1, <2>2
<1> QED BY <1>5, <1>6 DEF IInv

-----------------------------------------------------------------------------
(* The steps that leave the logs and the calls alone.                      *)
LEMMA QuietIInv ==
    ASSUME IInv, UNCHANGED logVars, PipelineTypeOK(Guilds \X LogIds)',
           Faults' = Faults, StoreOpenWhileHandling'
    PROVE  IInv'
<1> USE DEF logVars, callVars
<1>1. TypeOK'
  BY DEF IInv, TypeOK
<1>2. ASSUME NEW g \in Guilds PROVE GuildInv(g)'
  BY Ranges, Untouched
<1> QED BY <1>1, <1>2 DEF IInv

(* The steps of the process and of the exporter that end no call.          *)
LEMMA StopStartSendIInv ==
    ASSUME IInv, Stop \/ Start \/ Send
    PROVE  IInv'
<1>1. UNCHANGED logVars /\ Faults' = Faults
  BY DEF Stop, Start, Send, Cancel, CloseStore, Restart, Export, ExportFails, Faults
<1>2. PipelineStep
  <2>1. CASE Stop
    BY <2>1 DEF Stop, PipelineStep, CloseStore
  <2>2. CASE Start \/ Send
    BY <2>2 DEF Start, Send, PipelineStep
  <2> QED BY <2>1, <2>2
<1>3. PipelineTypeOK(Guilds \X LogIds)'
  BY <1>2, PipelineStepKeeps DEF IInv, TypeOK
<1>4. StoreOpenWhileHandling'
  BY <1>1 DEF Stop, Start, Send, Cancel, CloseStore, Restart, Export, ExportFails,
              IInv, StoreOpenWhileHandling, AllIdle, Idle, StoreOpen, logVars, callVars
<1> QED BY <1>1, <1>3, <1>4, QuietIInv

(* An orderly exit finds no call under way; a crash cuts calls short.      *)
LEMMA ExitIInv ==
    ASSUME IInv, Exit
    PROVE  IInv'
<1>1. /\ todo' = [g \in Guilds |-> {}] /\ maxID' = [g \in Guilds |-> None]
      /\ UNCHANGED <<top, shown, watermark, emitted>> /\ PipelineStep
  BY DEF Exit, PipelineStep
<1>2. TypeOK' /\ StoreOpenWhileHandling'
  <2>1. PipelineTypeOK(Guilds \X LogIds)'
    BY <1>1, PipelineStepKeeps DEF IInv, TypeOK
  <2> QED BY <1>1, <2>1 DEF IInv, TypeOK, StoreOpenWhileHandling, AllIdle, Idle
<1>3. ASSUME NEW g \in Guilds PROVE GuildInv(g)'
  <2>1. CASE Crash
    <3>1. Faults' = Faults + 1
      BY <2>1, PipelineAssumption DEF Crash, Faults, IInv, TypeOK, PipelineTypeOK
    <3> QED BY <1>1, <3>1, CutShort
  <2>2. CASE ShutdownFlushes \/ ShutdownTimesOut
    <3>1. Faults' = Faults /\ Faults \in Nat /\ ~StoreOpen
      BY <2>2, Ranges DEF ShutdownFlushes, ShutdownTimesOut, Faults, StoreOpen
    <3>2. maxID[g] = None /\ todo[g] = {}
      BY <3>1 DEF IInv, StoreOpenWhileHandling, AllIdle, Idle, GuildInv, CallOK
    <3> QED BY <1>1, <3>1, <3>2, Untouched
  <2> QED BY <2>1, <2>2 DEF Exit
<1> QED BY <1>2, <1>3 DEF IInv

-----------------------------------------------------------------------------
(* IInv holds in every state, whatever the guilds, the logs, the size of   *)
(* the queue and the number of faults.                                     *)
THEOREM Invariant == Spec => []IInv
<1>1. IInv /\ [Next]_vars => IInv'
  <2> SUFFICES ASSUME IInv, [Next]_vars PROVE IInv'
    OBVIOUS
  <2>1. CASE \E g \in Guilds : AppendEntry(g) \/ \E i \in LogIds : Rotate(g, i)
    BY <2>1, WorldIInv
  <2>2. CASE \E g \in Guilds : OnGuildLog(g)
    BY <2>2, OnGuildLogIInv
  <2>3. CASE \E g \in Guilds : Handle(g)
    BY <2>3, EmitEntryIInv, SetIntIInv, SetIntFailsIInv DEF Handle
  <2>4. CASE Stop \/ Start \/ Send
    BY <2>4, StopStartSendIInv
  <2>5. CASE Exit
    BY <2>5, ExitIInv
  <2>6. CASE UNCHANGED vars
    <3>1. UNCHANGED logVars /\ UNCHANGED pipelineVars
      BY <2>6 DEF vars
    <3>2. /\ PipelineTypeOK(Guilds \X LogIds)' /\ Faults' = Faults
          /\ (StoreOpen' <=> StoreOpen)
      BY <3>1, PipelineFrame DEF IInv
    <3>3. StoreOpenWhileHandling'
      BY <3>1, <3>2 DEF IInv, StoreOpenWhileHandling, AllIdle, Idle, logVars, callVars
    <3> QED BY <3>1, <3>2, <3>3, QuietIInv
  <2>7. CASE \E g \in Guilds : NothingNew(g)
    BY <2>6, <2>7 DEF NothingNew
  <2> QED
    BY <2>1, <2>2, <2>3, <2>4, <2>5, <2>6, <2>7 DEF Next
<1> QED
  BY InitIInv, <1>1, PTL DEF Spec

(* Every state is well typed.                                              *)
THEOREM TypeCorrect == Spec => []TypeOK
<1>1. IInv => TypeOK
  BY DEF IInv
<1> QED BY Invariant, <1>1, PTL

(* The watermark hides no shown entry that was not emitted.                *)
THEOREM WatermarkIsSafe == Spec => []WatermarkHidesOnlyEmitted
<1>1. IInv => WatermarkHidesOnlyEmitted
  BY DEF IInv, GuildInv, Behind, WatermarkHidesOnlyEmitted
<1> QED BY Invariant, <1>1, PTL

(* An entry is emitted at most once more than there were crashes and       *)
(* failed writes.                                                          *)
THEOREM RepeatsAreBounded == Spec => []RepeatsOnlyAfterFaults
<1>1. IInv => RepeatsOnlyAfterFaults
  <2> SUFFICES ASSUME IInv, NEW g \in Guilds, NEW i \in LogIds
               PROVE  emitted[g][i] <= Faults + 1
    BY DEF RepeatsOnlyAfterFaults
  <2> QED BY Ranges DEF IInv, GuildInv
<1> QED BY Invariant, <1>1, PTL

-----------------------------------------------------------------------------
(* The three variables of Delivery as functions of the log's variables.    *)
Offered  == {e \in Entries : e[2] \in shown[e[1]]}
Reported == [e \in Entries |-> emitted[e[1]][e[2]]]
Noted    == {e \in Entries : e[2] <= watermark[e[1]]}

(* Steps that leave all of them alone are none of Delivery's.              *)
LEMMA NothingDelivered ==
    ASSUME UNCHANGED <<shown, watermark, emitted>>, Faults' = Faults
    PROVE  UNCHANGED Promise!vars
<1>1. Offered' = Offered /\ Reported' = Reported /\ Noted' = Noted
  BY DEF Offered, Reported, Noted
<1> QED BY <1>1 DEF Promise!vars, Offered, Reported, Noted

LEMMA FaultIsFault ==
    ASSUME UNCHANGED <<shown, watermark, emitted>>, Faults' = Faults + 1
    PROVE  Promise!Next
<1>1. Offered' = Offered /\ Reported' = Reported /\ Noted' = Noted
  BY DEF Offered, Reported, Noted
<1> QED BY <1>1 DEF Promise!Next, Promise!Fault, Offered, Reported, Noted

LEMMA AppendOffers ==
    ASSUME IInv, NEW g \in Guilds, AppendEntry(g)
    PROVE  Promise!Next
<1> USE GuildLogAssumption
<1> PICK e : e = <<g, top[g] + 1>>
  OBVIOUS
<1>1. /\ top[g] \in Nat /\ top[g] < MaxLogId /\ watermark[g] <= top[g]
      /\ shown' = [shown EXCEPT ![g] = @ \union {top[g] + 1}]
      /\ UNCHANGED <<watermark, emitted>> /\ Faults' = Faults
  BY Ranges DEF AppendEntry, IInv, GuildInv, CallOK, pipelineVars, Faults
<1>2. e \in Entries /\ e \notin Noted
  BY <1>1, Ranges DEF Entries, LogIds, Noted
<1>3. Offered' = Offered \union {e}
  BY <1>1, <1>2 DEF Offered, Entries, IInv, TypeOK
<1>4. Reported' = Reported /\ Noted' = Noted
  BY <1>1 DEF Reported, Noted
<1>5. Promise!Offer(e)
  BY <1>1, <1>2, <1>3, <1>4 DEF Promise!Offer, Offered, Reported, Noted
<1> QED BY <1>2, <1>5 DEF Promise!Next

LEMMA RotateWithdraws ==
    ASSUME IInv, NEW g \in Guilds, NEW i \in LogIds, Rotate(g, i)
    PROVE  Promise!Next
<1>1. /\ shown' = [shown EXCEPT ![g] = @ \ {i}]
      /\ UNCHANGED <<watermark, emitted>> /\ Faults' = Faults
  BY DEF Rotate, pipelineVars, Faults
<1>2. <<g, i>> \in Entries
  BY DEF Entries
<1>3. Offered' = Offered \ {<<g, i>>}
  BY <1>1 DEF Offered, Entries, IInv, TypeOK
<1>4. Reported' = Reported /\ Noted' = Noted
  BY <1>1 DEF Reported, Noted
<1>5. Promise!Withdraw({<<g, i>>})
  BY <1>1, <1>3, <1>4 DEF Promise!Withdraw, Offered, Reported, Noted
<1> QED BY <1>2, <1>5 DEF Promise!Next

LEMMA EmitReports ==
    ASSUME IInv, NEW g \in Guilds, NEW i \in LogIds, EmitEntry(g, i)
    PROVE  Promise!Next
<1> USE GuildLogAssumption
<1> DEFINE e == <<g, i>>
<1>1. /\ i \in todo[g] /\ emitted' = [emitted EXCEPT ![g][i] = @ + 1]
      /\ UNCHANGED <<shown, watermark>> /\ Faults' = Faults
  BY DEF EmitEntry, faultVars, Faults
<1>2. e \in Entries
  BY DEF Entries
<1>3. ~Behind(g, i) /\ e \notin Noted
  BY <1>1, Ranges DEF IInv, GuildInv, CallOK, Behind, Noted
<1>4. Reported[e] <= Faults
  BY <1>2, <1>3, Ranges DEF IInv, GuildInv, Reported
<1>5. Reported' = [f \in Entries |-> IF f \in {e} THEN Reported[f] + 1 ELSE Reported[f]]
  <2>1. Reported' = [f \in Entries |-> emitted'[f[1]][f[2]]]
    BY DEF Reported
  <2>2. ASSUME NEW f \in Entries
        PROVE  emitted'[f[1]][f[2]] = IF f = e THEN Reported[e] + 1 ELSE Reported[f]
    BY <1>1, <1>2 DEF Reported, Entries, IInv, TypeOK
  <2> QED BY <2>1, <2>2, <1>2 DEF Reported
<1>6. Offered' = Offered /\ Noted' = Noted
  BY <1>1 DEF Offered, Noted
<1>7. Promise!Report({e})
  BY <1>1, <1>3, <1>4, <1>5, <1>6 DEF Promise!Report, Offered, Reported, Noted
<1> QED BY <1>2, <1>7 DEF Promise!Next

(* The write at the end of a call notes every entry up to the largest id.  *)
LEMMA SetIntNotes ==
    ASSUME IInv, NEW g \in Guilds, SetInt(g)
    PROVE  Promise!Next
<1> USE GuildLogAssumption
<1> PICK batch : batch = {e \in Entries : e[1] = g /\ e[2] <= maxID[g]}
  OBVIOUS
<1>1. /\ maxID[g] # None /\ todo[g] = {}
      /\ watermark' = [watermark EXCEPT ![g] = maxID[g]]
      /\ UNCHANGED <<shown, emitted>> /\ Faults' = Faults
  BY DEF SetInt, EndCall, WriteOK, faultVars, Faults
<1>2. maxID[g] \in LogIds /\ watermark[g] < maxID[g]
  BY <1>1, Ranges DEF IInv, GuildInv, CallOK
<1>3. \A e \in batch \cap Offered : Reported[e] > 0
  <2> SUFFICES ASSUME NEW e \in batch \cap Offered PROVE Reported[e] > 0
    OBVIOUS
  <2>1. e \in Entries /\ e[1] = g /\ e[2] \in shown[g] /\ e[2] <= maxID[g]
    BY DEF Offered
  <2>2. Behind(g, e[2])
    BY <1>1, <2>1 DEF Behind
  <2> QED BY <2>1, <2>2 DEF IInv, GuildInv, Reported
<1>4. Noted' = Noted \union batch
  <2> SUFFICES ASSUME NEW e \in Entries
               PROVE  e[2] <= watermark'[e[1]] <=>
                          e[2] <= watermark[e[1]] \/ (e[1] = g /\ e[2] <= maxID[g])
    BY DEF Noted
  <2>1. CASE e[1] = g
    <3>1. /\ watermark'[e[1]] = maxID[g] /\ watermark[e[1]] < maxID[g]
          /\ e[2] \in Nat /\ watermark[e[1]] \in Nat /\ maxID[g] \in Nat
      BY <1>1, <1>2, <2>1, Ranges DEF IInv, TypeOK, Entries, LogIds
    <3> QED BY <2>1, <3>1
  <2>2. CASE e[1] # g
    BY <1>1, <2>2 DEF IInv, TypeOK, Entries
  <2> QED BY <2>1, <2>2
<1>5. Offered' = Offered /\ Reported' = Reported
  BY <1>1 DEF Offered, Reported
<1>6. Promise!Note(batch)
  BY <1>1, <1>3, <1>4, <1>5 DEF Promise!Note, Offered, Reported, Noted
<1>7. batch \in SUBSET Entries
  OBVIOUS
<1> QED BY <1>6, <1>7 DEF Promise!Next

LEMMA SetIntFailsDelivers ==
    ASSUME IInv, NEW g \in Guilds, SetIntFails(g)
    PROVE  Promise!Next \/ UNCHANGED Promise!vars
<1>1. UNCHANGED <<shown, watermark, emitted>>
  BY DEF SetIntFails, EndCall
<1>2. Faults' = Faults \/ Faults' = Faults + 1
  BY PipelineAssumption
  DEF SetIntFails, WriteFails, WriteRefused, faultVars, Faults, IInv, TypeOK,
      PipelineTypeOK
<1> QED BY <1>1, <1>2, NothingDelivered, FaultIsFault

LEMMA ProcessStepDelivers ==
    ASSUME IInv, Stop \/ Exit \/ Start \/ Send
    PROVE  Promise!Next \/ UNCHANGED Promise!vars
<1>1. UNCHANGED <<shown, watermark, emitted>>
  BY DEF Stop, Exit, Start, Send, logVars
<1>2. CASE Exit /\ Crash
  <2>1. Faults' = Faults + 1
    BY <1>2, PipelineAssumption DEF Crash, Faults, IInv, TypeOK, PipelineTypeOK
  <2> QED BY <1>1, <2>1, FaultIsFault
<1>3. CASE (Exit /\ ~Crash) \/ Stop \/ Start \/ Send
  <2>1. Faults' = Faults
    BY <1>3 DEF Exit, Stop, Start, Send, ShutdownFlushes, ShutdownTimesOut, Cancel,
                CloseStore, Restart, Export, ExportFails, Faults
  <2> QED BY <1>1, <2>1, NothingDelivered
<1> QED BY <1>2, <1>3

(* The watermark implements Delivery, for any guilds, logs and faults.     *)
THEOREM WatermarkDelivers == Spec => ImplementsDelivery
<1>1. Init => Promise!Init
  <2> SUFFICES ASSUME Init PROVE Promise!Init
    OBVIOUS
  <2> USE GuildLogAssumption DEF Init, PipelineInit
  <2>1. Offered = {} /\ Noted = {} /\ Faults = 0
    BY DEF Offered, Noted, Faults, Entries, LogIds
  <2>2. Reported = [e \in Entries |-> 0]
    BY DEF Reported, Entries
  <2> QED BY <2>1, <2>2 DEF Promise!Init, Offered, Reported, Noted
<1>2. IInv /\ [Next]_vars => [Promise!Next]_(Promise!vars)
  <2> SUFFICES ASSUME IInv, [Next]_vars
               PROVE  Promise!Next \/ UNCHANGED Promise!vars
    OBVIOUS
  <2>1. ASSUME NEW g \in Guilds, OnGuildLog(g) \/ NothingNew(g)
        PROVE  UNCHANGED Promise!vars
    <3>1. UNCHANGED <<shown, watermark, emitted>> /\ Faults' = Faults
      BY <2>1 DEF OnGuildLog, NothingNew, vars, logVars, pipelineVars, Faults
    <3> QED BY <3>1, NothingDelivered
  <2>2. ASSUME NEW g \in Guilds, Handle(g)
        PROVE  Promise!Next \/ UNCHANGED Promise!vars
    BY <2>2, EmitReports, SetIntNotes, SetIntFailsDelivers DEF Handle
  <2>3. CASE UNCHANGED vars
    <3>1. UNCHANGED <<shown, watermark, emitted>> /\ Faults' = Faults
      BY <2>3 DEF vars, logVars, pipelineVars, Faults
    <3> QED BY <3>1, NothingDelivered
  <2> QED
    BY <2>1, <2>2, <2>3, AppendOffers, RotateWithdraws, ProcessStepDelivers
    DEF Next
<1> QED
  BY <1>1, <1>2, Invariant, PTL DEF Spec, ImplementsDelivery, Promise!Spec
-----------------------------------------------------------------------------
(* What Delivery's steps do to the four values they are about.             *)
LEMMA PromiseMoves ==
    ASSUME [Promise!Next]_(Promise!vars)
    PROVE  Moves(Entries, Offered, Reported, Noted, Faults,
                 Offered', Reported', Noted', Faults')
<1> DEFINE Moved == Moves(Entries, Offered, Reported, Noted, Faults,
                          Offered', Reported', Noted', Faults')
<1>1. ASSUME NEW e \in Entries, Promise!Offer(e) PROVE Moved
  BY <1>1 DEF Promise!Offer, Moves, Offered, Reported, Noted
<1>2. ASSUME NEW batch \in SUBSET Entries, Promise!Withdraw(batch) PROVE Moved
  BY <1>2 DEF Promise!Withdraw, Moves, Offered, Reported, Noted
<1>3. ASSUME NEW batch \in SUBSET Entries, Promise!Report(batch) PROVE Moved
  <2>1. /\ \A e \in batch : e \notin Noted /\ Reported[e] <= Faults
        /\ Reported' = [e \in Entries |-> IF e \in batch THEN Reported[e] + 1
                                                         ELSE Reported[e]]
        /\ Offered' = Offered /\ Noted' = Noted /\ Faults' = Faults
    BY <1>3 DEF Promise!Report, Offered, Reported, Noted
  <2> QED BY <2>1 DEF Moves
<1>4. ASSUME NEW batch \in SUBSET Entries, Promise!Note(batch) PROVE Moved
  <2>1. /\ \A e \in batch \cap Offered : Reported[e] > 0
        /\ Noted' = Noted \union batch
        /\ Offered' = Offered /\ Reported' = Reported /\ Faults' = Faults
    BY <1>4 DEF Promise!Note, Offered, Reported, Noted
  <2> QED BY <2>1 DEF Moves
<1>5. CASE Promise!Fault
  BY <1>5 DEF Promise!Fault, Moves, Offered, Reported, Noted
<1>6. CASE UNCHANGED Promise!vars
  BY <1>6 DEF Promise!vars, Moves, Offered, Reported, Noted
<1> QED BY <1>1, <1>2, <1>3, <1>4, <1>5, <1>6 DEF Promise!Next

(* An entry that the watermark hides while the API shows it has been       *)
(* emitted, and none is emitted more than once without a fault: the log    *)
(* keeps both because it implements Delivery (events.go:129-156).          *)
THEOREM WatermarkKeepsPromise ==
    Spec => [](Promise!NothingPassedOver /\ Promise!RepeatsNeedFaults)
<1>1. Promise!Init => Delivered(Entries, Offered, Reported, Noted, Faults)
  <2> SUFFICES ASSUME Promise!Init
               PROVE  Delivered(Entries, Offered, Reported, Noted, Faults)
    OBVIOUS
  <2>1. /\ Offered = {} /\ Noted = {} /\ Faults = 0
        /\ Reported = [e \in Entries |-> 0]
    BY DEF Promise!Init, Offered, Reported, Noted
  <2> QED BY <2>1 DEF Delivered
<1>2. Delivered(Entries, Offered, Reported, Noted, Faults)
        /\ [Promise!Next]_(Promise!vars)
        => Delivered(Entries, Offered, Reported, Noted, Faults)'
  BY PromiseMoves, MovesKeepPromise
<1>3. Delivered(Entries, Offered, Reported, Noted, Faults)
        => Promise!NothingPassedOver /\ Promise!RepeatsNeedFaults
  <2>1. Promise!NothingPassedOver <=> \A e \in Noted \cap Offered : Reported[e] > 0
    BY DEF Promise!NothingPassedOver, Offered, Reported, Noted
  <2>2. Promise!RepeatsNeedFaults <=> \A e \in Entries : Reported[e] <= Faults + 1
    BY DEF Promise!RepeatsNeedFaults, Reported
  <2> QED BY <2>1, <2>2 DEF Delivered
<1> QED
  BY <1>1, <1>2, <1>3, WatermarkDelivers, PTL DEF ImplementsDelivery, Promise!Spec
=============================================================================
