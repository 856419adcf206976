---------------------------- MODULE EventPipeline ----------------------------
(***************************************************************************)
(* What the event handlers of internal/events share: the life of the       *)
(* process (cmd/gw2-collector/main.go), the write side of the bbolt state  *)
(* file (internal/state) and the OTel log pipeline that carries emitted    *)
(* records (internal/telemetry).                                           *)
(*                                                                         *)
(* A record handed to Logger.Emit is only put in the memory of a           *)
(* sdklog.BatchProcessor; it reaches the backend when a later export of    *)
(* the batch succeeds.  The state file is durable at once.  The modules    *)
(* SeenEvents, DiffEvents and GuildLogEvents extend this one, one per      *)
(* dedupe pattern of the emitter.                                          *)
(***************************************************************************)
EXTENDS Naturals, Sequences

CONSTANTS
    QueueCap,          \* records the batch processor holds (2048 in the SDK)
    MaxCrashes,        \* bound: process crashes
    MaxWriteFailures,  \* bound: failed bbolt updates
    MaxStops           \* bound: graceful stops (SIGINT, SIGTERM)

ASSUME PipelineAssumption ==
    /\ QueueCap \in Nat \ {0}
    /\ MaxCrashes \in Nat
    /\ MaxWriteFailures \in Nat
    /\ MaxStops \in Nat

VARIABLES
    phase,          \* "running", "draining", "closed" or "down"
    queue,          \* records inside the batch processor, oldest first
    delivered,      \* records the backend has received
    lossy,          \* history: the pipeline has dropped a record
    crashes,        \* history: crashes so far
    writeFailures,  \* history: failed state writes so far
    stops           \* history: graceful stops so far

pipelineVars == <<phase, queue, delivered, lossy, crashes, writeFailures, stops>>
faultVars    == <<crashes, writeFailures, stops>>
recordVars   == <<queue, delivered, lossy>>

Queued == {queue[i] : i \in 1..Len(queue)}

(* Faults after which the emitter may repeat an event.                     *)
Faults == crashes + writeFailures

PipelineInit ==
    /\ phase = "running"
    /\ queue = <<>>
    /\ delivered = {}
    /\ lossy = FALSE
    /\ crashes = 0
    /\ writeFailures = 0
    /\ stops = 0

PipelineTypeOK(Records) ==
    /\ phase \in {"running", "draining", "closed", "down"}
    /\ queue \in Seq(Records)
    /\ Len(queue) <= QueueCap
    /\ delivered \subseteq Records
    /\ lossy \in BOOLEAN
    /\ crashes \in 0..MaxCrashes
    /\ writeFailures \in 0..MaxWriteFailures
    /\ stops \in 0..MaxStops

-----------------------------------------------------------------------------
(* The state file is open from state.Open to the deferred Close; a handler *)
(* that ran later would read "absent" and fail to write.                   *)
StoreOpen == phase \in {"running", "draining"}

(* Mutation of Emit: a queue without a limit.                              *)
EmitUnbounded(r) ==
    /\ queue' = Append(queue, r)
    /\ UNCHANGED <<delivered, lossy>>

(* emit: the batch processor drops its oldest record when it is full.      *)
Emit(r) ==
    /\ IF Len(queue) < QueueCap
       THEN queue' = Append(queue, r) /\ UNCHANGED lossy
       ELSE queue' = Append(Tail(queue), r) /\ lossy' = TRUE
    /\ UNCHANGED delivered

WriteOK == StoreOpen /\ UNCHANGED faultVars

(* A failed bbolt update is rolled back; the handlers only log it.         *)
WriteFails ==
    /\ writeFailures < MaxWriteFailures
    /\ writeFailures' = writeFailures + 1
    /\ UNCHANGED <<crashes, stops>>

(* A write to a closed database fails without any fault of the disk.       *)
WriteRefused == ~StoreOpen /\ UNCHANGED faultVars

-----------------------------------------------------------------------------
(* The exporter takes what is queued: the backend accepts it, or the batch *)
(* is given up once the OTLP client's retries are over.                    *)
Export ==
    /\ phase # "down"
    /\ queue # <<>>
    /\ delivered' = delivered \union Queued
    /\ queue' = <<>>
    /\ UNCHANGED <<phase, lossy, crashes, writeFailures, stops>>

ExportFails ==
    /\ phase # "down"
    /\ queue # <<>>
    /\ queue' = <<>>
    /\ lossy' = TRUE
    /\ UNCHANGED <<phase, delivered, crashes, writeFailures, stops>>

(* SIGINT or SIGTERM cancels the root context.                             *)
Cancel ==
    /\ phase = "running"
    /\ stops < MaxStops
    /\ phase' = "draining"
    /\ stops' = stops + 1
    /\ UNCHANGED <<queue, delivered, lossy, crashes, writeFailures>>

(* Mutation of CloseStore: main does not wait for the handlers.            *)
CloseStoreEarly(handlersIdle) ==
    /\ phase = "draining"
    /\ phase' = "closed"
    /\ UNCHANGED <<queue, delivered, lossy, crashes, writeFailures, stops>>

(* p.Wait returns once every handler has, then the deferred Close runs.    *)
CloseStore(handlersIdle) ==
    /\ phase = "draining"
    /\ handlersIdle
    /\ phase' = "closed"
    /\ UNCHANGED <<queue, delivered, lossy, crashes, writeFailures, stops>>

(* Mutation of ShutdownFlushes: the provider is dropped, not shut down.    *)
ShutdownDrops ==
    /\ phase = "closed"
    /\ phase' = "down"
    /\ queue' = <<>>
    /\ UNCHANGED <<delivered, lossy, crashes, writeFailures, stops>>

(* The deferred telemetry shutdown runs last and flushes the processor.    *)
ShutdownFlushes ==
    /\ phase = "closed"
    /\ phase' = "down"
    /\ delivered' = delivered \union Queued
    /\ queue' = <<>>
    /\ UNCHANGED <<lossy, crashes, writeFailures, stops>>

(* The ten seconds of the shutdown context pass with records still queued. *)
ShutdownTimesOut ==
    /\ phase = "closed"
    /\ queue # <<>>
    /\ phase' = "down"
    /\ queue' = <<>>
    /\ lossy' = TRUE
    /\ UNCHANGED <<delivered, crashes, writeFailures, stops>>

(* The process dies: memory is lost, the state file and backend are not.   *)
Crash ==
    /\ phase # "down"
    /\ crashes < MaxCrashes
    /\ phase' = "down"
    /\ queue' = <<>>
    /\ IF queue = <<>> THEN UNCHANGED lossy ELSE lossy' = TRUE
    /\ crashes' = crashes + 1
    /\ UNCHANGED <<delivered, writeFailures, stops>>

Restart ==
    /\ phase = "down"
    /\ phase' = "running"
    /\ UNCHANGED <<queue, delivered, lossy, crashes, writeFailures, stops>>
=============================================================================
