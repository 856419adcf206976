--------------------------- MODULE DiffEventsProofs ---------------------------
(***************************************************************************)
(* Proofs about DiffEvents, for any keys, callers, numbers and faults.     *)
(*                                                                         *)
(* The idea of the inductive invariant: at every point of a call the       *)
(* rises already reported for a key and the rise that is still to be       *)
(* reported (Owed) add up to no more than the growth of the key, plus one  *)
(* repetition per fault; and for a number that only rises they add up to   *)
(* no less than the growth that the stored baseline covers.                *)
(*                                                                         *)
(* Sums do not tell one value from another, so a second invariant, ToldInv,*)
(* looks at each value of a rising number: an event for it is paid for by  *)
(* its place below the baseline, or below the snapshot being saved, or by  *)
(* a fault.  With it every step is a step of Delivery or none.             *)
(***************************************************************************)
EXTENDS DiffEvents, EventPipelineProofs, Integers

Pending(k) == \E c \in Callers : k \in todo[c]
Saving(k)  == \E c \in Callers : saving[c] = k

Above(x, y) == IF x > y THEN x - y ELSE 0

(* What may still be reported for k on account of past growth.             *)
Owed(k) ==
    IF Saving(k) THEN Above(game[k], snap[k])
    ELSE IF Pending(k) THEN Above(snap[k], ints[k]) + Above(game[k], snap[k])
    ELSE Above(game[k], ints[k])

Budget == Faults * MaxValue

OverOK(k) ==
    /\ ints[k] = None =>
          /\ reported[k] = 0
          /\ Pending(k) => Above(game[k], snap[k]) <= grown[k]
    /\ ints[k] # None => reported[k] + Owed(k) <= grown[k] + Budget

RisingOK(k) ==
    k \notin Resettable =>
        /\ snap[k] <= game[k]
        /\ ints[k] # None =>
              /\ ints[k] <= game[k]
              /\ Pending(k) => ints[k] <= snap[k]
              /\ reported[k] + (game[k] - ints[k]) >= grown[k]
              /\ Saving(k) => reported[k] + (game[k] - snap[k]) >= grown[k]
        /\ ints[k] = None /\ Pending(k) => game[k] - snap[k] >= grown[k]

KeyInv(k) == OverOK(k) /\ RisingOK(k)

CallsOK ==
    \A c \in Callers : /\ todo[c] \subseteq KeysOf[c]
                       /\ saving[c] # None => saving[c] \in todo[c]

StoreOpenWhileHandling == AllIdle \/ StoreOpen

Sound == TypeOK /\ CallsOK /\ StoreOpenWhileHandling

IInv == Sound /\ \A k \in Keys : KeyInv(k)

-----------------------------------------------------------------------------
(* The initial states: no baseline, nothing reported.                      *)
LEMMA InitIInv == Init => IInv
<1> SUFFICES ASSUME Init PROVE IInv
  OBVIOUS
<1> USE PipelineAssumption, DiffAssumption DEF Init, PipelineInit
<1>1. TypeOK
  <2>1. queue \in Seq(Keys) /\ Len(queue) <= QueueCap
    <3>1. queue = <<>>
      OBVIOUS
    <3>2. queue \in Seq(Keys) /\ Len(queue) = 0
      BY <3>1
    <3> QED BY <3>2
  <2>2. lossy \in BOOLEAN
    BY Zenon
  <2>3. newCycle \in [Keys -> BOOLEAN]
    BY Zenon
  <2> QED
    BY <2>1, <2>2, <2>3 DEF TypeOK, PipelineTypeOK
<1>2. CallsOK /\ StoreOpenWhileHandling
  BY DEF CallsOK, StoreOpenWhileHandling, AllIdle, Idle
<1>3. ASSUME NEW k \in Keys PROVE KeyInv(k)
  BY DEF KeyInv, OverOK, RisingOK, Pending
<1> QED BY <1>1, <1>2, <1>3 DEF IInv, Sound

-----------------------------------------------------------------------------
(* Only its own caller works on a key.                                     *)
LEMMA Owner ==
    ASSUME TypeOK, CallsOK, NEW c \in Callers, NEW k \in KeysOf[c]
    PROVE  /\ Pending(k) <=> k \in todo[c]
           /\ Saving(k) <=> saving[c] = k
BY DiffAssumption DEF TypeOK, CallsOK, Pending, Saving

(* A key being diffed or saved belongs to one caller, after a step too.    *)
LEMMA OwnerNext ==
    ASSUME TypeOK', CallsOK', NEW c \in Callers, NEW k \in KeysOf[c]
    PROVE  /\ Pending(k)' <=> k \in todo'[c]
           /\ Saving(k)' <=> saving'[c] = k
BY DiffAssumption DEF TypeOK, CallsOK, Pending, Saving

(* A step of caller c leaves the keys of the others alone.                 *)
LEMMA OtherCallers ==
    ASSUME Sound, Sound', NEW c \in Callers, NEW k \in Keys, k \notin KeysOf[c],
           \A e \in Callers \ {c} : todo'[e] = todo[e] /\ saving'[e] = saving[e]
    PROVE  /\ Pending(k)' <=> Pending(k)
           /\ Saving(k)' <=> Saving(k)
BY DiffAssumption DEF Sound, TypeOK, CallsOK, Pending, Saving

(* Multiplication by a natural number is monotone.                         *)
LEMMA TimesGrows ==
    ASSUME NEW a \in Nat, NEW b \in Nat, NEW m \in Nat, b >= a
    PROVE  /\ a * m \in Nat /\ b * m \in Nat
           /\ b * m >= a * m
           /\ (a + 1) * m = a * m + m
<1>1. \A x, y \in Nat : x * y \in Nat
  OBVIOUS
<1>2. PICK e \in Nat : b = a + e
  BY b - a \in Nat
<1>3. b * m = a * m + e * m
  BY <1>2
<1> QED BY <1>1, <1>3

(* A key whose numbers and whose place in the call are left alone.         *)
LEMMA Untouched ==
    ASSUME IInv, NEW k \in Keys,
           game'[k] = game[k], grown'[k] = grown[k], snap'[k] = snap[k],
           ints'[k] = ints[k], reported'[k] = reported[k],
           Pending(k)' <=> Pending(k), Saving(k)' <=> Saving(k),
           Faults \in Nat, Faults' \in Nat, Faults' >= Faults
    PROVE  KeyInv(k)'
<1>1. Budget \in Nat /\ Budget' \in Nat /\ Budget' >= Budget
  BY DiffAssumption, TimesGrows DEF Budget
<1>2. (Owed(k)' = Owed(k) /\ Owed(k) \in Int) \/ ints[k] = None
  BY DEF Owed, Above, IInv, Sound, TypeOK
<1>3. OverOK(k)'
  BY <1>1, <1>2 DEF IInv, Sound, KeyInv, OverOK, TypeOK
<1>4. RisingOK(k)'
  BY DEF IInv, KeyInv, RisingOK
<1> QED BY <1>3, <1>4 DEF KeyInv

(* The faults and the budget they grant are numbers.                       *)
LEMMA FaultsAreNat ==
    ASSUME TypeOK
    PROVE  Faults \in Nat /\ crashes \in Nat /\ writeFailures \in Nat
BY PipelineAssumption DEF TypeOK, PipelineTypeOK, Faults

(* Steps outside the pipeline keep its types, the faults and the file.     *)
LEMMA PipelineFrame ==
    ASSUME TypeOK, UNCHANGED pipelineVars
    PROVE  /\ PipelineTypeOK(Keys)'
           /\ Faults' = Faults
           /\ StoreOpen' <=> StoreOpen
BY DEF pipelineVars, TypeOK, PipelineTypeOK, Faults, StoreOpen

(* The types of the numbers of one key.                                    *)
LEMMA Ranges ==
    ASSUME IInv, NEW k \in Keys
    PROVE  /\ game[k] \in 0..MaxValue /\ snap[k] \in 0..MaxValue
           /\ reported[k] \in Nat /\ grown[k] \in Nat
           /\ ints[k] # None => ints[k] \in 0..MaxValue
           /\ Faults \in Nat /\ Budget \in Nat
<1>1. Faults \in Nat
  BY FaultsAreNat DEF IInv, Sound
<1>2. Budget \in Nat
  BY <1>1, TimesGrows, DiffAssumption DEF Budget
<1> QED BY <1>1, <1>2 DEF IInv, Sound, TypeOK

-----------------------------------------------------------------------------
(* The game: growth is counted, a reset only lowers what is owed.          *)
LEMMA WorldIInv ==
    ASSUME IInv, NEW j \in Keys, Grow(j) \/ Reset(j)
    PROVE  IInv'
<1> USE DiffAssumption
<1>1. UNCHANGED <<pipelineVars, ints, callVars, reported, told>>
  BY DEF Grow, Reset, reportVars
<1>2. /\ PipelineTypeOK(Keys)' /\ Faults' = Faults /\ (StoreOpen' <=> StoreOpen)
      /\ Faults \in Nat
  BY <1>1, PipelineFrame, FaultsAreNat DEF IInv, Sound
<1>3. \A k \in Keys : /\ game[k] \in 0..MaxValue /\ snap[k] \in 0..MaxValue
                      /\ grown[k] \in Nat
  BY Ranges
<1>4. TypeOK'
  <2>1. game' \in [Keys -> 0..MaxValue] /\ grown' \in [Keys -> Nat]
    BY <1>3 DEF Grow, Reset, IInv, Sound, TypeOK
  <2>2. newCycle' \in [Keys -> BOOLEAN]
    <3>1. newCycle \in [Keys -> BOOLEAN]
      BY DEF IInv, Sound, TypeOK
    <3>2. newCycle' = newCycle \/ newCycle' = [newCycle EXCEPT ![j] = TRUE]
      BY DEF Grow, Reset
    <3> QED BY <3>1, <3>2, Zenon
  <2> QED
    BY <1>1, <1>2, <2>1, <2>2 DEF IInv, Sound, TypeOK, callVars
<1>5. Sound'
  BY <1>1, <1>2, <1>4
  DEF IInv, Sound, CallsOK, StoreOpenWhileHandling, AllIdle, Idle, callVars
<1>6. ASSUME NEW k \in Keys PROVE KeyInv(k)'
  <2>1. /\ snap' = snap /\ ints' = ints /\ reported' = reported
        /\ (Pending(k)' <=> Pending(k)) /\ (Saving(k)' <=> Saving(k))
        /\ Budget' = Budget /\ Budget \in Nat
    BY <1>1, <1>2, Ranges DEF callVars, Pending, Saving, Budget
  <2>2. CASE k # j
    <3>1. game'[k] = game[k] /\ grown'[k] = grown[k]
      BY <2>2 DEF Grow, Reset, IInv, Sound, TypeOK
    <3> QED BY <1>2, <2>1, <3>1, Untouched
  <2>3. CASE k = j /\ Grow(j)
    <3>1. game'[k] = game[k] + 1 /\ grown'[k] = grown[k] + 1
      BY <2>3, <1>3 DEF Grow, IInv, Sound, TypeOK
    <3>2. OverOK(k) /\ RisingOK(k)
      BY DEF IInv, KeyInv
    <3>3. OverOK(k)'
      BY <2>1, <3>1, <3>2, Ranges DEF OverOK, Owed, Above
    <3>4. RisingOK(k)'
      BY <2>1, <3>1, <3>2, Ranges DEF RisingOK
    <3> QED BY <3>3, <3>4 DEF KeyInv
  <2>4. CASE k = j /\ Reset(j)
    <3>1. game'[k] = 0 /\ grown'[k] = grown[k] /\ k \in Resettable
      BY <2>4 DEF Reset, IInv, Sound, TypeOK
    <3>2. OverOK(k)
      BY DEF IInv, KeyInv
    <3>3. OverOK(k)'
      BY <2>1, <3>1, <3>2, Ranges DEF OverOK, Owed, Above
    <3> QED BY <3>1, <3>3 DEF KeyInv, RisingOK
  <2> QED BY <2>2, <2>3, <2>4
<1> QED BY <1>5, <1>6 DEF IInv

-----------------------------------------------------------------------------
(* A snapshot splits what is owed into what it shows and what comes later. *)
LEMMA PollIInv ==
    ASSUME IInv, NEW c \in Callers, Poll(c)
    PROVE  IInv'
<1> USE DiffAssumption
<1>1. /\ UNCHANGED <<pipelineVars, game, ints, saving, reported, told>>
      /\ todo' = [todo EXCEPT ![c] = KeysOf[c]]
      /\ snap' = [k \in Keys |-> IF k \in KeysOf[c] THEN game[k] ELSE snap[k]]
      /\ grown' = [k \in Keys |-> IF k \in KeysOf[c] /\ ints[k] = None
                                  THEN 0 ELSE grown[k]]
      /\ newCycle' = [k \in Keys |-> k \notin KeysOf[c] /\ newCycle[k]]
  BY DEF Poll, reportVars
<1>2. /\ PipelineTypeOK(Keys)' /\ Faults' = Faults /\ (StoreOpen' <=> StoreOpen)
      /\ Faults \in Nat
  BY <1>1, PipelineFrame, FaultsAreNat DEF IInv, Sound
<1>3. TypeOK'
  <2>1. newCycle' \in [Keys -> BOOLEAN]
    BY <1>1, Zenon
  <2>2. /\ snap' \in [Keys -> 0..MaxValue] /\ grown' \in [Keys -> Nat]
        /\ todo' \in [Callers -> SUBSET Keys]
    BY <1>1 DEF IInv, Sound, TypeOK
  <2> QED
    BY <1>1, <1>2, <2>1, <2>2 DEF IInv, Sound, TypeOK
<1>4. Sound'
  <2>1. CallsOK'
    BY <1>1 DEF Poll, Idle, IInv, Sound, TypeOK, CallsOK
  <2>2. StoreOpenWhileHandling'
    BY <1>2 DEF Poll, StoreOpenWhileHandling, StoreOpen
  <2> QED BY <1>3, <2>1, <2>2 DEF Sound
<1>5. ASSUME NEW k \in Keys PROVE KeyInv(k)'
  <2>1. CASE k \notin KeysOf[c]
    <3>1. (Pending(k)' <=> Pending(k)) /\ (Saving(k)' <=> Saving(k))
      BY <1>1, <1>4, <2>1, OtherCallers DEF IInv, Sound, TypeOK
    <3>2. snap'[k] = snap[k] /\ grown'[k] = grown[k]
      BY <1>1, <2>1
    <3> QED BY <1>1, <1>2, <3>1, <3>2, Untouched
  <2>2. CASE k \in KeysOf[c]
    <3>1. ~Pending(k) /\ ~Saving(k)
      BY <2>2, Owner DEF Poll, Idle, IInv, Sound, TypeOK, CallsOK
    <3>2. Pending(k)' /\ ~Saving(k)'
      BY <1>1, <1>4, <2>2, <3>1, OwnerNext DEF Saving, IInv, Sound, TypeOK
    <3>3. /\ snap'[k] = game[k] /\ game' = game /\ ints' = ints /\ reported' = reported
          /\ grown'[k] = IF ints[k] = None THEN 0 ELSE grown[k]
          /\ Budget' = Budget /\ Budget \in Nat
      BY <1>1, <1>2, <2>2, Ranges DEF Budget
    <3>4. OverOK(k) /\ RisingOK(k)
      BY DEF IInv, KeyInv
    <3>5. OverOK(k)'
      BY <3>1, <3>2, <3>3, <3>4, Ranges DEF OverOK, Owed, Above
    <3>6. RisingOK(k)'
      BY <3>1, <3>2, <3>3, <3>4, Ranges DEF RisingOK
    <3> QED BY <3>5, <3>6 DEF KeyInv
  <2> QED BY <2>1, <2>2
<1> QED BY <1>4, <1>5 DEF IInv

-----------------------------------------------------------------------------
(* The first half of diffUp reads the true baseline: the state file is     *)
(* open while a call is under way.                                         *)
LEMMA ReadsBaseline ==
    ASSUME Sound, NEW c \in Callers, NEW j \in todo[c]
    PROVE  StoreOpen /\ PrevInt(j) = ints[j] /\ j \in KeysOf[c] /\ j \in Keys
BY DiffAssumption
DEF Sound, TypeOK, CallsOK, StoreOpenWhileHandling, AllIdle, Idle, PrevInt

(* An equal value ends the call and owes nothing.                          *)
LEMMA SameIInv ==
    ASSUME IInv, NEW c \in Callers, NEW j \in Keys, Same(c, j)
    PROVE  IInv'
<1> USE DiffAssumption
<1>1. /\ UNCHANGED <<pipelineVars, gameVars, ints, snap, saving, reported, told>>
      /\ j \in todo[c] /\ saving[c] = None
      /\ todo' = [todo EXCEPT ![c] = @ \ {j}]
  BY DEF Same, reportVars
<1>2. /\ PipelineTypeOK(Keys)' /\ Faults' = Faults /\ (StoreOpen' <=> StoreOpen)
      /\ Faults \in Nat
  BY <1>1, PipelineFrame, FaultsAreNat DEF IInv, Sound
<1>3. StoreOpen /\ ints[j] = snap[j] /\ j \in KeysOf[c]
  BY <1>1, ReadsBaseline DEF Same, IInv
<1>4. Sound'
  <2>1. TypeOK'
    BY <1>1, <1>2 DEF IInv, Sound, TypeOK, gameVars
  <2>2. CallsOK'
    BY <1>1 DEF IInv, Sound, TypeOK, CallsOK
  <2> QED BY <1>2, <1>3, <2>1, <2>2 DEF Sound, StoreOpenWhileHandling
<1>5. ASSUME NEW k \in Keys PROVE KeyInv(k)'
  <2>1. /\ game' = game /\ grown' = grown /\ snap' = snap /\ ints' = ints
        /\ reported' = reported /\ Budget' = Budget
    BY <1>1, <1>2 DEF gameVars, Budget
  <2>2. CASE k \notin KeysOf[c]
    <3>1. (Pending(k)' <=> Pending(k)) /\ (Saving(k)' <=> Saving(k))
      BY <1>1, <1>4, <2>2, OtherCallers DEF IInv, Sound, TypeOK
    <3> QED BY <1>2, <2>1, <3>1, Untouched
  <2>3. CASE k \in KeysOf[c] /\ k # j
    <3>1. (Pending(k)' <=> Pending(k)) /\ (Saving(k)' <=> Saving(k))
      BY <1>1, <1>4, <2>3, Owner, OwnerNext DEF IInv, Sound, TypeOK
    <3> QED BY <1>2, <2>1, <3>1, Untouched
  <2>4. CASE k = j
    <3>1. Pending(k) /\ ~Saving(k)
      BY <1>1, <1>3, <2>4, Owner DEF IInv, Sound
    <3>2. ~Pending(k)' /\ ~Saving(k)'
      BY <1>1, <1>3, <1>4, <2>4, OwnerNext DEF IInv, Sound, TypeOK
    <3>3. OverOK(k) /\ RisingOK(k) /\ ints[k] = snap[k]
      BY <1>3, <2>4 DEF IInv, KeyInv
    <3>4. OverOK(k)'
      BY <2>1, <3>1, <3>2, <3>3, Ranges DEF OverOK, Owed, Above
    <3>5. RisingOK(k)'
      BY <2>1, <3>1, <3>2, <3>3, Ranges DEF RisingOK
    <3> QED BY <3>4, <3>5 DEF KeyInv
  <2> QED BY <2>2, <2>3, <2>4
<1> QED BY <1>4, <1>5 DEF IInv

(* A call turns to storing the value of j: as a first observation, after a *)
(* drop, or after the rise was emitted.                                    *)
LEMMA TurnsToSave ==
    ASSUME IInv, NEW c \in Callers, NEW j \in todo[c], saving[c] = None,
           PipelineTypeOK(Keys)', Faults' = Faults, phase' = phase,
           UNCHANGED <<gameVars, ints, todo, snap>>,
           saving' = [saving EXCEPT ![c] = j],
           reported' \in [Keys -> Nat], told' \in [Values -> Nat],
           \A k \in Keys : reported'[k] =
               reported[k] + (IF k = j /\ Rises(j) THEN snap[j] - ints[j] ELSE 0)
    PROVE  IInv'
<1> USE DiffAssumption
<1>1. StoreOpen /\ PrevInt(j) = ints[j] /\ j \in KeysOf[c] /\ j \in Keys
  BY ReadsBaseline DEF IInv
<1>2. Sound'
  <2>1. TypeOK'
    BY <1>1 DEF IInv, Sound, TypeOK, gameVars
  <2>2. CallsOK' /\ StoreOpenWhileHandling'
    BY <1>1 DEF IInv, Sound, TypeOK, CallsOK, StoreOpenWhileHandling, StoreOpen
  <2> QED BY <2>1, <2>2 DEF Sound
<1>3. ASSUME NEW k \in Keys PROVE KeyInv(k)'
  <2>1. /\ game' = game /\ grown' = grown /\ snap' = snap /\ ints' = ints
        /\ Budget' = Budget /\ Faults \in Nat
    BY Ranges DEF gameVars, Budget
  <2>2. CASE k \notin KeysOf[c]
    <3>1. (Pending(k)' <=> Pending(k)) /\ (Saving(k)' <=> Saving(k))
      BY <1>2, <2>2, OtherCallers DEF IInv, Sound, TypeOK
    <3>2. reported'[k] = reported[k]
      BY <1>1, <2>2, Ranges
    <3> QED BY <2>1, <3>1, <3>2, Untouched
  <2>3. CASE k \in KeysOf[c] /\ k # j
    <3>1. (Pending(k)' <=> Pending(k)) /\ (Saving(k)' <=> Saving(k))
      BY <1>2, <2>3, Owner, OwnerNext DEF IInv, Sound, TypeOK
    <3>2. reported'[k] = reported[k]
      BY <2>3, Ranges
    <3> QED BY <2>1, <3>1, <3>2, Untouched
  <2>4. CASE k = j
    <3>1. Pending(k) /\ ~Saving(k)
      BY <1>1, <2>4, Owner DEF IInv, Sound
    <3>2. Pending(k)' /\ Saving(k)'
      BY <1>1, <1>2, <2>4, OwnerNext DEF IInv, Sound, TypeOK
    <3>3. OverOK(k) /\ RisingOK(k)
      BY DEF IInv, KeyInv
    <3>4. /\ Rises(j) <=> ints[k] # None /\ snap[k] > ints[k]
          /\ reported'[k] = reported[k] + (IF Rises(j) THEN snap[k] - ints[k] ELSE 0)
      BY <1>1, <2>4 DEF Rises
    <3>5. OverOK(k)'
      BY <2>1, <3>1, <3>2, <3>3, <3>4, Ranges DEF OverOK, Owed, Above
    <3>6. RisingOK(k)'
      BY <2>1, <3>1, <3>2, <3>3, <3>4, Ranges DEF RisingOK
    <3> QED BY <3>5, <3>6 DEF KeyInv
  <2> QED BY <2>2, <2>3, <2>4
<1> QED BY <1>2, <1>3 DEF IInv

(* A first or lower value is stored without a report.                      *)
LEMMA RebaseIInv ==
    ASSUME IInv, NEW c \in Callers, NEW j \in Keys, Rebase(c, j)
    PROVE  IInv'
<1>1. /\ UNCHANGED <<pipelineVars, gameVars, ints, todo, snap, reported, told>>
      /\ j \in todo[c] /\ saving[c] = None /\ ~Rises(j)
      /\ saving' = [saving EXCEPT ![c] = j]
  BY DEF Rebase, reportVars
<1>2. PipelineTypeOK(Keys)' /\ Faults' = Faults /\ phase' = phase
  BY <1>1, PipelineFrame DEF IInv, Sound, pipelineVars
<1>3. /\ reported' \in [Keys -> Nat] /\ told' \in [Values -> Nat]
      /\ \A k \in Keys : reported'[k] =
             reported[k] + (IF k = j /\ Rises(j) THEN snap[j] - ints[j] ELSE 0)
  BY <1>1 DEF IInv, Sound, TypeOK
<1> QED BY <1>1, <1>2, <1>3, TurnsToSave

(* A report moves what is owed to what is reported.                        *)
LEMMA EmitRiseIInv ==
    ASSUME IInv, NEW c \in Callers, NEW j \in Keys, EmitRise(c, j)
    PROVE  IInv'
<1>1. /\ UNCHANGED <<phase, faultVars, gameVars, ints, todo, snap>>
      /\ j \in todo[c] /\ saving[c] = None /\ Rises(j) /\ Emit(j)
      /\ saving' = [saving EXCEPT ![c] = j]
      /\ reported' = [reported EXCEPT ![j] = @ + (snap[j] - PrevInt(j))]
  BY DEF EmitRise
<1>2. PipelineTypeOK(Keys)'
  BY <1>1, EmitKeeps DEF IInv, Sound, TypeOK
<1>3. Faults' = Faults /\ phase' = phase
  BY <1>1 DEF Faults, faultVars
<1>4. PrevInt(j) = ints[j] /\ ints[j] # None /\ snap[j] > ints[j]
  BY <1>1, ReadsBaseline DEF IInv, Rises
<1>5. /\ reported' \in [Keys -> Nat]
      /\ \A k \in Keys : reported'[k] =
             reported[k] + (IF k = j /\ Rises(j) THEN snap[j] - ints[j] ELSE 0)
  <2>1. snap[j] - ints[j] \in Nat /\ \A k \in Keys : reported[k] \in Nat
    BY <1>4, Ranges, DiffAssumption
  <2> QED BY <1>1, <1>4, <2>1 DEF IInv, Sound, TypeOK
<1>6. told' \in [Values -> Nat]
  BY DEF EmitRise, IInv, Sound, TypeOK
<1> QED BY <1>1, <1>2, <1>3, <1>5, <1>6, TurnsToSave

-----------------------------------------------------------------------------
(* What both endings of diffUp do to the calls.                            *)
LEMMA EndDiffKeeps ==
    ASSUME IInv, NEW c \in Callers, NEW j \in Keys, saving[c] = j, EndDiff(c),
           ints' \in [Keys -> (0..MaxValue) \union {None}],
           UNCHANGED <<crashes, stops>>, writeFailures' \in 0..MaxWriteFailures
    PROVE  /\ Sound' /\ Pending(j) /\ Saving(j) /\ ~Pending(j)' /\ ~Saving(j)'
           /\ \A k \in Keys \ {j} : /\ Pending(k)' <=> Pending(k)
                                    /\ Saving(k)' <=> Saving(k)
<1> USE DiffAssumption DEF EndDiff
<1>1. j \in todo[c]
  BY DEF IInv, Sound, TypeOK, CallsOK
<1>2. StoreOpen /\ j \in KeysOf[c]
  BY <1>1, ReadsBaseline DEF IInv
<1>3. Sound'
  <2>1. PipelineTypeOK(Keys)'
    BY DEF IInv, Sound, TypeOK, PipelineTypeOK, recordVars
  <2>2. todo' \in [Callers -> SUBSET Keys] /\ saving' \in [Callers -> Keys \union {None}]
    BY DEF IInv, Sound, TypeOK
  <2>3. TypeOK'
    BY <2>1, <2>2 DEF IInv, Sound, TypeOK, gameVars, reportVars
  <2>4. CallsOK'
    BY DEF IInv, Sound, TypeOK, CallsOK
  <2> QED BY <1>2, <2>3, <2>4 DEF Sound, StoreOpenWhileHandling, StoreOpen
<1>4. Pending(j) /\ Saving(j) /\ ~Pending(j)' /\ ~Saving(j)'
  BY <1>1, <1>2, <1>3, Owner, OwnerNext DEF IInv, Sound, TypeOK
<1>5. ASSUME NEW k \in Keys \ {j}
      PROVE  (Pending(k)' <=> Pending(k)) /\ (Saving(k)' <=> Saving(k))
  <2>1. CASE k \in KeysOf[c]
    BY <1>3, <2>1, Owner, OwnerNext DEF IInv, Sound, TypeOK
  <2>2. CASE k \notin KeysOf[c]
    BY <1>3, <2>2, OtherCallers DEF IInv, Sound, TypeOK
  <2> QED BY <2>1, <2>2
<1> QED BY <1>2, <1>3, <1>4, <1>5

(* The new baseline covers what was reported.                              *)
LEMMA SetIntIInv ==
    ASSUME IInv, NEW c \in Callers, SetInt(c)
    PROVE  IInv'
<1> USE DiffAssumption
<1>0. PICK j \in Keys : saving[c] = j
  BY DEF SetInt, IInv, Sound, TypeOK
<1>1. /\ EndDiff(c) /\ UNCHANGED faultVars
      /\ ints' = [ints EXCEPT ![j] = snap[j]]
  BY <1>0 DEF SetInt, WriteOK
<1>2. /\ writeFailures' \in 0..MaxWriteFailures /\ UNCHANGED <<crashes, stops>>
      /\ ints' \in [Keys -> (0..MaxValue) \union {None}]
  BY <1>1 DEF faultVars, IInv, Sound, TypeOK, PipelineTypeOK
<1>3. /\ Sound' /\ ~Pending(j)' /\ ~Saving(j)' /\ Pending(j) /\ Saving(j)
      /\ \A k \in Keys \ {j} : /\ Pending(k)' <=> Pending(k)
                               /\ Saving(k)' <=> Saving(k)
  BY <1>0, <1>1, <1>2, EndDiffKeeps
<1>4. /\ game' = game /\ grown' = grown /\ snap' = snap /\ reported' = reported
      /\ Faults' = Faults /\ Budget' = Budget /\ Faults \in Nat /\ Budget \in Nat
  BY <1>1, Ranges, <1>2 DEF EndDiff, gameVars, reportVars, faultVars, Faults, Budget
<1>5. ASSUME NEW k \in Keys PROVE KeyInv(k)'
  <2>1. CASE k # j
    <3>1. ints'[k] = ints[k]
      BY <1>1, <2>1 DEF IInv, Sound, TypeOK
    <3> QED BY <1>3, <1>4, <2>1, <3>1, Untouched
  <2>2. CASE k = j
    <3>1. ints'[k] = snap[k] /\ snap[k] \in 0..MaxValue
      BY <1>1, <2>2, Ranges DEF IInv, Sound, TypeOK
    <3>2. OverOK(k) /\ RisingOK(k)
      BY DEF IInv, KeyInv
    <3>3. OverOK(k)'
      BY <1>3, <1>4, <2>2, <3>1, <3>2, Ranges DEF OverOK, Owed, Above
    <3>4. RisingOK(k)'
      BY <1>3, <1>4, <2>2, <3>1, <3>2, Ranges DEF RisingOK, OverOK
    <3> QED BY <3>3, <3>4 DEF KeyInv
  <2> QED BY <2>1, <2>2
<1> QED BY <1>3, <1>5 DEF IInv

(* A call cut short may repeat one rise; the fault that cut it is counted. *)
LEMMA CutShort ==
    ASSUME IInv, NEW k \in Keys,
           game'[k] = game[k], grown'[k] = grown[k], snap'[k] = snap[k],
           ints'[k] = ints[k], reported'[k] = reported[k],
           ~Pending(k)', ~Saving(k)', Faults' = Faults + 1
    PROVE  KeyInv(k)'
<1> USE DiffAssumption
<1>1. Budget' = Budget + MaxValue
  BY Ranges, TimesGrows DEF Budget
<1>2. OverOK(k) /\ RisingOK(k)
  BY DEF IInv, KeyInv
<1>3. ints[k] # None => Owed(k) >= 0 /\ Owed(k)' <= MaxValue /\ Owed(k)' \in Nat /\ Owed(k) \in Nat
  BY Ranges DEF Owed, Above
<1>4. OverOK(k)'
  BY <1>1, <1>2, <1>3, Ranges DEF OverOK
<1>5. RisingOK(k)'
  BY <1>2 DEF RisingOK
<1> QED BY <1>4, <1>5 DEF KeyInv

(* A failed write may repeat the rise: the fault pays for it.              *)
LEMMA SetIntFailsIInv ==
    ASSUME IInv, NEW c \in Callers, SetIntFails(c)
    PROVE  IInv'
<1> USE DiffAssumption, PipelineAssumption
<1>0. PICK j \in Keys : saving[c] = j
  BY DEF SetIntFails, IInv, Sound, TypeOK
<1>1. EndDiff(c) /\ ints' = ints
  BY DEF SetIntFails
<1>2. j \in todo[c]
  BY <1>0 DEF IInv, Sound, TypeOK, CallsOK
<1>3. StoreOpen
  BY <1>2, ReadsBaseline DEF IInv
<1>4. /\ writeFailures < MaxWriteFailures /\ writeFailures' = writeFailures + 1
      /\ UNCHANGED <<crashes, stops>>
  BY <1>3 DEF SetIntFails, WriteFails, WriteRefused
<1>5. /\ writeFailures' \in 0..MaxWriteFailures
      /\ Faults' = Faults + 1 /\ Faults \in Nat
  BY <1>4, FaultsAreNat DEF IInv, Sound, TypeOK, PipelineTypeOK, Faults
<1>6. /\ Sound' /\ ~Pending(j)' /\ ~Saving(j)'
      /\ \A k \in Keys \ {j} : /\ Pending(k)' <=> Pending(k)
                               /\ Saving(k)' <=> Saving(k)
  BY <1>0, <1>1, <1>4, <1>5, EndDiffKeeps DEF IInv, Sound, TypeOK
<1>7. game' = game /\ grown' = grown /\ snap' = snap /\ reported' = reported
  BY <1>1 DEF EndDiff, gameVars, reportVars
<1>8. ASSUME NEW k \in Keys PROVE KeyInv(k)'
  <2>1. CASE k # j
    BY <1>1, <1>5, <1>6, <1>7, <2>1, Untouched
  <2>2. CASE k = j
    BY <1>1, <1>5, <1>6, <1>7, <2>2, CutShort
  <2> QED BY <2>1, <2>2
<1> QED BY <1>6, <1>8 DEF IInv

-----------------------------------------------------------------------------
(* The steps of the process and of the exporter that end no call, and no   *)
(* step at all.                                                            *)
LEMMA QuietIInv ==
    ASSUME IInv, UNCHANGED diffVars, PipelineTypeOK(Keys)', Faults' = Faults,
           StoreOpenWhileHandling'
    PROVE  IInv'
<1> USE DEF diffVars, gameVars, callVars, reportVars
<1>1. Sound'
  BY DEF IInv, Sound, TypeOK, CallsOK
<1>2. ASSUME NEW k \in Keys PROVE KeyInv(k)'
  <2>1. (Pending(k)' <=> Pending(k)) /\ (Saving(k)' <=> Saving(k)) /\ Faults \in Nat
    BY Ranges DEF Pending, Saving
  <2> QED BY <2>1, Untouched
<1> QED BY <1>1, <1>2 DEF IInv

(* Stops, restarts and exports touch no number.                            *)
LEMMA StopStartSendIInv ==
    ASSUME IInv, Stop \/ Start \/ Send
    PROVE  IInv'
<1>1. UNCHANGED diffVars /\ Faults' = Faults
  BY DEF Stop, Start, Send, Cancel, CloseStore, Restart, Export, ExportFails, Faults
<1>2. PipelineStep
  <2>1. CASE Stop
    BY <2>1 DEF Stop, PipelineStep, CloseStore
  <2>2. CASE Start \/ Send
    BY <2>2 DEF Start, Send, PipelineStep
  <2> QED BY <2>1, <2>2
<1>3. PipelineTypeOK(Keys)'
  BY <1>2, PipelineStepKeeps DEF IInv, Sound, TypeOK
<1>4. StoreOpenWhileHandling'
  BY <1>1 DEF Stop, Start, Send, Cancel, CloseStore, Restart, Export, ExportFails,
              IInv, Sound, StoreOpenWhileHandling, AllIdle, Idle, StoreOpen,
              diffVars, callVars
<1> QED BY <1>1, <1>3, <1>4, QuietIInv

(* An orderly exit finds no call under way; a crash cuts calls short.      *)
LEMMA ExitIInv ==
    ASSUME IInv, Exit
    PROVE  IInv'
<1> USE DiffAssumption
<1>1. /\ todo' = [c \in Callers |-> {}] /\ saving' = [c \in Callers |-> None]
      /\ game' = game /\ grown' = grown /\ newCycle' = newCycle
      /\ ints' = ints /\ snap' = snap /\ reported' = reported /\ told' = told
      /\ PipelineStep
  BY DEF Exit, gameVars, reportVars, PipelineStep
<1>2. Sound'
  <2>1. PipelineTypeOK(Keys)'
    BY <1>1, PipelineStepKeeps DEF IInv, Sound, TypeOK
  <2> QED
    BY <1>1, <2>1 DEF IInv, Sound, TypeOK, CallsOK, StoreOpenWhileHandling,
                      AllIdle, Idle
<1>3. ASSUME NEW k \in Keys PROVE KeyInv(k)'
  <2>1. ~Pending(k)' /\ ~Saving(k)'
    BY <1>1 DEF Pending, Saving
  <2>2. CASE Crash
    <3>1. Faults' = Faults + 1
      BY <2>2, FaultsAreNat DEF Crash, Faults, IInv, Sound
    <3> QED BY <1>1, <2>1, <3>1, CutShort
  <2>3. CASE ShutdownFlushes \/ ShutdownTimesOut
    <3>1. Faults' = Faults /\ Faults \in Nat /\ ~StoreOpen
      BY <2>3, Ranges DEF ShutdownFlushes, ShutdownTimesOut, Faults, StoreOpen
    <3>2. ~Pending(k) /\ ~Saving(k)
      BY <3>1 DEF IInv, Sound, StoreOpenWhileHandling, AllIdle, Idle, CallsOK,
                  Pending, Saving
    <3> QED BY <1>1, <2>1, <3>1, <3>2, Untouched
  <2> QED BY <2>2, <2>3 DEF Exit
<1> QED BY <1>2, <1>3 DEF IInv

-----------------------------------------------------------------------------
(* IInv holds in every state, whatever the keys, the callers, the numbers, *)
(* the size of the queue and the number of faults.                         *)
THEOREM Invariant == Spec => []IInv
<1>1. IInv /\ [Next]_vars => IInv'
  <2> SUFFICES ASSUME IInv, [Next]_vars PROVE IInv'
    OBVIOUS
  <2>1. CASE \E k \in Keys : Grow(k) \/ Reset(k)
    BY <2>1, WorldIInv
  <2>2. CASE \E c \in Callers : Poll(c)
    BY <2>2, PollIInv
  <2>3. CASE \E c \in Callers : Handle(c)
    BY <2>3, SameIInv, RebaseIInv, EmitRiseIInv, SetIntIInv, SetIntFailsIInv DEF Handle
  <2>4. CASE Stop \/ Start \/ Send
    BY <2>4, StopStartSendIInv
  <2>5. CASE Exit
    BY <2>5, ExitIInv
  <2>6. CASE UNCHANGED vars
    <3>1. UNCHANGED diffVars /\ UNCHANGED pipelineVars
      BY <2>6 DEF vars
    <3>2. PipelineTypeOK(Keys)' /\ Faults' = Faults /\ (StoreOpen' <=> StoreOpen)
      BY <3>1, PipelineFrame DEF IInv, Sound
    <3>3. StoreOpenWhileHandling'
      BY <3>1, <3>2 DEF IInv, Sound, StoreOpenWhileHandling, AllIdle, Idle,
                        diffVars, callVars
    <3> QED BY <3>1, <3>2, <3>3, QuietIInv
  <2> QED
    BY <2>1, <2>2, <2>3, <2>4, <2>5, <2>6 DEF Next
<1> QED
  BY InitIInv, <1>1, PTL DEF Spec

(* Every state is well typed.                                              *)
THEOREM TypeCorrect == Spec => []TypeOK
<1>1. IInv => TypeOK
  BY DEF IInv, Sound
<1> QED BY Invariant, <1>1, PTL

(* The rises emitted for a number never exceed its growth by more than one *)
(* repetition per crash or failed write.                                   *)
THEOREM ReportsAreBounded == Spec => []NeverOverReports
<1>1. IInv => NeverOverReports
  <2> SUFFICES ASSUME IInv, NEW k \in Keys
               PROVE  reported[k] <= grown[k] + Faults * MaxValue
    BY DEF NeverOverReports
  <2>1. OverOK(k) /\ (ints[k] # None => Owed(k) \in Nat)
    BY Ranges DEF IInv, KeyInv, Owed, Above
  <2> QED BY <2>1, Ranges DEF OverOK, Budget
<1> QED BY Invariant, <1>1, PTL

(* The baseline of a number that only rises never passes over a rise that  *)
(* was not reported.                                                       *)
THEOREM RisesAreReported == Spec => []NothingUnreported
<1>1. IInv => NothingUnreported
  BY DEF IInv, KeyInv, RisingOK, NothingUnreported
<1> QED BY Invariant, <1>1, PTL

-----------------------------------------------------------------------------
(* The values of rising numbers, one by one.  The baseline has passed v,   *)
(* or will when the call under way stores it; then v has been reported     *)
(* unless it was reached before the first observation.                     *)
Passes(k, v) ==
    ints[k] # None /\ (v <= ints[k] \/ (Saving(k) /\ v <= snap[k]))

Counts(k, v) == game[k] < v + grown[k]

ToldOK(k, v) ==
    /\ told[<<k, v>>] <= Faults + (IF Passes(k, v) THEN 1 ELSE 0)
    /\ Passes(k, v) /\ Counts(k, v) => told[<<k, v>>] > 0

Rising == Keys \ Resettable

ToldInv == \A k \in Rising : \A v \in 1..MaxValue : ToldOK(k, v)

(* The types of what is said of one value.                                 *)
LEMMA ToldRanges ==
    ASSUME IInv, NEW k \in Rising, NEW v \in 1..MaxValue
    PROVE  /\ <<k, v>> \in Values /\ told[<<k, v>>] \in Nat /\ v \in Nat
           /\ game[k] \in Nat /\ snap[k] \in Nat /\ grown[k] \in Nat
           /\ ints[k] # None => ints[k] \in Nat
           /\ Faults \in Nat /\ k \in Keys
<1>1. <<k, v>> \in Values /\ k \in Keys
  BY DEF Values, Rising
<1>2. told[<<k, v>>] \in Nat
  BY <1>1 DEF IInv, Sound, TypeOK
<1> QED BY <1>1, <1>2, Ranges, DiffAssumption

(* A value that a step leaves alone; faults may be added.                  *)
LEMMA ToldKept ==
    ASSUME IInv, NEW k \in Rising, NEW v \in 1..MaxValue, ToldOK(k, v),
           told'[<<k, v>>] = told[<<k, v>>], Faults' \in Nat, Faults' >= Faults,
           Passes(k, v)' <=> Passes(k, v),
           Passes(k, v) => (Counts(k, v)' <=> Counts(k, v))
    PROVE  ToldOK(k, v)'
BY ToldRanges DEF ToldOK

(* A value whose call was cut short, at the price of a fault.              *)
LEMMA ToldCutShort ==
    ASSUME IInv, NEW k \in Rising, NEW v \in 1..MaxValue, ToldOK(k, v),
           told'[<<k, v>>] = told[<<k, v>>], Faults' = Faults + 1,
           Passes(k, v)' => Passes(k, v),
           Counts(k, v)' <=> Counts(k, v)
    PROVE  ToldOK(k, v)'
BY ToldRanges DEF ToldOK

(* A step without a fault.                                                 *)
LEMMA SameFaults ==
    ASSUME IInv, Faults' = Faults
    PROVE  Faults' \in Nat /\ Faults' >= Faults
BY FaultsAreNat DEF IInv, Sound

(* The game moves a number and its growth together; resets are of others.  *)
LEMMA WorldTold ==
    ASSUME IInv, ToldInv, NEW j \in Keys, Grow(j) \/ Reset(j)
    PROVE  ToldInv'
<1> SUFFICES ASSUME NEW k \in Rising, NEW v \in 1..MaxValue
             PROVE  ToldOK(k, v)'
  BY DEF ToldInv
<1>1. /\ ints' = ints /\ saving' = saving /\ snap' = snap /\ told' = told
      /\ Faults' = Faults
  BY DEF Grow, Reset, reportVars, callVars, pipelineVars, Faults
<1>2. Passes(k, v)' <=> Passes(k, v)
  BY <1>1 DEF Passes, Saving
<1>3. \/ game'[k] = game[k] /\ grown'[k] = grown[k]
      \/ game'[k] = game[k] + 1 /\ grown'[k] = grown[k] + 1
  <2>1. CASE Grow(j)
    BY <2>1, ToldRanges DEF Grow, IInv, Sound, TypeOK
  <2>2. CASE Reset(j)
    BY <2>2 DEF Reset, Rising, IInv, Sound, TypeOK
  <2> QED BY <2>1, <2>2
<1>4. Counts(k, v)' <=> Counts(k, v)
  <2>1. game[k] \in Nat /\ grown[k] \in Nat /\ v \in Nat
    BY ToldRanges
  <2>2. game[k] + 1 < v + (grown[k] + 1) <=> game[k] < v + grown[k]
    BY <2>1
  <2> QED BY <1>3, <2>2 DEF Counts
<1>5. /\ ToldOK(k, v) /\ told'[<<k, v>>] = told[<<k, v>>]
      /\ Faults' \in Nat /\ Faults' >= Faults
  BY <1>1, SameFaults DEF ToldInv
<1> QED BY <1>2, <1>4, <1>5, ToldKept

(* A poll counts anew only while there is no baseline.                     *)
LEMMA PollTold ==
    ASSUME IInv, ToldInv, NEW c \in Callers, Poll(c)
    PROVE  ToldInv'
<1> SUFFICES ASSUME NEW k \in Rising, NEW v \in 1..MaxValue
             PROVE  ToldOK(k, v)'
  BY DEF ToldInv
<1>1. /\ ints' = ints /\ saving' = saving /\ game' = game /\ told' = told
      /\ Faults' = Faults
      /\ snap' = [i \in Keys |-> IF i \in KeysOf[c] THEN game[i] ELSE snap[i]]
      /\ grown' = [i \in Keys |-> IF i \in KeysOf[c] /\ ints[i] = None
                                  THEN 0 ELSE grown[i]]
  BY DEF Poll, reportVars, pipelineVars, Faults
<1>2. Passes(k, v)' <=> Passes(k, v)
  <2>1. CASE k \in KeysOf[c]
    <3>0. saving[c] = None
      BY DEF Poll, Idle, IInv, Sound, TypeOK, CallsOK
    <3>1. ~Saving(k) /\ ~Saving(k)'
      BY <1>1, <2>1, <3>0, Owner, ToldRanges, DiffAssumption DEF IInv, Sound, Saving
    <3> QED BY <1>1, <3>1 DEF Passes
  <2>2. CASE k \notin KeysOf[c]
    BY <1>1, <2>2, ToldRanges DEF Passes, Saving
  <2> QED BY <2>1, <2>2
<1>3. Passes(k, v) => (Counts(k, v)' <=> Counts(k, v))
  BY <1>1, ToldRanges DEF Passes, Counts
<1>4. /\ ToldOK(k, v) /\ told'[<<k, v>>] = told[<<k, v>>]
      /\ Faults' \in Nat /\ Faults' >= Faults
  BY <1>1, SameFaults DEF ToldInv
<1> QED BY <1>2, <1>3, <1>4, ToldKept

(* An event reports the values its rise passes, none of them before.       *)
LEMMA EmitRiseTold ==
    ASSUME IInv, ToldInv, NEW c \in Callers, NEW j \in Keys, EmitRise(c, j)
    PROVE  ToldInv'
<1> SUFFICES ASSUME NEW k \in Rising, NEW v \in 1..MaxValue
             PROVE  ToldOK(k, v)'
  BY DEF ToldInv
<1>1. /\ j \in todo[c] /\ saving[c] = None /\ Rises(j)
      /\ ints' = ints /\ game' = game /\ grown' = grown /\ snap' = snap
      /\ saving' = [saving EXCEPT ![c] = j] /\ Faults' = Faults
  BY DEF EmitRise, gameVars, faultVars, Faults
<1>2. /\ PrevInt(j) = ints[j] /\ ints[j] # None /\ snap[j] > ints[j]
      /\ j \in KeysOf[c] /\ ~Saving(j)
  <2>1. PrevInt(j) = ints[j] /\ j \in KeysOf[c]
    BY <1>1, ReadsBaseline DEF IInv
  <2>2. ~Saving(j)
    BY <1>1, <2>1, Owner, DiffAssumption DEF IInv, Sound
  <2> QED BY <1>1, <2>1, <2>2 DEF Rises
<1>3. told'[<<k, v>>] =
          IF k = j /\ ints[j] < v /\ v <= snap[j] THEN told[<<k, v>>] + 1
                                                  ELSE told[<<k, v>>]
  BY <1>2, ToldRanges DEF EmitRise, Passed
<1>4. Faults' \in Nat /\ Faults' >= Faults /\ ToldOK(k, v)
  BY <1>1, SameFaults DEF ToldInv
<1>5. Counts(k, v)' <=> Counts(k, v)
  BY <1>1 DEF Counts
<1>6. CASE k # j
  <2>1. Saving(k)' <=> Saving(k)
    BY <1>1, <1>6, ToldRanges, DiffAssumption DEF Saving, IInv, Sound, TypeOK
  <2>2. Passes(k, v)' <=> Passes(k, v)
    BY <1>1, <2>1 DEF Passes
  <2> QED BY <1>3, <1>4, <1>5, <1>6, <2>2, ToldKept
<1>7. CASE k = j
  <2>1. Saving(k)'
    BY <1>1, <1>7 DEF Saving, IInv, Sound, TypeOK
  <2>2. /\ Passes(k, v) <=> v <= ints[k]
        /\ Passes(k, v)' <=> (v <= ints[k] \/ v <= snap[k])
    BY <1>1, <1>2, <1>7, <2>1 DEF Passes
  <2>3. /\ told[<<k, v>>] \in Nat /\ ints[k] \in Nat /\ snap[k] \in Nat
        /\ v \in Nat /\ Faults \in Nat
    BY <1>2, <1>7, ToldRanges
  <2>4. CASE v <= ints[k]
    <3>1. told'[<<k, v>>] = told[<<k, v>>] /\ Passes(k, v) /\ Passes(k, v)'
      BY <1>3, <1>7, <2>2, <2>3, <2>4
    <3> QED BY <1>4, <1>5, <3>1, ToldKept
  <2>5. CASE ~(v <= ints[k]) /\ v <= snap[k]
    <3>1. told'[<<k, v>>] = told[<<k, v>>] + 1 /\ ~Passes(k, v) /\ Passes(k, v)'
      BY <1>3, <1>7, <2>2, <2>3, <2>5
    <3>2. told[<<k, v>>] <= Faults
      BY <1>4, <2>3, <3>1 DEF ToldOK
    <3> QED BY <1>1, <2>3, <3>1, <3>2 DEF ToldOK
  <2>6. CASE ~(v <= snap[k]) /\ ~(v <= ints[k])
    <3>1. told'[<<k, v>>] = told[<<k, v>>] /\ ~Passes(k, v) /\ ~Passes(k, v)'
      BY <1>3, <1>7, <2>2, <2>3, <2>6
    <3> QED BY <1>4, <1>5, <3>1, ToldKept
  <2> QED BY <2>4, <2>5, <2>6
<1> QED BY <1>6, <1>7

(* A first half without an event: for a rising number, the first of all.   *)
LEMMA QuietHalfTold ==
    ASSUME IInv, ToldInv, NEW c \in Callers, NEW j \in Keys,
           Same(c, j) \/ Rebase(c, j)
    PROVE  ToldInv'
<1> SUFFICES ASSUME NEW k \in Rising, NEW v \in 1..MaxValue
             PROVE  ToldOK(k, v)'
  BY DEF ToldInv
<1>1. /\ ints' = ints /\ game' = game /\ grown' = grown /\ snap' = snap
      /\ told' = told /\ Faults' = Faults /\ j \in todo[c] /\ saving[c] = None
  BY DEF Same, Rebase, gameVars, reportVars, pipelineVars, Faults
<1>2. Passes(k, v)' <=> Passes(k, v)
  <2>1. CASE Same(c, j) \/ k # j
    <3>1. \/ saving' = saving
          \/ k # j /\ saving' = [saving EXCEPT ![c] = j]
      BY <2>1 DEF Same, Rebase
    <3>2. Saving(k)' <=> Saving(k)
      BY <1>1, <3>1, ToldRanges, DiffAssumption DEF Saving, IInv, Sound, TypeOK
    <3> QED BY <1>1, <3>2 DEF Passes
  <2>2. CASE Rebase(c, j) /\ k = j
    <3>1. PrevInt(j) = ints[j] /\ j \in KeysOf[c] /\ ~Rises(j) /\ ints[j] # snap[j]
      BY <1>1, <2>2, ReadsBaseline DEF Rebase, IInv
    <3>2. Pending(j)
      BY <1>1 DEF Pending
    <3>3. ints[j] = None
      <4>1. ints[j] # None => ints[j] <= snap[j]
        BY <2>2, <3>2 DEF IInv, KeyInv, RisingOK, Rising
      <4> QED BY <3>1, <4>1, Ranges DEF Rises
    <3> QED BY <1>1, <2>2, <3>3 DEF Passes
  <2> QED BY <2>1, <2>2
<1>3. Counts(k, v)' <=> Counts(k, v)
  BY <1>1 DEF Counts
<1>4. /\ ToldOK(k, v) /\ told'[<<k, v>>] = told[<<k, v>>]
      /\ Faults' \in Nat /\ Faults' >= Faults
  BY <1>1, SameFaults DEF ToldInv
<1> QED BY <1>2, <1>3, <1>4, ToldKept

(* The write passes what the event reported, and nothing else counts.      *)
LEMMA SetIntTold ==
    ASSUME IInv, IInv', ToldInv, NEW c \in Callers, SetInt(c)
    PROVE  ToldInv'
<1> SUFFICES ASSUME NEW k \in Rising, NEW v \in 1..MaxValue
             PROVE  ToldOK(k, v)'
  BY DEF ToldInv
<1>0. PICK j \in Keys : saving[c] = j
  BY DiffAssumption DEF SetInt, IInv, Sound, TypeOK
<1>1. /\ EndDiff(c) /\ ints' = [ints EXCEPT ![j] = snap[j]]
      /\ game' = game /\ grown' = grown /\ snap' = snap /\ told' = told
      /\ Faults' = Faults /\ saving' = [saving EXCEPT ![c] = None]
  BY <1>0 DEF SetInt, WriteOK, EndDiff, gameVars, reportVars, faultVars, Faults
<1>2. Pending(j) /\ Saving(j) /\ j \in KeysOf[c] /\ ~Saving(j)'
  <2>1. j \in todo[c]
    BY <1>0, DiffAssumption DEF IInv, Sound, TypeOK, CallsOK
  <2>2. j \in KeysOf[c]
    BY <2>1, ReadsBaseline DEF IInv
  <2>3. saving'[c] = None
    BY <1>1 DEF IInv, Sound, TypeOK
  <2>4. ~Saving(j)'
    BY <2>2, <2>3, OwnerNext, DiffAssumption DEF IInv, Sound
  <2> QED BY <1>0, <2>1, <2>2, <2>4 DEF Pending, Saving
<1>3. /\ ToldOK(k, v) /\ told'[<<k, v>>] = told[<<k, v>>]
      /\ Faults' \in Nat /\ Faults' >= Faults
  BY <1>1, SameFaults DEF ToldInv
<1>4. Counts(k, v)' <=> Counts(k, v)
  BY <1>1 DEF Counts
<1>5. CASE k # j
  <2>1. ints'[k] = ints[k] /\ (Saving(k)' <=> Saving(k))
    BY <1>0, <1>1, <1>5, ToldRanges, DiffAssumption DEF Saving, IInv, Sound, TypeOK
  <2>2. Passes(k, v)' <=> Passes(k, v)
    BY <1>1, <2>1 DEF Passes
  <2> QED BY <1>3, <1>4, <2>2, ToldKept
<1>6. CASE k = j
  <2>1. ints'[k] = snap[k] /\ snap[k] \in Nat /\ v \in Nat /\ None \notin Nat
    BY <1>1, <1>6, ToldRanges, DiffAssumption DEF IInv, Sound, TypeOK
  <2>2. Passes(k, v)' <=> v <= snap[k]
    BY <1>1, <1>2, <1>6, <2>1 DEF Passes
  <2>3. RisingOK(k) /\ Pending(k) /\ Saving(k) /\ k \notin Resettable
    BY <1>2, <1>6 DEF IInv, KeyInv, Rising
  <2>4. CASE ints[k] # None
    <3>1. ints[k] <= snap[k] /\ ints[k] \in Nat
      BY <2>3, <2>4, ToldRanges DEF RisingOK
    <3>2. Passes(k, v) <=> v <= snap[k]
      BY <2>1, <2>3, <2>4, <3>1 DEF Passes
    <3> QED BY <1>3, <1>4, <2>2, <3>2, ToldKept
  <2>5. CASE ints[k] = None
    <3>1. game[k] - snap[k] >= grown[k] /\ ~Passes(k, v)
      BY <2>3, <2>5 DEF RisingOK, Passes
    <3>2. /\ game[k] \in Nat /\ grown[k] \in Nat /\ told[<<k, v>>] \in Nat
          /\ Faults \in Nat
      BY ToldRanges
    <3>3. told[<<k, v>>] <= Faults
      BY <1>3, <3>1, <3>2 DEF ToldOK
    <3>4. v <= snap[k] => ~Counts(k, v)
      BY <2>1, <3>1, <3>2 DEF Counts
    <3> QED BY <1>1, <1>3, <1>4, <2>2, <3>2, <3>3, <3>4 DEF ToldOK
  <2> QED BY <2>4, <2>5
<1> QED BY <1>5, <1>6

(* A failed write, or a crash, may repeat an event: the fault pays for it. *)
LEMMA FaultTold ==
    ASSUME IInv, ToldInv, Faults' = Faults + 1,
           UNCHANGED <<game, grown, snap, ints, told>>,
           \A k \in Rising : Saving(k)' => Saving(k)
    PROVE  ToldInv'
<1> SUFFICES ASSUME NEW k \in Rising, NEW v \in 1..MaxValue
             PROVE  ToldOK(k, v)'
  BY DEF ToldInv
<1>1. (Passes(k, v)' => Passes(k, v)) /\ (Counts(k, v)' <=> Counts(k, v))
  BY DEF Passes, Counts
<1>2. ToldOK(k, v) /\ told'[<<k, v>>] = told[<<k, v>>]
  BY DEF ToldInv
<1> QED BY <1>1, <1>2, ToldCutShort

(* The steps that end no call, without a fault.                            *)
LEMMA SameTold ==
    ASSUME IInv, ToldInv, Faults' = Faults,
           UNCHANGED <<game, grown, snap, ints, told>>,
           \A k \in Rising : Saving(k)' <=> Saving(k)
    PROVE  ToldInv'
<1> SUFFICES ASSUME NEW k \in Rising, NEW v \in 1..MaxValue
             PROVE  ToldOK(k, v)'
  BY DEF ToldInv
<1>1. (Passes(k, v)' <=> Passes(k, v)) /\ (Counts(k, v)' <=> Counts(k, v))
  BY DEF Passes, Counts
<1>2. ToldOK(k, v) /\ told'[<<k, v>>] = told[<<k, v>>]
  BY DEF ToldInv
<1> QED BY <1>1, <1>2, SameFaults, ToldKept

(* A write is under way only while the database is open, so that its       *)
(* failure is one the history counts.                                      *)
LEMMA SetIntFailsIsFault ==
    ASSUME IInv, NEW c \in Callers, SetIntFails(c)
    PROVE  /\ Faults' = Faults + 1 /\ UNCHANGED <<game, grown, snap, ints, told>>
           /\ \A k \in Keys : Saving(k)' => Saving(k)
<1> USE PipelineAssumption
<1>1. saving[c] # None /\ UNCHANGED <<game, grown, snap, ints, told>>
  BY DEF SetIntFails, EndDiff, gameVars, reportVars
<1>2. StoreOpen
  <2>1. saving[c] \in todo[c]
    BY <1>1 DEF IInv, Sound, CallsOK
  <2> QED BY <2>1, ReadsBaseline DEF IInv
<1>3. Faults' = Faults + 1
  BY <1>2, FaultsAreNat DEF SetIntFails, WriteFails, WriteRefused, Faults, IInv, Sound
<1>4. saving' = [saving EXCEPT ![c] = None]
  BY DEF SetIntFails, EndDiff
<1>5. \A k \in Keys : Saving(k)' => Saving(k)
  BY <1>4, DiffAssumption DEF Saving, IInv, Sound, TypeOK
<1> QED BY <1>1, <1>3, <1>5

(* Stopping, ending and starting again: only a crash cuts a write short.   *)
LEMMA ProcessTold ==
    ASSUME IInv, ToldInv, Stop \/ Exit \/ Start \/ Send
    PROVE  ToldInv'
<1>1. UNCHANGED <<game, grown, snap, ints, told>>
  BY DEF Stop, Exit, Start, Send, diffVars, gameVars, callVars, reportVars
<1>2. CASE Exit /\ Crash
  <2>1. Faults' = Faults + 1
    BY <1>2, FaultsAreNat, PipelineAssumption DEF Crash, Faults, IInv, Sound
  <2>2. \A k \in Rising : ~Saving(k)'
    BY <1>2, DiffAssumption DEF Exit, Saving, Rising
  <2> QED BY <1>1, <2>1, <2>2, FaultTold
<1>3. CASE Exit /\ ~Crash
  <2>1. Faults' = Faults /\ ~StoreOpen
    BY <1>3 DEF Exit, ShutdownFlushes, ShutdownTimesOut, Faults, StoreOpen
  <2>2. \A k \in Rising : ~Saving(k)'
    BY <1>3, DiffAssumption DEF Exit, Saving, Rising
  <2>3. \A k \in Rising : ~Saving(k)
    BY <2>1, DiffAssumption DEF IInv, Sound, StoreOpenWhileHandling, AllIdle, Idle, CallsOK,
                Saving, Rising
  <2> QED BY <1>1, <2>1, <2>2, <2>3, SameTold
<1>4. CASE Stop \/ Start \/ Send
  <2>1. Faults' = Faults
    BY <1>4 DEF Stop, Start, Send, Cancel, CloseStore, Restart, Export, ExportFails,
                Faults
  <2>2. \A k \in Rising : Saving(k)' <=> Saving(k)
    BY <1>4 DEF Stop, Start, Send, diffVars, callVars, Saving
  <2> QED BY <1>1, <2>1, <2>2, SameTold
<1> QED BY <1>2, <1>3, <1>4

(* In every state ToldInv holds beside IInv.                               *)
LEMMA ToldInvariant == Spec => []ToldInv
<1>1. Init => ToldInv
  <2> SUFFICES ASSUME Init, NEW k \in Rising, NEW v \in 1..MaxValue
               PROVE  ToldOK(k, v)
    BY DEF ToldInv
  <2>1. told[<<k, v>>] = 0 /\ ints[k] = None /\ Faults = 0
    BY DEF Init, PipelineInit, Values, Rising, Faults
  <2>2. ~Passes(k, v)
    BY <2>1 DEF Passes
  <2> QED BY <2>1, <2>2 DEF ToldOK
<1>2. IInv /\ IInv' /\ ToldInv /\ [Next]_vars => ToldInv'
  <2> SUFFICES ASSUME IInv, IInv', ToldInv, [Next]_vars PROVE ToldInv'
    OBVIOUS
  <2>1. CASE \E k \in Keys : Grow(k) \/ Reset(k)
    BY <2>1, WorldTold
  <2>2. CASE \E c \in Callers : Poll(c)
    BY <2>2, PollTold
  <2>3. ASSUME NEW c \in Callers, SetIntFails(c) PROVE ToldInv'
    BY <2>3, SetIntFailsIsFault, FaultTold DEF Rising
  <2>4. CASE \E c \in Callers : Handle(c)
    BY <2>3, <2>4, QuietHalfTold, EmitRiseTold, SetIntTold DEF Handle
  <2>5. CASE Stop \/ Exit \/ Start \/ Send
    BY <2>5, ProcessTold
  <2>6. CASE UNCHANGED vars
    <3>1. UNCHANGED <<game, grown, snap, ints, told, saving>> /\ Faults' = Faults
      BY <2>6 DEF vars, diffVars, gameVars, callVars, reportVars, pipelineVars, Faults
    <3> QED BY <3>1, SameTold DEF Saving
  <2> QED BY <2>1, <2>2, <2>4, <2>5, <2>6 DEF Next
<1> QED BY <1>1, <1>2, Invariant, PTL DEF Spec

-----------------------------------------------------------------------------
(* Two variables of Delivery as functions of the baselines' variables; the *)
(* other two are told and Faults.                                          *)
Offered == {e \in Values : game[e[1]] < e[2] + grown[e[1]] /\ e[2] <= game[e[1]]}
Noted   == {e \in Values : ints[e[1]] # None /\ e[2] <= ints[e[1]]}

(* A value is a rising key and a number.                                   *)
LEMMA AValue ==
    ASSUME NEW e \in Values
    PROVE  e[1] \in Rising /\ e[2] \in 1..MaxValue /\ e = <<e[1], e[2]>>
BY DEF Values, Rising

(* Steps that change no rising number, baseline or report are none of      *)
(* Delivery's, unless they are faults.                                     *)
LEMMA RisingAlone ==
    ASSUME \A k \in Rising : /\ game'[k] = game[k] /\ grown'[k] = grown[k]
                             /\ ints'[k] = ints[k]
    PROVE  Offered' = Offered /\ Noted' = Noted
<1>1. ASSUME NEW e \in Values
      PROVE  /\ game'[e[1]] = game[e[1]] /\ grown'[e[1]] = grown[e[1]]
             /\ ints'[e[1]] = ints[e[1]]
  BY AValue
<1>2. Values' = Values
  BY DEF Values
<1>3. Offered' = Offered
  BY <1>1, <1>2 DEF Offered
<1>4. Noted' = Noted
  BY <1>1, <1>2 DEF Noted
<1> QED BY <1>3, <1>4

LEMMA NothingDelivered ==
    ASSUME Offered' = Offered, Noted' = Noted, told' = told, Faults' = Faults
    PROVE  UNCHANGED Promise!vars
BY DEF Promise!vars, Offered, Noted

LEMMA FaultIsFault ==
    ASSUME Offered' = Offered, Noted' = Noted, told' = told, Faults' = Faults + 1
    PROVE  Promise!Next
BY DEF Promise!Next, Promise!Fault, Offered, Noted

(* The game reaches one more value of a number.                            *)
LEMMA GrowOffers ==
    ASSUME IInv, NEW k \in Rising, Grow(k)
    PROVE  Promise!Next
<1> PICK e : e = <<k, game[k] + 1>>
  OBVIOUS
<1>0. k \in Keys
  BY DEF Rising
<1>1. /\ game' = [game EXCEPT ![k] = @ + 1] /\ grown' = [grown EXCEPT ![k] = @ + 1]
      /\ game[k] < MaxValue /\ ints' = ints /\ told' = told /\ Faults' = Faults
  BY DEF Grow, reportVars, pipelineVars, Faults
<1>2. game[k] \in Nat /\ grown[k] \in Nat /\ MaxValue \in Nat
  BY <1>0, Ranges, DiffAssumption
<1>3. e \in Values
  BY <1>1, <1>2 DEF Values, Rising
<1>4. e \notin Noted
  <2>1. ints[k] # None => ints[k] \in Nat /\ ints[k] <= game[k]
    BY <1>0, Ranges DEF IInv, KeyInv, RisingOK, Rising
  <2> QED BY <1>2, <2>1 DEF Noted
<1>5. Offered' = Offered \union {e}
  <2> SUFFICES ASSUME NEW f \in Values
               PROVE  game'[f[1]] < f[2] + grown'[f[1]] /\ f[2] <= game'[f[1]]
                      <=> \/ game[f[1]] < f[2] + grown[f[1]] /\ f[2] <= game[f[1]]
                          \/ f = e
    BY <1>3 DEF Offered, Values
  <2>1. f[1] \in Rising /\ f[2] \in Nat /\ f[1] \in Keys
    BY AValue, DiffAssumption DEF Rising
  <2>2. CASE f[1] # k
    BY <1>1, <2>1, <2>2 DEF IInv, Sound, TypeOK
  <2>3. CASE f[1] = k
    <3>1. game'[k] = game[k] + 1 /\ grown'[k] = grown[k] + 1
      BY <1>0, <1>1 DEF IInv, Sound, TypeOK
    <3>2. f = e <=> f[2] = game[k] + 1
      BY <2>3, AValue
    <3>3. game[k] + 1 < f[2] + (grown[k] + 1) /\ f[2] <= game[k] + 1
          <=> (game[k] < f[2] + grown[k] /\ f[2] <= game[k]) \/ f[2] = game[k] + 1
      BY <1>2, <2>1
    <3> QED BY <2>3, <3>1, <3>2, <3>3
  <2> QED BY <2>2, <2>3
<1>6. Noted' = Noted
  BY <1>1 DEF Noted, Values
<1>7. Promise!Offer(e)
  BY <1>1, <1>4, <1>5, <1>6 DEF Promise!Offer, Offered, Noted
<1> QED BY <1>3, <1>7 DEF Promise!Next

LEMMA WorldDelivers ==
    ASSUME IInv, NEW k \in Keys, Grow(k) \/ Reset(k)
    PROVE  Promise!Next \/ UNCHANGED Promise!vars
<1>1. CASE k \in Rising /\ Grow(k)
  BY <1>1, GrowOffers
<1>2. CASE k \notin Rising \/ Reset(k)
  <2>1. /\ ints' = ints /\ told' = told /\ Faults' = Faults
        /\ \A i \in Rising : game'[i] = game[i] /\ grown'[i] = grown[i]
    BY <1>2 DEF Grow, Reset, Rising, reportVars, pipelineVars, Faults, IInv, Sound,
                TypeOK
  <2> QED BY <2>1, RisingAlone, NothingDelivered
<1> QED BY <1>1, <1>2

(* The snapshot before a first baseline ends the claim of what came before.*)
LEMMA PollWithdraws ==
    ASSUME IInv, NEW c \in Callers, Poll(c)
    PROVE  Promise!Next
<1> PICK batch : batch = {e \in Values : e[1] \in KeysOf[c] /\ ints[e[1]] = None}
  OBVIOUS
<1>1. /\ game' = game /\ ints' = ints /\ told' = told /\ Faults' = Faults
      /\ grown' = [i \in Keys |-> IF i \in KeysOf[c] /\ ints[i] = None
                                  THEN 0 ELSE grown[i]]
  BY DEF Poll, reportVars, pipelineVars, Faults
<1>2. Offered' = Offered \ batch
  <2> SUFFICES ASSUME NEW f \in Values
               PROVE  game[f[1]] < f[2] + grown'[f[1]] /\ f[2] <= game[f[1]]
                      <=> /\ game[f[1]] < f[2] + grown[f[1]] /\ f[2] <= game[f[1]]
                          /\ f \notin batch
    BY <1>1 DEF Offered, Values
  <2>1. f[1] \in Keys /\ f[2] \in Nat /\ game[f[1]] \in Nat
    BY AValue, Ranges, DiffAssumption DEF Rising
  <2>2. CASE f \in batch
    <3>1. grown'[f[1]] = 0
      BY <1>1, <2>1, <2>2
    <3> QED BY <2>1, <2>2, <3>1
  <2>3. CASE f \notin batch
    <3>1. grown'[f[1]] = grown[f[1]]
      BY <1>1, <2>1, <2>3
    <3> QED BY <2>3, <3>1
  <2> QED BY <2>2, <2>3
<1>3. Noted' = Noted
  BY <1>1 DEF Noted, Values
<1>4. Promise!Withdraw(batch)
  BY <1>1, <1>2, <1>3 DEF Promise!Withdraw, Offered, Noted
<1>5. batch \in SUBSET Values
  OBVIOUS
<1> QED BY <1>4, <1>5 DEF Promise!Next

(* One event reports all the values of its rise.                           *)
LEMMA EmitRiseReports ==
    ASSUME IInv, ToldInv, NEW c \in Callers, NEW j \in Keys, EmitRise(c, j)
    PROVE  Promise!Next
<1> PICK batch : batch = Passed(j)
  OBVIOUS
<1>1. /\ j \in todo[c] /\ saving[c] = None /\ Rises(j)
      /\ ints' = ints /\ game' = game /\ grown' = grown /\ Faults' = Faults
      /\ told' = [e \in Values |-> IF e \in batch THEN told[e] + 1 ELSE told[e]]
  BY DEF EmitRise, gameVars, faultVars, Faults
<1>2. PrevInt(j) = ints[j] /\ ints[j] # None /\ ~Saving(j)
  <2>1. PrevInt(j) = ints[j] /\ j \in KeysOf[c]
    BY <1>1, ReadsBaseline DEF IInv
  <2>2. ~Saving(j)
    BY <1>1, <2>1, Owner, DiffAssumption DEF IInv, Sound
  <2> QED BY <1>1, <2>1, <2>2 DEF Rises
<1>3. ASSUME NEW e \in batch
      PROVE  e \notin Noted /\ told[e] <= Faults
  <2>1. e \in Values /\ e[1] = j /\ ints[j] < e[2] /\ e[2] <= snap[j]
    BY <1>2 DEF Passed
  <2>2. j \in Rising /\ e[2] \in 1..MaxValue /\ e = <<j, e[2]>>
    BY <2>1, AValue
  <2>3. ints[j] \in Nat /\ e[2] \in Nat
    BY <1>2, <2>2, ToldRanges
  <2>4. ~Passes(j, e[2]) /\ e \notin Noted
    BY <1>2, <2>1, <2>3 DEF Passes, Noted
  <2>5. ToldOK(j, e[2]) /\ told[<<j, e[2]>>] \in Nat /\ Faults \in Nat
    BY <2>2, ToldRanges DEF ToldInv
  <2>6. told[<<j, e[2]>>] <= Faults
    BY <2>4, <2>5 DEF ToldOK
  <2> QED BY <2>2, <2>4, <2>6
<1>4. Offered' = Offered /\ Noted' = Noted
  BY <1>1, RisingAlone
<1>5. Promise!Report(batch)
  BY <1>1, <1>3, <1>4 DEF Promise!Report, Offered, Noted
<1>6. batch \in SUBSET Values
  BY DEF Passed
<1> QED BY <1>5, <1>6 DEF Promise!Next

(* What a stored number passes has been reported, or does not count.       *)
LEMMA SetIntNotes ==
    ASSUME IInv, ToldInv, NEW c \in Callers, SetInt(c), saving[c] \in Rising
    PROVE  Promise!Next
<1> PICK j \in Rising : j = saving[c]
  OBVIOUS
<1> PICK batch : batch = {e \in Values : e[1] = j /\ e[2] <= snap[j]}
  OBVIOUS
<1>0. j \in Keys
  BY DEF Rising
<1>1. /\ ints' = [ints EXCEPT ![j] = snap[j]]
      /\ game' = game /\ grown' = grown /\ told' = told /\ Faults' = Faults
  BY DEF SetInt, EndDiff, WriteOK, gameVars, reportVars, faultVars, Faults
<1>2. Saving(j) /\ Pending(j) /\ RisingOK(j)
  <2>1. saving[c] # None
    BY <1>0, DiffAssumption
  <2>2. j \in todo[c]
    BY <2>1 DEF IInv, Sound, CallsOK
  <2> QED BY <1>0, <2>2 DEF Saving, Pending, IInv, KeyInv
<1>3. \A e \in batch \cap Offered : told[e] > 0
  <2> SUFFICES ASSUME NEW e \in batch \cap Offered PROVE told[e] > 0
    OBVIOUS
  <2> PICK v : v = e[2]
    OBVIOUS
  <2>1. /\ e \in Values /\ e[1] = j /\ v <= snap[j]
        /\ game[j] < v + grown[j]
    BY DEF Offered
  <2>2. v \in 1..MaxValue /\ e = <<j, v>>
    BY <2>1, AValue
  <2>3. /\ v \in Nat /\ game[j] \in Nat /\ snap[j] \in Nat /\ grown[j] \in Nat
        /\ ToldOK(j, v)
    BY <2>2, ToldRanges DEF ToldInv
  <2>4. ints[j] # None
    <3>1. ints[j] = None => game[j] - snap[j] >= grown[j]
      BY <1>2 DEF RisingOK, Rising
    <3> QED BY <2>1, <2>3, <3>1
  <2>5. Passes(j, v) /\ Counts(j, v)
    BY <1>2, <2>1, <2>4 DEF Passes, Counts
  <2> QED BY <2>2, <2>3, <2>5 DEF ToldOK
<1>4. Noted' = Noted \union batch
  <2> SUFFICES ASSUME NEW e \in Values
               PROVE  ints'[e[1]] # None /\ e[2] <= ints'[e[1]]
                      <=> \/ ints[e[1]] # None /\ e[2] <= ints[e[1]]
                          \/ e[1] = j /\ e[2] <= snap[j]
    BY DEF Noted, Values
  <2>1. e[1] \in Keys /\ e[2] \in Nat
    BY AValue, DiffAssumption DEF Rising
  <2>2. CASE e[1] = j
    <3>1. ints'[j] = snap[j] /\ snap[j] \in Nat /\ None \notin Nat
      BY <1>0, <1>1, Ranges, DiffAssumption DEF IInv, Sound, TypeOK
    <3>2. ints[j] # None => ints[j] \in Nat /\ ints[j] <= snap[j]
      BY <1>0, <1>2, Ranges DEF RisingOK, Rising
    <3> QED BY <2>1, <2>2, <3>1, <3>2
  <2>3. CASE e[1] # j
    BY <1>1, <2>1, <2>3 DEF IInv, Sound, TypeOK
  <2> QED BY <2>2, <2>3
<1>5. Offered' = Offered
  BY <1>1 DEF Offered, Values
<1>6. Promise!Note(batch)
  BY <1>1, <1>3, <1>4, <1>5 DEF Promise!Note, Offered, Noted
<1>7. batch \in SUBSET Values
  OBVIOUS
<1> QED BY <1>6, <1>7 DEF Promise!Next

(* The steps of a handler.                                                 *)
LEMMA HandleDelivers ==
    ASSUME IInv, ToldInv, NEW c \in Callers, Handle(c)
    PROVE  Promise!Next \/ UNCHANGED Promise!vars
<1>1. CASE \E k \in Keys : Same(c, k) \/ Rebase(c, k)
  <2>1. /\ ints' = ints /\ told' = told /\ game' = game /\ grown' = grown
        /\ Faults' = Faults
    BY <1>1 DEF Same, Rebase, gameVars, reportVars, pipelineVars, Faults
  <2> QED BY <2>1, RisingAlone, NothingDelivered
<1>2. CASE \E k \in Keys : EmitRise(c, k)
  BY <1>2, EmitRiseReports
<1>3. CASE SetInt(c)
  <2>1. CASE saving[c] \in Rising
    BY <1>3, <2>1, SetIntNotes
  <2>2. CASE saving[c] \notin Rising
    <3>1. /\ ints' = [ints EXCEPT ![saving[c]] = snap[saving[c]]]
          /\ told' = told /\ game' = game /\ grown' = grown /\ Faults' = Faults
      BY <1>3 DEF SetInt, EndDiff, WriteOK, gameVars, reportVars, faultVars, Faults
    <3>2. \A k \in Rising : ints'[k] = ints[k]
      BY <2>2, <3>1 DEF Rising, IInv, Sound, TypeOK
    <3> QED BY <3>1, <3>2, RisingAlone, NothingDelivered
  <2> QED BY <2>1, <2>2
<1>4. CASE SetIntFails(c)
  <2>1. Faults' = Faults + 1 /\ UNCHANGED <<game, grown, ints, told>>
    BY <1>4, SetIntFailsIsFault
  <2> QED BY <2>1, RisingAlone, FaultIsFault
<1> QED BY <1>1, <1>2, <1>3, <1>4 DEF Handle

LEMMA ProcessStepDelivers ==
    ASSUME IInv, Stop \/ Exit \/ Start \/ Send
    PROVE  Promise!Next \/ UNCHANGED Promise!vars
<1>1. UNCHANGED <<game, grown, ints, told>>
  BY DEF Stop, Exit, Start, Send, diffVars, gameVars, reportVars
<1>2. Offered' = Offered /\ Noted' = Noted
  BY <1>1, RisingAlone
<1>3. CASE Exit /\ Crash
  <2>1. Faults' = Faults + 1
    BY <1>3, FaultsAreNat, PipelineAssumption DEF Crash, Faults, IInv, Sound
  <2> QED BY <1>1, <1>2, <2>1, FaultIsFault
<1>4. CASE (Exit /\ ~Crash) \/ Stop \/ Start \/ Send
  <2>1. Faults' = Faults
    BY <1>4 DEF Exit, Stop, Start, Send, ShutdownFlushes, ShutdownTimesOut, Cancel,
                CloseStore, Restart, Export, ExportFails, Faults
  <2> QED BY <1>1, <1>2, <2>1, NothingDelivered
<1> QED BY <1>3, <1>4

(* The baselines implement Delivery, for any keys, callers, numbers and    *)
(* faults: one event for all the values of a rise is still every value     *)
(* reported before the baseline passes it (events.go:52-66).               *)
THEOREM BaselineDelivers == Spec => ImplementsDelivery
<1>1. Init => Promise!Init
  <2> SUFFICES ASSUME Init PROVE Promise!Init
    OBVIOUS
  <2>1. Faults = 0 /\ told = [e \in Values |-> 0]
    BY DEF Init, PipelineInit, Faults
  <2>2. Offered = {}
    <3> SUFFICES ASSUME NEW e \in Offered PROVE FALSE
      OBVIOUS
    <3>1. e \in Values /\ game[e[1]] < e[2] + grown[e[1]] /\ e[2] <= game[e[1]]
      BY DEF Offered
    <3>2. e[1] \in Keys /\ e[2] \in Nat
      BY <3>1, AValue, DiffAssumption DEF Rising
    <3>3. grown[e[1]] = 0 /\ game[e[1]] \in Nat
      BY <3>2, DiffAssumption DEF Init
    <3> QED BY <3>1, <3>2, <3>3
  <2>3. Noted = {}
    BY AValue DEF Noted, Init, Rising
  <2> QED BY <2>1, <2>2, <2>3 DEF Promise!Init, Offered, Noted
<1>2. IInv /\ ToldInv /\ [Next]_vars => [Promise!Next]_(Promise!vars)
  <2> SUFFICES ASSUME IInv, ToldInv, [Next]_vars
               PROVE  Promise!Next \/ UNCHANGED Promise!vars
    OBVIOUS
  <2>1. CASE UNCHANGED vars
    <3>1. UNCHANGED <<game, grown, ints, told>> /\ Faults' = Faults
      BY <2>1 DEF vars, diffVars, gameVars, reportVars, pipelineVars, Faults
    <3> QED BY <3>1, RisingAlone, NothingDelivered
  <2> QED
    BY <2>1, WorldDelivers, PollWithdraws, HandleDelivers, ProcessStepDelivers
    DEF Next
<1> QED
  BY <1>1, <1>2, Invariant, ToldInvariant, PTL
  DEF Spec, ImplementsDelivery, Promise!Spec

-----------------------------------------------------------------------------
(* What Delivery's steps do to the four values they are about.             *)
LEMMA PromiseMoves ==
    ASSUME [Promise!Next]_(Promise!vars)
    PROVE  Moves(Values, Offered, told, Noted, Faults,
                 Offered', told', Noted', Faults')
<1> DEFINE Moved == Moves(Values, Offered, told, Noted, Faults,
                          Offered', told', Noted', Faults')
<1>1. ASSUME NEW e \in Values, Promise!Offer(e) PROVE Moved
  BY <1>1 DEF Promise!Offer, Moves, Offered, Noted
<1>2. ASSUME NEW batch \in SUBSET Values, Promise!Withdraw(batch) PROVE Moved
  BY <1>2 DEF Promise!Withdraw, Moves, Offered, Noted
<1>3. ASSUME NEW batch \in SUBSET Values, Promise!Report(batch) PROVE Moved
  <2>1. /\ \A e \in batch : e \notin Noted /\ told[e] <= Faults
        /\ told' = [e \in Values |-> IF e \in batch THEN told[e] + 1 ELSE told[e]]
        /\ Offered' = Offered /\ Noted' = Noted /\ Faults' = Faults
    BY <1>3 DEF Promise!Report, Offered, Noted
  <2> QED BY <2>1 DEF Moves
<1>4. ASSUME NEW batch \in SUBSET Values, Promise!Note(batch) PROVE Moved
  <2>1. /\ \A e \in batch \cap Offered : told[e] > 0
        /\ Noted' = Noted \union batch
        /\ Offered' = Offered /\ told' = told /\ Faults' = Faults
    BY <1>4 DEF Promise!Note, Offered, Noted
  <2> QED BY <2>1 DEF Moves
<1>5. CASE Promise!Fault
  BY <1>5 DEF Promise!Fault, Moves, Offered, Noted
<1>6. CASE UNCHANGED Promise!vars
  BY <1>6 DEF Promise!vars, Moves, Offered, Noted
<1> QED BY <1>1, <1>2, <1>3, <1>4, <1>5, <1>6 DEF Promise!Next

(* A value that a rising number has reached since its first baseline, and  *)
(* that the baseline covers, has been in an event; and it was in no more   *)
(* events than one and one for each fault (events.go:52-66).               *)
THEOREM BaselineKeepsPromise ==
    Spec => [](Promise!NothingPassedOver /\ Promise!RepeatsNeedFaults)
<1>1. Promise!Init => Delivered(Values, Offered, told, Noted, Faults)
  <2> SUFFICES ASSUME Promise!Init
               PROVE  Delivered(Values, Offered, told, Noted, Faults)
    OBVIOUS
  <2>1. Offered = {} /\ Noted = {} /\ Faults = 0 /\ told = [e \in Values |-> 0]
    BY DEF Promise!Init, Offered, Noted
  <2> QED BY <2>1 DEF Delivered
<1>2. Delivered(Values, Offered, told, Noted, Faults)
        /\ [Promise!Next]_(Promise!vars)
        => Delivered(Values, Offered, told, Noted, Faults)'
  <2>1. Values' = Values
    BY DEF Values
  <2> QED BY <2>1, PromiseMoves, MovesKeepPromise DEF Delivered
<1>3. Delivered(Values, Offered, told, Noted, Faults)
        => Promise!NothingPassedOver /\ Promise!RepeatsNeedFaults
  <2>1. Promise!NothingPassedOver <=> \A e \in Noted \cap Offered : told[e] > 0
    BY DEF Promise!NothingPassedOver, Offered, Noted
  <2>2. Promise!RepeatsNeedFaults <=> \A e \in Values : told[e] <= Faults + 1
    BY DEF Promise!RepeatsNeedFaults
  <2> QED BY <2>1, <2>2 DEF Delivered
<1> QED
  BY <1>1, <1>2, <1>3, BaselineDelivers, PTL DEF ImplementsDelivery, Promise!Spec
=============================================================================
