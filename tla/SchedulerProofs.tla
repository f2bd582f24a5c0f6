--------------------------- MODULE SchedulerProofs ---------------------------
(***************************************************************************)
(* Safety proofs for Scheduler, for any number of sessions and contexts    *)
(* and any caps.  The inductive invariant is IndInv; every operation that  *)
(* ends contexts is shown to be a sound settlement (SoundStep), and a      *)
(* settlement preserves each conjunct (lemmas Settle...).                  *)
(***************************************************************************)
EXTENDS Scheduler, FiniteSetTheorems, TLAPS

-----------------------------------------------------------------------------
(* The inductive invariant.                                                *)

\* How records, ancestry and the sets of sessions are related.
Shape ==
  /\ records \subseteq Created
  /\ reaped \subseteq failed
  /\ \A c \in Created : owner[c] \in Sessions
  /\ \A c \in Created : \A x \in line[c] :
       x \in Created /\ line[x] \subseteq line[c] /\ (x \in records => slot[x] # "none")
  /\ \A c \in Contexts \ records : slot[c] = "none" /\ offer[c] = "none"
  /\ \A c \in Contexts \ Created :
       /\ terminal[c] = "none" /\ lapsed[c] = "none"
       /\ line[c] = {} /\ owner[c] = NoSession

IndInv ==
  /\ TypeOK
  /\ Shape
  /\ SlotAccounting
  /\ BudgetAccounting
  /\ QueueHoldsTheUnslotted
  /\ WorkConserving
  /\ FamilyEndsTogether
  /\ RecordLifetime
  /\ FailureIsFinal

\* What every operation that ends contexts hands to Settle: the finished
\* contexts were open and drag their descendants along, released records are
\* those of ended contexts, kept ones have a reason to be kept, and failed or
\* reaped sessions keep no open work.
SoundStep(out, R, down) ==
  /\ DOMAIN out \subseteq Unfinished(Created)
  /\ \A c \in DOMAIN out : out[c] \in Outcomes
  /\ R \subseteq records
  /\ \A c \in R : /\ c \in DOMAIN out \/ terminal[c] # "none"
                 /\ owner[c] \notin down \ reaped'
  /\ \A c \in DOMAIN out : \A d \in Created :
       c \in line[d] => d \in DOMAIN out \/ terminal[d] # "none"
  /\ \A c \in (DOMAIN out \intersect records) \ R :
       offer[c] = "sent" \/ owner[c] \in failed' \ reaped'
  /\ failed' = down /\ failed \subseteq down /\ down \subseteq Sessions
  /\ reaped \subseteq reaped' /\ reaped' \subseteq down
  /\ \A c \in Created :
       /\ owner[c] \in down => c \in DOMAIN out \/ terminal[c] # "none"
       /\ owner[c] \in reaped' => c \notin records \/ c \in R
  /\ offer' = [c \in Contexts |-> Forget(c)]
  /\ UNCHANGED identity

Settlement ==
  \E out, R, down : Settle(out, R, down) /\ SoundStep(out, R, down)

-----------------------------------------------------------------------------
(* Facts about finite sets.                                                *)

\* Contexts is finite, so every set of contexts has a cardinality.
LEMMA FiniteContexts ==
  ASSUME NEW S \in SUBSET Contexts
  PROVE  IsFiniteSet(S) /\ Cardinality(S) \in Nat
<1>1. IsFiniteSet(Contexts)
  BY FS_Interval, BoundsAssumption DEF Contexts
<1> QED  BY <1>1, FS_Subset, FS_CardinalityType

\* The contexts created so far are contexts.
LEMMA CreatedContexts ==
  ASSUME TypeOK
  PROVE  Created \subseteq Contexts
BY BoundsAssumption DEF TypeOK, Created, Contexts

\* The empty set has cardinality 0.
LEMMA EmptyCardinality == Cardinality({}) = 0
BY FS_EmptySet

\* Taking a subset away lowers the cardinality.
LEMMA CardinalityDrops ==
  ASSUME NEW A \in SUBSET Contexts, NEW B \in SUBSET A
  PROVE  /\ Cardinality(A \ B) = Cardinality(A) - Cardinality(B)
         /\ Cardinality(A) \in Nat /\ Cardinality(B) \in Nat
         /\ Cardinality(A \ B) \in Nat
<1>1. IsFiniteSet(A) /\ A \intersect B = B /\ B \in SUBSET Contexts /\ A \ B \in SUBSET Contexts
  BY FiniteContexts
<1> QED  BY <1>1, FiniteContexts, FS_Difference

\* Taking a subset away and adding fresh elements moves the cardinality by
\* the difference.
LEMMA CardinalityMoves ==
  ASSUME NEW A \in SUBSET Contexts, NEW B \in SUBSET A,
         NEW C \in SUBSET Contexts, C \intersect A = {}
  PROVE  Cardinality((A \ B) \union C)
           = (Cardinality(A) - Cardinality(B)) + Cardinality(C)
<1>1. /\ IsFiniteSet(A) /\ IsFiniteSet(B) /\ IsFiniteSet(C)
      /\ Cardinality(A) \in Nat /\ Cardinality(B) \in Nat /\ Cardinality(C) \in Nat
  BY FiniteContexts
<1>2. A \intersect B = B /\ (A \ B) \intersect C = {}
  OBVIOUS
<1>3. IsFiniteSet(A \ B) /\ Cardinality(A \ B) = Cardinality(A) - Cardinality(B)
  BY <1>1, <1>2, FS_Difference
<1>4. Cardinality((A \ B) \union C)
        = Cardinality(A \ B) + Cardinality(C) - Cardinality({})
  BY <1>1, <1>2, <1>3, FS_Union
<1> QED  BY <1>1, <1>3, <1>4, EmptyCardinality

-----------------------------------------------------------------------------
(* A settlement preserves the accounts.                                    *)

\* Freeing the ended contexts and draining the queues keeps #slots exact and
\* within the caps.
LEMMA SettleSlots ==
  ASSUME NEW out, NEW R, NEW down, IndInv, Settle(out, R, down),
         SoundStep(out, R, down)
  PROVE  SlotAccounting' /\ slots' \in [Sessions -> [Slots -> Nat]]
<1> DEFINE Holders(s, k) == {c \in Owned(records, s) : slot[c] = k}
           Leaving(s, k) == {c \in Owned(R, s) : slot[c] = k}
<1>1. PICK T \in SUBSET UNION {queue[s] : s \in Sessions} :
        LET started == {c \in T : Startable(c)}
            gone == R \union (T \ started)
        IN  /\ T \intersect R = {}
            /\ \A s \in Sessions : Drained(s, R, down, T)
            /\ records' = records \ gone
            /\ slot' = [c \in Contexts |->
                          IF c \in gone THEN "none"
                          ELSE IF c \in started THEN "ordinary" ELSE slot[c]]
            /\ slots' = SlotsAfter(R, started)
  BY DEF Settle
<1> DEFINE started == {c \in T : Startable(c)}
<1>2. T \subseteq records /\ \A c \in T : slot[c] = "none" /\ c \in queue[owner[c]]
  BY DEF IndInv, QueueHoldsTheUnslotted, Owned
<1>3. ASSUME NEW s \in Sessions, NEW k \in Slots
      PROVE  {c \in Owned(records, s) : slot[c] = k}'
               = (Holders(s, k) \ Leaving(s, k))
                   \union (IF k = "ordinary" THEN Owned(started, s) ELSE {})
  BY <1>1, <1>2 DEF Owned, SoundStep, identity, IndInv, TypeOK, Slots
<1>4. ASSUME NEW s \in Sessions, NEW k \in Slots
      PROVE  slots'[s][k] = Cardinality({c \in Owned(records, s) : slot[c] = k}')
  <2>1. /\ Holders(s, k) \in SUBSET Contexts /\ Leaving(s, k) \in SUBSET Holders(s, k)
        /\ Owned(started, s) \in SUBSET Contexts
        /\ Owned(started, s) \intersect Holders(s, k) = {}
    BY <1>2 DEF Owned, SoundStep, IndInv, TypeOK, Slots
  <2>2. slots[s][k] = Cardinality(Holders(s, k))
    BY DEF IndInv, SlotAccounting
  <2>3. Cardinality(Holders(s, k)) \in Nat /\ Cardinality(Leaving(s, k)) \in Nat
    BY <2>1, FiniteContexts
  <2>4. CASE k = "ordinary"
    <3>1. slots'[s][k] = (slots[s][k] - Cardinality(Leaving(s, k)))
                           + Cardinality(Owned(started, s))
      BY <1>1, <2>4 DEF SlotsAfter
    <3> QED  BY <1>3, <2>1, <2>2, <2>4, <3>1, CardinalityMoves
  <2>5. CASE k # "ordinary"
    <3>1. slots'[s][k] = (slots[s][k] - Cardinality(Leaving(s, k))) + 0
      BY <1>1, <2>5 DEF SlotsAfter
    <3>2. {c \in Owned(records, s) : slot[c] = k}' = Holders(s, k) \ Leaving(s, k)
      BY <1>1, <1>2, <2>5 DEF Owned, SoundStep, identity, IndInv, TypeOK, Slots
    <3> HIDE DEF Holders, Leaving
    <3> QED  BY <2>1, <2>2, <2>3, <3>1, <3>2, CardinalityDrops
  <2> QED  BY <2>4, <2>5
<1>5. ASSUME NEW s \in Sessions, NEW k \in Slots
      PROVE  slots'[s][k] \in Nat
  <2>1. {c \in Owned(records, s) : slot[c] = k}' \in SUBSET Contexts
    BY <1>1 DEF Owned, IndInv, TypeOK
  <2> QED  BY <1>4, <2>1, FiniteContexts
<1>6. slots' \in [Sessions -> [Slots -> Nat]]
  BY <1>1, <1>5 DEF SlotsAfter
<1>7. ASSUME NEW s \in Sessions
      PROVE  slots'[s]["ordinary"] <= OrdinaryCap
  <2> DEFINE left == slots[s]["ordinary"] - Cardinality(Leaving(s, "ordinary"))
  <2>1. /\ slots[s]["ordinary"] \in Nat /\ slots[s]["ordinary"] <= OrdinaryCap
        /\ OrdinaryCap \in Nat /\ Cardinality(Leaving(s, "ordinary")) \in Nat
        /\ Cardinality(Owned(started, s)) \in Nat
    <3>1. Leaving(s, "ordinary") \in SUBSET Contexts /\ Owned(started, s) \in SUBSET Contexts
      BY <1>2 DEF Owned, SoundStep, IndInv, TypeOK
    <3>2. slots[s]["ordinary"] \in Nat /\ slots[s]["ordinary"] <= OrdinaryCap
      <4>1. slots[s]["ordinary"] \in Nat
        BY DEF IndInv, TypeOK, Slots
      <4> QED  BY <4>1 DEF IndInv, SlotAccounting
    <3> HIDE DEF Leaving, started
    <3> QED  BY <3>1, <3>2, FiniteContexts, BoundsAssumption
  <2>2. slots'[s]["ordinary"] = left + Cardinality(Owned(started, s))
    BY <1>1 DEF SlotsAfter, Slots
  <2>3. Owned(started, s) = {c \in T \intersect Waiting(s, R) : Startable(c)}
    BY <1>1, <1>2 DEF Owned, Waiting, IndInv, QueueHoldsTheUnslotted
  <2>4. Drained(s, R, down, T)
    BY <1>1
  <2>5. CASE T \intersect Waiting(s, R) = {}
    <3>1. Owned(started, s) = {}
      BY <2>3, <2>5
    <3> HIDE DEF Leaving, started
    <3> QED  BY <2>1, <2>2, <3>1, EmptyCardinality
  <2>6. CASE T \intersect Waiting(s, R) # {}
    <3>1. Cardinality(Owned(started, s)) <= OrdinaryCap - left
      BY <2>3, <2>4, <2>6 DEF Drained, FreeOrdinary
    <3> QED  BY <2>1, <2>2, <3>1
  <2> QED  BY <2>5, <2>6
<1>8. ASSUME NEW s \in Sessions, NEW k \in {"nested", "lifecycle"}
      PROVE  slots'[s][k] <= slots[s][k]
  <2>1. slots'[s][k] = (slots[s][k] - Cardinality(Leaving(s, k))) + 0
    BY <1>1 DEF SlotsAfter, Slots
  <2>2. Leaving(s, k) \in SUBSET Contexts
    BY DEF Owned, SoundStep, IndInv, TypeOK
  <2>3. Cardinality(Leaving(s, k)) \in Nat /\ slots[s][k] \in Nat
    BY <2>2, FiniteContexts DEF IndInv, TypeOK, Slots
  <2> QED  BY <2>1, <2>3
<1>9. ASSUME NEW s \in Sessions
      PROVE  slots'[s]["nested"] <= NestedCap /\ slots'[s]["lifecycle"] <= LifecycleCap
  <2>1. /\ slots[s]["nested"] \in Nat /\ slots[s]["lifecycle"] \in Nat
        /\ slots[s]["nested"] <= NestedCap /\ slots[s]["lifecycle"] <= LifecycleCap
    <3>1. slots[s]["nested"] \in Nat /\ slots[s]["lifecycle"] \in Nat
      BY DEF IndInv, TypeOK, Slots
    <3> QED  BY <3>1 DEF IndInv, SlotAccounting
  <2>2. slots'[s]["nested"] \in Nat /\ slots'[s]["lifecycle"] \in Nat
    BY <1>5 DEF Slots
  <2>3. slots'[s]["nested"] <= slots[s]["nested"] /\ slots'[s]["lifecycle"] <= slots[s]["lifecycle"]
    BY <1>8
  <2> QED  BY <2>1, <2>2, <2>3, BoundsAssumption
<1> QED  BY <1>4, <1>6, <1>7, <1>9 DEF SlotAccounting

\* Discarding records frees exactly their frames of the wire budget.
LEMMA SettleBudget ==
  ASSUME NEW out, NEW R, NEW down, IndInv, Settle(out, R, down),
         SoundStep(out, R, down)
  PROVE  BudgetAccounting' /\ frames' \in [Sessions -> Nat]
<1> DEFINE Charged(s) == {c \in Owned(records, s) : slot[c] # "lifecycle"}
<1>1. PICK T \in SUBSET UNION {queue[s] : s \in Sessions} :
        LET started == {c \in T : Startable(c)}
            gone == R \union (T \ started)
        IN  /\ records' = records \ gone
            /\ slot' = [c \in Contexts |->
                          IF c \in gone THEN "none"
                          ELSE IF c \in started THEN "ordinary" ELSE slot[c]]
            /\ frames' = FramesAfter(gone)
  BY DEF Settle
<1> DEFINE started == {c \in T : Startable(c)}
           gone == R \union (T \ started)
           Paid(s) == {c \in Owned(gone, s) : slot[c] # "lifecycle"}
<1>2. T \subseteq records /\ \A c \in T : slot[c] = "none"
  BY DEF IndInv, QueueHoldsTheUnslotted, Owned
<1>3. ASSUME NEW s \in Sessions
      PROVE  /\ frames'[s] = Cardinality({c \in Owned(records, s) : slot[c] # "lifecycle"}')
             /\ frames'[s] \in Nat
  <2>1. {c \in Owned(records, s) : slot[c] # "lifecycle"}' = Charged(s) \ Paid(s)
    BY <1>1, <1>2 DEF Owned, SoundStep, identity, IndInv, TypeOK
  <2>2. Charged(s) \in SUBSET Contexts /\ Paid(s) \in SUBSET Charged(s)
    BY <1>2 DEF Owned, SoundStep, IndInv, TypeOK
  <2>3. frames'[s] = Cardinality(Charged(s)) - Cardinality(Paid(s))
    BY <1>1 DEF FramesAfter, IndInv, BudgetAccounting
  <2> HIDE DEF Charged, Paid
  <2> QED  BY <2>1, <2>2, <2>3, CardinalityDrops
<1> QED  BY <1>1, <1>3 DEF BudgetAccounting, FramesAfter

\* After a settlement the queues again hold the open contexts without a slot,
\* once each.
LEMMA SettleQueue ==
  ASSUME NEW out, NEW R, NEW down, IndInv, Settle(out, R, down),
         SoundStep(out, R, down)
  PROVE  QueueHoldsTheUnslotted' /\ queue' \in [Sessions -> SUBSET Contexts]
<1>1. PICK T \in SUBSET UNION {queue[s] : s \in Sessions} :
        LET started == {c \in T : Startable(c)}
            gone == R \union (T \ started)
        IN  /\ records' = records \ gone
            /\ slot' = [c \in Contexts |->
                          IF c \in gone THEN "none"
                          ELSE IF c \in started THEN "ordinary" ELSE slot[c]]
            /\ queue' = QueueAfter(R, T)
  BY DEF Settle
<1>2. T \subseteq records /\ \A c \in T : slot[c] = "none"
  BY DEF IndInv, QueueHoldsTheUnslotted, Owned
<1>3. ASSUME NEW s \in Sessions
      PROVE  queue'[s] = {c \in Owned(records, s) : slot[c] = "none"}'
  BY <1>1, <1>2 DEF QueueAfter, Owned, SoundStep, identity, IndInv, TypeOK,
                     QueueHoldsTheUnslotted
<1>4. ASSUME NEW s \in Sessions, NEW c \in queue'[s]
      PROVE  line'[c] = {} /\ offer'[c] = "none"
  BY <1>1, <1>4 DEF QueueAfter, SoundStep, identity, IndInv, TypeOK,
                    QueueHoldsTheUnslotted, Forget
<1>5. queue' \in [Sessions -> SUBSET Contexts]
  BY <1>1 DEF QueueAfter, IndInv, TypeOK
<1> QED  BY <1>3, <1>4, <1>5 DEF QueueHoldsTheUnslotted

\* After a settlement a root waits only when no ordinary slot is free.
LEMMA SettleConserves ==
  ASSUME NEW out, NEW R, NEW down, IndInv, Settle(out, R, down),
         SoundStep(out, R, down)
  PROVE  WorkConserving'
<1>1. PICK T \in SUBSET UNION {queue[s] : s \in Sessions} :
        LET started == {c \in T : Startable(c)}
        IN  /\ T \intersect R = {}
            /\ \A s \in Sessions : Drained(s, R, down, T)
            /\ queue' = QueueAfter(R, T)
            /\ slots' = SlotsAfter(R, started)
  BY DEF Settle
<1> DEFINE started == {c \in T : Startable(c)}
<1>2. \A c \in T : c \in queue[owner[c]] /\ c \in records
  BY DEF IndInv, QueueHoldsTheUnslotted, Owned
<1>3. SUFFICES ASSUME NEW s \in Sessions, s \notin down, queue'[s] # {}
               PROVE  slots'[s]["ordinary"] = OrdinaryCap
  BY DEF WorkConserving, SoundStep
<1> DEFINE RO == {c \in Owned(R, s) : slot[c] = "ordinary"}
<1>4. slots'[s]["ordinary"]
        = (slots[s]["ordinary"] - Cardinality(RO)) + Cardinality(Owned(started, s))
  BY <1>1 DEF SlotsAfter, Slots
<1>5. Owned(started, s) = {c \in T \intersect Waiting(s, R) : Startable(c)}
  BY <1>1, <1>2 DEF Owned, Waiting, IndInv, QueueHoldsTheUnslotted
<1>6. /\ slots[s]["ordinary"] \in Nat /\ OrdinaryCap \in Nat
      /\ Cardinality(RO) \in Nat /\ Cardinality(Owned(started, s)) \in Nat
  <2>1. RO \in SUBSET Contexts /\ Owned(started, s) \in SUBSET Contexts
    BY <1>2 DEF Owned, SoundStep, IndInv, TypeOK
  <2> QED  BY <2>1, FiniteContexts, BoundsAssumption DEF IndInv, TypeOK, Slots
<1>7. Drained(s, R, down, T)
  BY <1>1
<1>8. CASE Owned(R, s) = {}
  <2>1. RO = {} /\ Owned(started, s) = {}
    BY <1>3, <1>5, <1>7, <1>8 DEF Drained
  <2>2. queue[s] # {} /\ s \notin failed
    BY <1>1, <1>3 DEF QueueAfter, SoundStep
  <2>3. slots[s]["ordinary"] = OrdinaryCap
    BY <2>2 DEF IndInv, WorkConserving
  <2> HIDE DEF RO, started
  <2> QED  BY <1>4, <1>6, <2>1, <2>3, EmptyCardinality
<1>9. CASE Owned(R, s) # {}
  <2>1. T \intersect Waiting(s, R) # Waiting(s, R)
    BY <1>1, <1>3 DEF QueueAfter, Waiting
  <2>2. Cardinality(Owned(started, s)) = FreeOrdinary(s, R)
    BY <1>3, <1>5, <1>7, <1>9, <2>1 DEF Drained
  <2> QED  BY <1>4, <1>6, <2>2 DEF FreeOrdinary
<1> QED  BY <1>8, <1>9

\* A settlement keeps every variable within its type.
LEMMA SettleTypes ==
  ASSUME NEW out, NEW R, NEW down, IndInv, Settle(out, R, down),
         SoundStep(out, R, down)
  PROVE  TypeOK'
<1>1. PICK T \in SUBSET UNION {queue[s] : s \in Sessions} :
        LET dropped == T \ {c \in T : Startable(c)}
        IN  /\ terminal' = [c \in Contexts |->
                              IF c \in DOMAIN out THEN out[c]
                              ELSE IF c \in dropped THEN LapseCode(c)
                              ELSE terminal[c]]
            /\ lapsed' = [c \in Contexts |->
                            IF c \in (DOMAIN out) \union dropped THEN "none"
                            ELSE lapsed[c]]
            /\ records' \subseteq records
            /\ slot' = [c \in Contexts |->
                          IF c \in R \union dropped THEN "none"
                          ELSE IF c \in T \ dropped THEN "ordinary" ELSE slot[c]]
  <2>1. PICK T \in SUBSET UNION {queue[s] : s \in Sessions} :
        LET started == {c \in T : Startable(c)}
            dropped == T \ started
        IN  /\ terminal' = [c \in Contexts |->
                              IF c \in DOMAIN out THEN out[c]
                              ELSE IF c \in dropped THEN LapseCode(c)
                              ELSE terminal[c]]
            /\ lapsed' = [c \in Contexts |->
                            IF c \in (DOMAIN out) \union dropped THEN "none"
                            ELSE lapsed[c]]
            /\ records' = records \ (R \union dropped)
            /\ slot' = [c \in Contexts |->
                          IF c \in R \union dropped THEN "none"
                          ELSE IF c \in started THEN "ordinary" ELSE slot[c]]
    BY DEF Settle
  <2> WITNESS T \in SUBSET UNION {queue[s] : s \in Sessions}
  <2> QED  BY <2>1
<1>2. \A c \in Contexts : LapseCode(c) \in Outcomes
  BY DEF LapseCode, Outcomes, Lapses, IndInv, TypeOK
<1>3. terminal' \in [Contexts -> Outcomes \union {"none"}]
  BY <1>1, <1>2 DEF SoundStep, IndInv, TypeOK
<1>4. lapsed' \in [Contexts -> Lapses \union {"none"}]
  BY <1>1 DEF IndInv, TypeOK
<1>5. slot' \in [Contexts -> Slots \union {"none"}]
  BY <1>1 DEF IndInv, TypeOK, Slots
<1>6. records' \in SUBSET Contexts
  BY <1>1 DEF IndInv, TypeOK
<1>7. offer' \in [Contexts -> {"none", "sent", "ready"}]
  BY DEF SoundStep, Forget, IndInv, TypeOK
<1>8. slots' \in [Sessions -> [Slots -> Nat]]
  BY SettleSlots
<1>9. frames' \in [Sessions -> Nat]
  BY SettleBudget
<1>10. queue' \in [Sessions -> SUBSET Contexts]
  BY SettleQueue
<1>11. /\ counter' \in 0 .. MaxContexts
       /\ owner' \in [Contexts -> Sessions \union {NoSession}]
       /\ line' \in [Contexts -> SUBSET Contexts]
       /\ failed' \in SUBSET Sessions /\ reaped' \in SUBSET Sessions
  BY DEF SoundStep, identity, IndInv, TypeOK
<1> QED  BY <1>3, <1>4, <1>5, <1>6, <1>7, <1>8, <1>9, <1>10, <1>11 DEF TypeOK

\* What a settlement does to the contexts, without its accounting.
LEMMA SettleContexts ==
  ASSUME NEW out, NEW R, NEW down, IndInv, Settle(out, R, down),
         SoundStep(out, R, down)
  PROVE  \E dropped \in SUBSET records :
           /\ \A c \in dropped : slot[c] = "none" /\ c \notin R
           /\ \A c \in Contexts :
                /\ terminal'[c] # "none" <=>
                     terminal[c] # "none" \/ c \in DOMAIN out \/ c \in dropped
                /\ c \notin records' => slot'[c] = "none" \/ c \notin records
                /\ slot[c] # "none" /\ c \in records' => slot'[c] = slot[c]
                /\ slot[c] = "none" /\ c \notin records => slot'[c] = "none"
           /\ records' = records \ (R \union dropped)
<1>1. PICK T \in SUBSET UNION {queue[s] : s \in Sessions} :
        LET started == {c \in T : Startable(c)}
            dropped == T \ started
        IN  /\ T \intersect R = {}
            /\ terminal' = [c \in Contexts |->
                              IF c \in DOMAIN out THEN out[c]
                              ELSE IF c \in dropped THEN LapseCode(c)
                              ELSE terminal[c]]
            /\ records' = records \ (R \union dropped)
            /\ slot' = [c \in Contexts |->
                          IF c \in R \union dropped THEN "none"
                          ELSE IF c \in started THEN "ordinary" ELSE slot[c]]
  BY DEF Settle
<1> DEFINE dropped == T \ {c \in T : Startable(c)}
<1>2. T \subseteq records /\ \A c \in T : slot[c] = "none"
  BY DEF IndInv, QueueHoldsTheUnslotted, Owned
<1>3. /\ \A c \in Contexts : LapseCode(c) # "none"
      /\ \A c \in DOMAIN out : out[c] # "none" /\ c \in Contexts
      /\ records \subseteq Contexts /\ R \subseteq records
  <2>1. \A c \in Contexts : LapseCode(c) # "none"
    BY DEF LapseCode
  <2>2. \A c \in DOMAIN out : out[c] # "none"
    BY DEF SoundStep, Outcomes, Lapses
  <2>3. \A c \in DOMAIN out : c \in Contexts
    BY CreatedContexts DEF SoundStep, Unfinished, IndInv
  <2> QED  BY <2>1, <2>2, <2>3 DEF SoundStep, IndInv, TypeOK
<1>4. dropped \in SUBSET records
  BY <1>2
<1> WITNESS dropped \in SUBSET records
<1> QED  BY <1>1, <1>2, <1>3, <1>4

\* A settlement keeps contexts and records consistent with each other.
LEMMA SettleStructure ==
  ASSUME NEW out, NEW R, NEW down, IndInv, Settle(out, R, down),
         SoundStep(out, R, down)
  PROVE  Shape' /\ FamilyEndsTogether' /\ RecordLifetime' /\ FailureIsFinal'
<1>1. PICK dropped \in SUBSET records :
           /\ \A c \in dropped : slot[c] = "none" /\ c \notin R
           /\ \A c \in Contexts :
                /\ terminal'[c] # "none" <=>
                     terminal[c] # "none" \/ c \in DOMAIN out \/ c \in dropped
                /\ c \notin records' => slot'[c] = "none" \/ c \notin records
                /\ slot[c] # "none" /\ c \in records' => slot'[c] = slot[c]
                /\ slot[c] = "none" /\ c \notin records => slot'[c] = "none"
           /\ records' = records \ (R \union dropped)
  BY SettleContexts
<1>2. /\ Created' = Created /\ owner' = owner /\ line' = line
      /\ Created \subseteq Contexts /\ records \subseteq Created
      /\ \A c \in Created : owner[c] \in Sessions
  <2>1. counter' = counter /\ owner' = owner /\ line' = line
    BY DEF SoundStep, identity
  <2> QED  BY <2>1, CreatedContexts DEF Created, IndInv, Shape
<1>3. \A c \in Contexts : offer'[c] = IF c \in records' THEN offer[c] ELSE "none"
  BY DEF SoundStep, Forget
<1>4. Shape'
  <2>1. reaped' \subseteq failed'
    BY DEF SoundStep
  <2>2. \A c \in Created : \A x \in line[c] :
          x \in Created /\ line[x] \subseteq line[c] /\ (x \in records' => slot'[x] # "none")
    BY <1>1, <1>2 DEF IndInv, Shape
  <2>3. \A c \in Contexts \ records' : slot'[c] = "none" /\ offer'[c] = "none"
    BY <1>1, <1>3 DEF IndInv, Shape
  <2>4. \A c \in Contexts \ Created : terminal'[c] = "none" /\ line[c] = {} /\ owner[c] = NoSession
    BY <1>1, <1>2 DEF IndInv, Shape, SoundStep, Unfinished
  <2>5. \A c \in Contexts \ Created : lapsed'[c] = "none"
    <3>1. \A c \in Contexts : lapsed[c] = "none" => lapsed'[c] = "none"
      BY DEF Settle
    <3> QED  BY <3>1 DEF IndInv, Shape
  <2> QED  BY <1>1, <1>2, <2>1, <2>2, <2>3, <2>4, <2>5 DEF Shape
<1>5. FamilyEndsTogether'
  <2>1. SUFFICES ASSUME NEW c \in Created, NEW x \in line[c], terminal'[x] # "none"
                 PROVE  terminal'[c] # "none"
    BY <1>2 DEF FamilyEndsTogether, Created
  <2>2. x \in Created /\ x \in Contexts /\ c \in Contexts /\ x \notin dropped
    BY <1>1, <1>2 DEF IndInv, Shape
  <2>3. CASE terminal[x] # "none"
    BY <1>1, <2>2, <2>3 DEF IndInv, FamilyEndsTogether, Created
  <2>4. CASE x \in DOMAIN out
    BY <1>1, <2>2, <2>4 DEF SoundStep
  <2> QED  BY <1>1, <2>1, <2>2, <2>3, <2>4
<1>6. RecordLifetime'
  <2>1. SUFFICES ASSUME NEW c \in Created
                 PROVE  /\ c \in records' => \/ terminal'[c] = "none" \/ offer'[c] = "sent"
                                             \/ owner[c] \in failed' \ reaped'
                        /\ terminal'[c] = "none" => c \in records'
    BY <1>2 DEF RecordLifetime, Created
  <2>2. /\ c \in records => \/ terminal[c] = "none" \/ offer[c] = "sent"
                            \/ owner[c] \in failed \ reaped
        /\ terminal[c] = "none" => c \in records
    BY DEF IndInv, RecordLifetime, Created
  <2>3. c \in Contexts /\ (c \in dropped => c \notin records')
    BY <1>1, <1>2
  <2>4. ASSUME c \in records', terminal'[c] # "none"
        PROVE  offer'[c] = "sent" \/ owner[c] \in failed' \ reaped'
    <3>1. c \in records /\ c \notin R /\ c \notin dropped /\ owner[c] \notin reaped'
      BY <1>1, <2>1, <2>4 DEF SoundStep
    <3>2. CASE c \in DOMAIN out
      BY <1>3, <2>3, <2>4, <3>1, <3>2 DEF SoundStep
    <3>3. CASE terminal[c] # "none"
      BY <1>3, <2>2, <2>3, <2>4, <3>1, <3>3 DEF SoundStep
    <3> QED  BY <1>1, <2>3, <2>4, <3>1, <3>2, <3>3
  <2>5. ASSUME terminal'[c] = "none" PROVE c \in records'
    BY <1>1, <2>2, <2>3, <2>5 DEF SoundStep
  <2> QED  BY <2>4, <2>5
<1>7. FailureIsFinal'
  BY <1>1, <1>2 DEF FailureIsFinal, Created, SoundStep
<1> QED  BY <1>4, <1>5, <1>6, <1>7

\* A settlement of a sound set of contexts preserves the inductive invariant.
LEMMA SettlePreserves ==
  ASSUME IndInv, Settlement
  PROVE  IndInv'
<1>1. PICK out, R, down : Settle(out, R, down) /\ SoundStep(out, R, down)
  BY DEF Settlement
<1> QED
  BY <1>1, SettleSlots, SettleBudget, SettleQueue, SettleConserves, SettleTypes,
     SettleStructure DEF IndInv

-----------------------------------------------------------------------------
(* Every operation that ends contexts is a sound settlement.               *)

\* finishContext ends a context together with all its descendants.
LEMMA FinishedClosed ==
  ASSUME IndInv, NEW c \in Created, NEW code \in Outcomes
  PROVE  /\ DOMAIN Finished(c, code) = Unfinished(Family(c))
         /\ DOMAIN Finished(c, code) \subseteq Unfinished(Created)
         /\ \A d \in DOMAIN Finished(c, code) : Finished(c, code)[d] \in Outcomes
         /\ \A d \in DOMAIN Finished(c, code) : \A e \in Created :
              d \in line[e] => e \in DOMAIN Finished(c, code) \/ terminal[e] # "none"
<1>1. DOMAIN Finished(c, code) = Unfinished(Family(c))
  BY DEF Finished
<1>2. \A d \in DOMAIN Finished(c, code) : Finished(c, code)[d] \in Outcomes
  BY DEF Finished, Outcomes
<1>3. Unfinished(Family(c)) \subseteq Unfinished(Created)
  BY DEF Unfinished, Family
<1>4. ASSUME NEW d \in Unfinished(Family(c)), NEW e \in Created, d \in line[e],
             terminal[e] = "none"
      PROVE  e \in Unfinished(Family(c))
  <2>1. d = c \/ c \in line[d]
    BY DEF Unfinished, Family
  <2>2. line[d] \subseteq line[e]
    BY <1>4 DEF IndInv, Shape
  <2> QED  BY <1>4, <2>1, <2>2 DEF Unfinished, Family
<1> QED  BY <1>1, <1>2, <1>3, <1>4

\* fail ends every context of the session together with their descendants.
LEMMA DoomedClosed ==
  ASSUME IndInv, NEW s \in Sessions
  PROVE  /\ Doomed(s) \subseteq Unfinished(Created)
         /\ \A d \in Doomed(s) : \A e \in Created :
              d \in line[e] => e \in Doomed(s) \/ terminal[e] # "none"
         /\ \A d \in Created :
              owner[d] = s => d \in Doomed(s) \/ terminal[d] # "none"
<1>1. ASSUME NEW d \in Doomed(s), NEW e \in Created, d \in line[e],
             terminal[e] = "none"
      PROVE  e \in Doomed(s)
  <2>1. PICK x \in line[d] \union {d} : owner[x] = s
    BY DEF Doomed
  <2>2. line[d] \subseteq line[e]
    BY <1>1 DEF IndInv, Shape
  <2> QED  BY <1>1, <2>1, <2>2 DEF Doomed, Unfinished
<1> QED  BY <1>1 DEF Doomed, Unfinished

\* Open contexts belong to healthy sessions only.
LEMMA OpenIsHealthy ==
  ASSUME IndInv, NEW c \in Unfinished(Created)
  PROVE  owner[c] \notin failed /\ owner[c] \in Sessions /\ c \in records
BY DEF IndInv, FailureIsFinal, Unfinished, Shape, Created, RecordLifetime

\* finishContext, for any reason, is a sound settlement.
LEMMA FinishContextStep ==
  ASSUME IndInv, NEW c \in Created, NEW code \in Outcomes,
         FinishContext(c, code)
  PROVE  Settlement
<1> DEFINE out == Finished(c, code)
           R == Releasable(DOMAIN out, failed)
<1>1. /\ Settle(out, R, failed) /\ UNCHANGED <<identity, physical>>
      /\ offer' = [d \in Contexts |-> Forget(d)]
  BY DEF FinishContext
<1>2. R \subseteq records /\ R \subseteq DOMAIN out /\ \A d \in R : owner[d] \notin failed
  BY DEF Releasable
<1>3. \A d \in (DOMAIN out \intersect records) \ R : offer[d] = "sent"
  BY FinishedClosed, OpenIsHealthy DEF Releasable
<1>4. failed' = failed /\ reaped' = reaped /\ failed \subseteq Sessions
      /\ reaped \subseteq failed
  BY <1>1 DEF physical, IndInv, TypeOK, Shape
<1>5. \A d \in Created : /\ owner[d] \in failed => terminal[d] # "none"
                         /\ owner[d] \in reaped => d \notin records
  BY DEF IndInv, FailureIsFinal, Created
<1>6. SoundStep(out, R, failed)
  <2>1. /\ DOMAIN out \subseteq Unfinished(Created)
        /\ \A d \in DOMAIN out : out[d] \in Outcomes
        /\ \A d \in DOMAIN out : \A e \in Created :
              d \in line[e] => e \in DOMAIN out \/ terminal[e] # "none"
    BY FinishedClosed
  <2> HIDE DEF out, R
  <2> QED  BY <1>1, <1>2, <1>3, <1>4, <1>5, <2>1 DEF SoundStep
<1> HIDE DEF out, R
<1> QED  BY <1>1, <1>6 DEF Settlement

\* fail is a sound settlement.
LEMMA FailStep ==
  ASSUME IndInv, NEW s \in Sessions, Fail(s)
  PROVE  Settlement
<1> DEFINE out == [d \in Doomed(s) |-> "UNAVAILABLE"]
           down == failed \union {s}
           R == Releasable(Doomed(s), down)
<1>1. /\ Settle(out, R, down) /\ UNCHANGED <<identity, reaped>>
      /\ failed' = down /\ offer' = [d \in Contexts |-> Forget(d)]
  BY DEF Fail
<1>2. /\ R \subseteq records /\ R \subseteq DOMAIN out /\ s \notin failed
      /\ \A d \in R : owner[d] \notin down
  BY DEF Releasable, Fail
<1>3. failed \subseteq Sessions /\ reaped \subseteq failed
  BY DEF IndInv, TypeOK, Shape
<1>4. \A d \in (DOMAIN out \intersect records) \ R :
         offer[d] = "sent" \/ owner[d] \in down \ reaped
  BY <1>2, <1>3, DoomedClosed, OpenIsHealthy DEF Releasable
<1>5. \A d \in Created :
         /\ owner[d] \in down => d \in DOMAIN out \/ terminal[d] # "none"
         /\ owner[d] \in reaped => d \notin records
  <2>1. \A d \in Created : /\ owner[d] \in failed => terminal[d] # "none"
                           /\ owner[d] \in reaped => d \notin records
    BY DEF IndInv, FailureIsFinal, Created
  <2> QED  BY <2>1, DoomedClosed
<1>6. SoundStep(out, R, down)
  <2>1. /\ DOMAIN out \subseteq Unfinished(Created)
        /\ \A d \in DOMAIN out : out[d] \in Outcomes
        /\ \A d \in DOMAIN out : \A e \in Created :
              d \in line[e] => e \in DOMAIN out \/ terminal[e] # "none"
    BY DoomedClosed DEF Outcomes
  <2>2. failed \subseteq down /\ down \subseteq Sessions /\ reaped \subseteq down
    BY <1>3
  <2> HIDE DEF out, R, down
  <2> QED  BY <1>1, <1>2, <1>4, <1>5, <2>1, <2>2 DEF SoundStep
<1> HIDE DEF out, R, down
<1> QED  BY <1>1, <1>6 DEF Settlement

\* reaped is a sound settlement.
LEMMA ReapedStep ==
  ASSUME IndInv, NEW s \in Sessions, Reaped(s)
  PROVE  Settlement
<1> DEFINE out == [d \in Doomed(s) |-> "UNAVAILABLE"]
           down == failed \union {s}
           R == Releasable(Doomed(s), down) \union Owned(records, s)
<1>1. /\ Settle(out, R, down) /\ UNCHANGED identity
      /\ failed' = down /\ reaped' = reaped \union {s}
      /\ offer' = [d \in Contexts |-> Forget(d)]
  BY DEF Reaped
<1>2. /\ R \subseteq records
      /\ \A d \in R : /\ d \in DOMAIN out \/ terminal[d] # "none"
                     /\ owner[d] \notin down \ (reaped \union {s})
  <2>1. R \subseteq records
    BY DEF Releasable, Owned
  <2>2. records \subseteq Created
    BY DEF IndInv, Shape
  <2> QED  BY <2>1, <2>2, DoomedClosed DEF Releasable, Owned
<1>3. failed \subseteq Sessions /\ reaped \subseteq failed
  BY DEF IndInv, TypeOK, Shape
<1>4. \A d \in (DOMAIN out \intersect records) \ R : offer[d] = "sent"
  BY DoomedClosed, OpenIsHealthy DEF Releasable, Owned
<1>5. \A d \in Created :
         /\ owner[d] \in down => d \in DOMAIN out \/ terminal[d] # "none"
         /\ owner[d] \in reaped \union {s} => d \notin records \/ d \in R
  <2>1. \A d \in Created : /\ owner[d] \in failed => terminal[d] # "none"
                           /\ owner[d] \in reaped => d \notin records
    BY DEF IndInv, FailureIsFinal, Created
  <2> QED  BY <2>1, DoomedClosed DEF Owned
<1>6. SoundStep(out, R, down)
  <2>1. /\ DOMAIN out \subseteq Unfinished(Created)
        /\ \A d \in DOMAIN out : out[d] \in Outcomes
        /\ \A d \in DOMAIN out : \A e \in Created :
              d \in line[e] => e \in DOMAIN out \/ terminal[e] # "none"
    BY DoomedClosed DEF Outcomes
  <2>2. /\ failed \subseteq down /\ down \subseteq Sessions
        /\ reaped \subseteq reaped' /\ reaped' \subseteq down
    BY <1>1, <1>3
  <2> HIDE DEF out, R, down
  <2> QED  BY <1>1, <1>2, <1>4, <1>5, <2>1, <2>2 DEF SoundStep
<1> HIDE DEF out, R, down
<1> QED  BY <1>1, <1>6 DEF Settlement

\* Steps that only change offers or the environment's view of a context that
\* is still open leave everything else alone.
LEMMA QuietStep ==
  ASSUME IndInv, UNCHANGED <<identity, terminal, broker, physical>>,
         lapsed' \in [Contexts -> Lapses \union {"none"}],
         \A c \in Contexts \ Created : lapsed'[c] = "none",
         offer' \in [Contexts -> {"none", "sent", "ready"}],
         \A c \in Contexts : offer'[c] # offer[c] =>
            c \in records /\ slot[c] # "none" /\ terminal[c] = "none"
  PROVE  IndInv'
<1>1. /\ counter' = counter /\ owner' = owner /\ line' = line
      /\ terminal' = terminal /\ records' = records /\ slot' = slot
      /\ queue' = queue /\ slots' = slots /\ frames' = frames
      /\ failed' = failed /\ reaped' = reaped
  BY DEF identity, broker, physical
<1>2. TypeOK'
  BY <1>1 DEF IndInv, TypeOK
<1>3. Shape'
  BY <1>1 DEF IndInv, Shape, Created
<1>4. SlotAccounting' /\ BudgetAccounting' /\ WorkConserving'
  BY <1>1 DEF IndInv, SlotAccounting, BudgetAccounting, WorkConserving, Owned
<1>5. QueueHoldsTheUnslotted'
  BY <1>1 DEF IndInv, QueueHoldsTheUnslotted, Owned, TypeOK
<1>6. FamilyEndsTogether' /\ FailureIsFinal'
  BY <1>1 DEF IndInv, FamilyEndsTogether, FailureIsFinal
<1>7. RecordLifetime'
  <2>1. \A c \in Created : c \in Contexts
    BY CreatedContexts DEF IndInv
  <2> QED  BY <1>1, <2>1 DEF IndInv, RecordLifetime, Created
<1> QED  BY <1>2, <1>3, <1>4, <1>5, <1>6, <1>7 DEF IndInv

\* acknowledge is a sound settlement, or changes an offer only.
LEMMA AcknowledgeStep ==
  ASSUME IndInv, NEW c \in Contexts, Acknowledge(c)
  PROVE  Settlement \/ (UNCHANGED <<identity, terminal, broker, physical>> /\ IndInv')
<1>1. /\ c \in records /\ c \in Created /\ offer[c] = "sent" /\ owner[c] \notin failed
      /\ UNCHANGED <<identity, physical>>
      /\ offer' = [d \in Contexts |->
                     IF d = c /\ Live(c) THEN "ready" ELSE Forget(d)]
  BY DEF Acknowledge, IndInv, Shape
<1>2. failed' = failed /\ reaped' = reaped /\ failed \subseteq Sessions
      /\ reaped \subseteq failed
  BY <1>1 DEF physical, IndInv, TypeOK, Shape
<1>3. \A d \in Created : /\ owner[d] \in failed => terminal[d] # "none"
                         /\ owner[d] \in reaped => d \notin records
  BY DEF IndInv, FailureIsFinal, Created
<1>4. CASE terminal[c] # "none" /\ Settle(NoOutcome, {c}, failed)
  <2>1. offer' = [d \in Contexts |-> Forget(d)]
    BY <1>1, <1>4 DEF Live
  <2>2. SoundStep(NoOutcome, {c}, failed)
    BY <1>1, <1>2, <1>3, <1>4, <2>1 DEF SoundStep, NoOutcome
  <2> QED  BY <1>4, <2>2 DEF Settlement
<1>5. ASSUME terminal[c] = "none", ~Live(c),
             LET out == Finished(c, LapseCode(c))
             IN  Settle(out, Releasable(DOMAIN out, failed) \union {c}, failed)
      PROVE  Settlement
  <2> DEFINE out == Finished(c, LapseCode(c))
             R == Releasable(DOMAIN out, failed) \union {c}
  <2>1. offer' = [d \in Contexts |-> Forget(d)] /\ Settle(out, R, failed)
    BY <1>1, <1>5
  <2>2. LapseCode(c) \in Outcomes
    BY DEF LapseCode, Outcomes, Lapses, IndInv, TypeOK
  <2>3. /\ c \in DOMAIN out /\ R \subseteq records /\ R \subseteq DOMAIN out
        /\ \A d \in R : owner[d] \notin failed
    <3>1. DOMAIN out = Unfinished(Family(c))
      BY <1>1, <2>2, FinishedClosed
    <3>2. c \in Unfinished(Family(c))
      BY <1>1, <1>5 DEF Unfinished, Family
    <3> QED  BY <1>1, <3>1, <3>2 DEF Releasable
  <2>4. \A d \in (DOMAIN out \intersect records) \ R : offer[d] = "sent"
    BY <1>1, <2>2, FinishedClosed, OpenIsHealthy DEF Releasable
  <2>5. /\ DOMAIN out \subseteq Unfinished(Created)
        /\ \A d \in DOMAIN out : out[d] \in Outcomes
        /\ \A d \in DOMAIN out : \A e \in Created :
              d \in line[e] => e \in DOMAIN out \/ terminal[e] # "none"
    BY <1>1, <2>2, FinishedClosed
  <2> HIDE DEF out, R
  <2>6. SoundStep(out, R, failed)
    BY <1>1, <1>2, <1>3, <2>1, <2>3, <2>4, <2>5 DEF SoundStep
  <2> QED  BY <2>1, <2>6 DEF Settlement
<1>6. CASE Live(c) /\ UNCHANGED <<contexts, broker>>
  <2>1. terminal[c] = "none" /\ terminal' = terminal /\ lapsed' = lapsed /\ records' = records
    BY <1>6 DEF Live, contexts, broker
  <2>2. offer' = [offer EXCEPT ![c] = "ready"]
    BY <1>1, <1>6, <2>1 DEF Forget, IndInv, Shape, TypeOK
  <2>3. slot[c] # "none"
    BY <1>1 DEF IndInv, QueueHoldsTheUnslotted, Owned, Shape
  <2>4. UNCHANGED <<identity, terminal, broker, physical>>
    BY <1>1, <1>6, <2>1
  <2> QED  BY <1>1, <2>1, <2>2, <2>3, <2>4, QuietStep DEF IndInv, TypeOK, Shape
<1> QED  BY <1>4, <1>5, <1>6 DEF Acknowledge

\* The operations that change no account preserve the inductive invariant.
LEMMA QuietOperations ==
  ASSUME IndInv, NEW c \in Contexts, Offer(c) \/ Expire(c) \/ Revoke(c)
  PROVE  IndInv'
<1>1. CASE Offer(c)
  <2>1. terminal[c] = "none"
    BY <1>1 DEF Offer, Live
  <2> QED  BY <1>1, <2>1, QuietStep DEF Offer, contexts, IndInv, TypeOK, Shape
<1>2. CASE Expire(c) \/ Revoke(c)
  BY <1>2, QuietStep DEF Expire, Revoke, Unfinished, IndInv, TypeOK, Shape, Lapses
<1> QED  BY <1>1, <1>2

-----------------------------------------------------------------------------
(* Admission.                                                              *)

\* admit preserves the inductive invariant, with or without a free slot.
LEMMA AdmitStep ==
  ASSUME IndInv, NEW s \in Sessions, NEW lifecycle \in BOOLEAN,
         NEW par \in Contexts \union {NoContext}, Admit(s, lifecycle, par)
  PROVE  IndInv'
<1> DEFINE c == counter + 1
           k == SlotFor(s, lifecycle, par # NoContext)
<1>1. /\ c \in Contexts /\ c \notin Created /\ c \notin records
      /\ counter \in Nat /\ counter' = c /\ Created' = Created \union {c}
      /\ Created \subseteq Contexts /\ records \subseteq Created
  <2>1. counter \in Nat /\ MaxContexts \in Nat /\ counter < MaxContexts
    BY BoundsAssumption DEF Admit, IndInv, TypeOK
  <2>2. counter' = c
    BY DEF Admit
  <2>3. records \subseteq Created /\ Created \subseteq Contexts
    BY CreatedContexts DEF IndInv, Shape
  <2> QED  BY <2>1, <2>2, <2>3 DEF Created, Contexts
<1>2. /\ s \notin failed /\ MayBeParent(par)
      /\ k = "none" => par = NoContext /\ ~lifecycle
      /\ owner' = [owner EXCEPT ![c] = s]
      /\ line' = [line EXCEPT ![c] = ParentLine(par)]
      /\ records' = records \union {c}
      /\ frames' = [frames EXCEPT ![s] = IF lifecycle THEN @ ELSE @ + 1]
      /\ terminal' = terminal /\ lapsed' = lapsed /\ offer' = offer
      /\ failed' = failed /\ reaped' = reaped
  BY DEF Admit, AdmitsWork, contexts, physical
<1>3. /\ k \in Slots \union {"none"}
      /\ lifecycle <=> k = "lifecycle" \/ (lifecycle /\ k = "none")
      /\ k = "ordinary" => slots[s]["ordinary"] < OrdinaryCap
      /\ k = "nested" => slots[s]["nested"] < NestedCap
      /\ k = "lifecycle" => slots[s]["lifecycle"] < LifecycleCap
      /\ k = "none" /\ ~lifecycle => ~(slots[s]["ordinary"] < OrdinaryCap)
  BY DEF SlotFor, Slots
<1>4. \/ /\ k = "none" /\ slot' = slot /\ slots' = slots
         /\ queue' = [queue EXCEPT ![s] = @ \union {c}]
      \/ /\ k # "none" /\ slot' = [slot EXCEPT ![c] = k]
         /\ slots' = [slots EXCEPT ![s][k] = @ + 1] /\ queue' = queue
  BY DEF Admit
<1>5. /\ terminal[c] = "none" /\ slot[c] = "none" /\ offer[c] = "none"
      /\ \A d \in Created : c \notin line[d] /\ d # c
  BY <1>1 DEF IndInv, Shape
<1>6. slot'[c] = k /\ \A d \in Contexts : d # c => slot'[d] = slot[d]
  BY <1>1, <1>4, <1>5 DEF IndInv, TypeOK
<1>7. /\ owner'[c] = s /\ line'[c] = ParentLine(par)
      /\ \A d \in Contexts : d # c => owner'[d] = owner[d] /\ line'[d] = line[d]
  BY <1>1, <1>2 DEF IndInv, TypeOK
<1>8. ParentLine(par) \subseteq Created /\
      \A x \in ParentLine(par) :
        /\ terminal[x] = "none" /\ line[x] \subseteq ParentLine(par)
        /\ x \in records => slot[x] # "none"
  <2>1. CASE par = NoContext
    BY <2>1 DEF ParentLine
  <2>2. CASE par # NoContext
    <3>1. par \in records /\ slot[par] # "none" /\ Live(par) /\ par \in Created
      BY <1>1, <1>2, <2>2 DEF MayBeParent
    <3> QED  BY <2>2, <3>1 DEF ParentLine, Live, IndInv, Shape
  <2> QED  BY <2>1, <2>2
<1> HIDE DEF c, k
<1>9. TypeOK'
  <2>1. slots' \in [Sessions -> [Slots -> Nat]]
    <3>1. CASE k = "none"
      BY <1>4, <3>1 DEF IndInv, TypeOK
    <3>2. CASE k # "none"
      <4>1. /\ k \in Slots /\ slots \in [Sessions -> [Slots -> Nat]]
            /\ slots' = [slots EXCEPT ![s][k] = @ + 1]
        BY <1>3, <1>4, <3>2 DEF IndInv, TypeOK
      <4>2. slots[s] \in [Slots -> Nat] /\ slots[s][k] + 1 \in Nat
        BY <4>1
      <4> QED  BY <4>1, <4>2
    <3> QED  BY <3>1, <3>2
  <2>2. counter' \in 0 .. MaxContexts
    BY <1>1, BoundsAssumption DEF Contexts
  <2>3. slot' \in [Contexts -> Slots \union {"none"}] /\ queue' \in [Sessions -> SUBSET Contexts]
    <3>1. slot \in [Contexts -> Slots \union {"none"}] /\ queue \in [Sessions -> SUBSET Contexts]
      BY DEF IndInv, TypeOK
    <3> QED  BY <1>1, <1>3, <1>4, <3>1
  <2>4. frames' \in [Sessions -> Nat]
    BY <1>2 DEF IndInv, TypeOK
  <2>5. owner' \in [Contexts -> Sessions \union {NoSession}] /\ line' \in [Contexts -> SUBSET Contexts]
    BY <1>1, <1>2, <1>8 DEF IndInv, TypeOK
  <2> QED  BY <1>1, <1>2, <2>1, <2>2, <2>3, <2>4, <2>5 DEF IndInv, TypeOK
<1>10. Shape'
  <2>1. \A d \in Created' : owner'[d] \in Sessions
    BY <1>1, <1>7 DEF IndInv, Shape
  <2>2. ASSUME NEW d \in Created', NEW x \in line'[d]
        PROVE  x \in Created' /\ line'[x] \subseteq line'[d] /\ (x \in records' => slot'[x] # "none")
    <3>1. CASE d = c
      BY <1>1, <1>2, <1>5, <1>6, <1>7, <1>8, <2>2, <3>1
    <3>2. CASE d # c
      <4>1. d \in Created /\ x \in line[d] /\ line'[d] = line[d]
        BY <1>1, <1>7, <2>2, <3>2
      <4>2. x \in Created /\ line[x] \subseteq line[d] /\ (x \in records => slot[x] # "none") /\ x # c
        BY <1>5, <4>1 DEF IndInv, Shape
      <4> QED  BY <1>1, <1>2, <1>6, <1>7, <4>1, <4>2
    <3> QED  BY <3>1, <3>2
  <2>3. \A d \in Contexts \ records' : slot'[d] = "none" /\ offer'[d] = "none"
    BY <1>2, <1>6 DEF IndInv, Shape
  <2>4. \A d \in Contexts \ Created' : /\ terminal'[d] = "none" /\ lapsed'[d] = "none"
                                     /\ line'[d] = {} /\ owner'[d] = NoSession
    BY <1>1, <1>2, <1>7 DEF IndInv, Shape
  <2>5. records' \subseteq Created' /\ reaped' \subseteq failed'
    BY <1>1, <1>2 DEF IndInv, Shape
  <2> QED  BY <2>1, <2>2, <2>3, <2>4, <2>5 DEF Shape
<1>11. SlotAccounting'
  <2> DEFINE Holders(t, j) == {d \in Owned(records, t) : slot[d] = j}
  <2>1. ASSUME NEW t \in Sessions, NEW j \in Slots
        PROVE  slots'[t][j] = Cardinality({d \in Owned(records, t) : slot[d] = j}')
    <3>1. /\ Holders(t, j) \in SUBSET Contexts /\ c \notin Holders(t, j)
          /\ slots[t][j] = Cardinality(Holders(t, j))
      BY <1>1 DEF Owned, IndInv, TypeOK, SlotAccounting
    <3>2. CASE t = s /\ j = k
      <4>1. {d \in Owned(records, t) : slot[d] = j}' = Holders(t, j) \union {c}
        BY <1>1, <1>2, <1>6, <1>7, <3>2 DEF Owned
      <4>2. slots'[t][j] = slots[t][j] + 1
        BY <1>4, <3>2 DEF IndInv, TypeOK, Slots
      <4> HIDE DEF Holders
      <4> QED  BY <3>1, <4>1, <4>2, FiniteContexts, FS_AddElement
    <3>3. CASE ~(t = s /\ j = k)
      <4>1. {d \in Owned(records, t) : slot[d] = j}' = Holders(t, j)
        BY <1>1, <1>2, <1>6, <1>7, <3>3 DEF Owned
      <4>2. slots'[t][j] = slots[t][j]
        BY <1>3, <1>4, <3>3 DEF IndInv, TypeOK
      <4> QED  BY <3>1, <4>1, <4>2
    <3> QED  BY <3>2, <3>3
  <2>2. ASSUME NEW t \in Sessions
        PROVE  /\ slots'[t]["ordinary"] <= OrdinaryCap
               /\ slots'[t]["nested"] <= NestedCap
               /\ slots'[t]["lifecycle"] <= LifecycleCap
    <3>1. /\ slots[t]["ordinary"] <= OrdinaryCap /\ slots[t]["nested"] <= NestedCap
          /\ slots[t]["lifecycle"] <= LifecycleCap
      BY DEF IndInv, SlotAccounting
    <3>2. /\ slots[t] \in [Slots -> Nat] /\ slots \in [Sessions -> [Slots -> Nat]]
          /\ OrdinaryCap \in Nat /\ NestedCap \in Nat /\ LifecycleCap \in Nat
      BY BoundsAssumption DEF IndInv, TypeOK
    <3> QED  BY <1>3, <1>4, <3>1, <3>2 DEF Slots
  <2> QED  BY <2>1, <2>2 DEF SlotAccounting
<1>12. BudgetAccounting'
  <2> DEFINE Charged(t) == {d \in Owned(records, t) : slot[d] # "lifecycle"}
  <2>1. ASSUME NEW t \in Sessions
        PROVE  frames'[t] = Cardinality({d \in Owned(records, t) : slot[d] # "lifecycle"}')
    <3>1. /\ Charged(t) \in SUBSET Contexts /\ c \notin Charged(t)
          /\ frames[t] = Cardinality(Charged(t))
      BY <1>1 DEF Owned, IndInv, TypeOK, BudgetAccounting
    <3>2. CASE t = s /\ ~lifecycle
      <4>1. {d \in Owned(records, t) : slot[d] # "lifecycle"}' = Charged(t) \union {c}
        BY <1>1, <1>2, <1>3, <1>6, <1>7, <3>2 DEF Owned
      <4>2. frames'[t] = frames[t] + 1
        BY <1>2, <3>2 DEF IndInv, TypeOK
      <4> HIDE DEF Charged
      <4> QED  BY <3>1, <4>1, <4>2, FiniteContexts, FS_AddElement
    <3>3. CASE ~(t = s /\ ~lifecycle)
      <4>1. {d \in Owned(records, t) : slot[d] # "lifecycle"}' = Charged(t)
        BY <1>1, <1>2, <1>3, <1>6, <1>7, <3>3 DEF Owned
      <4>2. frames'[t] = frames[t]
        BY <1>2, <3>3 DEF IndInv, TypeOK
      <4> QED  BY <3>1, <4>1, <4>2
    <3> QED  BY <3>2, <3>3
  <2> QED  BY <2>1 DEF BudgetAccounting
<1>13. QueueHoldsTheUnslotted'
  <2>1. ASSUME NEW t \in Sessions
        PROVE  queue'[t] = {d \in Owned(records, t) : slot[d] = "none"}'
    <3>1. queue[t] = {d \in Owned(records, t) : slot[d] = "none"}
      BY DEF IndInv, QueueHoldsTheUnslotted
    <3>2. queue'[t] = IF t = s /\ k = "none" THEN queue[t] \union {c} ELSE queue[t]
      BY <1>4 DEF IndInv, TypeOK
    <3> QED  BY <1>1, <1>2, <1>6, <1>7, <3>1, <3>2 DEF Owned
  <2>2. ASSUME NEW t \in Sessions, NEW d \in queue'[t]
        PROVE  line'[d] = {} /\ offer'[d] = "none"
    <3>1. CASE d = c
      <4>1. k = "none"
        BY <1>6, <2>1, <3>1 DEF Owned
      <4> QED  BY <1>2, <1>5, <1>7, <3>1, <4>1 DEF ParentLine
    <3>2. CASE d # c
      <4>1. d \in queue[t] /\ d \in Contexts
        BY <1>4, <2>2, <3>2 DEF IndInv, TypeOK
      <4> QED  BY <1>2, <1>7, <3>2, <4>1 DEF IndInv, QueueHoldsTheUnslotted
    <3> QED  BY <3>1, <3>2
  <2> QED  BY <2>1, <2>2 DEF QueueHoldsTheUnslotted
<1>14. WorkConserving'
  <2>1. SUFFICES ASSUME NEW t \in Sessions, t \notin failed, queue'[t] # {}
                 PROVE  slots'[t]["ordinary"] = OrdinaryCap
    BY <1>2 DEF WorkConserving
  <2>2. /\ queue[t] # {} => slots[t]["ordinary"] = OrdinaryCap
        /\ slots[t]["ordinary"] <= OrdinaryCap
    BY <2>1 DEF IndInv, WorkConserving, SlotAccounting
  <2>3. /\ slots[t]["ordinary"] \in Nat /\ OrdinaryCap \in Nat
        /\ slots \in [Sessions -> [Slots -> Nat]] /\ queue \in [Sessions -> SUBSET Contexts]
    BY BoundsAssumption DEF IndInv, TypeOK, Slots
  <2>4. CASE k = "none"
    BY <1>2, <1>3, <1>4, <2>1, <2>2, <2>3, <2>4 DEF Slots
  <2>5. CASE k # "none"
    BY <1>3, <1>4, <2>1, <2>2, <2>3, <2>5 DEF Slots
  <2> QED  BY <2>4, <2>5
<1>15. FamilyEndsTogether'
  <2>1. SUFFICES ASSUME NEW d \in Created', NEW x \in line'[d], terminal[x] # "none"
                 PROVE  terminal[d] # "none"
    BY <1>2 DEF FamilyEndsTogether, Created
  <2>2. d # c /\ d \in Created
    BY <1>1, <1>7, <1>8, <2>1
  <2>3. x \in line[d]
    BY <1>1, <1>7, <2>1, <2>2
  <2> QED  BY <2>1, <2>2, <2>3 DEF IndInv, FamilyEndsTogether, Created
<1>16. RecordLifetime' /\ FailureIsFinal'
  <2>1. \A d \in Created :
          /\ d \in records => \/ terminal[d] = "none" \/ offer[d] = "sent"
                              \/ owner[d] \in failed \ reaped
          /\ terminal[d] = "none" => d \in records
          /\ owner[d] \in failed => terminal[d] # "none"
          /\ owner[d] \in reaped => d \notin records
    BY DEF IndInv, RecordLifetime, FailureIsFinal, Created
  <2>2. s \notin failed /\ s \notin reaped
    BY <1>2 DEF IndInv, Shape
  <2>3. \A d \in Created' :
          /\ d \in records' => \/ terminal'[d] = "none" \/ offer'[d] = "sent"
                              \/ owner'[d] \in failed' \ reaped'
          /\ terminal'[d] = "none" => d \in records'
          /\ owner'[d] \in failed' => terminal'[d] # "none"
          /\ owner'[d] \in reaped' => d \notin records'
    BY <1>1, <1>2, <1>5, <1>7, <2>1, <2>2
  <2> QED  BY <2>3 DEF RecordLifetime, FailureIsFinal, Created
<1> QED  BY <1>9, <1>10, <1>11, <1>12, <1>13, <1>14, <1>15, <1>16 DEF IndInv

-----------------------------------------------------------------------------
(* The theorems.                                                           *)

\* The empty schedulers satisfy the inductive invariant.
LEMMA InitEstablishes ==
  ASSUME Init
  PROVE  IndInv
<1>1. Created = {} /\ \A s \in Sessions : Owned(records, s) = {}
  BY DEF Init, Created, Owned
<1>2. TypeOK
  BY BoundsAssumption DEF Init, TypeOK, Slots
<1>3. Shape
  BY <1>1 DEF Init, Shape
<1>4. SlotAccounting
  <2>1. ASSUME NEW s \in Sessions, NEW k \in Slots
        PROVE  slots[s][k] = 0 /\ {c \in Owned(records, s) : slot[c] = k} = {}
    BY <1>1 DEF Init
  <2>2. OrdinaryCap >= 0 /\ NestedCap >= 0 /\ LifecycleCap >= 0
    BY BoundsAssumption
  <2> QED  BY <2>1, <2>2, EmptyCardinality, BoundsAssumption DEF SlotAccounting, Slots
<1>5. BudgetAccounting
  <2>1. ASSUME NEW s \in Sessions
        PROVE  frames[s] = 0 /\ {c \in Owned(records, s) : slot[c] # "lifecycle"} = {}
    BY <1>1 DEF Init
  <2> QED  BY <2>1, EmptyCardinality DEF BudgetAccounting
<1>6. QueueHoldsTheUnslotted /\ WorkConserving
  BY <1>1 DEF Init, QueueHoldsTheUnslotted, WorkConserving
<1>7. FamilyEndsTogether /\ RecordLifetime /\ FailureIsFinal
  BY <1>1 DEF FamilyEndsTogether, RecordLifetime, FailureIsFinal, Created
<1> QED  BY <1>2, <1>3, <1>4, <1>5, <1>6, <1>7 DEF IndInv

\* A step settles contexts, admits one, or changes nothing but offers and
\* the environment.
LEMMA StepCases ==
  ASSUME IndInv, [Next]_vars
  PROVE  \/ Settlement
         \/ \E s \in Sessions, lifecycle \in BOOLEAN,
               par \in Contexts \union {NoContext} : Admit(s, lifecycle, par)
         \/ UNCHANGED <<identity, terminal, broker, physical>> /\ IndInv'
<1>1. CASE UNCHANGED vars
  BY <1>1, QuietStep DEF vars, contexts, IndInv, TypeOK, Shape
<1>2. ASSUME NEW c \in Contexts,
             \/ \E code \in FinishCodes : Finish(c, code)
             \/ Abort(c) \/ DeadlineTimer(c)
      PROVE  Settlement
  <2>1. PICK code \in Outcomes : c \in records /\ FinishContext(c, code)
    BY <1>2, FinishCodesAssumption DEF Finish, Abort, DeadlineTimer, Outcomes, Lapses
  <2>2. c \in Created
    BY <2>1 DEF IndInv, Shape
  <2> QED  BY <2>1, <2>2, FinishContextStep
<1>3. ASSUME NEW c \in Contexts, Offer(c) \/ Expire(c) \/ Revoke(c)
      PROVE  UNCHANGED <<identity, terminal, broker, physical>> /\ IndInv'
  BY <1>3, QuietOperations DEF Offer, Expire, Revoke, contexts
<1>4. ASSUME NEW c \in Contexts, Acknowledge(c)
      PROVE  Settlement \/ (UNCHANGED <<identity, terminal, broker, physical>> /\ IndInv')
  BY <1>4, AcknowledgeStep
<1>5. ASSUME NEW c \in Contexts, OfferTimeout(c)
      PROVE  Settlement
  <2>1. owner[c] \in Sessions
    BY <1>5 DEF OfferTimeout, IndInv, Shape
  <2> QED  BY <1>5, <2>1, FailStep DEF OfferTimeout
<1>6. ASSUME NEW s \in Sessions, Fail(s) \/ Reaped(s)
      PROVE  Settlement
  BY <1>6, FailStep, ReapedStep
<1> QED  BY <1>1, <1>2, <1>3, <1>4, <1>5, <1>6 DEF Next

\* Every step of the schedulers preserves the inductive invariant.
LEMMA NextPreserves ==
  ASSUME IndInv, [Next]_vars
  PROVE  IndInv'
BY StepCases, SettlePreserves, AdmitStep

\* The inductive invariant holds in every reachable state of the schedulers.
THEOREM Invariance == Spec => []IndInv
BY InitEstablishes, NextPreserves, PTL DEF Spec

\* Every variable of the schedulers keeps its type; in particular no slot or
\* frame counter ever becomes negative.
THEOREM TypeCorrect == Spec => []TypeOK
<1>1. IndInv => TypeOK
  BY DEF IndInv
<1> QED  BY <1>1, Invariance, PTL

\* The #slots counters are exact and within their caps, for any caps, any
\* number of sessions and any number of contexts.
THEOREM SlotsAreExact == Spec => []SlotAccounting
<1>1. IndInv => SlotAccounting
  BY DEF IndInv
<1> QED  BY <1>1, Invariance, PTL

\* Each record holds its frame of the wire budget exactly as long as it lives.
THEOREM BudgetIsExact == Spec => []BudgetAccounting
<1>1. IndInv => BudgetAccounting
  BY DEF IndInv
<1> QED  BY <1>1, Invariance, PTL

\* On a healthy session a root waits only when all ordinary slots are taken.
THEOREM NoIdleSlot == Spec => []WorkConserving
<1>1. IndInv => WorkConserving
  BY DEF IndInv
<1> QED  BY <1>1, Invariance, PTL

\* A context never outlives an ancestor, on whatever session either runs.
THEOREM FamiliesEndTogether == Spec => []FamilyEndsTogether
<1>1. IndInv => FamilyEndsTogether
  BY DEF IndInv
<1> QED  BY <1>1, Invariance, PTL

\* A record is held exactly for an open context, for a descriptor in flight
\* or for a quarantine.
THEOREM RecordsAreHeld == Spec => []RecordLifetime
<1>1. IndInv => RecordLifetime
  BY DEF IndInv
<1> QED  BY <1>1, Invariance, PTL

-----------------------------------------------------------------------------
(* What a step may never do.                                               *)

\* The steps that StartsInOrder, QuarantineHolds and OnlyOneFamilyEnds allow.
OrderedStart ==
  /\ \A c \in Contexts : slot[c] = "none" /\ slot'[c] # "none" => Live(c)'
  /\ \A s \in Sessions : \A c, d \in queue[s] :
       slot'[c] # "none" /\ d < c => d \notin queue'[s]

KeptQuarantine ==
  \A s \in failed' \ reaped' :
    /\ Owned(records, s) = Owned(records', s)
    /\ slots'[s] = slots[s] /\ frames'[s] = frames[s]

EndsOneFamily ==
  LET ended == {c \in 1 .. counter : Live(c) /\ terminal'[c] # "none"}
  IN  \/ \E x \in Contexts : ended \subseteq Family(x)
      \/ \E s \in failed' \ failed : ended \subseteq Doomed(s)

\* A settlement shifts a prefix of every queue, nothing from the queue of a
\* failed session, and starts only what it does not end.
LEMMA SettleOrder ==
  ASSUME NEW out, NEW R, NEW down, IndInv, Settle(out, R, down),
         SoundStep(out, R, down)
  PROVE  OrderedStart
<1>1. PICK T \in SUBSET UNION {queue[s] : s \in Sessions} :
        LET started == {c \in T : Startable(c)}
            dropped == T \ started
        IN  /\ T \intersect R = {}
            /\ \A s \in Sessions : Drained(s, R, down, T)
            /\ terminal' = [c \in Contexts |->
                              IF c \in DOMAIN out THEN out[c]
                              ELSE IF c \in dropped THEN LapseCode(c)
                              ELSE terminal[c]]
            /\ lapsed' = [c \in Contexts |->
                            IF c \in (DOMAIN out) \union dropped THEN "none"
                            ELSE lapsed[c]]
            /\ slot' = [c \in Contexts |->
                          IF c \in R \union dropped THEN "none"
                          ELSE IF c \in started THEN "ordinary" ELSE slot[c]]
            /\ queue' = QueueAfter(R, T)
  BY DEF Settle
<1>2. ASSUME NEW c \in Contexts, slot[c] = "none", slot'[c] # "none"
      PROVE  c \in T /\ Live(c) /\ c \notin R
  BY <1>1, <1>2 DEF Startable
<1>3. line' = line /\ records \subseteq Created
  BY DEF SoundStep, identity, IndInv, Shape
<1>4. ASSUME NEW c \in Contexts, slot[c] = "none", slot'[c] # "none"
      PROVE  Live(c)'
  <2>1. PICK s \in Sessions : c \in queue[s]
    BY <1>2, <1>4
  <2>2. c \in records /\ owner[c] = s /\ offer[c] = "none" /\ line[c] = {}
    BY <2>1 DEF IndInv, QueueHoldsTheUnslotted, Owned
  <2>3. s \notin down
    <3>1. c \in T \intersect Waiting(s, R)
      BY <1>2, <1>4, <2>1 DEF Waiting
    <3> QED  BY <1>1, <3>1 DEF Drained
  <2>4. c \notin DOMAIN out
    BY <1>2, <1>4, <2>2, <2>3 DEF SoundStep
  <2>5. terminal[c] = "none" /\ lapsed[c] = "none" /\ Startable(c)
    BY <1>2, <1>4 DEF Live, Startable
  <2>6. terminal'[c] = "none" /\ lapsed'[c] = "none"
    BY <1>1, <2>4, <2>5
  <2> QED  BY <1>3, <2>2, <2>6 DEF Live
<1>5. ASSUME NEW s \in Sessions, NEW c \in queue[s], NEW d \in queue[s],
             slot'[c] # "none", d < c
      PROVE  d \notin queue'[s]
  <2>1. c \in Contexts /\ slot[c] = "none"
    BY DEF IndInv, QueueHoldsTheUnslotted, Owned, TypeOK
  <2>2. c \in T \intersect Waiting(s, R)
    BY <1>2, <1>5, <2>1 DEF Waiting
  <2>3. d \in R \/ d \in Waiting(s, R)
    BY DEF Waiting
  <2>4. d \in R \/ d \in T
    BY <1>1, <1>5, <2>2, <2>3 DEF Drained
  <2> QED  BY <1>1, <2>4 DEF QueueAfter
<1> QED  BY <1>4, <1>5 DEF OrderedStart

\* A settlement leaves the accounts of a quarantined session alone.
LEMMA SettleQuarantine ==
  ASSUME NEW out, NEW R, NEW down, IndInv, Settle(out, R, down),
         SoundStep(out, R, down)
  PROVE  KeptQuarantine
<1> SUFFICES ASSUME NEW s \in failed', s \notin reaped'
             PROVE  /\ Owned(records, s) = Owned(records', s)
                    /\ slots'[s] = slots[s] /\ frames'[s] = frames[s]
  BY DEF KeptQuarantine
<1>1. PICK T \in SUBSET UNION {queue[t] : t \in Sessions} :
        LET started == {c \in T : Startable(c)}
            gone == R \union (T \ started)
        IN  /\ \A t \in Sessions : Drained(t, R, down, T)
            /\ T \intersect R = {}
            /\ records' = records \ gone
            /\ slots' = SlotsAfter(R, started)
            /\ frames' = FramesAfter(gone)
  BY DEF Settle
<1>2. s \in down /\ s \in Sessions
  BY DEF SoundStep
<1>3. Owned(R, s) = {}
  BY <1>2 DEF SoundStep, Owned
<1>4. Owned(T, s) = {}
  <2>1. T \intersect Waiting(s, R) = {}
    BY <1>1, <1>2 DEF Drained
  <2>2. \A t \in Sessions : \A c \in queue[t] : owner[c] = t
    BY DEF IndInv, QueueHoldsTheUnslotted, Owned
  <2>3. \A c \in T : owner[c] = s => c \in queue[s]
    BY <2>2
  <2> QED  BY <1>1, <2>1, <2>3 DEF Waiting, Owned
<1> DEFINE started == {c \in T : Startable(c)}
           gone == R \union (T \ started)
<1>5. Owned(gone, s) = {} /\ Owned(started, s) = {}
  BY <1>3, <1>4 DEF Owned
<1>6. records' = records \ gone /\ slots' = SlotsAfter(R, started)
      /\ frames' = FramesAfter(gone)
  BY <1>1
<1> HIDE DEF started, gone
<1>7. Owned(records, s) = Owned(records', s)
  BY <1>5, <1>6 DEF Owned
<1>8. \A k : {c \in Owned(R, s) : slot[c] = k} = {}
  BY <1>3
<1>9. {c \in Owned(gone, s) : slot[c] # "lifecycle"} = {}
  BY <1>5
<1>10. slots[s] \in [Slots -> Nat] /\ frames[s] \in Nat
  BY <1>2 DEF IndInv, TypeOK
<1>11. slots'[s] = [k \in Slots |-> (slots[s][k] - 0) + (IF k = "ordinary" THEN 0 ELSE 0)]
  BY <1>2, <1>5, <1>6, <1>8, EmptyCardinality DEF SlotsAfter
<1>12. frames'[s] = frames[s] - 0
  BY <1>2, <1>6, <1>9, EmptyCardinality DEF FramesAfter
<1> QED  BY <1>7, <1>10, <1>11, <1>12

\* An admission touches no queue order and no quarantined session, and what
\* it starts is live.
LEMMA AdmitOrder ==
  ASSUME IndInv, NEW s \in Sessions, NEW lifecycle \in BOOLEAN,
         NEW par \in Contexts \union {NoContext}, Admit(s, lifecycle, par)
  PROVE  OrderedStart /\ KeptQuarantine
<1> DEFINE c == counter + 1
           k == SlotFor(s, lifecycle, par # NoContext)
<1>1. c \in Contexts /\ c \notin Created /\ c \notin records
  <2>1. counter \in Nat /\ MaxContexts \in Nat /\ counter < MaxContexts
    BY BoundsAssumption DEF Admit, IndInv, TypeOK
  <2>2. records \subseteq Created
    BY DEF IndInv, Shape
  <2> QED  BY <2>1, <2>2 DEF Created, Contexts
<1>2. /\ s \notin failed /\ MayBeParent(par)
      /\ line' = [line EXCEPT ![c] = ParentLine(par)]
      /\ records' = records \union {c}
      /\ frames' = [frames EXCEPT ![s] = IF lifecycle THEN @ ELSE @ + 1]
      /\ terminal' = terminal /\ lapsed' = lapsed
      /\ failed' = failed /\ reaped' = reaped
  BY DEF Admit, AdmitsWork, contexts, physical
<1>3. \/ slot' = slot /\ slots' = slots
      \/ /\ slot' = [slot EXCEPT ![c] = k] /\ k \in Slots
         /\ slots' = [slots EXCEPT ![s][k] = @ + 1]
  BY DEF Admit, SlotFor, Slots
<1>4. terminal[c] = "none" /\ lapsed[c] = "none" /\ owner[c] = NoSession
  BY <1>1 DEF IndInv, Shape
<1>5. \A x \in ParentLine(par) : terminal[x] = "none" /\ lapsed[x] = "none"
  BY <1>2 DEF ParentLine, MayBeParent, Live
<1> HIDE DEF c, k
<1>6. \A d \in Contexts : d # c => slot'[d] = slot[d]
  BY <1>3 DEF IndInv, TypeOK
<1>7. line'[c] = ParentLine(par)
  BY <1>1, <1>2 DEF IndInv, TypeOK
<1>8. ASSUME NEW d \in Contexts, d = c
      PROVE  Live(d)'
  BY <1>2, <1>4, <1>5, <1>7, <1>8 DEF Live
<1>9. \A t \in Sessions : \A d \in queue[t] : slot'[d] = "none"
  <2>1. \A t \in Sessions : \A d \in queue[t] : d \in records /\ d \in Contexts /\ slot[d] = "none"
    BY DEF IndInv, QueueHoldsTheUnslotted, Owned, TypeOK
  <2> QED  BY <1>1, <1>6, <2>1
<1>10. OrderedStart
  BY <1>6, <1>8, <1>9 DEF OrderedStart
<1>11. ASSUME NEW t \in failed \ reaped
       PROVE  /\ Owned(records, t) = Owned(records', t)
              /\ slots'[t] = slots[t] /\ frames'[t] = frames[t]
  <2>1. t \in Sessions /\ t # s
    BY <1>2 DEF IndInv, TypeOK
  <2>2. Owned(records, t) = Owned(records', t)
    BY <1>2, <1>4, <2>1, SentinelAssumption DEF Owned
  <2> QED  BY <1>2, <1>3, <2>1, <2>2 DEF IndInv, TypeOK
<1> QED  BY <1>2, <1>10, <1>11 DEF KeptQuarantine

\* A step that leaves contexts and accounts alone starts and frees nothing.
LEMMA QuietOrder ==
  ASSUME IndInv, UNCHANGED <<identity, terminal, broker, physical>>
  PROVE  OrderedStart /\ KeptQuarantine
<1>1. /\ records' = records /\ slot' = slot /\ queue' = queue
      /\ slots' = slots /\ frames' = frames
  BY DEF broker
<1> QED  BY <1>1 DEF IndInv, QueueHoldsTheUnslotted, Owned, OrderedStart, KeptQuarantine

\* The live contexts a settlement ends are those it was told to end: what it
\* drops from a queue was no longer live.
LEMMA SettleEnds ==
  ASSUME IndInv, NEW out, NEW R, NEW down, Settle(out, R, down)
  PROVE  \A c \in Created : Live(c) /\ terminal'[c] # "none" => c \in DOMAIN out
<1>1. Created \subseteq Contexts
  BY CreatedContexts DEF IndInv
<1> QED  BY <1>1 DEF Settle, Startable, Live

\* Every step ends the live contexts of one family or of one failing session.
LEMMA StepEndsOneFamily ==
  ASSUME IndInv, Next
  PROVE  EndsOneFamily
<1> DEFINE Ended == {c \in Created : Live(c) /\ terminal'[c] # "none"}
<1>0. Created = 1 .. counter
  BY DEF Created
<1>1. ASSUME Ended = {}
      PROVE  EndsOneFamily
  <2>1. 1 \in Contexts
    BY BoundsAssumption DEF Contexts
  <2> QED  BY <1>0, <1>1, <2>1 DEF EndsOneFamily
<1>2. ASSUME terminal' = terminal
      PROVE  EndsOneFamily
  BY <1>1, <1>2 DEF Live
<1>3. ASSUME NEW c \in Contexts, NEW code, NEW R, NEW down,
             Settle(Finished(c, code), R, down)
      PROVE  EndsOneFamily
  <2>1. DOMAIN Finished(c, code) \subseteq Family(c)
    BY DEF Finished, Unfinished
  <2>2. Ended \subseteq Family(c)
    BY <1>3, <2>1, SettleEnds
  <2> QED  BY <1>0, <2>2 DEF EndsOneFamily
<1>4. ASSUME NEW s \in Sessions, NEW R, NEW down, s \in failed',
             Settle([d \in Doomed(s) |-> "UNAVAILABLE"], R, down)
      PROVE  EndsOneFamily
  <2>1. Ended \subseteq Doomed(s)
    BY <1>4, SettleEnds
  <2>2. CASE s \notin failed
    BY <1>0, <1>4, <2>1, <2>2 DEF EndsOneFamily
  <2>3. CASE s \in failed
    <3>1. ASSUME NEW d \in Doomed(s)
          PROVE  FALSE
      <4>1. d \in Created /\ terminal[d] = "none"
        BY DEF Doomed, Unfinished
      <4>2. PICK c \in line[d] \union {d} : owner[c] = s
        BY DEF Doomed
      <4>3. c \in Created
        BY <4>1 DEF IndInv, Shape
      <4>4. terminal[c] # "none"
        BY <2>3, <4>2, <4>3 DEF IndInv, FailureIsFinal, Created
      <4> QED  BY <4>1, <4>2, <4>4 DEF IndInv, FamilyEndsTogether, Created
    <3> QED  BY <1>1, <2>1, <3>1
  <2> QED  BY <2>2, <2>3
<1> HIDE DEF Ended
<1>5. ASSUME NEW s \in Sessions, NEW lifecycle \in BOOLEAN,
             NEW par \in Contexts \union {NoContext}, Admit(s, lifecycle, par)
      PROVE  EndsOneFamily
  BY <1>2, <1>5 DEF Admit, contexts
<1>6. ASSUME NEW c \in Contexts,
             \/ \E code \in FinishCodes : Finish(c, code)
             \/ Abort(c) \/ DeadlineTimer(c)
      PROVE  EndsOneFamily
  BY <1>3, <1>6 DEF Finish, Abort, DeadlineTimer, FinishContext
<1>7. ASSUME NEW c \in Contexts, Acknowledge(c)
      PROVE  EndsOneFamily
  <2>1. CASE Settle(NoOutcome, {c}, failed)
    BY <1>1, <2>1, SettleEnds DEF NoOutcome, Ended
  <2>2. CASE LET out == Finished(c, LapseCode(c))
             IN  Settle(out, Releasable(DOMAIN out, failed) \union {c}, failed)
    BY <1>3, <2>2
  <2>3. CASE UNCHANGED <<contexts, broker>>
    BY <1>2, <2>3 DEF contexts
  <2> QED  BY <1>7, <2>1, <2>2, <2>3 DEF Acknowledge
<1>8. ASSUME NEW s \in Sessions, Fail(s) \/ Reaped(s)
      PROVE  EndsOneFamily
  BY <1>4, <1>8 DEF Fail, Reaped
<1>9. ASSUME NEW c \in Contexts, OfferTimeout(c)
      PROVE  EndsOneFamily
  <2>1. owner[c] \in Sessions
    BY <1>9 DEF OfferTimeout, IndInv, Shape
  <2> QED  BY <1>8, <1>9, <2>1 DEF OfferTimeout
<1>10. ASSUME NEW c \in Contexts, Offer(c) \/ Expire(c) \/ Revoke(c)
       PROVE  EndsOneFamily
  BY <1>2, <1>10 DEF Offer, Expire, Revoke, contexts
<1> QED  BY <1>5, <1>6, <1>7, <1>8, <1>9, <1>10 DEF Next

\* For any caps and any interleaving: queued roots start in the order of their
\* admission and only while they are live (start, release, admit).
THEOREM RootsStartInOrder == Spec => StartsInOrder
<1>1. IndInv /\ [Next]_vars => [OrderedStart]_vars
  BY StepCases, SettleOrder, AdmitOrder, QuietOrder DEF Settlement
<1> QED  BY <1>1, Invariance, PTL DEF Spec, StartsInOrder, OrderedStart

\* A failed session keeps its records, slots and frames until it is reaped,
\* whatever happens to contexts elsewhere (terminal, release).
THEOREM QuarantineIsKept == Spec => QuarantineHolds
<1>1. IndInv /\ [Next]_vars => [KeptQuarantine]_vars
  BY StepCases, SettleQuarantine, AdmitOrder, QuietOrder DEF Settlement
<1> QED  BY <1>1, Invariance, PTL DEF Spec, QuarantineHolds, KeptQuarantine

\* A step ends the live work of one family, or of one session that fails in
\* this step; it never touches unrelated live work (finish, fail, acknowledge).
THEOREM UnrelatedWorkIsSafe == Spec => OnlyOneFamilyEnds
<1>1. IndInv /\ [Next]_vars => [EndsOneFamily]_vars
  BY StepEndsOneFamily
<1> QED  BY <1>1, Invariance, PTL DEF Spec, OnlyOneFamilyEnds, EndsOneFamily

=============================================================================
