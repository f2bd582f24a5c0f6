------------------------------ MODULE Scheduler ------------------------------
(***************************************************************************)
(* Logical admission of work contexts on physical worker sessions:         *)
(* packages/kernel/src/g6/scheduler.ts (classes WorkContext, Scheduler).   *)
(*                                                                         *)
(* Every session owns one Scheduler object; a context admitted on one      *)
(* session may have its parent on another one (A -> B -> A ancestry), so   *)
(* all schedulers are modelled together.  A context is named by its        *)
(* admission number: contexts are created in the order 1, 2, 3 ...         *)
(* JavaScript runs every method to completion, so one action is one call   *)
(* with everything it triggers synchronously: the cascade of finish() over *)
(* the children, the release of records and the drain of the queues.       *)
(***************************************************************************)
EXTENDS Integers, FiniteSets

CONSTANTS
  Sessions,       \* the physical sessions, one Scheduler each
  MaxContexts,    \* bound: how many contexts are ever admitted
  OrdinaryCap,    \* 4 in the code
  NestedCap,      \* 4 in the code
  LifecycleCap,   \* 1 in the code
  QueueCap,       \* 64 in the code
  FrameCap,       \* 64 frames of WireBudget
  MaxDepth,       \* 8 in the code
  FinishCodes,    \* the codes dispatchers and transports finish with
  NoContext,      \* "no parent"
  NoSession       \* owner of a context that was not created yet

ASSUME BoundsAssumption ==
  /\ MaxContexts \in Nat \ {0} /\ QueueCap \in Nat /\ FrameCap \in Nat
  /\ OrdinaryCap \in Nat \ {0} /\ NestedCap \in Nat /\ LifecycleCap \in Nat
  /\ MaxDepth \in Nat \ {0}

ASSUME SentinelAssumption ==
  NoSession \notin Sessions /\ NoContext \notin Nat

Contexts == 1 .. MaxContexts

Slots == {"ordinary", "nested", "lifecycle"}
\* Why assertLive would throw for a context that is not terminal.
Lapses == {"DEADLINE_EXCEEDED", "PERMISSION_DENIED"}
Outcomes == Lapses \union {"complete", "CANCELLED", "UNAVAILABLE"}

ASSUME FinishCodesAssumption == FinishCodes \subseteq Outcomes

VARIABLES
  counter,   \* number of contexts created so far
  owner,     \* WorkContext.owner
  line,      \* the chain of WorkContext.parent pointers, as a set
  terminal,  \* WorkContext.terminal ("none" for undefined)
  lapsed,    \* end is in the past, or authorize() throws, before the context
             \* is terminal ("none" for neither)
  records,   \* keys of the #records maps
  slot,      \* RecordState.slot; "none" is also record.admitted = false
  offer,     \* "none", "sent" (RecordState.offer) or "ready" (acknowledged)
  queue,     \* members of #queue; the array is in admission order
  slots,     \* #slots counters
  frames,    \* non-control frames that records reserve in the WireBudget
  failed,    \* sessions whose #failed is set
  reaped     \* sessions whose #reaped is set

identity == <<counter, owner, line>>
contexts == <<terminal, lapsed>>
broker == <<records, slot, queue, slots, frames>>
physical == <<failed, reaped>>
vars == <<identity, contexts, broker, offer, physical>>

TypeOK ==
  /\ counter \in 0 .. MaxContexts
  /\ owner \in [Contexts -> Sessions \union {NoSession}]
  /\ line \in [Contexts -> SUBSET Contexts]
  /\ terminal \in [Contexts -> Outcomes \union {"none"}]
  /\ lapsed \in [Contexts -> Lapses \union {"none"}]
  /\ records \in SUBSET Contexts
  /\ slot \in [Contexts -> Slots \union {"none"}]
  /\ offer \in [Contexts -> {"none", "sent", "ready"}]
  /\ queue \in [Sessions -> SUBSET Contexts]
  /\ slots \in [Sessions -> [Slots -> Nat]]
  /\ frames \in [Sessions -> Nat]
  /\ failed \in SUBSET Sessions
  /\ reaped \in SUBSET Sessions

Init ==
  /\ counter = 0
  /\ owner = [c \in Contexts |-> NoSession]
  /\ line = [c \in Contexts |-> {}]
  /\ terminal = [c \in Contexts |-> "none"]
  /\ lapsed = [c \in Contexts |-> "none"]
  /\ records = {}
  /\ slot = [c \in Contexts |-> "none"]
  /\ offer = [c \in Contexts |-> "none"]
  /\ queue = [s \in Sessions |-> {}]
  /\ slots = [s \in Sessions |-> [k \in Slots |-> 0]]
  /\ frames = [s \in Sessions |-> 0]
  /\ failed = {} /\ reaped = {}

-----------------------------------------------------------------------------
(* Who is alive, and what a finish reaches.                                *)

Created == 1 .. counter
Owned(S, s) == {c \in S : owner[c] = s}
Family(c) == {d \in Created : d = c \/ c \in line[d]}
Unfinished(S) == {d \in S : terminal[d] = "none"}

\* WorkContext.assertLive: neither the context nor an ancestor is terminal,
\* past its end or no longer authorized.
Live(c) ==
  \A a \in line[c] \union {c} : terminal[a] = "none" /\ lapsed[a] = "none"

\* The code assertLive throws for a context that is not terminal.  An
\* ancestor never expires before its descendants.
LapseCode(c) ==
  IF lapsed[c] = "none" THEN "PERMISSION_DENIED" ELSE lapsed[c]

\* Mutant: finish() ends everything on the session.
FinishedEverywhere(c, code) ==
  [d \in {x \in Unfinished(Created) : owner[x] = owner[c]} |-> code]

\* Mutant: finish() forgets children on other sessions.
FinishedLocally(c, code) ==
  [d \in {x \in Unfinished(Family(c)) : owner[x] = owner[c]} |-> code]

\* WorkContext.finish: the context gets the code, its children inherit it,
\* except that a parent's completion cancels them.
Finished(c, code) ==
  [d \in Unfinished(Family(c)) |->
     IF d # c /\ code = "complete" THEN "CANCELLED" ELSE code]

NoOutcome == [d \in {} |-> "complete"]

\* Mutant: quarantine ignored.
ReleasableFailed(S, down) == {d \in S \intersect records : offer[d] # "sent"}

\* Mutant: an offer in flight is released with its context.
ReleasableOffered(S, down) == {d \in S \intersect records : owner[d] \notin down}

\* Scheduler.terminal: never release an in-flight descriptor, nor a slot of
\* a quarantined process.
Releasable(S, down) ==
  {d \in S \intersect records : offer[d] # "sent" /\ owner[d] \notin down}

-----------------------------------------------------------------------------
(* Scheduler.release and the drain loop at its end.                        *)

\* Mutant: start() only looks at the terminal state.
StartableUnchecked(c) == terminal[c] = "none"

\* Scheduler.start re-checks the queued context.
Startable(c) == Live(c)

\* Entries a release leaves in the queue of s.
Waiting(s, R) == queue[s] \ R

FreeOrdinary(s, R) ==
  OrdinaryCap - (slots[s]["ordinary"]
                 - Cardinality({c \in Owned(R, s) : slot[c] = "ordinary"}))

\* Mutant: the loop stops one slot early.
DrainedShort(s, R, down, T) ==
  LET taken == T \intersect Waiting(s, R)
      free == FreeOrdinary(s, R) - 1
  IN  IF s \in down \/ Owned(R, s) = {} \/ free = 0
      THEN taken = {}
      ELSE Cardinality(taken) = free \/ taken = Waiting(s, R)

\* T holds what the loop "while (queue.length && slots.ordinary < 4)" of
\* session s shifts off its queue: a prefix, stopped by the last free slot or
\* by the end of the queue.  An entry that is no longer live is shifted too
\* but takes no slot.  Nothing is shifted unless a record was released, and
\* never on a failed session.
Drained(s, R, down, T) ==
  LET wait == Waiting(s, R)
      taken == T \intersect wait
      free == FreeOrdinary(s, R)
      used == Cardinality({c \in taken : Startable(c)})
  IN  IF s \in down \/ Owned(R, s) = {}
      THEN taken = {}
      ELSE /\ \A c \in taken, d \in wait : d < c => d \in taken
           /\ used <= free
           /\ taken # wait => used = free
           /\ \A c \in taken :
                (\A d \in taken : d <= c)
                  => Cardinality({d \in taken \ {c} : Startable(d)}) < free

\* Mutant: start() from the queue does not count its slot.
SlotsAfterUncounted(R, started) ==
  [s \in Sessions |-> [k \in Slots |->
     slots[s][k] - Cardinality({c \in Owned(R, s) : slot[c] = k})]]

SlotsAfter(R, started) ==
  [s \in Sessions |-> [k \in Slots |->
     (slots[s][k] - Cardinality({c \in Owned(R, s) : slot[c] = k}))
       + (IF k = "ordinary" THEN Cardinality(Owned(started, s)) ELSE 0)]]

FramesAfter(gone) ==
  [s \in Sessions |->
     frames[s] - Cardinality({c \in Owned(gone, s) : slot[c] # "lifecycle"})]

QueueAfter(R, T) == [s \in Sessions |-> queue[s] \ (R \union T)]

\* The contexts in DOMAIN out become terminal, the records in R are released
\* and every session whose records were released drains its queue.
Settle(out, R, down) ==
  \E T \in SUBSET UNION {queue[s] : s \in Sessions} :
    LET started == {c \in T : Startable(c)}
        dropped == T \ started
        gone == R \union dropped
    IN  /\ T \intersect R = {}
        /\ \A s \in Sessions : Drained(s, R, down, T)
        /\ terminal' = [c \in Contexts |->
                          IF c \in DOMAIN out THEN out[c]
                          ELSE IF c \in dropped THEN LapseCode(c)
                          ELSE terminal[c]]
        /\ lapsed' = [c \in Contexts |->
                        IF c \in (DOMAIN out) \union dropped THEN "none"
                        ELSE lapsed[c]]
        /\ records' = records \ gone
        /\ slot' = [c \in Contexts |->
                      IF c \in gone THEN "none"
                      ELSE IF c \in started THEN "ordinary" ELSE slot[c]]
        /\ queue' = QueueAfter(R, T)
        /\ slots' = SlotsAfter(R, started)
        /\ frames' = FramesAfter(gone)

\* A released record forgets its offer.
Forget(c) == IF c \in records' THEN offer[c] ELSE "none"

-----------------------------------------------------------------------------
(* Operations.                                                             *)

\* Scheduler.slot: which reservation class has room.
SlotFor(s, lifecycle, nested) ==
  IF lifecycle
  THEN IF slots[s]["lifecycle"] < LifecycleCap THEN "lifecycle" ELSE "none"
  ELSE IF nested /\ slots[s]["nested"] < NestedCap THEN "nested"
  ELSE IF slots[s]["ordinary"] < OrdinaryCap THEN "ordinary" ELSE "none"

ParentLine(par) == IF par = NoContext THEN {} ELSE line[par] \union {par}

\* Admission.parent: callers hold only contexts that were started.
MayBeParent(par) ==
  par # NoContext =>
    /\ par \in records /\ slot[par] # "none"
    /\ Live(par)
    /\ Cardinality(ParentLine(par)) < MaxDepth

AdmitsWork(s) == s \notin failed

\* Scheduler.admit, accepted; lifecycle tells the purpose.  A rejected
\* admission changes nothing.
Admit(s, lifecycle, par) ==
  LET c == counter + 1
      k == SlotFor(s, lifecycle, par # NoContext)
  IN  /\ counter < MaxContexts
      /\ AdmitsWork(s)
      /\ MayBeParent(par)
      /\ k = "none" => /\ par = NoContext /\ ~lifecycle
                       /\ Cardinality(queue[s]) < QueueCap
      /\ ~lifecycle => frames[s] < FrameCap
      /\ counter' = c
      /\ owner' = [owner EXCEPT ![c] = s]
      /\ line' = [line EXCEPT ![c] = ParentLine(par)]
      /\ records' = records \union {c}
      /\ frames' = [frames EXCEPT ![s] = IF lifecycle THEN @ ELSE @ + 1]
      /\ IF k = "none"
         THEN /\ queue' = [queue EXCEPT ![s] = @ \union {c}]
              /\ UNCHANGED <<slot, slots>>
         ELSE /\ slot' = [slot EXCEPT ![c] = k]
              /\ slots' = [slots EXCEPT ![s][k] = @ + 1]
              /\ UNCHANGED queue
      /\ UNCHANGED <<contexts, offer, physical>>

\* context.finish(code), wherever it is called from.
FinishContext(c, code) ==
  LET out == Finished(c, code)
  IN  /\ Settle(out, Releasable(DOMAIN out, failed), failed)
      /\ offer' = [d \in Contexts |-> Forget(d)]
      /\ UNCHANGED <<identity, physical>>

\* The dispatcher or the transport ends a started context.
Finish(c, code) ==
  /\ c \in records /\ slot[c] # "none" /\ terminal[c] = "none"
  /\ FinishContext(c, code)

\* The abort listener on Admission.signal.
Abort(c) ==
  /\ c \in records /\ terminal[c] = "none"
  /\ FinishContext(c, "CANCELLED")

\* The deadline timer of a record; terminal() clears it.
DeadlineTimer(c) ==
  /\ c \in records /\ terminal[c] = "none" /\ lapsed[c] = "DEADLINE_EXCEEDED"
  /\ FinishContext(c, "DEADLINE_EXCEEDED")

\* Scheduler.offer: descriptor sent on the carrier, 1 s offer timer armed.
Offer(c) ==
  /\ c \in records /\ slot[c] # "none"
  /\ offer[c] = "none"
  /\ Live(c)
  /\ offer' = [offer EXCEPT ![c] = "sent"]
  /\ UNCHANGED <<identity, contexts, broker, physical>>

\* Mutant: acknowledge() returns early for a call that is over.
AcknowledgeEarly(c) ==
  /\ c \in records /\ offer[c] = "sent" /\ owner[c] \notin failed
  /\ \/ /\ terminal[c] # "none"
        /\ UNCHANGED <<contexts, broker>>
     \/ /\ terminal[c] = "none" /\ ~Live(c)
        /\ LET out == Finished(c, LapseCode(c))
           IN  Settle(out, Releasable(DOMAIN out, failed) \union {c}, failed)
     \/ /\ Live(c)
        /\ UNCHANGED <<contexts, broker>>
  /\ offer' = [d \in Contexts |->
                 IF d = c /\ Live(c) THEN "ready"
                 ELSE IF d = c THEN "none" ELSE Forget(d)]
  /\ UNCHANGED <<identity, physical>>

\* Scheduler.acknowledge with the nonce of the carrier packet: a terminal
\* context only gives back its slot, a lapsed one is finished, a live one is
\* handed to the caller.
Acknowledge(c) ==
  /\ c \in records /\ offer[c] = "sent" /\ owner[c] \notin failed
  /\ \/ /\ terminal[c] # "none"
        /\ Settle(NoOutcome, {c}, failed)
     \/ /\ terminal[c] = "none" /\ ~Live(c)
        /\ LET out == Finished(c, LapseCode(c))
           IN  Settle(out, Releasable(DOMAIN out, failed) \union {c}, failed)
     \/ /\ Live(c)
        /\ UNCHANGED <<contexts, broker>>
  /\ offer' = [d \in Contexts |->
                 IF d = c /\ Live(c) THEN "ready" ELSE Forget(d)]
  /\ UNCHANGED <<identity, physical>>

Doomed(s) ==
  {d \in Unfinished(Created) : \E c \in line[d] \union {d} : owner[c] = s}

\* Scheduler.fail: every context of the session, with its descendants on
\* other sessions, ends as UNAVAILABLE; the session's own records stay.
Fail(s) ==
  LET down == failed \union {s}
  IN  /\ s \notin failed
      /\ failed' = down
      /\ Settle([d \in Doomed(s) |-> "UNAVAILABLE"],
                Releasable(Doomed(s), down), down)
      /\ offer' = [d \in Contexts |-> Forget(d)]
      /\ UNCHANGED <<identity, reaped>>

\* Mutant: terminal() clears the offer timer.
OfferTimeoutUnfinished(c) ==
  /\ c \in records /\ offer[c] = "sent" /\ terminal[c] = "none"
  /\ Fail(owner[c])

\* The 1 s timer of an offer nobody acknowledged; fail() clears it.
OfferTimeout(c) ==
  /\ c \in records /\ offer[c] = "sent"
  /\ Fail(owner[c])

\* Scheduler.reaped: the process is gone, the quarantine ends.
Reaped(s) ==
  LET down == failed \union {s}
  IN  /\ s \notin reaped
      /\ failed' = down
      /\ reaped' = reaped \union {s}
      /\ Settle([d \in Doomed(s) |-> "UNAVAILABLE"],
                Releasable(Doomed(s), down) \union Owned(records, s), down)
      /\ offer' = [d \in Contexts |-> Forget(d)]
      /\ UNCHANGED identity

-----------------------------------------------------------------------------
(* The environment: the clock and the authority behind authorize().        *)

\* A child's end is never later than its parent's, so descendants expire
\* first.
Expire(c) ==
  /\ c \in Unfinished(Created) /\ lapsed[c] # "DEADLINE_EXCEEDED"
  /\ \A d \in Unfinished(Family(c)) : d = c \/ lapsed[d] = "DEADLINE_EXCEEDED"
  /\ lapsed' = [lapsed EXCEPT ![c] = "DEADLINE_EXCEEDED"]
  /\ UNCHANGED <<identity, terminal, broker, offer, physical>>

\* A grant, scope, instance or registration behind authorize() is withdrawn.
Revoke(c) ==
  /\ c \in Unfinished(Created) /\ lapsed[c] = "none"
  /\ lapsed' = [lapsed EXCEPT ![c] = "PERMISSION_DENIED"]
  /\ UNCHANGED <<identity, terminal, broker, offer, physical>>

Next ==
  \/ \E s \in Sessions, lifecycle \in BOOLEAN,
        par \in Contexts \union {NoContext} : Admit(s, lifecycle, par)
  \/ \E c \in Contexts :
       \/ \E code \in FinishCodes : Finish(c, code)
       \/ Abort(c) \/ DeadlineTimer(c)
       \/ Offer(c) \/ Acknowledge(c) \/ OfferTimeout(c)
       \/ Expire(c) \/ Revoke(c)
  \/ \E s \in Sessions : Fail(s) \/ Reaped(s)

Spec == Init /\ [][Next]_vars

-----------------------------------------------------------------------------
(* Safety.                                                                 *)

\* The three #slots counters of a session count exactly the records that hold
\* such a slot, and never exceed the caps, whatever cascade of finishes,
\* quarantines and drains moved them (release(), start()).
SlotAccounting ==
  \A s \in Sessions :
    /\ \A k \in Slots :
         slots[s][k] = Cardinality({c \in Owned(records, s) : slot[c] = k})
    /\ slots[s]["ordinary"] <= OrdinaryCap
    /\ slots[s]["nested"] <= NestedCap
    /\ slots[s]["lifecycle"] <= LifecycleCap

\* Every record holds its frame of the WireBudget until it is released, and
\* releases it exactly once (releaseBytes in admit() and release()).
BudgetAccounting ==
  \A s \in Sessions :
    frames[s] = Cardinality({c \in Owned(records, s) : slot[c] # "lifecycle"})

\* A root waits only while all ordinary slots of a healthy session are taken:
\* no release forgets to drain (release()).
WorkConserving ==
  \A s \in Sessions \ failed :
    queue[s] # {} => slots[s]["ordinary"] = OrdinaryCap

\* The queue holds exactly the records without a slot, all of them roots that
\* nobody has been handed yet (admit(), start(), release()).
QueueHoldsTheUnslotted ==
  \A s \in Sessions :
    /\ queue[s] = {c \in Owned(records, s) : slot[c] = "none"}
    /\ \A c \in queue[s] : line[c] = {} /\ offer[c] = "none"

\* A terminal context has no live descendant, on any session
\* (WorkContext.finish, Scheduler.admit).
FamilyEndsTogether ==
  \A c \in 1 .. counter : \A a \in line[c] :
    terminal[a] # "none" => terminal[c] # "none"

\* A record outlives its context only for a descriptor in flight or for the
\* quarantine of a failed process, and never dies before either
\* (terminal(), acknowledge(), reaped()).
RecordLifetime ==
  \A c \in 1 .. counter :
    /\ c \in records => \/ terminal[c] = "none" \/ offer[c] = "sent"
                        \/ owner[c] \in failed \ reaped
    /\ terminal[c] = "none" => c \in records

\* No work of a failed session stays open and nothing survives the reap.
FailureIsFinal ==
  \A c \in 1 .. counter :
    /\ owner[c] \in failed => terminal[c] # "none"
    /\ owner[c] \in reaped => c \notin records

-----------------------------------------------------------------------------
(* What a step may never do.                                               *)

\* Queued roots start in the order of their admission, and only while they are
\* live: whoever was ahead has left the queue too, and a root whose deadline or
\* authority is gone is never started (start(), push, shift and filter on
\* #queue).
StartsInOrder ==
  [][/\ \A c \in Contexts : slot[c] = "none" /\ slot'[c] # "none" => Live(c)'
     /\ \A s \in Sessions : \A c, d \in queue[s] :
          slot'[c] # "none" /\ d < c => d \notin queue'[s]]_vars

\* From its failure to its reap a session keeps all its records, slots and frames,
\* even when ancestors on other sessions end (terminal()).
QuarantineHolds ==
  [][\A s \in failed' \ reaped' :
       /\ Owned(records, s) = Owned(records', s)
       /\ slots'[s] = slots[s] /\ frames'[s] = frames[s]]_vars

\* One step ends the live contexts of one family, or those that descend from
\* one failing session; unrelated live work is never touched.
OnlyOneFamilyEnds ==
  [][LET ended == {c \in 1 .. counter : Live(c) /\ terminal'[c] # "none"}
     IN  \/ \E x \in Contexts : ended \subseteq Family(x)
         \/ \E s \in failed' \ failed : ended \subseteq Doomed(s)]_vars

=============================================================================
