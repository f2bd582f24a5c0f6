---------------------------- MODULE SessionProofs ----------------------------
(***************************************************************************)
(* Safety proofs for Session, for any number of sessions, contexts and     *)
(* packets and any caps.  Every step of the sessions is a step of the      *)
(* schedulers or leaves them alone, so that the invariant of               *)
(* SchedulerProofs carries over; SessionInv adds what the carrier, the     *)
(* control stream and open() need.                                         *)
(***************************************************************************)
EXTENDS Session, SchedulerProofs

-----------------------------------------------------------------------------
(* The inductive invariant.                                                *)

\* The contexts of session s that were given an endpoint id.
Wired(s) == {c \in Contexts : owner[c] = s /\ wire[c] # 0}

\* What open() has done for a context, and what no session has done before it
\* has a process.
OpenShape ==
  /\ \A c \in Created : process[owner[c]] # "none"
  /\ \A s \in active : process[s] # "none"
  /\ \A s \in Sessions : process[s] = "none" => Packets(s) = {}
  /\ \A c \in Contexts \ Created :
       opening[c] = "none" /\ endpoint[c] = "none" /\ wire[c] = 0
  /\ \A c \in Contexts : opening[c] \in {"none", "queued", "granted"} => wire[c] = 0
  /\ \A c \in Contexts : opening[c] = "granted" /\ terminal[c] = "none"
                           => slot[c] # "none" /\ c \in Created
  /\ \A c \in unread : endpoint[c] = "ready"

\* Endpoint ids count the offers of a session, and acknowledgements travel in
\* the order of their ids, below those still in the carrier.
Numbering ==
  \A s \in Sessions :
    /\ watermark[s] <= Cardinality(Wired(s))
    /\ \A c \in Wired(s) : wire[c] <= Cardinality(Wired(s))
    /\ \A i \in DOMAIN acks[s] : wire[acks[s][i]] \in 1 .. watermark[s]
    /\ \A i, j \in DOMAIN acks[s] : i < j => wire[acks[s][i]] < wire[acks[s][j]]

SessionInv ==
  /\ SessionTypeOK
  /\ OpenShape
  /\ Numbering
  /\ InFlightIsCharged
  /\ CarrierIsMonotone
  /\ EndpointsAreOpen

-----------------------------------------------------------------------------
(* What the schedulers keep for the sessions.                              *)

\* A scheduler step that forgets at most the offers of X: ends are final, and
\* open work keeps its slot and its acknowledged offer.
Keeps(X) ==
  /\ UNCHANGED identity
  /\ \A c \in Contexts : terminal[c] # "none" => terminal'[c] # "none"
  /\ \A c \in Created : terminal'[c] = "none" =>
       /\ slot[c] # "none" => slot'[c] # "none"
       /\ offer[c] = "ready" => offer'[c] = "ready"
  /\ \A c \in records \ X : offer[c] = "sent" /\ slot[c] # "none" =>
       c \in records' /\ offer'[c] = "sent" /\ slot'[c] # "none"

\* What every settlement keeps.
LEMMA SettlementKeeps ==
  ASSUME IndInv, Settlement
  PROVE  /\ IndInv' /\ UNCHANGED identity
         /\ \A c \in Contexts : terminal[c] # "none" => terminal'[c] # "none"
         /\ \A c \in Created : terminal'[c] = "none" =>
              /\ slot[c] # "none" => slot'[c] # "none"
              /\ offer[c] = "ready" => offer'[c] = "ready"
<1>1. PICK out, R, down : Settle(out, R, down) /\ SoundStep(out, R, down)
  BY DEF Settlement
<1>2. IndInv'
  BY SettlePreserves
<1>3. /\ UNCHANGED identity /\ counter' = counter
      /\ offer' = [c \in Contexts |-> Forget(c)]
  BY <1>1 DEF SoundStep, identity
<1>4. \A c \in Contexts :
        /\ terminal[c] # "none" => terminal'[c] # "none"
        /\ slot[c] # "none" /\ c \in records' => slot'[c] = slot[c]
  BY <1>1, SettleContexts
<1>5. \A c \in Created : c \in Contexts /\ (terminal'[c] = "none" => c \in records')
  BY <1>2, <1>3, CreatedContexts DEF IndInv, RecordLifetime, Created
<1> QED  BY <1>2, <1>3, <1>4, <1>5 DEF Forget

\* Outside R, a settlement keeps every record whose descriptor is in flight:
\* what the drain drops was never offered.
LEMMA SettleKeepsOffers ==
  ASSUME IndInv, NEW out, NEW R, NEW down, Settle(out, R, down),
         offer' = [c \in Contexts |-> Forget(c)]
  PROVE  \A c \in records \ R : offer[c] = "sent" /\ slot[c] # "none" =>
           c \in records' /\ offer'[c] = "sent" /\ slot'[c] # "none"
<1>1. PICK T \in SUBSET UNION {queue[s] : s \in Sessions} :
        LET started == {c \in T : Startable(c)}
            gone == R \union (T \ started)
        IN  /\ records' = records \ gone
            /\ slot' = [c \in Contexts |->
                          IF c \in gone THEN "none"
                          ELSE IF c \in started THEN "ordinary" ELSE slot[c]]
  BY DEF Settle
<1>2. \A c \in T : slot[c] = "none"
  BY DEF IndInv, QueueHoldsTheUnslotted, Owned
<1>3. records \subseteq Contexts
  BY DEF IndInv, TypeOK
<1> QED  BY <1>1, <1>2, <1>3 DEF Forget

\* finish() keeps every descriptor in flight.
LEMMA FinishKeeps ==
  ASSUME IndInv, NEW c \in Created, NEW code \in Outcomes, FinishContext(c, code)
  PROVE  IndInv' /\ Keeps({})
<1> DEFINE out == Finished(c, code)
           R == Releasable(DOMAIN out, failed)
<1>1. Settlement
  BY FinishContextStep
<1>2. Settle(out, R, failed) /\ offer' = [d \in Contexts |-> Forget(d)]
  BY DEF FinishContext
<1>3. \A d \in R : offer[d] # "sent"
  BY DEF Releasable
<1> HIDE DEF out, R
<1> QED  BY <1>1, <1>2, <1>3, SettlementKeeps, SettleKeepsOffers DEF Keeps

\* fail() keeps every descriptor in flight.
LEMMA FailKeeps ==
  ASSUME IndInv, NEW s \in Sessions, Fail(s)
  PROVE  IndInv' /\ Keeps({})
<1> DEFINE out == [d \in Doomed(s) |-> "UNAVAILABLE"]
           down == failed \union {s}
           R == Releasable(Doomed(s), down)
<1>1. Settlement
  BY FailStep
<1>2. Settle(out, R, down) /\ offer' = [d \in Contexts |-> Forget(d)]
  BY DEF Fail
<1>3. \A d \in R : offer[d] # "sent"
  BY DEF Releasable
<1> HIDE DEF out, R, down
<1> QED  BY <1>1, <1>2, <1>3, SettlementKeeps, SettleKeepsOffers DEF Keeps

\* reaped() keeps the descriptors in flight of the other sessions.
LEMMA ReapedKeeps ==
  ASSUME IndInv, NEW s \in Sessions, Reaped(s)
  PROVE  IndInv' /\ Keeps(Owned(records, s))
<1> DEFINE out == [d \in Doomed(s) |-> "UNAVAILABLE"]
           down == failed \union {s}
           R == Releasable(Doomed(s), down) \union Owned(records, s)
<1>1. Settlement
  BY ReapedStep
<1>2. Settle(out, R, down) /\ offer' = [d \in Contexts |-> Forget(d)]
  BY DEF Reaped
<1>3. \A d \in R : offer[d] # "sent" \/ d \in Owned(records, s)
  BY DEF Releasable
<1> HIDE DEF out, R, down
<1> QED  BY <1>1, <1>2, <1>3, SettlementKeeps, SettleKeepsOffers DEF Keeps

\* acknowledge() keeps every other descriptor in flight.
LEMMA AcknowledgeKeeps ==
  ASSUME IndInv, NEW c \in Contexts, Acknowledge(c)
  PROVE  IndInv' /\ Keeps({c})
<1>0. offer' = [d \in Contexts |->
                  IF d = c /\ Live(c) THEN "ready" ELSE Forget(d)]
  BY DEF Acknowledge
<1>1. CASE Live(c)
  <2>1. UNCHANGED <<contexts, broker>> /\ UNCHANGED <<identity, physical>>
    BY <1>1 DEF Acknowledge, Live
  <2>2. /\ terminal' = terminal /\ records' = records /\ slot' = slot
    BY <2>1 DEF contexts, broker
  <2>3. \A d \in Contexts : d # c => offer'[d] = offer[d]
    BY <1>0, <2>2 DEF Forget, IndInv, Shape
  <2>4. IndInv'
    BY AcknowledgeStep, SettlePreserves
  <2>5. offer'[c] = "ready" /\ records \subseteq Contexts /\ Created \subseteq Contexts
    BY <1>0, <1>1, CreatedContexts DEF IndInv, TypeOK
  <2> QED  BY <2>1, <2>2, <2>3, <2>4, <2>5 DEF Keeps
<1>2. CASE ~Live(c)
  <2>1. offer' = [d \in Contexts |-> Forget(d)]
    BY <1>0, <1>2
  <2>2. PICK out, R : Settle(out, R, failed) /\ \A d \in R : d = c \/ offer[d] # "sent"
    <3>1. CASE Settle(NoOutcome, {c}, failed)
      BY <3>1
    <3>2. CASE Settle(Finished(c, LapseCode(c)),
                 Releasable(DOMAIN Finished(c, LapseCode(c)), failed) \union {c}, failed)
      BY <3>2 DEF Releasable
    <3> QED  BY <1>2, <3>1, <3>2 DEF Acknowledge
  <2>3. IndInv' /\ UNCHANGED identity
    BY AcknowledgeStep, SettlePreserves DEF Acknowledge
  <2>4. CASE Settlement
    BY <2>1, <2>2, <2>4, SettlementKeeps, SettleKeepsOffers DEF Keeps
  <2>5. CASE UNCHANGED <<identity, terminal, broker, physical>>
    <3>1. terminal' = terminal /\ records' = records /\ slot' = slot
      BY <2>5 DEF broker
    <3>2. \A d \in Contexts : offer'[d] = offer[d]
      BY <2>1, <3>1 DEF Forget, IndInv, Shape
    <3>3. records \subseteq Contexts /\ Created \subseteq Contexts
      BY CreatedContexts DEF IndInv, TypeOK
    <3> QED  BY <2>3, <3>1, <3>2, <3>3 DEF Keeps
  <2> QED  BY <2>4, <2>5, AcknowledgeStep
<1> QED  BY <1>1, <1>2

-----------------------------------------------------------------------------
(* Every step of the sessions is a step of the schedulers.                 *)

\* An acknowledged offer has a slot, and a context that is being opened or
\* read is open work of a scheduler.
LEMMA UnreadIsStarted ==
  ASSUME IndInv, SessionInv, NEW c \in unread
  PROVE  c \in Created /\ c \in records /\ slot[c] # "none" /\ terminal[c] = "none"
<1>1. c \in Contexts /\ endpoint[c] = "ready"
  BY DEF SessionInv, SessionTypeOK, OpenShape
<1>2. c \in Created
  BY <1>1 DEF SessionInv, OpenShape
<1>3. terminal[c] = "none" /\ offer[c] = "ready"
  BY <1>1, <1>2 DEF SessionInv, EndpointsAreOpen
<1>4. c \in records
  BY <1>2, <1>3 DEF IndInv, RecordLifetime, Created
<1>5. owner[c] \in Sessions
  BY <1>2 DEF IndInv, Shape
<1> QED  BY <1>2, <1>3, <1>4, <1>5 DEF IndInv, QueueHoldsTheUnslotted, Owned

\* A step of the sessions is a step of the schedulers or changes none of
\* their variables.
LEMMA StepImplements ==
  ASSUME IndInv, SessionInv, [SessionNext]_allVars
  PROVE  [Next]_vars
<1>1. ASSUME NEW s \in Sessions, Fail(s) \/ Reaped(s)
      PROVE  Next
  BY <1>1 DEF Next
<1>2. ASSUME NEW c \in Contexts, NEW code \in FinishCodes, Finish(c, code)
      PROVE  Next
  BY <1>2 DEF Next
<1>3. CASE UNCHANGED allVars
  BY <1>3 DEF allVars
<1>4. ASSUME NEW s \in Sessions,
             \/ Launch(s) \/ LaunchUnowned(s) \/ LaunchFails(s) \/ Handshake(s)
             \/ Fault(s) \/ ControlEOF(s) \/ Dead(s) \/ FailMidturn(s)
      PROVE  [Next]_vars
  BY <1>1, <1>4 DEF Launch, LaunchUnowned, LaunchFails, Handshake, Fault,
       ControlEOF, Dead, FailMidturn, FailSession
<1>5. ASSUME NEW s \in Sessions, PumpReady(s)
      PROVE  Next
  <2>1. Head(acks[s]) \in Contexts
    BY <1>5 DEF PumpReady, SessionInv, SessionTypeOK
  <2> QED  BY <1>5, <2>1 DEF PumpReady, Next
<1>6. ASSUME NEW s \in Sessions, NEW lifecycle \in BOOLEAN,
             NEW par \in Contexts \union {NoContext}, Open(s, lifecycle, par)
      PROVE  Next
  BY <1>6 DEF Open, Next
<1>7. ASSUME NEW c \in Contexts, OpenResumes(c)
      PROVE  [Next]_vars
  <2>1. CASE SendOffer(c) \/ SendFails(c)
    BY <2>1 DEF SendOffer, SendFails, Next
  <2>2. CASE OpenThrows(c) \/ OpenReturns(c)
    BY <2>2 DEF OpenThrows, OpenReturns
  <2>3. CASE OpenLapsed(c)
    <3>1. c \in Created /\ terminal[c] = "none" /\ slot[c] # "none"
      BY <2>3 DEF OpenLapsed, SessionInv, OpenShape
    <3>2. c \in records
      BY <3>1 DEF IndInv, RecordLifetime, Created
    <3>3. Finish(c, "UNAVAILABLE")
      BY <2>3, <3>1, <3>2 DEF OpenLapsed, Finish
    <3> QED  BY <1>2, <3>3, TransportCodesAssumption
  <2> QED  BY <1>7, <2>1, <2>2, <2>3 DEF OpenResumes
<1>8. ASSUME NEW c \in Contexts, PumpStaleFrame(c)
      PROVE  Next
  <2>1. Finish(c, LapseCode(c))
    BY <1>8, UnreadIsStarted DEF PumpStaleFrame, Finish
  <2>2. LapseCode(c) \in FinishCodes
    BY TransportCodesAssumption DEF LapseCode, Lapses, IndInv, TypeOK
  <2> QED  BY <1>2, <2>1, <2>2
<1>9. ASSUME NEW c \in Contexts, PumpEOF(c)
      PROVE  Next
  <2>1. owner[c] \in Sessions
    BY <1>9 DEF PumpEOF, SessionInv, SessionTypeOK
  <2> QED  BY <1>1, <1>9, <2>1 DEF PumpEOF, FailSession
<1>10. ASSUME NEW c \in Contexts, NEW reply \in BOOLEAN, PumpFrame(c, reply)
       PROVE  [Next]_vars
  BY <1>2, <1>10, TransportCodesAssumption DEF PumpFrame
<1>11. ASSUME NEW c \in Contexts,
              \/ DeadlineFires(c) \/ Cancelled(c) \/ OfferExpires(c)
              \/ DeadlinePasses(c) \/ AuthorityLost(c)
       PROVE  Next
  BY <1>11 DEF DeadlineFires, Cancelled, OfferExpires, DeadlinePasses,
       AuthorityLost, Next
<1>12. ASSUME NEW s \in Sessions,
              WorkerPump(s) \/ WorkerRefuses(s) \/ WorkerExits(s) \/ Kill(s)
       PROVE  UNCHANGED vars
  BY <1>12 DEF WorkerPump, WorkerRefuses, WorkerExits, Kill
<1>13. ASSUME NEW c \in Contexts, WorkerSends(c)
       PROVE  UNCHANGED vars
  BY <1>13 DEF WorkerSends
<1>14. CASE BrokerStep
  BY <1>4, <1>5, <1>6, <1>7, <1>8, <1>9, <1>10, <1>11, <1>14 DEF BrokerStep
<1>15. CASE WorkerStep
  BY <1>11, <1>12, <1>13, <1>15 DEF WorkerStep
<1> QED  BY <1>3, <1>4, <1>14, <1>15 DEF SessionNext

-----------------------------------------------------------------------------
(* Steps that end contexts.                                                *)

\* A call that is not opened yet is not opened by an abort or a grant.
LEMMA OpeningAfterType ==
  ASSUME SessionTypeOK, NEW c \in Contexts
  PROVE  /\ OpeningAfter(c) \in OpenStates
         /\ OpeningAfter(c) \in {"answered", "opened"}
              <=> opening[c] \in {"answered", "opened"}
         /\ OpeningAfter(c) \in {"none", "queued", "granted"}
              => opening[c] \in {"none", "queued", "granted"}
         /\ OpeningAfter(c) = "granted" => opening[c] = "granted" \/ slot'[c] # "none"
         /\ opening[c] = "none" => OpeningAfter(c) = "none"
BY DEF OpeningAfter, SessionTypeOK, OpenStates

\* Ids stay in order when nothing is added to the carrier or the control
\* stream.
LEMMA NumberingStays ==
  ASSUME SessionInv, UNCHANGED <<owner, wire, watermark>>,
         \A s \in Sessions : /\ carrier'[s] \in {carrier[s], <<>>}
                             /\ acks'[s] \in {acks[s], <<>>}
  PROVE  Numbering' /\ CarrierIsMonotone'
<1>1. Numbering'
  <2>1. \A s \in Sessions : Wired(s)' = Wired(s)
    BY DEF Wired
  <2>2. \A s \in Sessions : \A i \in DOMAIN acks'[s] :
          i \in DOMAIN acks[s] /\ acks'[s][i] = acks[s][i]
    OBVIOUS
  <2> QED  BY <2>1, <2>2 DEF SessionInv, Numbering
<1>2. CarrierIsMonotone'
  <2>1. \A s \in Sessions : \A i \in DOMAIN carrier'[s] :
          i \in DOMAIN carrier[s] /\ carrier'[s][i] = carrier[s][i]
    OBVIOUS
  <2> QED  BY <2>1 DEF SessionInv, CarrierIsMonotone
<1> QED  BY <1>1, <1>2

\* A step that ends contexts, forgets at most the offers of X and tells the
\* sessions (Notify) preserves the invariant, as long as nothing of X is in
\* flight afterwards.
LEMMA ReleaseStep ==
  ASSUME IndInv, IndInv', SessionInv, SessionTypeOK', NEW X, Keeps(X),
         UNCHANGED <<wire, watermark>>,
         \A s \in Sessions : /\ carrier'[s] \in {carrier[s], <<>>}
                             /\ acks'[s] \in {acks[s], <<>>}
                             /\ Packets(s)' \intersect X = {}
                             /\ process[s] # "none" => process'[s] # "none",
         \A c \in Contexts :
           \/ opening'[c] = OpeningAfter(c)
           \/ opening'[c] = "over" /\ opening[c] \notin {"answered", "opened"},
         \A c \in Contexts : opening[c] = "none" => opening'[c] = "none",
         \A c \in Contexts : endpoint'[c] = EndpointAfter(c),
         unread' \subseteq {c \in unread : terminal'[c] = "none"},
         active' \subseteq active
  PROVE  SessionInv'
<1>1. /\ counter' = counter /\ owner' = owner /\ line' = line /\ Created' = Created
      /\ Created \subseteq Contexts /\ SessionTypeOK
      /\ \A c \in Created : owner[c] \in Sessions
  BY CreatedContexts DEF Keeps, identity, Created, IndInv, Shape, SessionInv
<1>2. \A s \in Sessions : Packets(s)' \subseteq Packets(s)
  BY DEF Packets, Range
<1>3. InFlightIsCharged'
  BY <1>1, <1>2 DEF InFlightIsCharged, SessionInv, Keeps
<1>4. Numbering' /\ CarrierIsMonotone'
  BY <1>1, NumberingStays
<1>5. EndpointsAreOpen'
  <2>1. ASSUME NEW c \in Created
        PROVE  /\ endpoint'[c] # "none" <=> wire[c] # 0 /\ terminal'[c] = "none"
               /\ endpoint'[c] = "ready" => offer'[c] = "ready"
    BY <1>1 DEF Keeps, EndpointAfter, SessionInv, EndpointsAreOpen
  <2>2. ASSUME NEW c \in Created, offer'[c] = "ready"
        PROVE  c \notin Packets(owner[c])'
    BY <1>1, <1>3, <2>2 DEF InFlightIsCharged
  <2>3. ASSUME NEW c \in Created, terminal'[c] = "none"
        PROVE  endpoint'[c] = "ready" <=> opening'[c] \in {"answered", "opened"}
    <3>1. terminal[c] = "none" /\ c \in Contexts
      BY <1>1, <2>3 DEF Keeps
    <3>2. endpoint'[c] = endpoint[c]
      BY <2>3, <3>1 DEF EndpointAfter
    <3>3. opening'[c] \in {"answered", "opened"} <=> opening[c] \in {"answered", "opened"}
      BY <1>1, <3>1, OpeningAfterType
    <3> QED  BY <3>1, <3>2, <3>3 DEF SessionInv, EndpointsAreOpen
  <2> QED  BY <1>1, <2>1, <2>2, <2>3 DEF EndpointsAreOpen
<1>6. OpenShape'
  <2>1. /\ \A c \in Created : process'[owner[c]] # "none"
        /\ \A s \in active' : process'[s] # "none"
    BY <1>1 DEF SessionInv, OpenShape, SessionTypeOK
  <2>2. \A s \in Sessions : process'[s] = "none" => Packets(s)' = {}
    BY <1>2 DEF SessionInv, OpenShape
  <2>3. \A c \in Contexts \ Created :
          opening'[c] = "none" /\ endpoint'[c] = "none" /\ wire[c] = 0
    BY DEF SessionInv, OpenShape, EndpointAfter
  <2>4. \A c \in Contexts : opening'[c] \in {"none", "queued", "granted"} => wire[c] = 0
    BY <1>1, OpeningAfterType DEF SessionInv, OpenShape
  <2>5. ASSUME NEW c \in Contexts, opening'[c] = "granted", terminal'[c] = "none"
        PROVE  slot'[c] # "none" /\ c \in Created
    <3>1. c \in Created
      BY <2>3, <2>5
    <3>2. terminal[c] = "none" /\ (opening[c] = "granted" \/ slot'[c] # "none")
      BY <1>1, <2>5, OpeningAfterType DEF Keeps
    <3> QED  BY <2>5, <3>1, <3>2 DEF Keeps, SessionInv, OpenShape
  <2>6. ASSUME NEW c \in unread'
        PROVE  endpoint'[c] = "ready"
    <3>1. c \in unread /\ c \in Contexts /\ terminal'[c] = "none"
      BY <2>6 DEF SessionInv, SessionTypeOK
    <3>2. endpoint[c] = "ready"
      BY <3>1 DEF SessionInv, OpenShape
    <3> QED  BY <3>1, <3>2 DEF EndpointAfter
  <2> QED  BY <1>1, <2>1, <2>2, <2>3, <2>4, <2>5, <2>6 DEF OpenShape
<1> QED  BY <1>3, <1>4, <1>5, <1>6 DEF SessionInv

\* Steps that end contexts and touch no channel.
LEMMA EndingSteps ==
  ASSUME IndInv, SessionInv, NEW X, IndInv', Keeps(X), Notify,
         \A s \in Sessions : Packets(s) \intersect X = {},
         UNCHANGED <<wire, carrier, acks, worker, pidfd>>,
         live' \subseteq Sessions, faulty' \subseteq Sessions,
         midturn' \subseteq Sessions,
         process' \in [Sessions -> {"none", "up", "closed", "down"}],
         \A s \in Sessions : process[s] # "none" => process'[s] # "none"
  PROVE  SessionInv'
<1>1. SessionTypeOK
  BY DEF SessionInv
<1>2. SessionTypeOK'
  <2>1. opening' \in [Contexts -> OpenStates]
    BY <1>1, OpeningAfterType DEF Notify
  <2>2. endpoint' \in [Contexts -> {"none", "pending", "ready"}]
    BY <1>1 DEF Notify, EndpointAfter, SessionTypeOK
  <2> QED  BY <1>1, <2>1, <2>2 DEF Notify, SessionTypeOK, worker
<1>3. \A s \in Sessions : Packets(s)' = Packets(s)
  BY DEF Packets, Range
<1>4. \A c \in Contexts : opening[c] = "none" => opening'[c] = "none"
  BY <1>1, OpeningAfterType DEF Notify
<1> QED  BY <1>2, <1>3, <1>4, ReleaseStep DEF Notify, worker

\* Failing a session, and ending single contexts, preserves the invariant.
LEMMA EndingActions ==
  ASSUME IndInv, SessionInv, Notify, UNCHANGED <<wire, carrier, acks, worker, pidfd>>,
         live' \subseteq Sessions, faulty' \subseteq Sessions,
         midturn' \subseteq Sessions,
         process' \in [Sessions -> {"none", "up", "closed", "down"}],
         \A s \in Sessions : process[s] # "none" => process'[s] # "none",
         \/ \E s \in Sessions : Fail(s)
         \/ \E s \in Sessions : Reaped(s) /\ process[s] = "none"
         \/ \E c \in Created, code \in Outcomes : FinishContext(c, code)
  PROVE  SessionInv'
<1>1. CASE \/ \E s \in Sessions : Fail(s)
           \/ \E c \in Created, code \in Outcomes : FinishContext(c, code)
  <2>1. IndInv' /\ Keeps({})
    BY <1>1, FailKeeps, FinishKeeps
  <2> QED  BY <2>1, EndingSteps
<1>2. ASSUME NEW s \in Sessions, Reaped(s), process[s] = "none"
      PROVE  SessionInv'
  <2>1. IndInv' /\ Keeps(Owned(records, s))
    BY <1>2, ReapedKeeps
  <2>2. \A t \in Sessions : Packets(t) \intersect Owned(records, s) = {}
    BY <1>2 DEF SessionInv, OpenShape, InFlightIsCharged, Owned
  <2> QED  BY <2>1, <2>2, EndingSteps
<1> QED  BY <1>1, <1>2

\* The broker's steps that end contexts by a failure, a frame or a timer.
LEMMA BrokerEndings ==
  ASSUME IndInv, SessionInv,
         \/ \E s \in Sessions : \/ LaunchUnowned(s) \/ LaunchFails(s) \/ Fault(s)
                                \/ ControlEOF(s) \/ FailMidturn(s)
         \/ \E c \in Contexts : \/ PumpStaleFrame(c) \/ PumpEOF(c)
                                \/ DeadlineFires(c) \/ Cancelled(c) \/ OfferExpires(c)
         \/ \E c \in Contexts : PumpFrame(c, TRUE)
  PROVE  SessionInv'
<1>0. SessionTypeOK /\ records \subseteq Created
  BY DEF SessionInv, IndInv, Shape
<1>1. ASSUME NEW s \in Sessions, LaunchUnowned(s)
      PROVE  SessionInv'
  <2>1. /\ Fail(s) /\ Notify /\ UNCHANGED <<wire, carrier, acks, worker, pidfd>>
        /\ live' \subseteq Sessions /\ faulty' \subseteq Sessions
        /\ midturn' \subseteq Sessions
        /\ process' \in [Sessions -> {"none", "up", "closed", "down"}]
        /\ \A t \in Sessions : process[t] # "none" => process'[t] # "none"
    BY <1>0, <1>1 DEF LaunchUnowned, FailSession, SessionTypeOK
  <2> QED  BY <2>1, EndingActions
<1>2. ASSUME NEW s \in Sessions, LaunchFails(s)
      PROVE  SessionInv'
  <2>1. /\ Reaped(s) /\ process[s] = "none" /\ Notify
        /\ UNCHANGED <<wire, carrier, acks, worker, pidfd>>
        /\ live' \subseteq Sessions /\ faulty' \subseteq Sessions
        /\ midturn' \subseteq Sessions /\ process' = process
        /\ process' \in [Sessions -> {"none", "up", "closed", "down"}]
    BY <1>0, <1>2 DEF LaunchFails, SessionTypeOK, supervisor
  <2> QED  BY <2>1, EndingActions
<1>3. ASSUME NEW s \in Sessions, Fault(s) \/ ControlEOF(s) \/ FailMidturn(s)
      PROVE  SessionInv'
  <2>1. /\ Fail(s) /\ Notify
        /\ UNCHANGED <<wire, carrier, acks, worker, pidfd>>
        /\ live' \subseteq Sessions /\ faulty' \subseteq Sessions
        /\ midturn' \subseteq Sessions /\ process' = process
        /\ process' \in [Sessions -> {"none", "up", "closed", "down"}]
    BY <1>0, <1>3 DEF Fault, ControlEOF, FailMidturn, FailSession, SessionTypeOK, supervisor
  <2> QED  BY <2>1, EndingActions
<1>4. ASSUME NEW c \in Contexts,
             \/ PumpStaleFrame(c) \/ PumpEOF(c) \/ PumpFrame(c, TRUE)
             \/ DeadlineFires(c) \/ Cancelled(c) \/ OfferExpires(c)
      PROVE  SessionInv'
  <2>1. /\ Notify /\ UNCHANGED <<wire, carrier, acks, worker, pidfd>>
        /\ live' \subseteq Sessions /\ faulty' \subseteq Sessions
        /\ midturn' \subseteq Sessions /\ process' = process
        /\ process' \in [Sessions -> {"none", "up", "closed", "down"}]
    <3>1. OfferExpires(c) => owner[c] \in Sessions
      BY <1>0 DEF OfferExpires, OfferTimeout, IndInv, Shape
    <3> QED  BY <1>0, <1>4, <3>1 DEF PumpStaleFrame, PumpEOF, PumpFrame, DeadlineFires,
               Cancelled, OfferExpires, FailSession, SessionTypeOK, supervisor
  <2>2. \/ \E s \in Sessions : Fail(s)
        \/ \E d \in Created, code \in Outcomes : FinishContext(d, code)
    <3>1. CASE PumpStaleFrame(c)
      <4>1. c \in Created /\ LapseCode(c) \in Outcomes
        BY <3>1, UnreadIsStarted
          DEF PumpStaleFrame, LapseCode, Outcomes, Lapses, IndInv, TypeOK
      <4> QED  BY <3>1, <4>1 DEF PumpStaleFrame
    <3>2. CASE PumpEOF(c)
      BY <1>0, <3>2 DEF PumpEOF, FailSession, SessionTypeOK
    <3>3. CASE PumpFrame(c, TRUE)
      BY <3>3, UnreadIsStarted DEF PumpFrame, Finish, Outcomes
    <3>4. CASE DeadlineFires(c) \/ Cancelled(c)
      BY <1>0, <3>4 DEF DeadlineFires, Cancelled, DeadlineTimer, Abort, Outcomes, Lapses
    <3>5. CASE OfferExpires(c)
      BY <1>0, <3>5 DEF OfferExpires, OfferTimeout, IndInv, Shape
    <3> QED  BY <1>4, <3>1, <3>2, <3>3, <3>4, <3>5
  <2> QED  BY <2>1, <2>2, EndingActions
<1> QED  BY <1>1, <1>2, <1>3, <1>4

\* The exit of a child empties its channels and gives back its records.
LEMMA DeadStep ==
  ASSUME IndInv, SessionInv, NEW s \in Sessions, Dead(s)
  PROVE  SessionInv'
<1>0. SessionTypeOK
  BY DEF SessionInv
<1>1. IndInv' /\ Keeps(Owned(records, s))
  BY ReapedKeeps DEF Dead
<1>2. SessionTypeOK'
  <2>1. opening' \in [Contexts -> OpenStates]
    BY <1>0, OpeningAfterType DEF Dead, Notify
  <2>2. endpoint' \in [Contexts -> {"none", "pending", "ready"}]
    BY <1>0 DEF Dead, Notify, EndpointAfter, SessionTypeOK
  <2>3. <<>> \in Seq(Contexts)
    OBVIOUS
  <2>4. carrier' \in [Sessions -> Seq(Contexts)] /\ acks' \in [Sessions -> Seq(Contexts)]
    BY <1>0, <2>3 DEF Dead, SessionTypeOK
  <2> QED  BY <1>0, <2>1, <2>2, <2>4 DEF Dead, Notify, SessionTypeOK
<1>3. \A t \in Sessions : /\ carrier'[t] \in {carrier[t], <<>>}
                          /\ acks'[t] \in {acks[t], <<>>}
                          /\ process[t] # "none" => process'[t] # "none"
  BY <1>0 DEF Dead, SessionTypeOK
<1>4. \A t \in Sessions : Packets(t)' \intersect Owned(records, s) = {}
  <2>1. Packets(s)' = {}
    BY <1>0 DEF Dead, SessionTypeOK, Packets, Range
  <2>2. ASSUME NEW t \in Sessions, t # s
        PROVE  Packets(t)' = Packets(t)
    BY <1>0, <2>2 DEF Dead, SessionTypeOK, Packets, Range
  <2> QED  BY <2>1, <2>2 DEF SessionInv, InFlightIsCharged, Owned
<1>5. \A c \in Contexts : opening[c] = "none" => opening'[c] = "none"
  BY <1>0, OpeningAfterType DEF Dead, Notify
<1> QED  BY <1>1, <1>2, <1>3, <1>4, <1>5, ReleaseStep DEF Dead, Notify

\* The catch block of open() for a lapsed context.
LEMMA OpenLapsedStep ==
  ASSUME IndInv, SessionInv, NEW c \in Contexts, OpenLapsed(c)
  PROVE  SessionInv'
<1>0. SessionTypeOK /\ c \in Created /\ owner[c] \in Sessions
  BY DEF SessionInv, OpenShape, OpenLapsed, IndInv, Shape
<1>1. IndInv' /\ Keeps({})
  BY <1>0, FinishKeeps DEF OpenLapsed, Outcomes
<1>2. SessionTypeOK'
  <2>1. opening' \in [Contexts -> OpenStates]
    BY <1>0, OpeningAfterType DEF OpenLapsed, OpenStates
  <2>2. endpoint' \in [Contexts -> {"none", "pending", "ready"}]
    BY <1>0 DEF OpenLapsed, EndpointAfter, SessionTypeOK
  <2> QED  BY <1>0, <2>1, <2>2 DEF OpenLapsed, SessionTypeOK, supervisor, worker
<1>3. \A s \in Sessions : Packets(s)' = Packets(s)
  BY DEF OpenLapsed, Packets, Range
<1>4. \A d \in Contexts :
        /\ \/ opening'[d] = OpeningAfter(d)
           \/ opening'[d] = "over" /\ opening[d] \notin {"answered", "opened"}
        /\ opening[d] = "none" => opening'[d] = "none"
  BY <1>0, OpeningAfterType DEF OpenLapsed
<1> QED  BY <1>1, <1>2, <1>3, <1>4, ReleaseStep DEF OpenLapsed, supervisor, worker

-----------------------------------------------------------------------------
(* Steps that leave the schedulers' accounts alone.                        *)

\* What a step needs to preserve the invariant when neither the schedulers
\* nor the channels change.
LEMMA QuietSession ==
  ASSUME SessionInv, SessionTypeOK',
         UNCHANGED <<identity, terminal, records, slot, offer, wire, carrier,
                     acks, watermark, endpoint>>,
         \A s \in Sessions : process[s] # "none" => process'[s] # "none",
         \A s \in active' : process'[s] # "none",
         \A c \in Contexts :
           \/ opening'[c] = opening[c]
           \/ /\ opening'[c] = "over"
              /\ opening[c] \notin {"none", "answered", "opened"}
           \/ opening'[c] = "opened" /\ opening[c] = "answered",
         \A c \in unread' : c \in unread \/ endpoint[c] = "ready",
         \A c \in Created : owner[c] \in Sessions /\ c \in Contexts
  PROVE  SessionInv'
<1>1. counter' = counter /\ owner' = owner /\ Created' = Created
  BY DEF identity, Created
<1>2. \A s \in Sessions : Packets(s)' = Packets(s) /\ Wired(s)' = Wired(s)
  BY <1>1 DEF Packets, Range, Wired
<1>3. InFlightIsCharged' /\ Numbering' /\ CarrierIsMonotone'
  BY <1>1, <1>2 DEF SessionInv, InFlightIsCharged, Numbering, CarrierIsMonotone
<1>4. EndpointsAreOpen'
  <2>1. \A c \in Created : Packets(owner[c])' = Packets(owner[c])
    BY <1>1, <1>2
  <2>2. \A c \in Created :
          opening'[c] \in {"answered", "opened"} <=> opening[c] \in {"answered", "opened"}
    OBVIOUS
  <2> QED  BY <1>1, <2>1, <2>2 DEF SessionInv, EndpointsAreOpen
<1>5. OpenShape'
  BY <1>1, <1>2 DEF SessionInv, OpenShape
<1> QED  BY <1>3, <1>4, <1>5 DEF SessionInv

\* The steps of the supervisor, of open() and of the worker that change no
\* channel.
LEMMA QuietSteps ==
  ASSUME IndInv, SessionInv,
         \/ \E s \in Sessions : \/ Launch(s) \/ Handshake(s) \/ Kill(s)
                                \/ WorkerRefuses(s) \/ WorkerExits(s)
         \/ \E c \in Contexts : \/ OpenThrows(c) \/ OpenReturns(c) \/ WorkerSends(c)
                                \/ DeadlinePasses(c) \/ AuthorityLost(c)
                                \/ PumpFrame(c, FALSE)
         \/ UNCHANGED allVars
  PROVE  SessionInv'
<1>0. SessionTypeOK /\ \A c \in Created : owner[c] \in Sessions /\ c \in Contexts
  BY CreatedContexts DEF SessionInv, IndInv, Shape
<1>1. ASSUME NEW s \in Sessions,
             \/ Launch(s) \/ Handshake(s) \/ Kill(s) \/ WorkerRefuses(s) \/ WorkerExits(s)
      PROVE  SessionInv'
  <2>1. /\ UNCHANGED <<identity, terminal, records, slot, offer>>
        /\ UNCHANGED <<wire, carrier, acks, watermark, endpoint, opening, unread>>
    BY <1>1 DEF Launch, Handshake, Kill, WorkerRefuses, WorkerExits, vars,
         contexts, broker, supervisor, worker
  <2>2. SessionTypeOK'
    BY <1>0, <1>1, <2>1 DEF Launch, Handshake, Kill, WorkerRefuses, WorkerExits,
         SessionTypeOK, supervisor, worker
  <2>3. /\ \A t \in Sessions : process[t] # "none" => process'[t] # "none"
        /\ active' \subseteq active \union {t \in {s} : process'[t] # "none"}
    BY <1>0, <1>1 DEF Launch, Handshake, Kill, WorkerRefuses, WorkerExits,
         SessionTypeOK, supervisor
  <2>4. \A t \in active' : process'[t] # "none"
    BY <1>0, <2>3 DEF SessionInv, OpenShape, SessionTypeOK
  <2> QED  BY <1>0, <2>1, <2>2, <2>3, <2>4, QuietSession
<1>2. ASSUME NEW c \in Contexts,
             \/ OpenThrows(c) \/ OpenReturns(c) \/ WorkerSends(c)
             \/ DeadlinePasses(c) \/ AuthorityLost(c) \/ PumpFrame(c, FALSE)
      PROVE  SessionInv'
  <2>1. /\ UNCHANGED <<identity, terminal, records, slot, offer>>
        /\ UNCHANGED <<wire, carrier, acks, watermark, endpoint, process, active>>
    BY <1>2 DEF OpenThrows, OpenReturns, WorkerSends, DeadlinePasses,
         AuthorityLost, Expire, Revoke, PumpFrame, vars,
         contexts, broker, supervisor, worker, sessionVars
  <2>2. CASE OpenThrows(c) \/ OpenReturns(c)
    <3>1. c \in Created
      BY <2>2 DEF OpenThrows, OpenReturns, SessionInv, OpenShape
    <3>2. /\ UNCHANGED <<live, pidfd, process, held, watermark, faulty>>
          /\ midturn' = midturn \/ midturn' \subseteq {owner[c]}
      BY <2>2 DEF OpenThrows, OpenReturns, supervisor, worker
    <3>3. opening' \in [Contexts -> OpenStates]
      BY <1>0, <2>2, <3>1 DEF OpenThrows, OpenReturns, SessionTypeOK, OpenStates
    <3>4. midturn' \subseteq Sessions
      BY <1>0, <3>1, <3>2 DEF SessionTypeOK
    <3>5. SessionTypeOK'
      <4>1. UNCHANGED <<active, endpoint, wire, carrier, acks, unread>>
        BY <2>1, <2>2 DEF OpenThrows, OpenReturns
      <4> QED BY ONLY <1>0, <3>2, <3>3, <3>4, <4>1 DEF SessionTypeOK
    <3>6. /\ \A d \in Contexts : d # c => opening'[d] = opening[d]
          /\ \/ opening'[c] = "over" /\ opening[c] \in {"rejected", "granted"}
             \/ opening'[c] = "opened" /\ opening[c] = "answered"
          /\ unread' = unread
      BY <1>0, <2>2 DEF OpenThrows, OpenReturns, SessionTypeOK
    <3> QED  BY <1>0, <2>1, <3>5, <3>6, QuietSession DEF SessionInv, OpenShape
  <2>3. CASE \/ WorkerSends(c) \/ DeadlinePasses(c) \/ AuthorityLost(c)
             \/ PumpFrame(c, FALSE)
    <3>1. SessionTypeOK' /\ opening' = opening
      BY <1>0, <2>1, <2>3 DEF WorkerSends, DeadlinePasses, AuthorityLost, PumpFrame,
           SessionTypeOK, supervisor, worker, sessionVars
    <3>2. \A d \in unread' : d \in unread \/ endpoint[d] = "ready"
      BY <2>3 DEF WorkerSends, DeadlinePasses, AuthorityLost, PumpFrame, sessionVars
    <3> QED  BY <1>0, <2>1, <3>1, <3>2, QuietSession DEF SessionInv, OpenShape
  <2> QED  BY <1>2, <2>2, <2>3
<1>3. CASE UNCHANGED allVars
  <2>1. /\ UNCHANGED <<identity, terminal, records, slot, offer>>
        /\ UNCHANGED sessionVars
    BY <1>3 DEF allVars, vars, contexts, broker
  <2>2. SessionTypeOK'
    BY <1>0, <2>1 DEF SessionTypeOK, sessionVars, supervisor, worker
  <2> QED  BY <1>0, <2>1, <2>2, QuietSession
        DEF sessionVars, supervisor, worker, SessionInv, OpenShape
<1> QED  BY <1>1, <1>2, <1>3

-----------------------------------------------------------------------------
(* The life of an offer.                                                   *)

\* What a packet queue is without its head, and with one more packet.
LEMMA QueueFacts ==
  ASSUME NEW q \in Seq(Contexts)
  PROVE  /\ q # <<>> =>
              /\ Head(q) = q[1] /\ 1 \in DOMAIN q /\ q[1] \in Contexts
              /\ Tail(q) \in Seq(Contexts)
              /\ \A i \in DOMAIN Tail(q) :
                   i \in Nat /\ i + 1 \in DOMAIN q /\ 1 < i + 1 /\ Tail(q)[i] = q[i + 1]
         /\ \A c \in Contexts :
              /\ Append(q, c) \in Seq(Contexts)
              /\ \A i \in DOMAIN Append(q, c) :
                   \/ i \in DOMAIN q /\ Append(q, c)[i] = q[i]
                   \/ i = Len(q) + 1 /\ Append(q, c)[i] = c
         /\ \A i \in DOMAIN q : i \in Nat /\ i < Len(q) + 1 /\ q[i] \in Contexts
OBVIOUS

\* The call of open() up to its admission.
LEMMA OpenStep ==
  ASSUME IndInv, IndInv', SessionInv, NEW s \in Sessions, NEW lifecycle \in BOOLEAN,
         NEW par \in Contexts \union {NoContext}, Open(s, lifecycle, par)
  PROVE  SessionInv'
<1> DEFINE c == counter + 1
<1>0. SessionTypeOK /\ \A d \in Created : owner[d] \in Sessions /\ d \in Contexts
  BY CreatedContexts DEF SessionInv, IndInv, Shape
<1>1. /\ c \in Contexts /\ c \notin Created /\ counter \in Nat /\ Created' = Created \union {c}
      /\ records \subseteq Created /\ records' = records \union {c}
      /\ owner' = [owner EXCEPT ![c] = s]
      /\ terminal' = terminal /\ offer' = offer
  <2>1. counter \in Nat /\ MaxContexts \in Nat /\ counter < MaxContexts
    BY BoundsAssumption DEF Open, Admit, IndInv, TypeOK
  <2>2. counter' = c /\ records' = records \union {c} /\ owner' = [owner EXCEPT ![c] = s]
        /\ terminal' = terminal /\ offer' = offer
    BY DEF Open, Admit, contexts
  <2>3. records \subseteq Created
    BY DEF IndInv, Shape
  <2> QED  BY <2>1, <2>2, <2>3 DEF Created, Contexts
<1>2. \A d \in Contexts : d # c => slot'[d] = slot[d] /\ owner'[d] = owner[d]
  <2>1. \E k : slot' = slot \/ slot' = [slot EXCEPT ![c] = k]
    BY DEF Open, Admit
  <2> QED  BY <1>1, <2>1 DEF IndInv, TypeOK
<1>3. /\ opening[c] = "none" /\ endpoint[c] = "none" /\ wire[c] = 0
      /\ terminal[c] = "none"
  BY <1>1 DEF SessionInv, OpenShape, IndInv, Shape
<1>4. /\ UNCHANGED <<live, pidfd, process, active, endpoint, wire, carrier, acks,
                     unread, held, watermark, midturn, faulty>>
      /\ opening' = [opening EXCEPT ![c] =
                       IF slot'[c] = "none" THEN "queued" ELSE "granted"]
      /\ process[s] # "none" /\ owner'[c] = s
  <2>1. s \in active
    BY DEF Open
  <2> QED  BY <1>1, <2>1 DEF Open, supervisor, worker, SessionInv, OpenShape, IndInv, TypeOK
<1> HIDE DEF c
<1>5. SessionTypeOK'
  BY <1>0, <1>1, <1>4 DEF SessionTypeOK, OpenStates
<1>6. \A t \in Sessions : Packets(t)' = Packets(t) /\ Wired(t)' = Wired(t)
  BY <1>1, <1>2, <1>3, <1>4 DEF Packets, Range, Wired
<1>7. InFlightIsCharged'
  BY <1>0, <1>1, <1>2, <1>6 DEF SessionInv, InFlightIsCharged
<1>8. Numbering' /\ CarrierIsMonotone'
  BY <1>4, <1>6 DEF SessionInv, Numbering, CarrierIsMonotone
<1>9. EndpointsAreOpen'
  <2>1. ASSUME NEW d \in Created
        PROVE  Packets(owner[d])' = Packets(owner[d])
    <3>1. owner'[d] = owner[d] /\ owner[d] \in Sessions
      BY <1>0, <1>1, <1>2
    <3> QED  BY <1>4, <3>1 DEF Packets, Range
  <2> QED  BY <1>1, <1>3, <1>4, <1>5, <2>1 DEF SessionInv, EndpointsAreOpen
<1>10. OpenShape'
  <2>1. \A d \in Contexts : d # c => opening'[d] = opening[d]
    BY <1>0, <1>4 DEF SessionTypeOK
  <2>2. opening'[c] \in {"queued", "granted"} /\ (opening'[c] = "granted" => slot'[c] # "none")
    BY <1>0, <1>1, <1>4 DEF SessionTypeOK
  <2> QED  BY <1>0, <1>1, <1>2, <1>3, <1>4, <1>6, <2>1, <2>2 DEF SessionInv, OpenShape
<1> QED  BY <1>5, <1>7, <1>8, <1>9, <1>10 DEF SessionInv

\* The next endpoint id of a session is above all its ids, and within bounds.
LEMMA FreshId ==
  ASSUME IndInv, SessionInv, NEW c \in Contexts, wire[c] = 0, owner[c] \in Sessions,
         wire' = [wire EXCEPT ![c] = NextWire(owner[c])], owner' = owner
  PROVE  /\ wire'[c] = Cardinality(Wired(owner[c])) + 1
         /\ wire' \in [Contexts -> 0 .. MaxContexts]
         /\ \A d \in Contexts : d # c => wire'[d] = wire[d]
         /\ Cardinality(Wired(owner[c])') = wire'[c]
         /\ \A s \in Sessions : /\ s # owner[c] => Wired(s)' = Wired(s)
                                /\ Cardinality(Wired(s)) \in Nat
<1>1. \A s \in Sessions : Wired(s) \in SUBSET Contexts
  BY DEF Wired
<1>2. wire \in [Contexts -> 0 .. MaxContexts]
  BY DEF SessionInv, SessionTypeOK
<1>3. wire'[c] = Cardinality(Wired(owner[c])) + 1
  <2>1. NextWire(owner[c]) = 1 + Cardinality(Wired(owner[c]))
    BY DEF NextWire, Wired
  <2> QED  BY <1>1, <1>2, <2>1, FiniteContexts
<1>4. /\ \A d \in Contexts : d # c => wire'[d] = wire[d]
      /\ wire'[c] # 0
  BY <1>1, <1>2, <1>3, FiniteContexts
<1>5. c \notin Wired(owner[c])
  BY DEF Wired
<1>6. ASSUME NEW s \in Sessions
      PROVE  Wired(s)' = IF s = owner[c] THEN Wired(s) \union {c} ELSE Wired(s)
  BY <1>4 DEF Wired
<1>7. Cardinality(Wired(owner[c]) \union {c}) = Cardinality(Wired(owner[c])) + 1
  BY <1>1, <1>5, FiniteContexts, FS_AddElement
<1>8. Cardinality(Wired(owner[c]) \union {c}) <= MaxContexts
  <2>1. IsFiniteSet(Contexts) /\ Cardinality(Contexts) = MaxContexts
    BY FS_Interval, BoundsAssumption DEF Contexts
  <2> QED  BY <1>1, <2>1, FS_Subset
<1>9. wire' \in [Contexts -> 0 .. MaxContexts]
  BY <1>1, <1>2, <1>3, <1>7, <1>8, FiniteContexts, BoundsAssumption
<1>10. Wired(owner[c])' = Wired(owner[c]) \union {c}
  BY <1>4 DEF Wired
<1> QED  BY <1>1, <1>3, <1>4, <1>6, <1>7, <1>9, <1>10, FiniteContexts

\* open() binds the endpoint and sends the descriptor, or fails to.
LEMMA SendStep ==
  ASSUME IndInv, SessionInv, NEW c \in Contexts, SendOffer(c) \/ SendFails(c)
  PROVE  SessionInv'
<1>0. /\ SessionTypeOK /\ \A d \in Created : owner[d] \in Sessions /\ d \in Contexts
      /\ records \subseteq Created
  BY CreatedContexts DEF SessionInv, IndInv, Shape
<1>1. /\ c \in records /\ slot[c] # "none" /\ offer[c] = "none"
      /\ terminal[c] = "none" /\ opening[c] = "granted"
      /\ offer' = [offer EXCEPT ![c] = "sent"]
      /\ UNCHANGED <<counter, owner, terminal, records, slot>>
      /\ UNCHANGED <<live, pidfd, process, active, acks, unread, held, watermark>>
      /\ wire' = [wire EXCEPT ![c] = NextWire(owner[c])]
      /\ endpoint' = [endpoint EXCEPT ![c] = "pending"]
      /\ opening' = [opening EXCEPT ![c] = "waiting"] \/ opening' = [opening EXCEPT ![c] = "over"]
      /\ carrier' = [carrier EXCEPT ![owner[c]] = Append(@, c)] \/ carrier' = carrier
  BY DEF SendOffer, SendFails, Offer, Bound, Live, identity, contexts, broker,
       supervisor, worker
<1>2. wire[c] = 0 /\ c \in Created /\ owner[c] \in Sessions /\ endpoint[c] = "none"
  BY <1>0, <1>1 DEF SessionInv, OpenShape, EndpointsAreOpen
<1> PICK o \in Sessions : o = owner[c]
  BY <1>2
<1>3. /\ wire'[c] = Cardinality(Wired(o)) + 1
      /\ wire' \in [Contexts -> 0 .. MaxContexts]
      /\ \A d \in Contexts : d # c => wire'[d] = wire[d]
      /\ Cardinality(Wired(o)') = wire'[c]
      /\ \A s \in Sessions : /\ s # o => Wired(s)' = Wired(s)
                             /\ Cardinality(Wired(s)) \in Nat
  BY <1>1, <1>2, FreshId
<1>4. \A s \in Sessions : carrier[s] \in Seq(Contexts) /\ acks[s] \in Seq(Contexts)
                          /\ watermark[s] \in Nat
  BY <1>0, BoundsAssumption DEF SessionTypeOK
<1>5. \A s \in Sessions : \/ carrier'[s] = carrier[s]
                          \/ s = o /\ carrier'[s] = Append(carrier[s], c)
  BY <1>0, <1>1, <1>2 DEF SessionTypeOK
<1>6. \A s \in Sessions : \A d \in Packets(s) : d # c /\ d \in Contexts
  <2>1. \A s \in Sessions : \A d \in Packets(s) : offer[d] = "sent" /\ d \in records
    BY DEF SessionInv, InFlightIsCharged
  <2> QED  BY <1>0, <1>1, <2>1
<1>7. \A s \in Sessions : /\ \A i \in DOMAIN carrier[s] : carrier[s][i] \in Packets(s)
                          /\ \A i \in DOMAIN acks[s] : acks[s][i] \in Packets(s)
  BY DEF Packets, Range
<1>8. \A s \in Sessions : \A d \in Packets(s)' : d \in Packets(s) \/ (d = c /\ s = o)
  <2>1. ASSUME NEW s \in Sessions, NEW i \in DOMAIN carrier'[s]
        PROVE  carrier'[s][i] \in Packets(s) \/ (carrier'[s][i] = c /\ s = o)
    <3>1. CASE carrier'[s] = carrier[s]
      BY <1>7, <2>1, <3>1
    <3>2. CASE s = o /\ carrier'[s] = Append(carrier[s], c)
      <4>1. \/ i \in DOMAIN carrier[s] /\ carrier'[s][i] = carrier[s][i]
            \/ carrier'[s][i] = c
        BY <1>4, <2>1, <3>2, QueueFacts
      <4> QED  BY <1>7, <3>2, <4>1
    <3> QED  BY <1>5, <3>1, <3>2
  <2> QED  BY <1>1, <1>7, <2>1 DEF Packets, Range
<1>9. SessionTypeOK'
  <2>1. carrier' \in [Sessions -> Seq(Contexts)]
    <3>1. Append(carrier[owner[c]], c) \in Seq(Contexts)
      BY <1>2, <1>4, QueueFacts
    <3> QED  BY <1>0, <1>1, <1>2, <3>1 DEF SessionTypeOK
  <2>2. midturn' \subseteq Sessions /\ faulty' \subseteq Sessions
    BY <1>0, <1>2 DEF SendOffer, SendFails, SessionTypeOK
  <2> QED  BY <1>0, <1>1, <1>3, <2>1, <2>2 DEF SessionTypeOK, OpenStates
<1>10. InFlightIsCharged'
  <2>1. offer'[c] = "sent" /\ \A d \in Contexts : d # c => offer'[d] = offer[d]
    BY <1>1 DEF IndInv, TypeOK
  <2> QED  BY <1>1, <1>6, <1>8, <2>1 DEF SessionInv, InFlightIsCharged
<1>11. Numbering'
  <2>1. ASSUME NEW s \in Sessions
        PROVE  /\ watermark[s] <= Cardinality(Wired(s)')
               /\ \A d \in Wired(s)' : wire'[d] <= Cardinality(Wired(s)')
    <3>1. /\ watermark[s] <= Cardinality(Wired(s))
          /\ \A d \in Wired(s) : wire[d] <= Cardinality(Wired(s)) /\ wire[d] \in Nat
      <4>1. \A d \in Contexts : wire[d] \in Nat
        BY <1>0, BoundsAssumption DEF SessionTypeOK
      <4>2. Wired(s) \subseteq Contexts
        BY DEF Wired
      <4> QED  BY <4>1, <4>2 DEF SessionInv, Numbering
    <3>2. \A d \in Wired(s)' : d = c \/ (d # c /\ d \in Wired(s) /\ wire'[d] = wire[d])
      BY <1>1, <1>3 DEF Wired
    <3>3. c \notin Wired(s) /\ (c \in Wired(s)' => s = o)
      BY <1>1, <1>2 DEF Wired
    <3> QED  BY <1>3, <1>4, <3>1, <3>2, <3>3
  <2>2. \A s \in Sessions : \A i \in DOMAIN acks[s] : wire'[acks[s][i]] = wire[acks[s][i]]
    BY <1>3, <1>6, <1>7
  <2> QED  BY <1>1, <2>1, <2>2 DEF SessionInv, Numbering
<1>12. CarrierIsMonotone'
  <2>1. ASSUME NEW s \in Sessions, NEW i \in DOMAIN carrier[s]
        PROVE  /\ wire'[carrier[s][i]] = wire[carrier[s][i]]
               /\ s = o => wire[carrier[s][i]] < wire'[c]
               /\ wire[carrier[s][i]] > watermark[s]
    <3>1. carrier[s][i] \in Packets(s)
      BY <1>7
    <3>2. carrier[s][i] # c /\ carrier[s][i] \in Contexts /\ owner[carrier[s][i]] = s
      BY <1>6, <3>1 DEF SessionInv, InFlightIsCharged
    <3>3. wire[carrier[s][i]] > watermark[s] /\ wire[carrier[s][i]] \in Nat
      BY <1>0, <3>2, BoundsAssumption DEF SessionInv, CarrierIsMonotone, SessionTypeOK
    <3>4. carrier[s][i] \in Wired(s)
      BY <1>4, <3>2, <3>3 DEF Wired
    <3>5. wire[carrier[s][i]] <= Cardinality(Wired(s))
      BY <3>4 DEF SessionInv, Numbering
    <3> QED  BY <1>3, <3>2, <3>3, <3>5
  <2>2. wire'[c] > watermark[o]
    BY <1>2, <1>3, <1>4 DEF SessionInv, Numbering
  <2>3. ASSUME NEW s \in Sessions
        PROVE  /\ \A i \in DOMAIN carrier'[s] : wire'[carrier'[s][i]] > watermark[s]
               /\ \A i, j \in DOMAIN carrier'[s] :
                    i < j => wire'[carrier'[s][i]] < wire'[carrier'[s][j]]
    <3>1. CASE carrier'[s] = carrier[s]
      BY <2>1, <3>1 DEF SessionInv, CarrierIsMonotone
    <3>2. CASE s = o /\ carrier'[s] = Append(carrier[s], c)
      <4>1. \A i \in DOMAIN carrier'[s] :
              \/ i \in DOMAIN carrier[s] /\ carrier'[s][i] = carrier[s][i]
              \/ i = Len(carrier[s]) + 1 /\ carrier'[s][i] = c
        BY <1>4, <3>2, QueueFacts
      <4>2. \A i \in DOMAIN carrier[s] : i \in Nat /\ i < Len(carrier[s]) + 1
        BY <1>4, QueueFacts
      <4>3. \A i, j \in DOMAIN carrier[s] :
              i < j => wire[carrier[s][i]] < wire[carrier[s][j]]
        BY DEF SessionInv, CarrierIsMonotone
      <4>4. Len(carrier[s]) \in Nat
        BY <1>4
      <4>5. ASSUME NEW i \in DOMAIN carrier'[s]
            PROVE  wire'[carrier'[s][i]] > watermark[s]
        BY <2>1, <2>2, <3>2, <4>1, <4>5
      <4>6. ASSUME NEW i \in DOMAIN carrier'[s], NEW j \in DOMAIN carrier'[s], i < j
            PROVE  wire'[carrier'[s][i]] < wire'[carrier'[s][j]]
        <5>1. i \in DOMAIN carrier[s] /\ carrier'[s][i] = carrier[s][i]
          BY <4>1, <4>2, <4>4, <4>6
        <5>2. CASE j \in DOMAIN carrier[s] /\ carrier'[s][j] = carrier[s][j]
          BY <2>1, <4>3, <4>6, <5>1, <5>2
        <5>3. CASE carrier'[s][j] = c
          BY <2>1, <3>2, <5>1, <5>3
        <5> QED  BY <4>1, <5>2, <5>3
      <4> QED  BY <4>5, <4>6
    <3> QED  BY <1>5, <3>1, <3>2
  <2> QED  BY <1>1, <2>3 DEF CarrierIsMonotone
<1>13. EndpointsAreOpen'
  <2>1. offer'[c] = "sent" /\ \A d \in Contexts : d # c => offer'[d] = offer[d]
    BY <1>1 DEF IndInv, TypeOK
  <2>2. endpoint'[c] = "pending" /\ \A d \in Contexts : d # c => endpoint'[d] = endpoint[d]
    BY <1>0, <1>1 DEF SessionTypeOK
  <2>3. wire'[c] # 0
    BY <1>2, <1>3
  <2>4. ASSUME NEW d \in Created', endpoint'[d] = "ready"
        PROVE  d \notin Packets(owner[d])'
    <3>1. offer'[d] = "ready" /\ owner'[d] \in Sessions
      BY <1>0, <1>1, <2>1, <2>2, <2>4 DEF SessionInv, EndpointsAreOpen, Created
    <3> QED  BY <1>10, <3>1 DEF InFlightIsCharged
  <2>5. ASSUME NEW d \in Created'
        PROVE  /\ endpoint'[d] # "none" <=> wire'[d] # 0 /\ terminal'[d] = "none"
               /\ endpoint'[d] = "ready" => offer'[d] = "ready"
    BY <1>0, <1>1, <1>3, <2>1, <2>2, <2>3 DEF SessionInv, EndpointsAreOpen, Created
  <2>6. ASSUME NEW d \in Created', terminal'[d] = "none"
        PROVE  endpoint'[d] = "ready" <=> opening'[d] \in {"answered", "opened"}
    <3>1. /\ opening'[c] \in {"waiting", "over"}
          /\ \A e \in Contexts : e # c => opening'[e] = opening[e]
      BY <1>0, <1>1 DEF SessionTypeOK
    <3>2. d \in Created /\ terminal[d] = "none"
      BY <1>1, <2>6 DEF Created
    <3> QED  BY <1>0, <2>2, <3>1, <3>2 DEF SessionInv, EndpointsAreOpen
  <2> QED  BY <1>9, <2>4, <2>5, <2>6 DEF EndpointsAreOpen
<1>14. OpenShape'
  <2>1. Created' = Created /\ \A s \in Sessions : process[s] = "none" => s # o
    BY <1>1, <1>2 DEF SessionInv, OpenShape, Created
  <2>2. \A s \in Sessions : process[s] = "none" => Packets(s)' = {}
    BY <1>8, <2>1 DEF SessionInv, OpenShape
  <2>3. /\ opening'[c] \in {"waiting", "over"}
        /\ \A d \in Contexts : d # c => opening'[d] = opening[d] /\ endpoint'[d] = endpoint[d]
    BY <1>0, <1>1 DEF SessionTypeOK
  <2>4. c \notin unread
    BY <1>2 DEF SessionInv, OpenShape
  <2> QED  BY <1>0, <1>1, <1>2, <1>3, <2>1, <2>2, <2>3, <2>4
        DEF SessionInv, OpenShape, SessionTypeOK
<1> QED  BY <1>9, <1>10, <1>11, <1>12, <1>13, <1>14 DEF SessionInv

\* The worker takes the head of the carrier and acknowledges it.
LEMMA WorkerPumpStep ==
  ASSUME IndInv, SessionInv, NEW s \in Sessions, WorkerPump(s)
  PROVE  SessionInv'
<1> DEFINE h == carrier[s][1]
<1>0. /\ SessionTypeOK /\ \A d \in Created : owner[d] \in Sessions /\ d \in Contexts
      /\ \A t \in Sessions : carrier[t] \in Seq(Contexts) /\ acks[t] \in Seq(Contexts)
                             /\ watermark[t] \in Nat
      /\ \A d \in Contexts : wire[d] \in Nat
  BY CreatedContexts, BoundsAssumption DEF SessionInv, SessionTypeOK, IndInv, Shape
<1>1. UNCHANGED <<vars, supervisor, active, opening, endpoint, wire, unread,
                  midturn, faulty>>
  BY DEF WorkerPump
<1>2. /\ UNCHANGED <<identity, terminal, records, slot, offer, process>>
      /\ counter' = counter /\ owner' = owner /\ Created' = Created
  BY <1>1 DEF vars, identity, contexts, broker, Created, supervisor
<1>3. held' \in [Sessions -> SUBSET Contexts]
  <2>1. carrier[s] # <<>> => Head(carrier[s]) \in Contexts
    BY <1>0, QueueFacts
  <2>2. PICK H, gone : /\ held' = [held EXCEPT ![s] = H \ gone]
                       /\ \/ H = held[s]
                          \/ carrier[s] # <<>> /\ H = held[s] \union {Head(carrier[s])}
    BY Zenon DEF WorkerPump
  <2>3. H \ gone \in SUBSET Contexts
    BY <1>0, <2>1, <2>2 DEF SessionTypeOK
  <2> QED  BY <1>0, <2>2, <2>3 DEF SessionTypeOK
<1>4. CASE UNCHANGED <<carrier, watermark, acks>>
  <2>1. SessionTypeOK'
    BY <1>0, <1>1, <1>3, <1>4 DEF SessionTypeOK, supervisor
  <2> QED  BY <1>0, <1>1, <1>2, <1>4, <2>1, QuietSession DEF SessionInv, OpenShape
<1>5. ASSUME carrier[s] # <<>>,
             carrier' = [carrier EXCEPT ![s] = Tail(@)],
             watermark' = [watermark EXCEPT ![s] = wire[Head(carrier[s])]],
             acks' = [acks EXCEPT ![s] = Append(@, Head(carrier[s]))]
      PROVE  SessionInv'
  <2>1. /\ Head(carrier[s]) = h /\ h \in Contexts /\ 1 \in DOMAIN carrier[s]
        /\ Tail(carrier[s]) \in Seq(Contexts) /\ Append(acks[s], h) \in Seq(Contexts)
    BY <1>0, <1>5, QueueFacts
  <2>2. /\ carrier'[s] = Tail(carrier[s]) /\ acks'[s] = Append(acks[s], h)
        /\ watermark'[s] = wire[h]
        /\ \A t \in Sessions : t # s =>
             carrier'[t] = carrier[t] /\ acks'[t] = acks[t] /\ watermark'[t] = watermark[t]
    BY <1>0, <1>5, <2>1 DEF SessionTypeOK
  <2>3. /\ \A i \in DOMAIN carrier'[s] :
             /\ i \in Nat /\ i + 1 \in DOMAIN carrier[s] /\ 1 < i + 1
             /\ carrier'[s][i] = carrier[s][i + 1]
        /\ \A i \in DOMAIN acks'[s] : \/ i \in DOMAIN acks[s] /\ acks'[s][i] = acks[s][i]
                                      \/ i = Len(acks[s]) + 1 /\ acks'[s][i] = h
        /\ \A i \in DOMAIN acks[s] : i \in Nat /\ i < Len(acks[s]) + 1
        /\ \A i \in DOMAIN acks[s] : acks[s][i] \in Contexts
    <3>1. carrier[s] \in Seq(Contexts) /\ acks[s] \in Seq(Contexts)
      BY <1>0
    <3>2. \A i \in DOMAIN Tail(carrier[s]) :
             /\ i \in Nat /\ i + 1 \in DOMAIN carrier[s] /\ 1 < i + 1
             /\ Tail(carrier[s])[i] = carrier[s][i + 1]
      BY <1>5, <3>1, QueueFacts
    <3>3. \A i \in DOMAIN Append(acks[s], h) :
             \/ i \in DOMAIN acks[s] /\ Append(acks[s], h)[i] = acks[s][i]
             \/ i = Len(acks[s]) + 1 /\ Append(acks[s], h)[i] = h
      BY <2>1, <3>1, QueueFacts
    <3>4. \A i \in DOMAIN acks[s] : /\ i \in Nat /\ i < Len(acks[s]) + 1
                                    /\ acks[s][i] \in Contexts
      BY <3>1, QueueFacts
    <3> QED  BY <2>2, <3>2, <3>3, <3>4
  <2>4. /\ wire[h] > watermark[s] /\ wire[h] \in Nat
        /\ \A i, j \in DOMAIN carrier[s] : i < j => wire[carrier[s][i]] < wire[carrier[s][j]]
    BY <1>0, <2>1 DEF SessionInv, CarrierIsMonotone
  <2>5. h \in Packets(s) /\ owner[h] = s
    BY <2>1 DEF Packets, Range, SessionInv, InFlightIsCharged
  <2>6. \A t \in Sessions : Packets(t)' \subseteq Packets(t)
    <3>1. \A i \in DOMAIN carrier'[s] : carrier'[s][i] \in Packets(s)
      BY <2>3 DEF Packets, Range
    <3>2. \A i \in DOMAIN acks'[s] : acks'[s][i] \in Packets(s)
      BY <2>3, <2>5 DEF Packets, Range
    <3>3. Packets(s)' \subseteq Packets(s)
      BY <3>1, <3>2 DEF Packets, Range
    <3>4. \A t \in Sessions : t # s => Packets(t)' = Packets(t)
      BY <2>2 DEF Packets, Range
    <3> QED  BY <3>3, <3>4
  <2> HIDE DEF h
  <2>7. SessionTypeOK'
    <3>1. carrier' \in [Sessions -> Seq(Contexts)] /\ acks' \in [Sessions -> Seq(Contexts)]
      BY <1>0, <1>5, <2>1 DEF SessionTypeOK
    <3>2. watermark' \in [Sessions -> 0 .. MaxContexts]
      BY <1>0, <1>5, <2>1 DEF SessionTypeOK
    <3> QED  BY <1>0, <1>1, <1>3, <3>1, <3>2 DEF SessionTypeOK, supervisor
  <2>8. InFlightIsCharged'
    BY <1>2, <2>6 DEF SessionInv, InFlightIsCharged
  <2>9. \A t \in Sessions : Wired(t)' = Wired(t)
    BY <1>1, <1>2 DEF Wired
  <2>10. ASSUME NEW t \in Sessions
         PROVE  /\ watermark'[t] <= Cardinality(Wired(t))
                /\ \A i \in DOMAIN acks'[t] : wire[acks'[t][i]] \in 1 .. watermark'[t]
                /\ \A i, j \in DOMAIN acks'[t] :
                     i < j => wire[acks'[t][i]] < wire[acks'[t][j]]
    <3>1. CASE t # s
      BY <2>2, <3>1 DEF SessionInv, Numbering
    <3>2. CASE t = s
      <4>1. h \in Wired(s)
        BY <1>0, <2>1, <2>4, <2>5 DEF Wired
      <4>2. wire[h] <= Cardinality(Wired(s))
        BY <4>1 DEF SessionInv, Numbering
      <4>3. \A i \in DOMAIN acks[s] : /\ wire[acks[s][i]] \in 1 .. watermark[s]
                                      /\ wire[acks[s][i]] \in Nat
        BY <1>0, <2>3 DEF SessionInv, Numbering
      <4>4. \A i, j \in DOMAIN acks[s] : i < j => wire[acks[s][i]] < wire[acks[s][j]]
        BY DEF SessionInv, Numbering
      <4>5. Len(acks[s]) \in Nat /\ watermark[s] \in Nat
        BY <1>0
      <4>6. \A i \in DOMAIN acks'[s] : wire[acks'[s][i]] \in 1 .. wire[h]
        BY <2>3, <2>4, <4>3, <4>5
      <4>7. \A i, j \in DOMAIN acks'[s] :
              i < j => wire[acks'[s][i]] < wire[acks'[s][j]]
        BY <2>3, <2>4, <4>3, <4>4, <4>5
      <4> QED  BY <2>2, <3>2, <4>2, <4>6, <4>7
    <3> QED  BY <3>1, <3>2
  <2>11. Numbering'
    BY <1>1, <2>9, <2>10 DEF SessionInv, Numbering
  <2>12. CarrierIsMonotone'
    <3>1. ASSUME NEW t \in Sessions
          PROVE  /\ \A i \in DOMAIN carrier'[t] : wire[carrier'[t][i]] > watermark'[t]
                 /\ \A i, j \in DOMAIN carrier'[t] :
                      i < j => wire[carrier'[t][i]] < wire[carrier'[t][j]]
      <4>1. CASE t # s
        BY <2>2, <4>1 DEF SessionInv, CarrierIsMonotone
      <4>2. CASE t = s
        <5>1. \A i \in DOMAIN carrier'[s] : wire[h] < wire[carrier'[s][i]] /\ wire[carrier'[s][i]] \in Nat
          <6>1. \A i \in DOMAIN carrier'[s] : carrier'[s][i] \in Contexts
            BY <2>1, <2>2, QueueFacts
          <6> QED  BY <1>0, <2>1, <2>3, <2>4, <6>1 DEF h
        <5>2. \A i, j \in DOMAIN carrier'[s] :
                i < j => wire[carrier'[s][i]] < wire[carrier'[s][j]]
          BY <2>3, <2>4
        <5> QED  BY <2>2, <2>4, <4>2, <5>1, <5>2
      <4> QED  BY <4>1, <4>2
    <3> QED  BY <1>1, <3>1 DEF CarrierIsMonotone
  <2>13. EndpointsAreOpen'
    <3>1. ASSUME NEW d \in Created
          PROVE  Packets(owner[d])' \subseteq Packets(owner[d])
      BY <1>0, <1>2, <2>6
    <3> QED  BY <1>1, <1>2, <2>7, <3>1 DEF SessionInv, EndpointsAreOpen
  <2>14. OpenShape'
    <3>1. \A t \in Sessions : process[t] = "none" => Packets(t)' = {}
      BY <2>6 DEF SessionInv, OpenShape
    <3> QED  BY <1>0, <1>1, <1>2, <3>1 DEF SessionInv, OpenShape
  <2> QED  BY <2>7, <2>8, <2>11, <2>12, <2>13, <2>14 DEF SessionInv
<1> QED  BY <1>4, <1>5 DEF WorkerPump

\* The broker reads the acknowledgement at the head of the control stream.
LEMMA PumpReadyStep ==
  ASSUME IndInv, SessionInv, NEW s \in Sessions, PumpReady(s)
  PROVE  SessionInv'
<1>0. /\ SessionTypeOK /\ \A d \in Created : owner[d] \in Sessions /\ d \in Contexts
      /\ \A t \in Sessions : carrier[t] \in Seq(Contexts) /\ acks[t] \in Seq(Contexts)
                             /\ watermark[t] \in Nat
      /\ \A d \in Contexts : wire[d] \in Nat
  BY CreatedContexts, BoundsAssumption DEF SessionInv, SessionTypeOK, IndInv, Shape
<1>1. PICK c \in Contexts : /\ c = Head(acks[s]) /\ c = acks[s][1]
                            /\ acks[s] # <<>> /\ 1 \in DOMAIN acks[s]
  BY <1>0, QueueFacts DEF PumpReady
<1>2. /\ Acknowledge(c)
      /\ opening' = [d \in Contexts |->
                       IF d = c /\ Live(c) THEN "answered" ELSE OpeningAfter(d)]
      /\ endpoint' = [d \in Contexts |->
                        IF d = c /\ Live(c) THEN "ready" ELSE EndpointAfter(d)]
      /\ unread' = {d \in unread : terminal'[d] = "none"}
      /\ acks' = [acks EXCEPT ![s] = Tail(@)]
      /\ UNCHANGED <<live, pidfd, process, active, wire, carrier, held, watermark,
                     midturn, faulty>>
  BY <1>1 DEF PumpReady, supervisor, worker
<1>3. IndInv' /\ Keeps({c})
  BY <1>2, AcknowledgeKeeps
<1>4. Live(c) => terminal' = terminal /\ offer'[c] = "ready" /\ terminal[c] = "none"
  BY <1>2 DEF Acknowledge, Live, contexts
<1>5. /\ counter' = counter /\ owner' = owner /\ Created' = Created
  BY <1>3 DEF Keeps, identity, Created
<1>6. c \in Packets(s) /\ owner[c] = s /\ wire[c] # 0 /\ wire[c] <= watermark[s]
      /\ c \in Created
  <2>1. c \in Packets(s)
    BY <1>1 DEF Packets, Range
  <2>2. wire[c] \in 1 .. watermark[s]
    BY <1>1 DEF SessionInv, Numbering
  <2>3. owner[c] = s /\ c \in records
    BY <2>1 DEF SessionInv, InFlightIsCharged
  <2> QED  BY <1>0, <2>1, <2>2, <2>3 DEF IndInv, Shape
<1>7. /\ Tail(acks[s]) \in Seq(Contexts) /\ acks'[s] = Tail(acks[s])
      /\ \A i \in DOMAIN acks'[s] :
           /\ i \in Nat /\ i + 1 \in DOMAIN acks[s] /\ 1 < i + 1
           /\ acks'[s][i] = acks[s][i + 1] /\ acks'[s][i] \in Contexts
      /\ \A t \in Sessions : t # s => acks'[t] = acks[t]
  <2>1. Tail(acks[s]) \in Seq(Contexts) /\ acks'[s] = Tail(acks[s])
        /\ \A t \in Sessions : t # s => acks'[t] = acks[t]
    BY <1>0, <1>1, <1>2, QueueFacts DEF SessionTypeOK
  <2> QED  BY <1>0, <1>1, <2>1, QueueFacts
<1>8. \A t \in Sessions : Packets(t)' \subseteq Packets(t) \ {c}
  <2>1. \A i \in DOMAIN acks'[s] : acks'[s][i] \in Packets(s) /\ acks'[s][i] # c
    <3>1. \A i, j \in DOMAIN acks[s] : i < j => wire[acks[s][i]] < wire[acks[s][j]]
      BY DEF SessionInv, Numbering
    <3>2. \A i \in DOMAIN acks'[s] : wire[c] < wire[acks'[s][i]]
      BY <1>1, <1>7, <3>1
    <3> QED  BY <1>0, <1>7, <3>2 DEF Packets, Range
  <2>2. \A i \in DOMAIN carrier[s] : carrier[s][i] \in Packets(s) /\ carrier[s][i] # c
    <3>1. \A i \in DOMAIN carrier[s] : wire[carrier[s][i]] > watermark[s]
      BY DEF SessionInv, CarrierIsMonotone
    <3> QED  BY <1>0, <1>6, <3>1 DEF Packets, Range
  <2>3. Packets(s)' \subseteq Packets(s) \ {c}
    BY <1>2, <2>1, <2>2 DEF Packets, Range
  <2>4. ASSUME NEW t \in Sessions, t # s
        PROVE  Packets(t)' \subseteq Packets(t) \ {c}
    <3>1. Packets(t)' = Packets(t)
      BY <1>2, <1>7, <2>4 DEF Packets, Range
    <3>2. c \notin Packets(t)
      BY <1>6, <2>4 DEF SessionInv, InFlightIsCharged
    <3> QED  BY <3>1, <3>2
  <2> QED  BY <2>3, <2>4
<1>9. SessionTypeOK'
  <2>1. opening' \in [Contexts -> OpenStates]
    BY <1>0, <1>2, OpeningAfterType DEF OpenStates
  <2>2. endpoint' \in [Contexts -> {"none", "pending", "ready"}]
    BY <1>0, <1>2 DEF EndpointAfter, SessionTypeOK
  <2>3. acks' \in [Sessions -> Seq(Contexts)]
    BY <1>0, <1>2, <1>7 DEF SessionTypeOK
  <2> QED  BY <1>0, <1>2, <2>1, <2>2, <2>3 DEF SessionTypeOK
<1>10. InFlightIsCharged'
  BY <1>3, <1>5, <1>8 DEF SessionInv, InFlightIsCharged, Keeps
<1>11. Numbering'
  <2>1. \A t \in Sessions : Wired(t)' = Wired(t)
    BY <1>2, <1>5 DEF Wired
  <2>2. ASSUME NEW t \in Sessions
        PROVE  /\ \A i \in DOMAIN acks'[t] : wire[acks'[t][i]] \in 1 .. watermark[t]
               /\ \A i, j \in DOMAIN acks'[t] :
                    i < j => wire[acks'[t][i]] < wire[acks'[t][j]]
    <3>1. CASE t # s
      BY <1>7, <3>1 DEF SessionInv, Numbering
    <3>2. CASE t = s
      <4>1. /\ \A i \in DOMAIN acks[s] : wire[acks[s][i]] \in 1 .. watermark[s]
            /\ \A i, j \in DOMAIN acks[s] : i < j => wire[acks[s][i]] < wire[acks[s][j]]
        BY DEF SessionInv, Numbering
      <4>2. \A i \in DOMAIN acks'[s] : wire[acks'[s][i]] \in 1 .. watermark[s]
        BY <1>7, <4>1
      <4>3. ASSUME NEW i \in DOMAIN acks'[s], NEW j \in DOMAIN acks'[s], i < j
            PROVE  wire[acks'[s][i]] < wire[acks'[s][j]]
        <5>1. i + 1 < j + 1
          BY <1>7, <4>3
        <5> QED  BY <1>7, <4>1, <5>1
      <4> QED  BY <3>2, <4>2, <4>3
    <3> QED  BY <3>1, <3>2
  <2> QED  BY <1>2, <2>1, <2>2 DEF SessionInv, Numbering
<1>12. CarrierIsMonotone'
  BY <1>2 DEF SessionInv, CarrierIsMonotone
<1>13. EndpointsAreOpen'
  <2>1. ASSUME NEW d \in Created
        PROVE  /\ endpoint'[d] # "none" <=> wire[d] # 0 /\ terminal'[d] = "none"
               /\ endpoint'[d] = "ready" => offer'[d] = "ready"
    <3>1. CASE d = c /\ Live(c)
      BY <1>2, <1>4, <1>6, <3>1
    <3>2. CASE ~(d = c /\ Live(c))
      <4>1. endpoint'[d] = EndpointAfter(d)
        BY <1>0, <1>2, <3>2
      <4> QED  BY <1>0, <1>3, <4>1 DEF Keeps, EndpointAfter, SessionInv, EndpointsAreOpen
    <3> QED  BY <3>1, <3>2
  <2>2. ASSUME NEW d \in Created, offer'[d] = "ready"
        PROVE  d \notin Packets(owner[d])'
    BY <1>0, <1>5, <1>10, <2>2 DEF InFlightIsCharged
  <2>3. ASSUME NEW d \in Created, terminal'[d] = "none"
        PROVE  endpoint'[d] = "ready" <=> opening'[d] \in {"answered", "opened"}
    <3>1. CASE d = c /\ Live(c)
      BY <1>2, <3>1
    <3>2. CASE ~(d = c /\ Live(c))
      <4>1. endpoint'[d] = EndpointAfter(d) /\ opening'[d] = OpeningAfter(d)
        BY <1>0, <1>2, <3>2
      <4>2. terminal[d] = "none" /\ endpoint'[d] = endpoint[d]
        BY <1>0, <1>3, <2>3, <4>1 DEF Keeps, EndpointAfter
      <4>3. opening'[d] \in {"answered", "opened"} <=> opening[d] \in {"answered", "opened"}
        BY <1>0, <4>1, OpeningAfterType
      <4> QED  BY <4>2, <4>3 DEF SessionInv, EndpointsAreOpen
    <3> QED  BY <3>1, <3>2
  <2> QED  BY <1>2, <1>5, <1>9, <2>1, <2>2, <2>3 DEF EndpointsAreOpen
<1>14. OpenShape'
  <2>1. \A t \in Sessions : process[t] = "none" => Packets(t)' = {}
    BY <1>8 DEF SessionInv, OpenShape
  <2>2. \A d \in Contexts \ Created : opening'[d] = "none" /\ endpoint'[d] = "none"
    BY <1>0, <1>2, <1>6, OpeningAfterType DEF SessionInv, OpenShape, EndpointAfter
  <2>3. \A d \in Contexts : opening'[d] \in {"none", "queued", "granted"} => wire[d] = 0
    BY <1>0, <1>2, OpeningAfterType DEF SessionInv, OpenShape
  <2>4. ASSUME NEW d \in Contexts, opening'[d] = "granted", terminal'[d] = "none"
        PROVE  slot'[d] # "none" /\ d \in Created
    <3>1. d \in Created
      BY <2>2, <2>4
    <3>2. terminal[d] = "none" /\ (opening[d] = "granted" \/ slot'[d] # "none")
      BY <1>0, <1>2, <1>3, <2>4, OpeningAfterType DEF Keeps
    <3> QED  BY <1>3, <2>4, <3>1, <3>2 DEF Keeps, SessionInv, OpenShape
  <2>5. \A d \in unread' : endpoint'[d] = "ready"
    BY <1>0, <1>2 DEF SessionInv, OpenShape, SessionTypeOK, EndpointAfter
  <2> QED  BY <1>2, <1>5, <2>1, <2>2, <2>3, <2>4, <2>5 DEF SessionInv, OpenShape
<1> QED  BY <1>9, <1>10, <1>11, <1>12, <1>13, <1>14 DEF SessionInv

-----------------------------------------------------------------------------
(* The theorems.                                                           *)

\* Before the first process is launched there is nothing to relate.
LEMMA SessionInitEstablishes ==
  ASSUME SessionInit
  PROVE  IndInv /\ SessionInv
<1>1. IndInv
  BY InitEstablishes DEF SessionInit
<1>2. Created = {} /\ <<>> \in Seq(Contexts) /\ 0 \in 0 .. MaxContexts
  BY BoundsAssumption DEF SessionInit, Init, Created
<1>3. SessionTypeOK
  BY <1>2 DEF SessionInit, SessionTypeOK, OpenStates
<1>4. \A s \in Sessions : Packets(s) = {} /\ Wired(s) = {}
  BY DEF SessionInit, Packets, Range, Wired
<1>5. OpenShape /\ InFlightIsCharged /\ EndpointsAreOpen
  BY <1>2, <1>3, <1>4 DEF SessionInit, OpenShape, InFlightIsCharged, EndpointsAreOpen
<1>7. CarrierIsMonotone
  BY DEF SessionInit, CarrierIsMonotone
<1>6. Numbering
  <2>1. ASSUME NEW s \in Sessions
        PROVE  /\ watermark[s] = 0 /\ acks[s] = <<>> /\ Wired(s) = {}
               /\ Cardinality(Wired(s)) = 0
    BY <1>4, EmptyCardinality DEF SessionInit
  <2> QED  BY <2>1 DEF Numbering
<1> QED  BY <1>1, <1>3, <1>5, <1>6, <1>7 DEF SessionInv

\* Every step of the broker and its workers preserves both invariants.
LEMMA SessionNextPreserves ==
  ASSUME IndInv, SessionInv, [SessionNext]_allVars
  PROVE  IndInv' /\ SessionInv'
<1>1. IndInv'
  BY StepImplements, NextPreserves
<1>2. CASE BrokerStep
  <2>1. ASSUME NEW s \in Sessions, NEW lifecycle \in BOOLEAN,
               NEW par \in Contexts \union {NoContext}, Open(s, lifecycle, par)
        PROVE  SessionInv'
    BY <1>1, <2>1, OpenStep
  <2>2. ASSUME NEW c \in Contexts, OpenResumes(c)
        PROVE  SessionInv'
    BY <2>2, SendStep, OpenLapsedStep, QuietSteps DEF OpenResumes
  <2>3. ASSUME NEW c \in Contexts, NEW reply \in BOOLEAN, PumpFrame(c, reply)
        PROVE  SessionInv'
    <3>1. CASE reply = TRUE
      BY <2>3, <3>1, BrokerEndings
    <3>2. CASE reply = FALSE
      BY <2>3, <3>2, QuietSteps
    <3> QED  BY <3>1, <3>2
  <2>4. ASSUME NEW s \in Sessions, Launch(s) \/ Handshake(s)
        PROVE  SessionInv'
    BY <2>4, QuietSteps
  <2>5. ASSUME NEW s \in Sessions,
               LaunchUnowned(s) \/ LaunchFails(s) \/ Fault(s) \/ ControlEOF(s)
        PROVE  SessionInv'
    BY <2>5, BrokerEndings
  <2>6. ASSUME NEW s \in Sessions, Dead(s) \/ PumpReady(s)
        PROVE  SessionInv'
    BY <2>6, DeadStep, PumpReadyStep
  <2>7. ASSUME NEW c \in Contexts,
               \/ PumpStaleFrame(c) \/ PumpEOF(c)
               \/ DeadlineFires(c) \/ Cancelled(c) \/ OfferExpires(c)
        PROVE  SessionInv'
    BY <2>7, BrokerEndings
  <2> QED  BY <1>1, <1>2, <2>1, <2>2, <2>3, <2>4, <2>5, <2>6, <2>7 DEF BrokerStep
<1>3. CASE WorkerStep
  <2>1. ASSUME NEW s \in Sessions, WorkerRefuses(s) \/ WorkerExits(s) \/ Kill(s)
        PROVE  SessionInv'
    BY <2>1, QuietSteps
  <2>2. ASSUME NEW s \in Sessions, WorkerPump(s)
        PROVE  SessionInv'
    BY <2>2, WorkerPumpStep
  <2>3. ASSUME NEW c \in Contexts,
               WorkerSends(c) \/ DeadlinePasses(c) \/ AuthorityLost(c)
        PROVE  SessionInv'
    BY <2>3, QuietSteps
  <2> QED  BY <1>1, <1>3, <2>1, <2>2, <2>3 DEF WorkerStep
<1>4. CASE UNCHANGED allVars
  BY <1>1, <1>4, QuietSteps
<1>5. ASSUME NEW s \in Sessions, FailMidturn(s)
      PROVE  SessionInv'
  BY <1>5, BrokerEndings
<1> QED  BY <1>1, <1>2, <1>3, <1>4, <1>5 DEF SessionNext

\* Both invariants hold in every reachable state of the sessions.
THEOREM SessionInvariance == SessionSpec => [](IndInv /\ SessionInv)
BY SessionInitEstablishes, SessionNextPreserves, PTL DEF SessionSpec

\* The sessions, with their coroutines, channels and worker processes, only
\* ever take steps of the schedulers: what is proved of the schedulers holds
\* for them (PhysicalSession, WorkerTransport).
THEOREM SessionsImplementSchedulers == SessionSpec => ImplementsScheduler
<1>1. SessionInit => Init
  BY DEF SessionInit
<1>2. (IndInv /\ SessionInv) /\ [SessionNext]_allVars => [Next]_vars
  BY StepImplements
<1> QED  BY <1>1, <1>2, SessionInvariance, PTL DEF SessionSpec, ImplementsScheduler, Spec

\* A descriptor in flight, in either direction, keeps its record, its slot and
\* its nonce, whatever became of the call (terminal, controlFrame).
THEOREM DescriptorsAreCharged == SessionSpec => []InFlightIsCharged
<1>1. SessionInv => InFlightIsCharged
  BY DEF SessionInv
<1> QED  BY <1>1, SessionInvariance, PTL

\* The ids an honest broker sends rise above the worker's watermark, for any
\* order of admissions, grants and failed sends (bindEndpoint, pump).
THEOREM IdsRise == SessionSpec => []CarrierIsMonotone
<1>1. SessionInv => CarrierIsMonotone
  BY DEF SessionInv
<1> QED  BY <1>1, SessionInvariance, PTL

\* The endpoint map holds exactly the offered contexts that are still open
\* (open, abort listener, fail).
THEOREM EndpointsAreExact == SessionSpec => []EndpointsAreOpen
<1>1. SessionInv => EndpointsAreOpen
  BY DEF SessionInv
<1> QED  BY <1>1, SessionInvariance, PTL

-----------------------------------------------------------------------------
(* What is charged for calls that are over.                                *)

\* An offer that waits for its acknowledgement is under way, unless its
\* session failed or is about to.
SentIsUnderWay ==
  /\ \A s, t \in midturn : s = t
  /\ \A s \in Sessions \ (failed \union midturn) : \A c \in records :
       owner[c] = s /\ offer[c] = "sent" => c \in Packets(s)

\* A settlement sends nothing.
LEMMA SettlementSendsNothing ==
  ASSUME IndInv, NEW out, NEW R, NEW down, Settle(out, R, down),
         offer' = [c \in Contexts |-> Forget(c)]
  PROVE  \A c \in records' : c \in records \ R /\ offer'[c] = offer[c]
<1>1. PICK gone : records' = records \ (R \union gone)
  BY DEF Settle
<1>2. records \subseteq Contexts
  BY DEF IndInv, TypeOK
<1> QED  BY <1>1, <1>2 DEF Forget

\* What a step needs to keep it: at most the packet of X is taken.
LEMMA UnderWayKept ==
  ASSUME IndInv, SentIsUnderWay, NEW X,
         \A c \in records' : offer'[c] = "sent" =>
            c \in records /\ offer[c] = "sent" /\ owner'[c] = owner[c] /\ c \notin X,
         failed \subseteq failed', midturn \subseteq midturn' \union failed',
         \A s, t \in midturn' : s = t,
         \A s \in Sessions \ failed' : Packets(s) \ X \subseteq Packets(s)'
  PROVE  SentIsUnderWay'
<1>1. ASSUME NEW s \in Sessions, s \notin failed', s \notin midturn',
             NEW c \in records', owner'[c] = s, offer'[c] = "sent"
      PROVE  c \in Packets(s)'
  <2>1. c \in records /\ offer[c] = "sent" /\ owner[c] = s /\ c \notin X
    BY <1>1
  <2>2. c \in Packets(s)
    BY <1>1, <2>1 DEF SentIsUnderWay
  <2> QED  BY <1>1, <2>1, <2>2
<1> QED  BY <1>1 DEF SentIsUnderWay

\* Failures and ends of contexts.
LEMMA UnderWayEndings ==
  ASSUME IndInv, SentIsUnderWay,
         \/ \E s \in Sessions : Fail(s) /\ midturn \subseteq midturn' \union {s}
         \/ \E s \in Sessions : Reaped(s) /\ midturn \subseteq midturn' \union {s}
         \/ \E c \in Contexts, code \in Outcomes :
              FinishContext(c, code) /\ midturn \subseteq midturn',
         \A s, t \in midturn' : s = t,
         \A s \in Sessions \ failed' : Packets(s)' = Packets(s)
  PROVE  SentIsUnderWay'
<1>1. /\ \E out, R, down : Settle(out, R, down)
      /\ offer' = [c \in Contexts |-> Forget(c)]
      /\ owner' = owner /\ failed \subseteq failed'
      /\ midturn \subseteq midturn' \union failed'
  <2>1. ASSUME NEW s \in Sessions, Fail(s)
        PROVE  /\ \E out, R, down : Settle(out, R, down)
               /\ offer' = [c \in Contexts |-> Forget(c)]
               /\ owner' = owner /\ failed' = failed \union {s}
    BY <2>1 DEF Fail, identity
  <2>2. ASSUME NEW s \in Sessions, Reaped(s)
        PROVE  /\ \E out, R, down : Settle(out, R, down)
               /\ offer' = [c \in Contexts |-> Forget(c)]
               /\ owner' = owner /\ failed' = failed \union {s}
    BY <2>2 DEF Reaped, identity
  <2>3. ASSUME NEW c \in Contexts, NEW code \in Outcomes, FinishContext(c, code)
        PROVE  /\ \E out, R, down : Settle(out, R, down)
               /\ offer' = [d \in Contexts |-> Forget(d)]
               /\ owner' = owner /\ failed' = failed
    BY <2>3 DEF FinishContext, identity, physical
  <2> QED  BY <2>1, <2>2, <2>3
<1>2. \A c \in records' : c \in records /\ offer'[c] = offer[c]
  BY <1>1, SettlementSendsNothing
<1>3. PICK X : X = {}
  OBVIOUS
<1>4. /\ \A c \in records' : offer'[c] = "sent" =>
            c \in records /\ offer[c] = "sent" /\ owner'[c] = owner[c] /\ c \notin X
      /\ \A s \in Sessions \ failed' : Packets(s) \ X \subseteq Packets(s)'
      /\ failed \subseteq failed' /\ midturn \subseteq midturn' \union failed'
  BY <1>1, <1>2, <1>3
<1> QED  BY <1>4, UnderWayKept

\* The broker reads an acknowledgement.
LEMMA UnderWayReady ==
  ASSUME IndInv, SessionInv, SentIsUnderWay, NEW s \in Sessions, PumpReady(s)
  PROVE  SentIsUnderWay'
<1>1. PICK c \in Contexts : c = Head(acks[s]) /\ acks[s] # <<>>
  BY DEF PumpReady, SessionInv, SessionTypeOK
<1>2. /\ Acknowledge(c) /\ acks' = [acks EXCEPT ![s] = Tail(@)]
      /\ UNCHANGED <<carrier, midturn>>
  BY <1>1 DEF PumpReady
<1>3. owner' = owner /\ failed' = failed
  BY <1>2 DEF Acknowledge, identity, physical
<1>4. \A d \in records' : offer'[d] = "sent" =>
        d \in records /\ offer[d] = "sent" /\ d # c
  <2>1. offer' = [d \in Contexts |->
                    IF d = c /\ Live(c) THEN "ready" ELSE Forget(d)]
    BY <1>2 DEF Acknowledge
  <2>2. records \subseteq Contexts
    BY DEF IndInv, TypeOK
  <2>3. CASE Live(c)
    <3>1. records' = records
      BY <1>2, <2>3 DEF Acknowledge, broker, Live
    <3> QED  BY <2>1, <2>2, <2>3, <3>1 DEF Forget
  <2>4. CASE ~Live(c)
    <3>1. offer' = [d \in Contexts |-> Forget(d)]
      BY <2>1, <2>4
    <3>2. PICK out, R : Settle(out, R \union {c}, failed)
      <4>1. CASE terminal[c] # "none" /\ Settle(NoOutcome, {c}, failed)
        <5>1. {c} = {} \union {c}
          OBVIOUS
        <5> QED  BY <4>1, <5>1
      <4> QED  BY <1>2, <2>4, <4>1 DEF Acknowledge
    <3> QED  BY <3>1, <3>2, SettlementSendsNothing
  <2> QED  BY <2>3, <2>4
<1>5. \A t \in Sessions : Packets(t) \ {c} \subseteq Packets(t)'
  <2>1. acks[s] \in Seq(Contexts) /\ acks'[s] = Tail(acks[s])
        /\ \A t \in Sessions : t # s => acks'[t] = acks[t]
    BY <1>2 DEF SessionInv, SessionTypeOK
  <2>2. ASSUME NEW i \in DOMAIN acks[s], acks[s][i] # c
        PROVE  \E j \in DOMAIN acks'[s] : acks'[s][j] = acks[s][i]
    <3>1. acks[s][1] = c /\ i \in 1 .. Len(acks[s]) /\ i # 1 /\ Len(acks[s]) \in Nat
      BY <1>1, <2>1, <2>2
    <3>2. i - 1 \in DOMAIN acks'[s] /\ acks'[s][i - 1] = acks[s][i]
      BY <1>1, <2>1, <3>1
    <3> QED  BY <3>2
  <2>3. ASSUME NEW t \in Sessions, t # s
        PROVE  Packets(t)' = Packets(t)
    BY <1>2, <2>1, <2>3 DEF Packets, Range
  <2>4. Packets(s) \ {c} \subseteq Packets(s)'
    BY <1>2, <2>2 DEF Packets, Range
  <2> QED  BY <2>3, <2>4
<1> QED  BY <1>2, <1>3, <1>4, <1>5, UnderWayKept DEF SentIsUnderWay

\* A packet that the worker takes travels on as its acknowledgement.
LEMMA UnderWayPump ==
  ASSUME SessionInv, NEW s \in Sessions, WorkerPump(s)
  PROVE  \A t \in Sessions : Packets(t) \subseteq Packets(t)'
<1>0. carrier \in [Sessions -> Seq(Contexts)] /\ acks \in [Sessions -> Seq(Contexts)]
  BY DEF SessionInv, SessionTypeOK
<1>1. CASE UNCHANGED <<carrier, acks>>
  BY <1>1 DEF Packets, Range
<1>2. ASSUME carrier[s] # <<>>, carrier' = [carrier EXCEPT ![s] = Tail(@)],
             acks' = [acks EXCEPT ![s] = Append(@, Head(carrier[s]))]
      PROVE  \A t \in Sessions : Packets(t) \subseteq Packets(t)'
  <2>1. PICK q \in Seq(Contexts), h \in Contexts :
          q = carrier[s] /\ h = Head(q) /\ h = q[1]
    BY <1>0, <1>2, QueueFacts
  <2>2. carrier'[s] = Tail(q) /\ acks'[s] = Append(acks[s], h) /\ acks[s] \in Seq(Contexts)
        /\ \A t \in Sessions : t # s => carrier'[t] = carrier[t] /\ acks'[t] = acks[t]
    BY <1>0, <1>2, <2>1
  <2>3. ASSUME NEW i \in DOMAIN q, i # 1
        PROVE  i - 1 \in DOMAIN Tail(q) /\ Tail(q)[i - 1] = q[i]
    BY <1>2, <2>1, <2>3
  <2>4. /\ \A i \in DOMAIN acks[s] : i \in DOMAIN acks'[s] /\ acks'[s][i] = acks[s][i]
        /\ Len(acks[s]) + 1 \in DOMAIN acks'[s] /\ acks'[s][Len(acks[s]) + 1] = h
    BY <2>2
  <2>5. Packets(s) \subseteq Packets(s)'
    <3>1. ASSUME NEW i \in DOMAIN q
          PROVE  q[i] \in Packets(s)'
      <4>1. CASE i = 1
        BY <2>1, <2>2, <2>4, <4>1 DEF Packets, Range
      <4>2. CASE i # 1
        BY <2>2, <2>3, <4>2 DEF Packets, Range
      <4> QED  BY <4>1, <4>2
    <3>2. ASSUME NEW i \in DOMAIN acks[s]
          PROVE  acks[s][i] \in Packets(s)'
      BY <2>4 DEF Packets, Range
    <3> QED  BY <2>1, <3>1, <3>2 DEF Packets, Range
  <2>6. ASSUME NEW t \in Sessions, t # s
        PROVE  Packets(t)' = Packets(t)
    BY <2>2, <2>6 DEF Packets, Range
  <2> QED  BY <2>5, <2>6
<1> QED  BY <1>1, <1>2 DEF WorkerPump

\* Every step keeps it.
LEMMA UnderWayStep ==
  ASSUME IndInv, SessionInv, SentIsUnderWay, [SessionNext]_allVars
  PROVE  SentIsUnderWay'
<1>0. /\ SessionTypeOK /\ records \subseteq Created /\ Created \subseteq Contexts
      /\ \A c \in Created : owner[c] \in Sessions
  BY CreatedContexts DEF SessionInv, IndInv, Shape
<1>1. ASSUME NEW s \in Sessions, FailMidturn(s)
      PROVE  SentIsUnderWay'
  <2>1. Fail(s) /\ midturn \subseteq midturn' \union {s} /\ midturn' = {}
        /\ UNCHANGED <<carrier, acks>>
    BY <1>1 DEF FailMidturn, FailSession, SentIsUnderWay
  <2> QED  BY <2>1, UnderWayEndings DEF Packets, Range
<1>2. ASSUME NEW s \in Sessions, midturn = {},
             LaunchUnowned(s) \/ Fault(s) \/ ControlEOF(s) \/ LaunchFails(s) \/ Dead(s)
      PROVE  SentIsUnderWay'
  <2>1. Fail(s) \/ Reaped(s)
    BY <1>2 DEF LaunchUnowned, Fault, ControlEOF, LaunchFails, Dead, FailSession
  <2>2. /\ midturn' = {}
        /\ \A t \in Sessions : t # s => carrier'[t] = carrier[t] /\ acks'[t] = acks[t]
    BY <1>0, <1>2 DEF LaunchUnowned, Fault, ControlEOF, LaunchFails, Dead, SessionTypeOK
  <2>3. s \in failed'
    BY <2>1 DEF Fail, Reaped
  <2>4. \A t \in Sessions \ failed' : Packets(t)' = Packets(t)
    BY <2>2, <2>3 DEF Packets, Range
  <2> QED  BY <1>2, <2>1, <2>2, <2>4, UnderWayEndings
<1>3. ASSUME NEW c \in Contexts, midturn = {},
             \/ PumpStaleFrame(c) \/ PumpEOF(c) \/ PumpFrame(c, TRUE)
             \/ DeadlineFires(c) \/ Cancelled(c) \/ OfferExpires(c) \/ OpenLapsed(c)
      PROVE  SentIsUnderWay'
  <2>1. UNCHANGED <<carrier, acks>>
    BY <1>3 DEF PumpStaleFrame, PumpEOF, PumpFrame, DeadlineFires, Cancelled,
         OfferExpires, OpenLapsed
  <2>2. \A s, t \in midturn' : s = t
    BY <1>3 DEF PumpStaleFrame, PumpEOF, PumpFrame, DeadlineFires, Cancelled,
         OfferExpires, OpenLapsed
  <2>3. \/ \E s \in Sessions : Fail(s)
        \/ \E code \in Outcomes : FinishContext(c, code)
    <3>1. CASE PumpEOF(c) \/ OfferExpires(c)
      BY <1>0, <3>1 DEF PumpEOF, OfferExpires, OfferTimeout, FailSession, SessionTypeOK
    <3>2. CASE PumpStaleFrame(c)
      BY <3>2 DEF PumpStaleFrame, LapseCode, Outcomes, Lapses, IndInv, TypeOK
    <3>3. CASE PumpFrame(c, TRUE) \/ DeadlineFires(c) \/ Cancelled(c) \/ OpenLapsed(c)
      BY <3>3 DEF PumpFrame, Finish, DeadlineFires, DeadlineTimer, Cancelled, Abort,
           OpenLapsed, Outcomes, Lapses
    <3> QED  BY <1>3, <3>1, <3>2, <3>3
  <2>4. \A s \in Sessions : Packets(s)' = Packets(s)
    BY <2>1 DEF Packets, Range
  <2> QED  BY <1>3, <2>2, <2>3, <2>4, UnderWayEndings
<1>4. ASSUME UNCHANGED <<records, offer, failed, midturn, owner>>,
             \A s \in Sessions : Packets(s) \subseteq Packets(s)'
      PROVE  SentIsUnderWay'
  BY <1>4, UnderWayKept DEF SentIsUnderWay
<1>5. ASSUME NEW s \in Sessions,
             \/ Launch(s) \/ Handshake(s) \/ Kill(s) \/ WorkerRefuses(s)
             \/ WorkerExits(s) \/ WorkerPump(s)
      PROVE  SentIsUnderWay'
  <2>1. UNCHANGED <<records, offer, failed, midturn, owner>>
    BY <1>5 DEF Launch, Handshake, Kill, WorkerRefuses, WorkerExits, WorkerPump,
         vars, identity, broker, physical
  <2>2. CASE WorkerPump(s)
    BY <1>4, <2>1, <2>2, UnderWayPump
  <2>3. CASE ~WorkerPump(s)
    <3>1. UNCHANGED <<carrier, acks>>
      BY <1>5, <2>3 DEF Launch, Handshake, Kill, WorkerRefuses, WorkerExits
    <3> QED  BY <1>4, <2>1, <3>1 DEF Packets, Range
  <2> QED  BY <2>2, <2>3
<1>6. ASSUME NEW c \in Contexts,
             \/ OpenReturns(c) \/ WorkerSends(c) \/ DeadlinePasses(c)
             \/ AuthorityLost(c) \/ PumpFrame(c, FALSE)
      PROVE  SentIsUnderWay'
  <2>1. /\ UNCHANGED <<records, offer, failed, midturn, owner>>
        /\ UNCHANGED <<carrier, acks>>
    BY <1>6 DEF OpenReturns, WorkerSends, DeadlinePasses, AuthorityLost, Expire,
         Revoke, PumpFrame, vars, identity, broker, physical, sessionVars
  <2> QED  BY <1>4, <2>1 DEF Packets, Range
<1>7. ASSUME NEW c \in Contexts, midturn = {}, OpenThrows(c)
      PROVE  SentIsUnderWay'
  <2>1. /\ UNCHANGED <<records, offer, failed, owner, carrier, acks>>
        /\ \A s, t \in midturn' : s = t
    BY <1>7 DEF OpenThrows, vars, identity, broker, physical
  <2> QED  BY <1>7, <2>1, UnderWayKept DEF Packets, Range
<1>8. ASSUME NEW s \in Sessions, NEW lifecycle \in BOOLEAN, midturn = {},
             NEW par \in Contexts \union {NoContext}, Open(s, lifecycle, par)
      PROVE  SentIsUnderWay'
  <2>1. /\ records' = records \union {counter + 1} /\ UNCHANGED <<offer, failed, midturn>>
        /\ owner' = [owner EXCEPT ![counter + 1] = s] /\ UNCHANGED <<carrier, acks>>
        /\ counter + 1 \in Contexts /\ counter + 1 \notin Created
    BY <1>8, BoundsAssumption DEF Open, Admit, physical, Contexts, Created, IndInv, TypeOK
  <2>2. offer[counter + 1] = "none"
    BY <2>1 DEF IndInv, Shape
  <2>3. \A c \in records' : offer'[c] = "sent" =>
          c \in records /\ offer[c] = "sent" /\ owner'[c] = owner[c]
    BY <1>0, <2>1, <2>2 DEF IndInv, TypeOK
  <2> QED  BY <1>8, <2>1, <2>3, UnderWayKept DEF Packets, Range
<1>9. ASSUME NEW c \in Contexts, midturn = {}, SendOffer(c) \/ SendFails(c)
      PROVE  SentIsUnderWay'
  <2>1. /\ records' = records /\ owner' = owner /\ failed' = failed /\ acks' = acks
        /\ offer' = [offer EXCEPT ![c] = "sent"] /\ c \in records
    BY <1>9 DEF SendOffer, SendFails, Offer, identity, broker, physical
  <2>2. \A d \in Contexts : d # c => offer'[d] = offer[d]
    BY <2>1 DEF IndInv, TypeOK
  <2>3. owner[c] \in Sessions
    BY <1>0, <2>1
  <2>4. CASE SendOffer(c)
    <3>1. midturn' = {} /\ carrier' = [carrier EXCEPT ![owner[c]] = Append(@, c)]
      BY <1>9, <2>4 DEF SendOffer
    <3>2. PICK o \in Sessions : o = owner[c]
      BY <2>3
    <3>3. PICK q \in Seq(Contexts) : q = carrier[o]
      BY <1>0 DEF SessionTypeOK
    <3>4. carrier'[o] = Append(q, c) /\ \A s \in Sessions : s # o => carrier'[s] = carrier[s]
      BY <1>0, <3>1, <3>2, <3>3 DEF SessionTypeOK
    <3>5. /\ \A i \in DOMAIN q : i \in DOMAIN Append(q, c) /\ Append(q, c)[i] = q[i]
          /\ Len(q) + 1 \in DOMAIN Append(q, c) /\ Append(q, c)[Len(q) + 1] = c
      BY <3>3
    <3>6. Packets(o) \subseteq Packets(o)' /\ c \in Packets(o)'
      BY <2>1, <3>3, <3>4, <3>5 DEF Packets, Range
    <3>7. ASSUME NEW s \in Sessions, s # o
          PROVE  Packets(s)' = Packets(s)
      BY <2>1, <3>4, <3>7 DEF Packets, Range
    <3>8. ASSUME NEW s \in Sessions, s \notin failed, NEW d \in records,
                 owner[d] = s, offer'[d] = "sent"
          PROVE  d \in Packets(s)'
      <4>1. CASE d = c
        BY <3>2, <3>6, <3>8, <4>1
      <4>2. CASE d # c
        <5>1. d \in Packets(s)
          BY <1>0, <1>9, <2>2, <3>8, <4>2 DEF SentIsUnderWay
        <5> QED  BY <3>6, <3>7, <5>1
      <4> QED  BY <4>1, <4>2
    <3> QED  BY <2>1, <3>1, <3>8 DEF SentIsUnderWay
  <2>5. CASE SendFails(c)
    <3>1. midturn' = {owner[c]} /\ carrier' = carrier
      BY <2>5 DEF SendFails
    <3> QED  BY <1>0, <1>9, <2>1, <2>2, <3>1 DEF SentIsUnderWay, Packets, Range
  <2> QED  BY <1>9, <2>4, <2>5
<1>10. ASSUME midturn = {}, BrokerStep
       PROVE  SentIsUnderWay'
  BY <1>2, <1>3, <1>5, <1>6, <1>7, <1>8, <1>9, <1>10, UnderWayReady
    DEF BrokerStep, OpenResumes
<1>11. CASE WorkerStep
  BY <1>5, <1>6, <1>11 DEF WorkerStep
<1>12. CASE UNCHANGED allVars
  <2>1. UNCHANGED <<records, offer, failed, midturn, owner, carrier, acks>>
    BY <1>12 DEF allVars, vars, identity, broker, physical, sessionVars
  <2> QED  BY <1>4, <2>1 DEF Packets, Range
<1> QED  BY <1>1, <1>10, <1>11, <1>12 DEF SessionNext

\* For a call that is over, a healthy session keeps record, slot and nonce
\* only as long as the packet is in the carrier or its acknowledgement in the
\* control stream, in whatever order they raced (acknowledge, terminal).
THEOREM LateOffersAreReleased == SessionSpec => []OnlyPacketsAreCharged
<1>1. SessionInit => SentIsUnderWay
  BY DEF SessionInit, Init, SentIsUnderWay
<1>2. IndInv /\ SessionInv /\ SentIsUnderWay => OnlyPacketsAreCharged
  <2>1. ASSUME IndInv, SentIsUnderWay, NEW c \in records, terminal[c] # "none",
               owner[c] \notin failed \union midturn
        PROVE  c \in Packets(owner[c])
    <3>1. offer[c] = "sent" /\ owner[c] \in Sessions
      BY <2>1 DEF IndInv, RecordLifetime, Shape, Created
    <3> QED  BY <2>1, <3>1 DEF SentIsUnderWay
  <2> QED  BY <2>1 DEF OnlyPacketsAreCharged
<1> QED  BY <1>1, <1>2, UnderWayStep, SessionInvariance, PTL DEF SessionSpec

-----------------------------------------------------------------------------
(* The limit of processes.                                                 *)

Counted == ChildrenAreCounted /\ IsFiniteSet(live)

\* What becomes of a child that is already counted.
LEMMA CountedKept ==
  ASSUME SessionTypeOK, Counted, live' = live,
         reaped \subseteq reaped',
         \A s \in Sessions : process'[s] # "none" => process[s] # "none"
  PROVE  Counted'
BY DEF Counted, ChildrenAreCounted

\* A child more: the constructor checked that there is room for it.
LEMMA CountedLaunch ==
  ASSUME SessionTypeOK, Counted, NEW s \in Sessions,
         RoomForSession, live' = live \union {s}, reaped' = reaped,
         process' = [process EXCEPT ![s] = "up"]
  PROVE  Counted'
<1>1. IsFiniteSet(live') /\ Cardinality(live') <= Cardinality(live) + 1
      /\ Cardinality(live) \in Nat /\ Cardinality(live') \in Nat
  <2>1. PICK D : D = live \union {s}
    OBVIOUS
  <2>2. /\ IsFiniteSet(D) /\ Cardinality(D) \in Nat /\ Cardinality(live) \in Nat
        /\ Cardinality(D) = Cardinality(live) \/ Cardinality(D) = Cardinality(live) + 1
    BY <2>1, FS_AddElement, FS_CardinalityType DEF Counted
  <2> QED  BY <2>1, <2>2
<1>2. Cardinality(live') <= LiveCap
  BY <1>1, SessionAssumption DEF RoomForSession
<1>3. \A t \in Sessions : process'[t] # "none" /\ t \notin reaped' => t \in live'
  BY DEF Counted, ChildrenAreCounted, SessionTypeOK
<1> QED  BY <1>1, <1>2, <1>3 DEF Counted, ChildrenAreCounted

\* A dead child is no longer counted.
LEMMA CountedDead ==
  ASSUME Counted, NEW s \in Sessions,
         live' = live \ {s}, process' = process, reaped' = reaped \union {s}
  PROVE  Counted'
<1>1. IsFiniteSet(live') /\ Cardinality(live') <= Cardinality(live)
      /\ Cardinality(live) \in Nat /\ Cardinality(live') \in Nat
  <2>1. PICK D : D = live \ {s}
    OBVIOUS
  <2>2. /\ IsFiniteSet(D) /\ Cardinality(D) \in Nat /\ Cardinality(live) \in Nat
        /\ Cardinality(D) = Cardinality(live) \/ Cardinality(D) = Cardinality(live) - 1
    BY <2>1, FS_RemoveElement, FS_CardinalityType DEF Counted
  <2> QED  BY <2>1, <2>2
<1>2. Cardinality(live') <= LiveCap
  BY <1>1, SessionAssumption DEF Counted, ChildrenAreCounted
<1> QED  BY <1>1, <1>2 DEF Counted, ChildrenAreCounted

\* Every step keeps the count.
LEMMA CountedStep ==
  ASSUME SessionTypeOK, Counted, [SessionNext]_allVars
  PROVE  Counted'
<1>1. ASSUME NEW s \in Sessions, Launch(s) \/ LaunchUnowned(s)
      PROVE  Counted'
  BY <1>1, CountedLaunch DEF Launch, LaunchUnowned, FailSession, Fail, vars, physical
<1>2. ASSUME NEW s \in Sessions, Dead(s)
      PROVE  Counted'
  BY <1>2, CountedDead DEF Dead, Reaped
<1>3. ASSUME NEW s \in Sessions,
             LaunchFails(s) \/ Fault(s) \/ ControlEOF(s) \/ FailMidturn(s)
      PROVE  Counted'
  BY <1>3, CountedKept DEF LaunchFails, Fault, ControlEOF, FailMidturn, FailSession,
     Fail, Reaped, supervisor
<1>4. ASSUME NEW s \in Sessions, Handshake(s) \/ PumpReady(s)
      PROVE  Counted'
  BY <1>4, CountedKept DEF Handshake, PumpReady, Acknowledge, supervisor, vars, physical
<1>5. ASSUME NEW s \in Sessions, NEW lifecycle \in BOOLEAN,
             NEW par \in Contexts \union {NoContext}, Open(s, lifecycle, par)
      PROVE  Counted'
  BY <1>5, CountedKept DEF Open, Admit, supervisor, physical
<1>6. ASSUME NEW c \in Contexts,
             \/ SendOffer(c) \/ SendFails(c) \/ OpenLapsed(c) \/ OpenThrows(c)
             \/ OpenReturns(c) \/ WorkerSends(c) \/ DeadlinePasses(c) \/ AuthorityLost(c)
      PROVE  Counted'
  BY <1>6, CountedKept DEF SendOffer, SendFails, OpenLapsed, OpenThrows, OpenReturns,
     WorkerSends, DeadlinePasses, AuthorityLost, Offer, FinishContext, Expire, Revoke,
     supervisor, sessionVars, vars, physical
<1>7. ASSUME NEW c \in Contexts,
             \/ PumpStaleFrame(c) \/ PumpEOF(c)
             \/ \E reply \in BOOLEAN : PumpFrame(c, reply)
             \/ DeadlineFires(c) \/ Cancelled(c) \/ OfferExpires(c)
      PROVE  Counted'
  BY <1>7, CountedKept DEF PumpStaleFrame, PumpEOF, PumpFrame, DeadlineFires, Cancelled,
     OfferExpires, DeadlineTimer, Abort, OfferTimeout, Finish, FailSession, Fail,
     FinishContext, supervisor, vars, physical
<1>8. ASSUME NEW s \in Sessions,
             WorkerPump(s) \/ WorkerRefuses(s) \/ WorkerExits(s) \/ Kill(s)
      PROVE  Counted'
  <2>1. live' = live /\ reaped' = reaped
    BY <1>8 DEF WorkerPump, WorkerRefuses, WorkerExits, Kill, supervisor, vars, physical
  <2>2. \A t \in Sessions : process'[t] # "none" => process[t] # "none"
    BY <1>8 DEF WorkerPump, WorkerRefuses, WorkerExits, Kill, supervisor, SessionTypeOK
  <2> QED  BY <2>1, <2>2, CountedKept
<1>9. CASE UNCHANGED allVars
  BY <1>9, CountedKept DEF allVars, sessionVars, supervisor, vars, physical
<1>10. CASE BrokerStep
  BY <1>1, <1>2, <1>3, <1>4, <1>5, <1>6, <1>7, <1>10 DEF BrokerStep, OpenResumes
<1>11. CASE WorkerStep
  BY <1>6, <1>8, <1>11 DEF WorkerStep
<1> QED  BY <1>3, <1>9, <1>10, <1>11 DEF SessionNext

\* No more than LiveCap children run at once, those included whose launch threw
\* or whose session failed long ago (PhysicalSession.#live).
THEOREM ProcessesAreBounded == SessionSpec => []ChildrenAreCounted
<1>1. ASSUME SessionInit
      PROVE  Counted
  <2>1. live = {} /\ \A s \in Sessions : process[s] = "none"
    BY <1>1 DEF SessionInit
  <2>2. IsFiniteSet(live) /\ Cardinality(live) = 0
    BY <2>1, FS_EmptySet
  <2> QED  BY <2>1, <2>2, SessionAssumption DEF Counted, ChildrenAreCounted
<1>2. /\ SessionInv => SessionTypeOK
      /\ SessionTypeOK /\ Counted /\ [SessionNext]_allVars => Counted'
      /\ Counted => ChildrenAreCounted
  BY CountedStep DEF SessionInv, Counted
<1> QED  BY <1>1, <1>2, SessionInvariance, PTL DEF SessionSpec

=============================================================================
