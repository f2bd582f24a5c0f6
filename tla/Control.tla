------------------------------- MODULE Control -------------------------------
(***************************************************************************)
(* The control stream of one physical session: handshake, sequence fences  *)
(* and heartbeats, between PhysicalSession (g6/session.ts), WorkerTransport*)
(* (g6/worker-transport.ts) and the EndpointFence of both (g6/wire.ts).    *)
(* Frames are delivered in order and are not lost; either side may be slow *)
(* and the worker may stall or close.                                      *)
(***************************************************************************)
EXTENDS Integers, Sequences

CONSTANTS
  MissLimit,   \* 3 in the code: missed heartbeats before the session fails
  Burst,       \* 4 in the code: control frames handled per turn
  Lag,         \* bound: heartbeats a worker that does not stall may trail by
  MaxBeats,    \* bound: heartbeats sent
  MaxRequests  \* bound: requests the worker sends (context-ready, task-open)

ASSUME ControlAssumption ==
  /\ MissLimit \in Nat \ {0} /\ Burst \in Nat \ {0}
  /\ Lag \in Nat /\ MaxBeats \in Nat /\ MaxRequests \in Nat

VARIABLES
  broker,     \* "listening", "connected", "active" or "failed"
  peer,       \* "booting", "greeted", "accepted", "stalled" or "closed"
  toWorker,   \* frames from broker to worker
  toBroker,   \* frames from worker to broker
  sent,       \* next outgoing sequence numbers: broker's and worker's
  expected,   \* EndpointFence.#sequence of both receivers
  heartbeat,  \* nonce of the outstanding ping, 0 for none
  missed,     \* #missed
  beats,      \* nonces used so far
  requests    \* requests sent by the worker

vars == <<broker, peer, toWorker, toBroker, sent, expected, heartbeat, missed,
          beats, requests>>

Sides == {"broker", "worker"}
Frame(tag, seq, nonce) == [tag |-> tag, seq |-> seq, nonce |-> nonce]
Frames == [tag : {"hello", "accepted", "ping", "pong", "request"},
           seq : Nat, nonce : 0 .. MaxBeats]

TypeOK ==
  /\ broker \in {"listening", "connected", "active", "failed"}
  /\ peer \in {"booting", "greeted", "accepted", "stalled", "closed"}
  /\ toWorker \in Seq(Frames) /\ toBroker \in Seq(Frames)
  /\ sent \in [Sides -> Nat] /\ expected \in [Sides -> Nat]
  /\ heartbeat \in 0 .. MaxBeats /\ beats \in 0 .. MaxBeats
  /\ missed \in 0 .. MissLimit /\ requests \in 0 .. MaxRequests

Init ==
  /\ broker = "listening" /\ peer = "booting"
  /\ toWorker = <<>> /\ toBroker = <<>>
  /\ sent = [s \in Sides |-> 1]
  /\ expected = [s \in Sides |-> 0]
  /\ heartbeat = 0 /\ missed = 0 /\ beats = 0 /\ requests = 0

-----------------------------------------------------------------------------
(* The broker.                                                             *)

\* fail(): both directions are closed.
BrokerFails ==
  /\ broker' = "failed"
  /\ toWorker' = <<>> /\ toBroker' = <<>>

\* pump() accepts the connection of its own child.
Accept ==
  /\ broker = "listening" /\ peer = "greeted"
  /\ broker' = "connected"
  /\ UNCHANGED <<peer, toWorker, toBroker, sent, expected, heartbeat, missed,
                 beats, requests>>

\* The frame numbers EndpointFence.accept lets through.
InSequence(side, frame) == frame.seq = expected[side]

\* Mutant: accepted takes its number from the counter of later frames.
AcceptedCounted == Frame("accepted", sent["broker"], 0)

\* The literal sequence 0 of the accepted frame.
AcceptedFrame == Frame("accepted", 0, 0)

\* The checks of controlFrame.
Welcome(frame) ==
  CASE frame.tag = "hello" -> broker = "connected"
    [] frame.tag = "pong" -> broker = "active" /\ frame.nonce = heartbeat
    [] OTHER -> broker = "active"

\* controlFrame: hello is answered with accepted, the pong of the last ping
\* clears the heartbeat, requests go to the scheduler or to onTask.
Handle(frame) ==
  /\ IF frame.tag = "hello"
     THEN broker' = "active" /\ toWorker' = Append(toWorker, AcceptedFrame)
     ELSE UNCHANGED <<broker, toWorker>>
  /\ IF frame.tag = "pong"
     THEN heartbeat' = 0 /\ missed' = 0
     ELSE UNCHANGED <<heartbeat, missed>>
  /\ toBroker' = Tail(toBroker)

\* One control frame in pump().
BrokerReads ==
  /\ broker \in {"connected", "active"} /\ toBroker # <<>>
  /\ IF InSequence("broker", Head(toBroker)) /\ Welcome(Head(toBroker))
     THEN Handle(Head(toBroker))
     ELSE BrokerFails /\ UNCHANGED <<heartbeat, missed>>
  /\ expected' = [expected EXCEPT !["broker"] = @ + 1]
  /\ UNCHANGED <<peer, sent, beats, requests>>

\* Pings and pongs still under way; a stalled worker reads no more pings.
Trailing ==
  Len(SelectSeq(toBroker, LAMBDA f : f.tag = "pong"))
    + IF peer = "stalled" THEN 0
      ELSE Len(SelectSeq(toWorker, LAMBDA f : f.tag = "ping"))

\* Mutant: a miss is not counted.
MissesUncounted == missed

\* ++#missed when the last ping was not answered.
Misses == IF heartbeat = 0 THEN missed ELSE missed + 1

\* 5 s have passed: the third unanswered ping fails the session, otherwise
\* the next ping replaces the outstanding nonce.
Beat ==
  /\ broker = "active" /\ beats < MaxBeats
  /\ Trailing <= Lag
  /\ missed' = Misses
  /\ IF Misses < MissLimit
     THEN /\ heartbeat' = beats + 1 /\ beats' = beats + 1
          /\ toWorker' = Append(toWorker,
                                Frame("ping", sent["broker"], beats + 1))
          /\ sent' = [sent EXCEPT !["broker"] = @ + 1]
          /\ UNCHANGED <<broker, toBroker>>
     ELSE BrokerFails /\ UNCHANGED <<heartbeat, beats, sent>>
  /\ UNCHANGED <<peer, expected, requests>>

\* 3 s without a hello.
BrokerDeadline ==
  /\ broker \in {"listening", "connected"}
  /\ BrokerFails
  /\ UNCHANGED <<peer, sent, expected, heartbeat, missed, beats, requests>>

\* The worker closed the stream and everything it sent was read.
BrokerEOF ==
  /\ broker \in {"connected", "active"} /\ peer = "closed" /\ toBroker = <<>>
  /\ BrokerFails
  /\ UNCHANGED <<peer, sent, expected, heartbeat, missed, beats, requests>>

-----------------------------------------------------------------------------
(* The worker.                                                             *)

\* start(): hello, then the pump timer.
Greet ==
  /\ peer = "booting" /\ broker # "failed"
  /\ peer' = "greeted"
  /\ toBroker' = Append(toBroker, Frame("hello", 0, 0))
  /\ UNCHANGED <<broker, toWorker, sent, expected, heartbeat, missed, beats,
                 requests>>

\* fail(): the transport is closed; what was sent can still be read.
WorkerCloses ==
  /\ peer' = "closed" /\ toWorker' = <<>>
  /\ UNCHANGED <<toBroker, sent>>

\* The pongs for the first n frames: all but the accepted frame are pings.
Pongs(n) ==
  LET first == IF peer = "greeted" THEN 1 ELSE 0
  IN  [i \in 1 .. n - first |->
         Frame("pong", sent["worker"] + i - 1, toWorker[i + first].nonce)]

\* The frames of a turn pass the fence and the handshake.
WellFormedTurn(n) ==
  /\ \A i \in 1 .. n : toWorker[i].seq = expected["worker"] + i - 1
  /\ \A i \in 1 .. n :
       toWorker[i].tag = "accepted" <=> peer = "greeted" /\ i = 1

\* pump(): up to Burst control frames in one turn.
WorkerReads ==
  LET n == IF Len(toWorker) < Burst THEN Len(toWorker) ELSE Burst
  IN  /\ peer \in {"greeted", "accepted"} /\ n > 0
      /\ IF WellFormedTurn(n)
         THEN /\ peer' = "accepted"
              /\ toWorker' = SubSeq(toWorker, n + 1, Len(toWorker))
              /\ toBroker' = toBroker \o Pongs(n)
              /\ sent' = [sent EXCEPT !["worker"] = @ + Len(Pongs(n))]
         ELSE WorkerCloses
      /\ expected' = [expected EXCEPT !["worker"] = @ + n]
      /\ UNCHANGED <<broker, heartbeat, missed, beats, requests>>

\* controlSend, or the context-ready of a received offer.
WorkerRequests ==
  /\ peer = "accepted" /\ broker # "failed" /\ requests < MaxRequests
  /\ requests' = requests + 1
  /\ toBroker' = Append(toBroker, Frame("request", sent["worker"], 0))
  /\ sent' = [sent EXCEPT !["worker"] = @ + 1]
  /\ UNCHANGED <<broker, peer, toWorker, expected, heartbeat, missed, beats>>

\* 3 s without accepted, or the broker is gone.
WorkerDeadline ==
  /\ peer = "greeted" \/ (peer = "accepted" /\ broker = "failed")
  /\ WorkerCloses
  /\ UNCHANGED <<broker, expected, heartbeat, missed, beats, requests>>

\* The provider blocks the event loop of the worker for good (early enough
\* for the misses to fit the bound).
Stall ==
  /\ peer \in {"greeted", "accepted"} /\ beats + MissLimit < MaxBeats
  /\ peer' = "stalled"
  /\ UNCHANGED <<broker, toWorker, toBroker, sent, expected, heartbeat, missed,
                 beats, requests>>

Next ==
  \/ Accept \/ BrokerReads \/ Beat \/ BrokerDeadline \/ BrokerEOF
  \/ Greet \/ WorkerReads \/ WorkerRequests \/ WorkerDeadline \/ Stall

Spec == Init /\ [][Next]_vars

\* The broker's interval timer runs; of the worker nothing is assumed.
Fairness ==
  WF_vars(Accept) /\ WF_vars(BrokerReads) /\ WF_vars(Beat)
    /\ WF_vars(BrokerDeadline) /\ WF_vars(BrokerEOF)

FairSpec == Spec /\ Fairness

-----------------------------------------------------------------------------

\* The variables have their types, and neither fence ever rejects a frame of the other side: the literal 0 of
\* hello and accepted and the counters that start at 1 fit together, whatever
\* the order of pongs and requests (EndpointFence.accept, header(),
\* controlMessage()).
NumberedInOrder ==
  /\ TypeOK
  /\ broker # "failed" =>
       \A i \in DOMAIN toBroker : toBroker[i].seq = expected["broker"] + i - 1
  /\ peer # "closed" /\ broker # "failed" =>
       \A i \in DOMAIN toWorker : toWorker[i].seq = expected["worker"] + i - 1

\* A worker that stalls or closes after the handshake is noticed.
StallIsNoticed ==
  (broker = "active" /\ peer \in {"stalled", "closed"})
    ~> (broker = "failed")

=============================================================================
