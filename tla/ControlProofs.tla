---------------------------- MODULE ControlProofs ----------------------------
(***************************************************************************)
(* Proofs about the control stream, for any limits and bounds: no fence    *)
(* ever rejects a frame of the other side.                                 *)
(***************************************************************************)
EXTENDS Control, SequenceTheorems, TLAPS

-----------------------------------------------------------------------------
(* Frames in sequence.                                                     *)

\* The frames of q are numbered from e.
Numbered(q, e) == \A i \in DOMAIN q : q[i].seq = e + i - 1

\* A sequence of frames, taken apart.
LEMMA FrameParts ==
  ASSUME NEW q \in Seq(Frames)
  PROVE  /\ Len(q) \in Nat /\ DOMAIN q = 1 .. Len(q)
         /\ \A i \in DOMAIN q :
              /\ q[i] \in Frames /\ q[i].seq \in Nat
              /\ q[i].nonce \in 0 .. MaxBeats
  <1>1. /\ Len(q) \in Nat /\ DOMAIN q = 1 .. Len(q)
        /\ \A i \in DOMAIN q : q[i] \in Frames
    OBVIOUS
  <1> QED BY <1>1 DEF Frames

\* The frame after the last one continues the numbers.
LEMMA NumberedAppend ==
  ASSUME NEW q \in Seq(Frames), NEW e \in Nat, NEW f \in Frames,
         Numbered(q, e), f.seq = e + Len(q)
  PROVE  /\ Append(q, f) \in Seq(Frames) /\ Len(Append(q, f)) = Len(q) + 1
         /\ Numbered(Append(q, f), e)
  <1>1. PICK r : r = Append(q, f)
    OBVIOUS
  <1>2. /\ r \in Seq(Frames) /\ Len(r) = Len(q) + 1 /\ r[Len(q) + 1] = f
        /\ \A i \in 1 .. Len(q) : r[i] = q[i]
    BY <1>1, AppendProperties
  <1>3. /\ Len(q) \in Nat /\ DOMAIN q = 1 .. Len(q)
        /\ DOMAIN r = 1 .. Len(q) + 1
    BY <1>2, FrameParts
  <1>4. ASSUME NEW i \in DOMAIN r
        PROVE  r[i].seq = e + i - 1
    <2>1. CASE i \in DOMAIN q
      BY <1>2, <1>3, <2>1 DEF Numbered
    <2>2. CASE i = Len(q) + 1
      BY <1>2, <1>3, <2>2
    <2> QED BY <1>3, <2>1, <2>2
  <1> QED BY <1>1, <1>2, <1>4 DEF Numbered

\* Behind the first n frames the numbers go on n higher.
LEMMA NumberedDrop ==
  ASSUME NEW q \in Seq(Frames), NEW e \in Nat, NEW n \in Nat, n <= Len(q),
         Numbered(q, e)
  PROVE  /\ SubSeq(q, n + 1, Len(q)) \in Seq(Frames)
         /\ Len(SubSeq(q, n + 1, Len(q))) = Len(q) - n
         /\ Numbered(SubSeq(q, n + 1, Len(q)), e + n)
  <1>1. PICK r : r = SubSeq(q, n + 1, Len(q))
    OBVIOUS
  <1>2. Len(q) \in Nat /\ DOMAIN q = 1 .. Len(q)
    BY FrameParts
  <1>3. PICK m \in Nat : m = Len(q)
    BY <1>2
  <1>4. /\ r \in Seq(Frames)
        /\ Len(r) = IF n + 1 <= m THEN m - (n + 1) + 1 ELSE 0
        /\ \A i \in 1 .. m - (n + 1) + 1 : r[i] = q[n + 1 + i - 1]
    <2>1. n + 1 \in 1 .. Len(q) + 1 /\ m \in (n + 1) - 1 .. Len(q)
      BY <1>3
    <2>2. r = SubSeq(q, n + 1, m)
      BY <1>1, <1>3
    <2> QED BY <2>1, <2>2, SubSeqProperties
  <1>5. Len(r) = m - n
    BY <1>3, <1>4
  <1>6. DOMAIN r = 1 .. m - n
    BY <1>4, <1>5, FrameParts
  <1>7. ASSUME NEW i \in DOMAIN r
        PROVE  r[i].seq = (e + n) + i - 1
    <2>1. /\ i \in 1 .. m - (n + 1) + 1 /\ i \in Nat
          /\ n + 1 + i - 1 \in DOMAIN q /\ n + 1 + i - 1 = n + i
      BY <1>2, <1>3, <1>6
    <2>2. r[i] = q[n + i] /\ q[n + i].seq = e + (n + i) - 1
      BY <1>4, <2>1 DEF Numbered
    <2> QED BY <2>1, <2>2
  <1> QED BY <1>1, <1>3, <1>4, <1>5, <1>7 DEF Numbered

\* Numbers continue over the seam of two sequences.
LEMMA NumberedJoin ==
  ASSUME NEW q \in Seq(Frames), NEW r \in Seq(Frames), NEW e \in Nat,
         Numbered(q, e), Numbered(r, e + Len(q))
  PROVE  /\ q \o r \in Seq(Frames) /\ Len(q \o r) = Len(q) + Len(r)
         /\ Numbered(q \o r, e)
  <1>1. PICK t : t = q \o r
    OBVIOUS
  <1>2. /\ t \in Seq(Frames) /\ Len(t) = Len(q) + Len(r)
        /\ \A i \in 1 .. Len(t) : t[i] = IF i <= Len(q) THEN q[i]
                                         ELSE r[i - Len(q)]
    BY <1>1, ConcatProperties
  <1>3. /\ Len(q) \in Nat /\ DOMAIN q = 1 .. Len(q)
        /\ Len(r) \in Nat /\ DOMAIN r = 1 .. Len(r) /\ DOMAIN t = 1 .. Len(t)
    BY <1>2, FrameParts
  <1>4. ASSUME NEW i \in DOMAIN t
        PROVE  t[i].seq = e + i - 1
    <2>1. CASE i <= Len(q)
      BY <1>2, <1>3, <2>1 DEF Numbered
    <2>2. CASE ~(i <= Len(q))
      <3>1. i - Len(q) \in DOMAIN r /\ t[i] = r[i - Len(q)]
        BY <1>2, <1>3, <2>2
      <3>2. r[i - Len(q)].seq = (e + Len(q)) + (i - Len(q)) - 1
        BY <3>1 DEF Numbered
      <3> QED BY <1>3, <3>1, <3>2
    <2> QED BY <2>1, <2>2
  <1> QED BY <1>1, <1>2, <1>4 DEF Numbered

-----------------------------------------------------------------------------
(* The inductive invariant.                                                *)

\* The frames the worker has sent are those the broker has let through and
\* those under way; hello, which is not counted in sent, has the number 0.
WorkerFrames ==
  /\ Numbered(toBroker, expected["broker"])
  /\ expected["broker"] + Len(toBroker)
       = IF peer = "booting" THEN 0 ELSE sent["worker"]

\* Before the handshake the broker has sent nothing; accepted, which is not
\* counted in sent, has the number 0.
BrokerFrames ==
  /\ Numbered(toWorker, expected["worker"])
  /\ expected["worker"] + Len(toWorker)
       = IF broker = "active" THEN sent["broker"] ELSE 0

ControlInv ==
  /\ TypeOK
  /\ broker # "failed" => WorkerFrames /\ missed < MissLimit
  /\ broker # "failed" /\ peer # "closed" => BrokerFrames
  /\ peer = "booting" => sent["worker"] = 1
  /\ broker # "active" => toWorker = <<>>
  /\ broker \in {"listening", "connected"} => sent["broker"] = 1

-----------------------------------------------------------------------------
(* The steps of the broker.                                                *)

\* The types of what a failing broker leaves.
LEMMA FailureStep ==
  ASSUME ControlInv, BrokerFails, UNCHANGED <<peer, beats, requests>>,
         sent' = sent, expected' \in [Sides -> Nat], heartbeat' \in 0 .. MaxBeats,
         missed' \in 0 .. MissLimit
  PROVE  ControlInv'
  <1>1. broker' = "failed" /\ toWorker' = <<>> /\ toBroker' = <<>>
    BY DEF BrokerFails
  <1>2. <<>> \in Seq(Frames)
    OBVIOUS
  <1>3. TypeOK'
    BY <1>1, <1>2 DEF ControlInv, TypeOK
  <1> QED BY <1>1, <1>3 DEF ControlInv

\* The parts of the state that the steps count with.
LEMMA Counters ==
  ASSUME TypeOK
  PROVE  /\ toWorker \in Seq(Frames) /\ toBroker \in Seq(Frames)
         /\ sent["broker"] \in Nat /\ sent["worker"] \in Nat
         /\ expected["broker"] \in Nat /\ expected["worker"] \in Nat
         /\ Len(toWorker) \in Nat /\ Len(toBroker) \in Nat
         /\ "broker" \in Sides /\ "worker" \in Sides
         /\ sent \in [Sides -> Nat] /\ expected \in [Sides -> Nat]
         /\ missed \in Nat /\ MissLimit \in Nat /\ missed <= MissLimit
         /\ beats \in Nat /\ beats <= MaxBeats /\ MaxBeats \in Nat
  <1>1. toWorker \in Seq(Frames) /\ toBroker \in Seq(Frames)
    BY DEF TypeOK
  <1>2. Len(toWorker) \in Nat /\ Len(toBroker) \in Nat
    BY <1>1, FrameParts
  <1> QED BY <1>1, <1>2, ControlAssumption DEF TypeOK, Sides

\* The broker takes the next frame: its number is right, and the handshake
\* answers it with the first frame of the other direction.
LEMMA BrokerReadsStep ==
  ASSUME ControlInv, BrokerReads
  PROVE  ControlInv'
  <1>1. /\ TypeOK /\ WorkerFrames /\ missed < MissLimit
        /\ peer # "closed" => BrokerFrames
    BY DEF ControlInv, BrokerReads
  <1>2. PICK f : f = Head(toBroker)
    OBVIOUS
  <1>3. f \in Frames
    BY <1>1, <1>2, Counters, HeadTailProperties DEF BrokerReads
  <1>4. /\ expected' = [expected EXCEPT !["broker"] = expected["broker"] + 1]
        /\ UNCHANGED <<peer, sent, beats, requests>>
    BY DEF BrokerReads
  <1>5. /\ expected' \in [Sides -> Nat]
        /\ expected'["broker"] = expected["broker"] + 1
        /\ expected'["worker"] = expected["worker"]
    BY <1>1, <1>4, Counters DEF Sides
  <1>6. CASE ~(InSequence("broker", f) /\ Welcome(f))
    <2>1. BrokerFails /\ UNCHANGED <<heartbeat, missed>>
      BY <1>2, <1>6 DEF BrokerReads
    <2> QED BY <1>1, <1>4, <1>5, <2>1, FailureStep DEF TypeOK
  <1>7. CASE InSequence("broker", f) /\ Welcome(f)
    <2>1. Handle(f)
      BY <1>2, <1>7 DEF BrokerReads
    <2>2. toBroker' = Tail(toBroker)
      BY <2>1 DEF Handle
    <2>3. /\ toBroker' \in Seq(Frames) /\ Len(toBroker') = Len(toBroker) - 1
          /\ Numbered(toBroker', expected["broker"] + 1) /\ Len(toBroker) # 0
      <3>1. PICK m \in Nat : m = Len(toBroker)
        BY <1>1, Counters
      <3>2. m # 0
        BY <1>1, <3>1, Counters, EmptySeq DEF BrokerReads
      <3>3. Tail(toBroker) = SubSeq(toBroker, 2, m) /\ 1 <= m
        BY <1>1, <3>1, <3>2, Counters, HeadTailProperties
      <3>4. toBroker' = SubSeq(toBroker, 1 + 1, Len(toBroker))
        BY <2>2, <3>1, <3>3
      <3>5. /\ SubSeq(toBroker, 1 + 1, Len(toBroker)) \in Seq(Frames)
            /\ Len(SubSeq(toBroker, 1 + 1, Len(toBroker))) = Len(toBroker) - 1
            /\ Numbered(SubSeq(toBroker, 1 + 1, Len(toBroker)),
                        expected["broker"] + 1)
        BY <1>1, <3>1, <3>3, Counters, NumberedDrop DEF WorkerFrames
      <3> QED BY <3>1, <3>2, <3>4, <3>5
    <2>4. WorkerFrames'
      BY <1>1, <1>4, <1>5, <2>3, Counters DEF WorkerFrames
    <2>5. heartbeat' \in 0 .. MaxBeats /\ missed' \in 0 .. MissLimit
          /\ missed' < MissLimit
      BY <1>1, <2>1, ControlAssumption DEF Handle, TypeOK
    <2>6. CASE f.tag # "hello"
      <3>1. UNCHANGED <<broker, toWorker>>
        BY <2>1, <2>6 DEF Handle
      <3>2. TypeOK'
        BY <1>1, <1>4, <1>5, <2>3, <2>5, <3>1 DEF TypeOK
      <3>3. BrokerFrames => BrokerFrames'
        BY <1>4, <1>5, <3>1 DEF BrokerFrames
      <3> QED BY <1>4, <2>4, <2>5, <3>1, <3>2, <3>3 DEF ControlInv
    <2>7. CASE f.tag = "hello"
      <3>1. broker = "connected" /\ broker' = "active"
            /\ toWorker' = Append(toWorker, AcceptedFrame)
        BY <1>7, <2>1, <2>7 DEF Handle, Welcome
      <3>2. sent["broker"] = 1 /\ toWorker = <<>>
        BY <3>1 DEF ControlInv
      <3>3. AcceptedFrame \in Frames /\ AcceptedFrame.seq = 0
        BY ControlAssumption DEF AcceptedFrame, Frame, Frames
      <3>4. /\ toWorker' \in Seq(Frames) /\ Len(toWorker') = 1
            /\ DOMAIN toWorker' = {1} /\ toWorker'[1] = AcceptedFrame
        BY <3>1, <3>2, <3>3
      <3>5. TypeOK'
        BY <1>1, <1>4, <1>5, <2>3, <2>5, <3>1, <3>4 DEF TypeOK
      <3>6. peer # "closed" => BrokerFrames'
        <4>1. Len(<<>>) = 0
          OBVIOUS
        <4>2. peer # "closed" => expected["worker"] = 0
          BY <1>1, <3>1, <3>2, <4>1, Counters DEF BrokerFrames
        <4>3. peer # "closed" => Numbered(toWorker', 0)
          BY <3>3, <3>4 DEF Numbered
        <4> QED BY <1>4, <1>5, <3>1, <3>2, <3>4, <4>2, <4>3 DEF BrokerFrames
      <3> QED BY <1>4, <2>4, <2>5, <3>1, <3>5, <3>6 DEF ControlInv
    <2> QED BY <2>6, <2>7
  <1> QED BY <1>6, <1>7

\* A heartbeat takes the next number, or is one miss too many.
LEMMA BeatStep ==
  ASSUME ControlInv, Beat
  PROVE  ControlInv'
  <1>1. /\ TypeOK /\ WorkerFrames /\ missed < MissLimit
        /\ peer # "closed" => BrokerFrames
    BY DEF ControlInv, Beat
  <1>2. /\ broker = "active" /\ beats < MaxBeats /\ missed' = Misses
        /\ UNCHANGED <<peer, expected, requests>>
    BY DEF Beat
  <1>3. Misses \in 0 .. MissLimit
    BY <1>1, Counters DEF Misses
  <1>4. CASE ~(Misses < MissLimit)
    <2>1. BrokerFails /\ UNCHANGED <<heartbeat, beats, sent>>
      BY <1>4 DEF Beat
    <2> QED BY <1>1, <1>2, <1>3, <2>1, FailureStep DEF TypeOK
  <1>5. CASE Misses < MissLimit
    <2>1. PICK f : f = Frame("ping", sent["broker"], beats + 1)
      OBVIOUS
    <2>2. /\ heartbeat' = beats + 1 /\ beats' = beats + 1
          /\ toWorker' = Append(toWorker, f)
          /\ sent' = [sent EXCEPT !["broker"] = sent["broker"] + 1]
          /\ UNCHANGED <<broker, toBroker>>
      BY <1>5, <2>1 DEF Beat
    <2>3. beats + 1 \in 0 .. MaxBeats
      BY <1>1, <1>2, Counters
    <2>4. f \in Frames /\ f.seq = sent["broker"]
      BY <1>1, <2>1, <2>3, Counters DEF Frame, Frames
    <2>5. toWorker' \in Seq(Frames) /\ Len(toWorker') = Len(toWorker) + 1
      BY <1>1, <2>2, <2>4, Counters, AppendProperties
    <2>6. /\ sent' \in [Sides -> Nat] /\ sent'["broker"] = sent["broker"] + 1
          /\ sent'["worker"] = sent["worker"]
      BY <1>1, <2>2, Counters DEF Sides
    <2>7. TypeOK'
      BY <1>1, <1>2, <1>3, <2>2, <2>3, <2>5, <2>6 DEF TypeOK
    <2>8. WorkerFrames'
      BY <1>1, <1>2, <2>2, <2>6 DEF WorkerFrames
    <2>9. peer # "closed" => BrokerFrames'
      <3> SUFFICES ASSUME peer # "closed" PROVE BrokerFrames'
        OBVIOUS
      <3>1. /\ Numbered(toWorker, expected["worker"])
            /\ f.seq = expected["worker"] + Len(toWorker)
        BY <1>1, <1>2, <2>4 DEF BrokerFrames
      <3>2. Numbered(Append(toWorker, f), expected["worker"])
        BY <1>1, <2>4, <3>1, Counters, NumberedAppend
      <3> QED BY <1>1, <1>2, <2>2, <2>4, <2>5, <2>6, <3>1, <3>2, Counters
              DEF BrokerFrames
    <2> QED BY <1>2, <1>5, <2>2, <2>6, <2>7, <2>8, <2>9 DEF ControlInv
  <1> QED BY <1>4, <1>5

-----------------------------------------------------------------------------
(* The steps of the worker.                                                *)

\* A frame of the worker that takes the next number.
LEMMA WorkerSends ==
  ASSUME ControlInv, broker # "failed", NEW f \in Frames,
         f.seq = expected["broker"] + Len(toBroker),
         toBroker' = Append(toBroker, f), expected' = expected
  PROVE  /\ toBroker' \in Seq(Frames) /\ Numbered(toBroker', expected'["broker"])
         /\ expected'["broker"] + Len(toBroker') = f.seq + 1
  <1>1. /\ toBroker \in Seq(Frames) /\ expected["broker"] \in Nat
        /\ Len(toBroker) \in Nat
        /\ Numbered(toBroker, expected["broker"])
    BY Counters DEF ControlInv, WorkerFrames
  <1>2. /\ Append(toBroker, f) \in Seq(Frames)
        /\ Len(Append(toBroker, f)) = Len(toBroker) + 1
        /\ Numbered(Append(toBroker, f), expected["broker"])
    BY <1>1, NumberedAppend
  <1> QED BY <1>1, <1>2

\* hello has the number 0.
LEMMA GreetStep ==
  ASSUME ControlInv, Greet
  PROVE  ControlInv'
  <1>1. PICK f : f = Frame("hello", 0, 0)
    OBVIOUS
  <1>2. f \in Frames /\ f.seq = 0
    BY <1>1, ControlAssumption DEF Frame, Frames
  <1>3. /\ broker # "failed" /\ peer = "booting" /\ peer' = "greeted"
        /\ toBroker' = Append(toBroker, f)
        /\ UNCHANGED <<broker, toWorker, sent, expected, heartbeat, missed,
                       beats, requests>>
    BY <1>1 DEF Greet
  <1>4. /\ TypeOK /\ WorkerFrames /\ BrokerFrames /\ sent["worker"] = 1
        /\ missed < MissLimit
        /\ broker # "active" => toWorker = <<>>
        /\ broker \in {"listening", "connected"} => sent["broker"] = 1
    BY <1>3 DEF ControlInv
  <1>5. f.seq = expected["broker"] + Len(toBroker)
    BY <1>2, <1>3, <1>4 DEF WorkerFrames
  <1>6. /\ toBroker' \in Seq(Frames) /\ Numbered(toBroker', expected'["broker"])
        /\ expected'["broker"] + Len(toBroker') = 1
    BY <1>2, <1>3, <1>5, WorkerSends
  <1>7. TypeOK'
    BY <1>3, <1>4, <1>6 DEF TypeOK
  <1>8. WorkerFrames' /\ BrokerFrames'
    BY <1>3, <1>4, <1>6 DEF WorkerFrames, BrokerFrames
  <1> QED BY <1>3, <1>4, <1>7, <1>8 DEF ControlInv

\* A request takes the next number.
LEMMA WorkerRequestsStep ==
  ASSUME ControlInv, WorkerRequests
  PROVE  ControlInv'
  <1>1. PICK f : f = Frame("request", sent["worker"], 0)
    OBVIOUS
  <1>2. /\ broker # "failed" /\ peer = "accepted" /\ requests < MaxRequests
        /\ requests' = requests + 1
        /\ toBroker' = Append(toBroker, f)
        /\ sent' = [sent EXCEPT !["worker"] = sent["worker"] + 1]
        /\ UNCHANGED <<broker, peer, toWorker, expected, heartbeat, missed, beats>>
    BY <1>1 DEF WorkerRequests
  <1>3. /\ TypeOK /\ WorkerFrames /\ BrokerFrames /\ missed < MissLimit
        /\ broker # "active" => toWorker = <<>>
        /\ broker \in {"listening", "connected"} => sent["broker"] = 1
    BY <1>2 DEF ControlInv
  <1>4. f \in Frames /\ f.seq = sent["worker"]
    BY <1>1, <1>3, Counters, ControlAssumption DEF Frame, Frames
  <1>5. f.seq = expected["broker"] + Len(toBroker)
    BY <1>2, <1>3, <1>4 DEF WorkerFrames
  <1>6. /\ toBroker' \in Seq(Frames) /\ Numbered(toBroker', expected'["broker"])
        /\ expected'["broker"] + Len(toBroker') = sent["worker"] + 1
    BY <1>2, <1>4, <1>5, WorkerSends
  <1>7. /\ sent' \in [Sides -> Nat] /\ sent'["worker"] = sent["worker"] + 1
        /\ sent'["broker"] = sent["broker"]
    BY <1>2, <1>3, Counters DEF Sides
  <1>8. requests' \in 0 .. MaxRequests
    BY <1>2, <1>3, ControlAssumption DEF TypeOK
  <1>9. TypeOK'
    BY <1>2, <1>3, <1>6, <1>7, <1>8 DEF TypeOK
  <1>10. WorkerFrames' /\ BrokerFrames'
    BY <1>2, <1>3, <1>6, <1>7 DEF WorkerFrames, BrokerFrames
  <1> QED BY <1>2, <1>3, <1>7, <1>9, <1>10 DEF ControlInv

\* The pongs of a turn are frames, numbered from the worker's counter.
LEMMA PongsAreNumbered ==
  ASSUME ControlInv, NEW n \in Nat, 1 <= n, n <= Len(toWorker)
  PROVE  /\ Pongs(n) \in Seq(Frames) /\ Numbered(Pongs(n), sent["worker"])
         /\ Len(Pongs(n)) = n - (IF peer = "greeted" THEN 1 ELSE 0)
  <1>1. PICK first \in {0, 1} : first = IF peer = "greeted" THEN 1 ELSE 0
    OBVIOUS
  <1>2. PICK m \in Nat : m = n - first
    BY <1>1
  <1>3. PICK w \in Nat : w = sent["worker"]
    BY Counters DEF ControlInv
  <1>4. PICK p : p = [i \in 1 .. m |->
                        Frame("pong", w + i - 1, toWorker[i + first].nonce)]
    OBVIOUS
  <1>5. Pongs(n) = p
    BY <1>1, <1>2, <1>3, <1>4 DEF Pongs
  <1>6. ASSUME NEW i \in 1 .. m
        PROVE  p[i] \in Frames /\ p[i].seq = w + i - 1
    <2>1. i + first \in 1 .. Len(toWorker) /\ w + i - 1 \in Nat
      BY <1>1, <1>2, Counters DEF ControlInv
    <2>2. toWorker[i + first].nonce \in 0 .. MaxBeats
      BY <2>1, Counters, FrameParts DEF ControlInv
    <2>3. p[i] = [tag |-> "pong", seq |-> w + i - 1,
                  nonce |-> toWorker[i + first].nonce]
      BY <1>4 DEF Frame
    <2> QED BY <2>1, <2>2, <2>3 DEF Frames
  <1>7. p \in Seq(Frames) /\ Len(p) = m /\ DOMAIN p = 1 .. m
    <2>1. p \in [1 .. m -> Frames]
      BY <1>4, <1>6
    <2>2. p \in Seq(Frames)
      BY <2>1, SeqDef
    <2> QED BY <2>1, <2>2, LenProperties
  <1>8. Numbered(p, w)
    BY <1>6, <1>7 DEF Numbered
  <1> QED BY <1>1, <1>2, <1>3, <1>5, <1>7, <1>8

\* A closed worker sends and reads no more.
LEMMA ClosingStep ==
  ASSUME ControlInv, WorkerCloses, peer # "booting",
         UNCHANGED <<broker, heartbeat, missed, beats, requests>>,
         expected' \in [Sides -> Nat],
         expected'["broker"] = expected["broker"]
  PROVE  ControlInv'
  <1>1. peer' = "closed" /\ toWorker' = <<>> /\ UNCHANGED <<toBroker, sent>>
    BY DEF WorkerCloses
  <1>2. <<>> \in Seq(Frames)
    OBVIOUS
  <1>3. TypeOK'
    BY <1>1, <1>2 DEF ControlInv, TypeOK
  <1>4. WorkerFrames => WorkerFrames'
    BY <1>1 DEF WorkerFrames
  <1> QED BY <1>1, <1>3, <1>4 DEF ControlInv

\* A turn of the worker passes its fence and answers each ping.
LEMMA WorkerReadsStep ==
  ASSUME ControlInv, WorkerReads
  PROVE  ControlInv'
  <1>1. PICK n \in Nat :
          /\ n = IF Len(toWorker) < Burst THEN Len(toWorker) ELSE Burst
          /\ 1 <= n /\ n <= Len(toWorker)
    BY Counters, ControlAssumption DEF ControlInv, WorkerReads
  <1>2. /\ peer \in {"greeted", "accepted"}
        /\ expected' = [expected EXCEPT !["worker"] = expected["worker"] + n]
        /\ UNCHANGED <<broker, heartbeat, missed, beats, requests>>
    BY <1>1 DEF WorkerReads
  <1>3. /\ expected' \in [Sides -> Nat]
        /\ expected'["worker"] = expected["worker"] + n
        /\ expected'["broker"] = expected["broker"]
    BY <1>2, Counters DEF ControlInv, Sides
  <1>4. CASE ~WellFormedTurn(n)
    BY <1>1, <1>2, <1>3, <1>4, ClosingStep DEF WorkerReads
  <1>5. CASE WellFormedTurn(n)
    <2>1. /\ peer' = "accepted"
          /\ toWorker' = SubSeq(toWorker, n + 1, Len(toWorker))
          /\ toBroker' = toBroker \o Pongs(n)
          /\ sent' = [sent EXCEPT !["worker"] = sent["worker"] + Len(Pongs(n))]
      BY <1>1, <1>5 DEF WorkerReads
    <2>2. PICK p \in Seq(Frames) :
            p = Pongs(n) /\ Numbered(p, sent["worker"]) /\ Len(p) \in Nat
      BY <1>1, PongsAreNumbered, FrameParts
    <2>3. /\ sent' \in [Sides -> Nat]
          /\ sent'["worker"] = sent["worker"] + Len(p)
          /\ sent'["broker"] = sent["broker"]
      BY <2>1, <2>2, Counters DEF ControlInv, Sides
    <2>4. broker = "active"
      <3>1. broker # "active" => toWorker = <<>>
        BY DEF ControlInv
      <3>2. Len(<<>>) = 0
        OBVIOUS
      <3> QED BY <1>1, <3>1, <3>2
    <2>5. TypeOK /\ WorkerFrames /\ BrokerFrames /\ missed < MissLimit
      BY <1>2, <2>4 DEF ControlInv
    <2>6. /\ toWorker' \in Seq(Frames) /\ Len(toWorker') = Len(toWorker) - n
          /\ Numbered(toWorker', expected["worker"] + n)
      BY <1>1, <2>1, <2>5, Counters, NumberedDrop DEF BrokerFrames
    <2>7. /\ toBroker' \in Seq(Frames)
          /\ Len(toBroker') = Len(toBroker) + Len(p)
          /\ Numbered(toBroker', expected["broker"])
      <3>1. /\ Numbered(toBroker, expected["broker"])
            /\ Numbered(p, expected["broker"] + Len(toBroker))
        BY <1>2, <2>2, <2>5 DEF WorkerFrames
      <3>2. toBroker' = toBroker \o p
        BY <2>1, <2>2
      <3> QED BY <2>5, <3>1, <3>2, Counters, NumberedJoin
    <2>8. TypeOK'
      BY <1>2, <1>3, <2>1, <2>3, <2>5, <2>6, <2>7 DEF TypeOK
    <2>9. WorkerFrames'
      <3>1. expected["broker"] + Len(toBroker) = sent["worker"]
        BY <1>2, <2>5 DEF WorkerFrames
      <3>2. Len(toBroker) \in Nat /\ expected["broker"] \in Nat
        BY <2>5, Counters
      <3>3. expected["broker"] + Len(toBroker') = sent["worker"] + Len(p)
        BY <2>2, <2>7, <3>1, <3>2
      <3>4. expected'["broker"] + Len(toBroker') = sent'["worker"]
        BY <1>3, <2>3, <3>3
      <3> QED BY <1>3, <2>1, <2>7, <3>4 DEF WorkerFrames
    <2>10. BrokerFrames'
      <3>1. expected["worker"] + Len(toWorker) = sent["broker"]
        BY <2>4, <2>5 DEF BrokerFrames
      <3>2. Len(toWorker) \in Nat /\ expected["worker"] \in Nat
        BY <2>5, Counters
      <3>3. (expected["worker"] + n) + Len(toWorker') = sent["broker"]
        BY <1>1, <2>6, <3>1, <3>2
      <3>4. expected'["worker"] + Len(toWorker') = sent'["broker"]
        BY <1>3, <2>3, <3>3
      <3> QED BY <1>2, <1>3, <2>4, <2>6, <3>4 DEF BrokerFrames
    <2> QED BY <1>2, <2>1, <2>4, <2>5, <2>8, <2>9, <2>10 DEF ControlInv
  <1> QED BY <1>4, <1>5

-----------------------------------------------------------------------------
(* The invariant, and what follows from it.                                *)

\* The steps that move no frame.
LEMMA QuietStep ==
  ASSUME ControlInv,
         UNCHANGED <<toWorker, toBroker, sent, expected, heartbeat, missed,
                     beats, requests>>,
         \/ broker = "listening" /\ broker' = "connected" /\ peer' = peer
         \/ broker' = broker /\ peer' = "stalled" /\ peer \notin {"booting", "closed"}
         \/ broker' = broker /\ peer' = peer
  PROVE  ControlInv'
  <1>1. TypeOK'
    BY DEF ControlInv, TypeOK
  <1>2. WorkerFrames => WorkerFrames'
    <2>1. peer = "booting" <=> peer' = "booting"
      OBVIOUS
    <2> QED BY <2>1 DEF WorkerFrames
  <1>3. BrokerFrames => BrokerFrames'
    <2>1. broker = "active" <=> broker' = "active"
      OBVIOUS
    <2> QED BY <2>1 DEF BrokerFrames
  <1> QED BY <1>1, <1>2, <1>3 DEF ControlInv

\* Any step.
LEMMA ControlStep ==
  ASSUME ControlInv, [Next]_vars
  PROVE  ControlInv'
  <1>1. CASE Accept
    BY <1>1, QuietStep DEF Accept
  <1>2. CASE Stall
    BY <1>2, QuietStep DEF Stall
  <1>3. CASE UNCHANGED vars
    BY <1>3, QuietStep DEF vars
  <1>4. CASE BrokerReads
    BY <1>4, BrokerReadsStep
  <1>5. CASE Beat
    BY <1>5, BeatStep
  <1>6. CASE BrokerDeadline \/ BrokerEOF
    BY <1>6, FailureStep DEF BrokerDeadline, BrokerEOF, ControlInv, TypeOK
  <1>7. CASE Greet
    BY <1>7, GreetStep
  <1>8. CASE WorkerReads
    BY <1>8, WorkerReadsStep
  <1>9. CASE WorkerRequests
    BY <1>9, WorkerRequestsStep
  <1>10. CASE WorkerDeadline
    <2>1. expected' = expected /\ peer # "booting"
      BY <1>10 DEF WorkerDeadline
    <2> QED BY <1>10, <2>1, ClosingStep DEF WorkerDeadline, ControlInv, TypeOK
  <1> QED BY <1>1, <1>2, <1>3, <1>4, <1>5, <1>6, <1>7, <1>8, <1>9, <1>10 DEF Next

\* No frame is under way at first.
LEMMA ControlBegin == Init => ControlInv
  <1> SUFFICES ASSUME Init PROVE ControlInv
    OBVIOUS
  <1>1. /\ toWorker = <<>> /\ toBroker = <<>> /\ Len(<<>>) = 0
        /\ DOMAIN <<>> = {} /\ <<>> \in Seq(Frames)
        /\ sent["broker"] = 1 /\ sent["worker"] = 1
        /\ expected["broker"] = 0 /\ expected["worker"] = 0
    BY DEF Init, Sides
  <1>2. TypeOK
    BY <1>1, ControlAssumption DEF Init, TypeOK
  <1>3. WorkerFrames /\ BrokerFrames
    BY <1>1 DEF Init, WorkerFrames, BrokerFrames, Numbered
  <1> QED BY <1>1, <1>2, <1>3, ControlAssumption DEF Init, ControlInv

\* The inductive invariant of the control stream.
THEOREM ControlInvariance == Spec => []ControlInv
  BY ControlBegin, ControlStep, PTL DEF Spec

\* For any limits, any number of heartbeats and requests and however far either
\* side trails: every frame under way has the number its receiver will expect
\* when it comes to it (EndpointFence.accept, header(), controlMessage()).
THEOREM FencesAgree == Spec => []NumberedInOrder
  <1>1. ControlInv => NumberedInOrder
    <2> SUFFICES ASSUME ControlInv PROVE NumberedInOrder
      OBVIOUS
    <2>1. TypeOK
      BY DEF ControlInv
    <2>2. broker # "failed" => Numbered(toBroker, expected["broker"])
      BY DEF ControlInv, WorkerFrames
    <2>3. broker # "failed" /\ peer # "closed"
            => Numbered(toWorker, expected["worker"])
      BY DEF ControlInv, BrokerFrames
    <2> QED BY <2>1, <2>2, <2>3 DEF NumberedInOrder, Numbered
  <1> QED BY <1>1, ControlInvariance, PTL

=============================================================================
