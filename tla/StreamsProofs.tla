---------------------------- MODULE StreamsProofs ----------------------------
(***************************************************************************)
(* Safety proofs for streamed calls and their far readers: Streams and     *)
(* Outcomes, with the calls they run beside, for every value of the        *)
(* constants, and that every stream implements Channel.                    *)
(***************************************************************************)
EXTENDS Outcomes, CallsProofs

-----------------------------------------------------------------------------
(* The inductive invariant.                                                *)

\* The state of one stream.  The channel is done exactly when the credits are
\* shut; before that the reader waits exactly while the pump is past take().
Steady(s) ==
  /\ s \in States /\ s.queue = <<>> /\ s.credit = 0
  /\ s.reading <=> s.waiting
  /\ s.done <=> s.shut
  /\ s.shut => ~s.waiting /\ s.pump # "taking" /\ (s.ended \/ s.error)
  /\ ~s.shut => /\ s.pump \in {"taking", "granted", "pulling"}
                /\ s.waiting <=> s.pump # "taking"
  /\ s.ended <=> s.fate # "open"
  /\ s.ended \/ s.error \/ s.returning \/ s.noticed => s.shut
  /\ s.error => s.returning
  /\ s.got = [i \in 1 .. s.sent |-> i]

Sound(s) == Steady(s) /\ (s.finished => s.pump = "over")

\* How stream a and its attempt go together.
Attached(a) ==
  /\ request[a].key = NoKey
  /\ stream[a].shut => a \in done
  /\ stream[a].ended /\ handler[a] = "iterating" => stream[a].returning
  /\ a \in done /\ ~stream[a].shut => a \in aborted

StreamsPart ==
  /\ DOMAIN stream = Attempts /\ stream \in [Attempts -> States]
  /\ \A a \in Attempts : Sound(stream[a])
  /\ \A a \in Attempts \ Opened : stream[a] = Fresh
  /\ \A a \in Opened : Attached(a)

StreamsInv == CallsInv /\ StreamsPart

-----------------------------------------------------------------------------
(* BoundedChannel and CreditWindow, operation by operation.                *)

\* What a step of a stream means to its reader, in the words of Channel.
Promised(s, t) ==
  \/ t.got = s.got /\ t.sent = s.sent /\ t.fate = s.fate
     /\ (t.finished <=> s.finished)
  \/ t.got = s.got /\ t.sent = s.sent /\ t.fate = s.fate /\ t.finished
  \/ /\ s.fate = "open" /\ t.fate = "open" /\ ~s.finished /\ ~t.finished
     /\ s.sent < MaxItems /\ t.sent = s.sent + 1 /\ t.got = Append(s.got, s.sent + 1)
  \/ /\ t.got = s.got /\ t.sent = s.sent /\ s.fate = "open"
     /\ \/ t.fate = "complete" /\ t.finished
        \/ t.fate = "error" /\ (t.finished \/ ~s.finished)
        \/ t.fate = "returned" /\ (t.finished <=> s.finished)

\* What never comes back.
Lasts(s, t) ==
  /\ s.shut => t.shut
  /\ s.ended => t.ended
  /\ s.returning => t.returning

\* Steps that end a stream and leave its source running tell the source.
Tells(s, t) == t.ended => s.ended \/ t.returning

\* Steps that are not a next() of the reader: they may answer one.
Pumps(s, t) ==
  /\ t.reading => s.reading /\ t.sent = s.sent
  /\ ~s.reading => t.sent = s.sent
  /\ s.reading /\ ~t.reading =>
       t.sent = s.sent + 1 \/ (t.ended /\ t.sent = s.sent)

Goes(s, t) == Sound(t) /\ Promised(s, t) /\ Lasts(s, t)

\* CreditWindow.close() leaves a stream without credits and without a pump
\* that waits for one.
LEMMA ShutType == ASSUME NEW s \in States PROVE Shut(s) \in States
<1>1. 0 \in 0 .. Capacity
  BY StreamsAssumption
<1> QED  BY <1>1 DEF Shut, States

\* What close() of the window leaves of a stream.
LEMMA ShutFields ==
  ASSUME NEW s \in States, NEW t, t = Shut(s)
  PROVE  /\ t.credit = 0 /\ t.shut
         /\ t.pump = IF s.pump = "taking" THEN "refused" ELSE s.pump
         /\ t.queue = s.queue /\ t.done = s.done /\ t.ended = s.ended
         /\ t.error = s.error /\ t.waiting = s.waiting
         /\ t.returning = s.returning /\ t.noticed = s.noticed
         /\ t.reading = s.reading /\ t.got = s.got /\ t.fate = s.fate
         /\ t.sent = s.sent /\ t.finished = s.finished
BY DEF Shut, States

\* terminal(): the reader has its outcome, once.
LEMMA TerminalFields ==
  ASSUME NEW s \in States, NEW f \in {"complete", "error", "returned"},
         NEW t, t = Terminal(s, f)
  PROVE  /\ t \in States
         /\ t.credit = 0 /\ t.shut /\ t.ended
         /\ ~t.waiting /\ ~t.reading
         /\ t.fate = IF s.fate = "open" THEN f ELSE s.fate
         /\ t.pump = IF s.pump = "taking" THEN "refused" ELSE s.pump
         /\ t.queue = s.queue /\ t.done = s.done /\ t.error = s.error
         /\ t.returning = s.returning /\ t.noticed = s.noticed
         /\ t.got = s.got /\ t.sent = s.sent /\ t.finished = s.finished
<1> DEFINE u == [Answered(s, f) EXCEPT !.ended = TRUE]
<1>1. u \in States
  BY DEF Answered, States
<1>2. /\ u.ended /\ ~u.waiting /\ ~u.reading
      /\ u.fate = IF s.fate = "open" THEN f ELSE s.fate
      /\ u.pump = s.pump /\ u.queue = s.queue /\ u.done = s.done
      /\ u.error = s.error /\ u.returning = s.returning
      /\ u.noticed = s.noticed /\ u.got = s.got /\ u.sent = s.sent
      /\ u.finished = s.finished
  BY DEF Answered, States
<1>3. t = Shut(u)
  BY DEF Terminal
<1> HIDE DEF u
<1>4. Shut(u) \in States
  BY <1>1, ShutType
<1> QED  BY <1>1, <1>2, <1>3, <1>4, ShutFields

\* abandoned() after the channel was marked: the source is told to return.
LEMMA AbandonedFields ==
  ASSUME NEW s \in States, NEW t, t = Abandoned(s)
  PROVE  /\ t \in States /\ t.credit = 0 /\ t.shut /\ t.returning
         /\ t.pump = IF s.pump = "taking" THEN "refused" ELSE s.pump
         /\ t.queue = s.queue /\ t.done = s.done /\ t.ended = s.ended
         /\ t.error = s.error /\ t.waiting = s.waiting
         /\ t.noticed = s.noticed
         /\ t.reading = s.reading /\ t.got = s.got /\ t.fate = s.fate
         /\ t.sent = s.sent /\ t.finished = s.finished
<1>1. PICK w \in States : w = Shut(s)
  BY ShutType
<1>2. t = [w EXCEPT !.returning = TRUE]
  BY <1>1 DEF Abandoned
<1>3. t \in States
  BY <1>2 DEF States
<1>4. /\ t.credit = w.credit /\ t.shut = w.shut /\ t.returning
      /\ t.pump = w.pump
      /\ t.queue = w.queue /\ t.done = w.done /\ t.ended = w.ended
      /\ t.error = w.error /\ t.waiting = w.waiting
      /\ t.noticed = w.noticed
      /\ t.reading = w.reading /\ t.got = w.got /\ t.fate = w.fate
      /\ t.sent = w.sent /\ t.finished = w.finished
  BY <1>2 DEF States
<1> QED  BY <1>1, <1>3, <1>4, ShutFields

\* fail() of a stream that is over changes nothing; otherwise the source is
\* told to return, and a reader that waits gets the error.
LEMMA FailedFields ==
  ASSUME NEW s \in States, NEW t, t = Failed(s)
  PROVE  /\ t \in States
         /\ s.ended \/ s.error => t = s
         /\ ~s.ended /\ ~s.error =>
              /\ t.credit = 0 /\ t.shut
              /\ t.done /\ t.error /\ t.returning
              /\ t.queue = <<>> /\ ~t.waiting
              /\ t.reading <=> s.reading /\ ~s.waiting
              /\ t.ended <=> s.waiting
              /\ t.fate = IF s.waiting /\ s.fate = "open" THEN "error" ELSE s.fate
              /\ t.pump = IF s.pump = "taking" THEN "refused" ELSE s.pump
              /\ t.noticed = s.noticed /\ t.got = s.got
              /\ t.sent = s.sent /\ t.finished = s.finished
<1> DEFINE u == [s EXCEPT !.done = TRUE, !.queue = <<>>, !.error = TRUE]
           f == Abandoned(u)
<1>0. <<>> \in Seq(Nat)
  OBVIOUS
<1>1. s.ended \/ s.error => t = s
  BY DEF Failed
<1>2. u \in States
  BY <1>0 DEF States
<1>3. /\ u.done /\ u.queue = <<>> /\ u.error
      /\ u.ended = s.ended /\ u.waiting = s.waiting /\ u.pump = s.pump
      /\ u.noticed = s.noticed /\ u.reading = s.reading /\ u.got = s.got
      /\ u.fate = s.fate /\ u.sent = s.sent /\ u.finished = s.finished
  BY DEF States
<1>4. t = IF s.ended \/ s.error THEN s
          ELSE IF s.waiting THEN Terminal(f, "error") ELSE f
  BY DEF Failed
<1> HIDE DEF u
<1>5. /\ f \in States /\ f.credit = 0 /\ f.shut /\ f.returning
      /\ f.done /\ f.queue = <<>> /\ f.error
      /\ f.ended = s.ended /\ f.waiting = s.waiting
      /\ f.pump = IF s.pump = "taking" THEN "refused" ELSE s.pump
      /\ f.noticed = s.noticed /\ f.reading = s.reading /\ f.got = s.got
      /\ f.fate = s.fate /\ f.sent = s.sent /\ f.finished = s.finished
  BY <1>2, <1>3, AbandonedFields
<1> HIDE DEF f
<1>6. CASE ~s.ended /\ ~s.error /\ s.waiting
  <2>1. t = Terminal(f, "error") /\ f \in States
    BY <1>4, <1>5, <1>6
  <2>2. /\ t \in States /\ t.credit = 0 /\ t.shut /\ t.ended
        /\ ~t.waiting /\ ~t.reading
        /\ t.fate = IF f.fate = "open" THEN "error" ELSE f.fate
        /\ t.pump = IF f.pump = "taking" THEN "refused" ELSE f.pump
        /\ t.queue = f.queue /\ t.done = f.done /\ t.error = f.error
        /\ t.returning = f.returning /\ t.noticed = f.noticed
        /\ t.got = f.got /\ t.sent = f.sent /\ t.finished = f.finished
    BY <2>1, TerminalFields
  <2> QED  BY <1>5, <1>6, <2>2
<1>7. CASE ~s.ended /\ ~s.error /\ ~s.waiting
  <2>1. t = f
    BY <1>4, <1>7
  <2> QED  BY <1>5, <1>7, <2>1
<1> QED  BY <1>1, <1>6, <1>7

\* What fail() makes of a stream.
Fails(s, t) ==
  /\ Steady(t) /\ Lasts(s, t) /\ Tells(s, t) /\ t.shut
  /\ t.got = s.got /\ t.sent = s.sent /\ t.finished = s.finished
  /\ t.fate = s.fate \/ (s.fate = "open" /\ t.fate = "error")
  /\ s.pump # "taking" => t.pump = s.pump

\* fail() keeps a stream sound, and after it the stream is over.
LEMMA FailedGoes ==
  ASSUME NEW s, Steady(s), NEW t, t = Failed(s)
  PROVE  Fails(s, t)
<1>1. s \in States
  BY DEF Steady
<1>2. CASE s.shut
  <2>1. t = s
    BY <1>1, <1>2, FailedFields DEF Steady
  <2>2. ~s.reading
    BY <1>2 DEF Steady
  <2> QED  BY <1>2, <2>1, <2>2 DEF Lasts, Tells, Fails
<1>3. CASE ~s.shut
  <2>1. ~s.ended /\ ~s.error /\ s.fate = "open" /\ ~s.noticed /\ ~s.returning
    BY <1>3 DEF Steady
  <2>2. /\ t \in States /\ t.credit = 0 /\ t.shut
        /\ t.done /\ t.error /\ t.returning
        /\ t.queue = <<>> /\ ~t.waiting
        /\ t.reading <=> s.reading /\ ~s.waiting
        /\ t.ended <=> s.waiting
        /\ t.fate = IF s.waiting THEN "error" ELSE "open"
        /\ t.pump = IF s.pump = "taking" THEN "refused" ELSE s.pump
        /\ t.noticed = s.noticed /\ t.got = s.got
        /\ t.sent = s.sent /\ t.finished = s.finished
    BY <1>1, <2>1, FailedFields
  <2>3. (s.reading <=> s.waiting) /\ s.got = [i \in 1 .. s.sent |-> i]
    BY DEF Steady
  <2>4. Steady(t)
    BY <2>2, <2>3 DEF Steady
  <2> QED  BY <2>1, <2>2, <2>3, <2>4 DEF Lasts, Tells, Fails
<1> QED  BY <1>2, <1>3

\* After fail() nobody waits: a reader that did has its error.
LEMMA FailedReads ==
  ASSUME NEW s, Steady(s), NEW t, t = Failed(s)
  PROVE  ~t.reading /\ (s.reading => t.ended)
<1>1. s \in States /\ (s.reading <=> s.waiting) /\ (s.shut => ~s.waiting)
  BY DEF Steady
<1>2. s.ended \/ s.error => s.shut
  BY DEF Steady
<1> QED  BY <1>1, <1>2, FailedFields

\* What the end of the pump leaves of a stream.
Stopped(s, t) ==
  /\ Sound(t)
  /\ t.shut /\ t.ended = s.ended /\ t.returning = s.returning
  /\ t.got = s.got /\ t.sent = s.sent /\ t.fate = s.fate
  /\ t.finished = s.finished /\ t.queue = s.queue /\ t.pump = "over"

\* The pump of a stream that is over may end.
LEMMA OverFields ==
  ASSUME NEW s, Steady(s), s.shut, NEW t, t = [s EXCEPT !.pump = "over"]
  PROVE  Stopped(s, t)
<1>1. s \in States
  BY DEF Steady
<1>2. t \in States
  BY <1>1 DEF States
<1>3. /\ t.queue = s.queue /\ t.done = s.done /\ t.ended = s.ended
      /\ t.error = s.error /\ t.waiting = s.waiting /\ t.credit = s.credit
      /\ t.shut = s.shut /\ t.pump = "over"
      /\ t.returning = s.returning /\ t.noticed = s.noticed
      /\ t.reading = s.reading /\ t.got = s.got /\ t.fate = s.fate
      /\ t.sent = s.sent /\ t.finished = s.finished
  BY <1>1 DEF States
<1>4. Steady(t)
  BY <1>2, <1>3 DEF Steady
<1> QED  BY <1>3, <1>4 DEF Sound, Stopped

\* The end of the pump is nothing to the reader.
LEMMA OverReads ==
  ASSUME NEW s, Steady(s), NEW t, t = [s EXCEPT !.pump = "over"]
  PROVE  t.reading = s.reading
BY DEF Steady, States

\* fail() and then the end of the pump, or the notice that it was called.
LEMMA BreaksGoes ==
  ASSUME NEW s, Sound(s), NEW t,
         \/ t = [Failed(s) EXCEPT !.pump = "over"]
         \/ t = [Failed(s) EXCEPT !.noticed = TRUE]
  PROVE  /\ Goes(s, t) /\ Tells(s, t) /\ Pumps(s, t)
         /\ t.got = s.got /\ t.queue = <<>>
<1>1. PICK f : f = Failed(s)
  OBVIOUS
<1>2. /\ Steady(f) /\ Lasts(s, f) /\ Tells(s, f) /\ f.shut
      /\ f.got = s.got /\ f.sent = s.sent /\ f.finished = s.finished
      /\ f.fate = s.fate \/ (s.fate = "open" /\ f.fate = "error")
      /\ s.pump # "taking" => f.pump = s.pump
  <2>1. Fails(s, f)
    BY <1>1, FailedGoes DEF Sound
  <2> QED  BY <2>1 DEF Fails
<1>0. ~f.reading /\ (s.reading => f.ended)
  BY <1>1, FailedReads DEF Sound
<1>3. ASSUME t = [f EXCEPT !.pump = "over"]
      PROVE  /\ Goes(s, t) /\ Tells(s, t) /\ Pumps(s, t)
             /\ t.got = s.got /\ t.queue = <<>>
  <2>1. /\ Sound(t)
        /\ t.shut /\ t.ended = f.ended /\ t.returning = f.returning
        /\ t.got = f.got /\ t.sent = f.sent /\ t.fate = f.fate
        /\ t.finished = f.finished
    <3>1. Stopped(f, t)
      BY <1>2, <1>3, OverFields
    <3> QED  BY <3>1 DEF Stopped
  <2>2. t.reading = f.reading
    BY <1>2, <1>3, OverReads
  <2>3. Pumps(s, t)
    BY <1>0, <1>2, <2>1, <2>2 DEF Pumps
  <2> QED  BY <1>2, <2>1, <2>3 DEF Goes, Promised, Lasts, Tells, Sound, Steady
<1>4. ASSUME t = [f EXCEPT !.noticed = TRUE]
      PROVE  /\ Goes(s, t) /\ Tells(s, t) /\ Pumps(s, t)
             /\ t.got = s.got /\ t.queue = <<>>
  <2>1. f \in States
    BY <1>2 DEF Steady
  <2>2. t \in States
    BY <1>4, <2>1 DEF States
  <2>3. /\ t.queue = f.queue /\ t.done = f.done /\ t.ended = f.ended
        /\ t.error = f.error /\ t.waiting = f.waiting /\ t.credit = f.credit
        /\ t.shut = f.shut /\ t.pump = f.pump
        /\ t.returning = f.returning /\ t.noticed
        /\ t.reading = f.reading /\ t.got = f.got /\ t.fate = f.fate
        /\ t.sent = f.sent /\ t.finished = f.finished
    BY <1>4, <2>1 DEF States
  <2>4. Steady(t)
    BY <1>2, <2>2, <2>3 DEF Steady
  <2>5. t.finished => t.pump = "over"
    BY <1>2, <2>3 DEF Sound
  <2>6. Pumps(s, t)
    BY <1>0, <1>2, <2>3 DEF Pumps
  <2> QED  BY <1>2, <2>3, <2>4, <2>5, <2>6 DEF Goes, Promised, Lasts, Tells, Sound, Steady
<1> QED  BY <1>1, <1>3, <1>4

\* The pump that was granted a credit pulls the source.
LEMMA PullsGoes ==
  ASSUME NEW s, Sound(s), s.pump = "granted", NEW t,
         t = [s EXCEPT !.pump = "pulling"]
  PROVE  Goes(s, t) /\ Tells(s, t) /\ Pumps(s, t)
<1>1. s \in States
  BY DEF Sound, Steady
<1>2. t \in States
  BY <1>1 DEF States
<1>3. /\ t.queue = s.queue /\ t.done = s.done /\ t.ended = s.ended
      /\ t.error = s.error /\ t.waiting = s.waiting /\ t.credit = s.credit
      /\ t.shut = s.shut /\ t.pump = "pulling"
      /\ t.returning = s.returning /\ t.noticed = s.noticed
      /\ t.reading = s.reading /\ t.got = s.got /\ t.fate = s.fate
      /\ t.sent = s.sent /\ t.finished = s.finished
  BY <1>1 DEF States
<1>4. Steady(t) /\ ~t.finished
  BY <1>2, <1>3 DEF Steady, Sound
<1> QED  BY <1>3, <1>4 DEF Goes, Promised, Lasts, Tells, Sound, Pumps

\* return() of the channel.
LEMMA ReturnedGoes ==
  ASSUME NEW s, Sound(s), NEW t, t = Returned(s)
  PROVE  /\ Goes(s, t) /\ Tells(s, t) /\ Pumps(s, t)
         /\ t.sent = s.sent /\ t.finished = s.finished /\ ~t.reading
<1>1. s \in States /\ <<>> \in Seq(Nat)
  BY DEF Sound, Steady
<1>2. CASE s.ended
  <2>1. t = s
    BY <1>2 DEF Returned
  <2>2. ~s.reading
    BY <1>2 DEF Sound, Steady
  <2> QED  BY <2>1, <2>2 DEF Goes, Promised, Lasts, Tells, Pumps
<1>3. CASE ~s.ended
  <2>1. PICK u : u = [s EXCEPT !.queue = <<>>, !.done = TRUE]
    OBVIOUS
  <2>2. u \in States
    BY <1>1, <2>1 DEF States
  <2>3. /\ u.done /\ u.queue = <<>> /\ u.error = s.error
        /\ u.ended = s.ended /\ u.waiting = s.waiting /\ u.pump = s.pump
        /\ u.noticed = s.noticed /\ u.reading = s.reading /\ u.got = s.got
        /\ u.fate = s.fate /\ u.sent = s.sent /\ u.finished = s.finished
    BY <1>1, <2>1 DEF States
  <2>4. PICK f : f = Abandoned(u)
    OBVIOUS
  <2>5. /\ f \in States /\ f.credit = 0 /\ f.shut /\ f.returning
        /\ f.done /\ f.queue = <<>> /\ f.error = s.error
        /\ f.pump = IF s.pump = "taking" THEN "refused" ELSE s.pump
        /\ f.noticed = s.noticed /\ f.got = s.got
        /\ f.fate = s.fate /\ f.sent = s.sent /\ f.finished = s.finished
    BY <2>2, <2>3, <2>4, AbandonedFields
  <2>6. t = Terminal(f, "returned") /\ f \in States
    BY <1>3, <2>1, <2>4, <2>5 DEF Returned
  <2>7. /\ t \in States /\ t.credit = 0 /\ t.shut /\ t.ended
        /\ ~t.waiting /\ ~t.reading
        /\ t.fate = IF f.fate = "open" THEN "returned" ELSE f.fate
        /\ t.pump = IF f.pump = "taking" THEN "refused" ELSE f.pump
        /\ t.queue = f.queue /\ t.done = f.done /\ t.error = f.error
        /\ t.returning = f.returning /\ t.noticed = f.noticed
        /\ t.got = f.got /\ t.sent = f.sent /\ t.finished = f.finished
    BY <2>6, TerminalFields
  <2>8. s.fate = "open" /\ s.got = [i \in 1 .. s.sent |-> i]
    BY <1>3 DEF Sound, Steady
  <2>9. Steady(t)
    BY <2>5, <2>7, <2>8 DEF Steady
  <2>10. t.finished => t.pump = "over"
    BY <2>5, <2>7 DEF Sound
  <2>11. Pumps(s, t)
    BY <2>5, <2>7 DEF Pumps
  <2> QED  BY <2>5, <2>7, <2>8, <2>9, <2>10, <2>11 DEF Goes, Promised, Lasts, Tells, Sound
<1> QED  BY <1>2, <1>3

\* next() of the channel, and the credit it grants.
LEMMA ReadGoes ==
  ASSUME NEW s, Sound(s), ~s.reading, NEW live, NEW t, t = Granted(Read(s, live))
  PROVE  Goes(s, t) /\ Tells(s, t) /\ t.sent = s.sent /\ (t.reading \/ t.ended)
<1>1. s \in States
  BY DEF Sound, Steady
<1>2. CASE s.ended
  <2>1. PICK u : u = Answered(s, "complete")
    OBVIOUS
  <2>2. u \in States
    BY <1>1, <2>1 DEF Answered, States
  <2>3. s.fate # "open" /\ s.shut /\ ~s.waiting
    BY <1>2 DEF Sound, Steady
  <2>4. /\ u.queue = s.queue /\ u.done = s.done /\ u.ended = s.ended
        /\ u.error = s.error /\ ~u.waiting /\ u.credit = s.credit
        /\ u.shut = s.shut /\ u.pump = s.pump
        /\ u.returning = s.returning /\ u.noticed = s.noticed
        /\ ~u.reading /\ u.got = s.got /\ u.fate = s.fate
        /\ u.sent = s.sent /\ u.finished = s.finished
    BY <1>1, <2>1, <2>3 DEF Answered, States
  <2>5. Read(s, live) = u
    BY <1>2, <2>1 DEF Read
  <2>6. t = u
    BY <2>3, <2>4, <2>5 DEF Granted
  <2>7. Sound(u)
    BY <2>2, <2>3, <2>4 DEF Sound, Steady
  <2> QED  BY <1>2, <2>4, <2>6, <2>7 DEF Goes, Promised, Lasts, Tells
<1>3. CASE ~s.ended /\ s.error
  <2>1. PICK u : u = Terminal(s, "error")
    OBVIOUS
  <2>2. /\ u \in States /\ u.credit = 0 /\ u.shut /\ u.ended
        /\ ~u.waiting /\ ~u.reading
        /\ u.fate = IF s.fate = "open" THEN "error" ELSE s.fate
        /\ u.pump = IF s.pump = "taking" THEN "refused" ELSE s.pump
        /\ u.queue = s.queue /\ u.done = s.done /\ u.error = s.error
        /\ u.returning = s.returning /\ u.noticed = s.noticed
        /\ u.got = s.got /\ u.sent = s.sent /\ u.finished = s.finished
    BY <1>1, <2>1, TerminalFields
  <2>3. Read(s, live) = u
    BY <1>3, <2>1 DEF Read
  <2>4. t = u
    BY <2>2, <2>3 DEF Granted
  <2>5. Sound(u) /\ u.returning /\ s.fate = "open"
    BY <1>3, <2>2 DEF Sound, Steady
  <2> QED  BY <2>2, <2>4, <2>5 DEF Goes, Promised, Lasts, Tells
<1>4. CASE ~s.ended /\ ~s.error
  <2>1. /\ ~s.shut /\ ~s.done /\ ~s.waiting /\ s.pump = "taking" /\ s.queue = <<>>
        /\ s.credit = 0
    BY <1>4 DEF Sound, Steady
  <2>2. PICK u : u = [s EXCEPT !.waiting = TRUE, !.reading = TRUE]
    OBVIOUS
  <2>3. u.shut = s.shut /\ u.credit = 0 /\ u.pump = "taking" /\ u \in States
    BY <1>1, <2>1, <2>2 DEF States
  <2>4. Read(s, live) = u
    BY <1>4, <2>1, <2>2 DEF Read
  <2>5. t = [u EXCEPT !.pump = "granted"]
    BY <2>1, <2>3, <2>4, StreamsAssumption DEF Granted
  <2>6. t \in States
    BY <2>3, <2>5 DEF States
  <2>7. /\ t.queue = s.queue /\ t.done = s.done /\ t.ended = s.ended
        /\ t.error = s.error /\ t.waiting /\ t.credit = s.credit
        /\ t.shut = s.shut /\ t.pump = "granted"
        /\ t.returning = s.returning /\ t.noticed = s.noticed
        /\ t.reading /\ t.got = s.got /\ t.fate = s.fate
        /\ t.sent = s.sent /\ t.finished = s.finished
    BY <1>1, <2>2, <2>5 DEF States
  <2>8. Sound(t)
    BY <2>1, <2>6, <2>7 DEF Sound, Steady
  <2> QED  BY <2>7, <2>8 DEF Goes, Promised, Lasts, Tells
<1> QED  BY <1>2, <1>3, <1>4

\* What was handed out is the items in order, one more after the next.
LEMMA NextItem ==
  ASSUME NEW n \in Nat, NEW got, got = [i \in 1 .. n |-> i]
  PROVE  /\ got \in Seq(Nat) /\ Append(got, n + 1) \in Seq(Nat)
         /\ Append(got, n + 1) = [i \in 1 .. n + 1 |-> i]
         /\ Append(got, n + 1) # got
<1>1. got \in Seq(Nat) /\ Len(got) = n
  OBVIOUS
<1>2. Append(got, n + 1) \in Seq(Nat) /\ Len(Append(got, n + 1)) = n + 1
  BY <1>1
<1>3. \A i \in 1 .. n + 1 : Append(got, n + 1)[i] = i
  BY <1>1
<1>4. Append(got, n + 1) = [i \in 1 .. n + 1 |-> i]
  BY <1>2, <1>3
<1> QED  BY <1>1, <1>2, <1>4

\* push() of the next item.  The pump pulls only for a reader that waits, or
\* for nobody once the stream is over.
LEMMA PushedGoes ==
  ASSUME NEW s, Sound(s), s.pump = "pulling", s.sent < MaxItems,
         NEW valid \in BOOLEAN, NEW p, p = Pushed(s, s.sent + 1, valid), NEW t,
         t = [p EXCEPT !.sent =
                IF p.got # s.got \/ p.queue # s.queue THEN s.sent + 1 ELSE @]
  PROVE  Goes(s, t) /\ Tells(s, t) /\ Pumps(s, t)
<1>1. s \in States /\ s.sent \in Nat /\ s.got = [i \in 1 .. s.sent |-> i]
  BY DEF Sound, Steady, States
<1>2. ASSUME NEW u, Sound(u), u.got = s.got, u.queue = <<>>, p = u
      PROVE  t = u
  <2>1. t = [u EXCEPT !.sent = @]
    BY <1>2 DEF Sound, Steady
  <2> QED  BY <1>2, <2>1 DEF Sound, Steady, States
<1>3. CASE s.shut
  <2>0. s.done /\ ~s.waiting /\ ~(Len(s.queue) >= Capacity)
    <3>1. s.done /\ ~s.waiting /\ s.queue = <<>>
      BY <1>3 DEF Sound, Steady
    <3> QED  BY <3>1, StreamsAssumption
  <2>1. p = [s EXCEPT !.pump = "over"]
    BY <2>0 DEF Pushed
  <2>2. /\ Sound(p) /\ p.shut /\ p.ended = s.ended /\ p.returning = s.returning
        /\ p.got = s.got /\ p.sent = s.sent /\ p.fate = s.fate
        /\ p.finished = s.finished /\ p.queue = s.queue
    <3>1. Stopped(s, p)
      BY <1>3, <2>1, OverFields DEF Sound
    <3> QED  BY <3>1 DEF Stopped
  <2>5. p.reading = s.reading
    BY <2>1, OverReads DEF Sound
  <2>3. t = p
    BY <1>2, <2>2 DEF Sound, Steady
  <2>4. ~s.reading
    BY <1>3 DEF Sound, Steady
  <2> QED  BY <2>2, <2>3, <2>4, <2>5 DEF Goes, Promised, Lasts, Tells, Pumps
<1>4. ~s.shut => /\ s.waiting /\ ~s.done /\ ~s.ended /\ ~s.error /\ s.fate = "open"
                 /\ ~s.returning /\ ~s.noticed /\ ~s.finished
                 /\ s.credit = 0 /\ s.queue = <<>> /\ s.reading
  BY DEF Sound, Steady
<1>5. CASE ~s.shut /\ valid
  <2>1. PICK h : h = Handed(s, s.sent + 1)
    OBVIOUS
  <2>2. Append(s.got, s.sent + 1) \in Seq(Nat)
        /\ Append(s.got, s.sent + 1) = [i \in 1 .. s.sent + 1 |-> i]
        /\ Append(s.got, s.sent + 1) # s.got
    BY <1>1, NextItem
  <2>3. h \in States
    BY <1>1, <2>1, <2>2 DEF Handed, States
  <2>4. /\ h.queue = s.queue /\ h.done = s.done /\ h.ended = s.ended
        /\ h.error = s.error /\ ~h.waiting /\ h.credit = s.credit
        /\ h.shut = s.shut /\ h.pump = s.pump
        /\ h.returning = s.returning /\ h.noticed = s.noticed
        /\ ~h.reading /\ h.got = Append(s.got, s.sent + 1) /\ h.fate = s.fate
        /\ h.sent = s.sent /\ h.finished = s.finished
    BY <1>1, <2>1 DEF Handed, States
  <2>5. p = Taking(h)
    BY <1>4, <1>5, <2>1 DEF Pushed
  <2>6. p = [h EXCEPT !.pump = "taking"]
    <3>1. ~h.shut /\ ~(h.credit > 0)
      BY <1>4, <1>5, <2>4
    <3> QED  BY <2>5, <3>1 DEF Taking
  <2>7. p \in States
    BY <2>3, <2>6 DEF States
  <2>71. /\ p.queue = s.queue /\ p.done = s.done /\ p.ended = s.ended
         /\ p.error = s.error /\ ~p.waiting /\ p.credit = s.credit
         /\ p.shut = s.shut /\ p.pump = "taking"
         /\ p.returning = s.returning /\ p.noticed = s.noticed
         /\ ~p.reading /\ p.got = Append(s.got, s.sent + 1) /\ p.fate = s.fate
         /\ p.sent = s.sent /\ p.finished = s.finished
    BY <2>3, <2>4, <2>6 DEF States
  <2>8. t = [p EXCEPT !.sent = s.sent + 1]
    BY <2>2, <2>71
  <2>81. s.sent + 1 \in Nat
    BY <1>1
  <2>9. t \in States
    BY <2>7, <2>8, <2>81 DEF States
  <2>10. /\ t.queue = s.queue /\ t.done = s.done /\ t.ended = s.ended
         /\ t.error = s.error /\ ~t.waiting /\ t.credit = s.credit
         /\ t.shut = s.shut /\ t.pump = "taking"
         /\ t.returning = s.returning /\ t.noticed = s.noticed
         /\ ~t.reading /\ t.got = Append(s.got, s.sent + 1) /\ t.fate = s.fate
         /\ t.sent = s.sent + 1 /\ t.finished = s.finished
    BY <2>7, <2>71, <2>8 DEF States
  <2>11. t.got = [i \in 1 .. t.sent |-> i]
    BY <2>2, <2>10
  <2>12. Sound(t)
    BY <1>4, <1>5, <2>9, <2>10, <2>11 DEF Sound, Steady
  <2>13. Pumps(s, t)
    BY <1>4, <1>5, <2>10 DEF Pumps
  <2> QED  BY <1>4, <1>5, <2>10, <2>12, <2>13 DEF Goes, Promised, Lasts, Tells
<1>6. CASE ~s.shut /\ ~valid
  <2>1. PICK w : w = [s EXCEPT !.waiting = FALSE]
    OBVIOUS
  <2>2. w \in States
    BY <1>1, <2>1 DEF States
  <2>3. /\ w.ended = s.ended /\ w.error = s.error /\ ~w.waiting
        /\ w.pump = s.pump /\ w.got = s.got /\ w.fate = s.fate
        /\ w.noticed = s.noticed /\ w.sent = s.sent /\ w.finished = s.finished
    BY <1>1, <2>1 DEF States
  <2>4. PICK f : f = Failed(w)
    OBVIOUS
  <2>5. /\ f \in States /\ f.credit = 0 /\ f.shut
        /\ f.done /\ f.error /\ f.returning
        /\ f.queue = <<>> /\ f.fate = "open" /\ f.pump = "pulling"
        /\ f.noticed = s.noticed /\ f.got = s.got
        /\ f.sent = s.sent /\ f.finished = s.finished
    BY <1>4, <1>6, <2>2, <2>3, <2>4, FailedFields
  <2>6. PICK e : e = Terminal(f, "error") /\ f \in States
    BY <2>5
  <2>7. /\ e \in States /\ e.credit = 0 /\ e.shut /\ e.ended
        /\ ~e.waiting /\ ~e.reading
        /\ e.fate = IF f.fate = "open" THEN "error" ELSE f.fate
        /\ e.pump = IF f.pump = "taking" THEN "refused" ELSE f.pump
        /\ e.queue = f.queue /\ e.done = f.done /\ e.error = f.error
        /\ e.returning = f.returning /\ e.noticed = f.noticed
        /\ e.got = f.got /\ e.sent = f.sent /\ e.finished = f.finished
    BY <2>6, TerminalFields
  <2>8. Steady(e)
    BY <1>1, <1>4, <1>6, <2>5, <2>7 DEF Steady
  <2>9. p = [e EXCEPT !.pump = "over"]
    BY <1>4, <1>6, <2>1, <2>4, <2>6 DEF Pushed
  <2>10. /\ Sound(p) /\ p.shut /\ p.ended = e.ended /\ p.returning = e.returning
         /\ p.got = e.got /\ p.sent = e.sent /\ p.fate = e.fate
         /\ p.finished = e.finished /\ p.queue = e.queue
    <3>1. Stopped(e, p)
      BY <2>7, <2>8, <2>9, OverFields
    <3> QED  BY <3>1 DEF Stopped
  <2>11. t = p
    BY <1>2, <2>5, <2>7, <2>10
  <2>12. /\ s.fate = "open" /\ t.fate = "error" /\ t.got = s.got /\ t.sent = s.sent
         /\ ~s.finished /\ t.shut /\ t.ended /\ t.returning /\ ~t.reading
    <3>1. s.fate = "open" /\ t.fate = "error"
      BY <1>4, <1>6, <2>5, <2>7, <2>10, <2>11
    <3>2. t.got = s.got /\ t.sent = s.sent
      <4>1. p.got = s.got /\ p.sent = s.sent
        <5>1. f.got = s.got /\ f.sent = s.sent
          BY <2>5
        <5>2. e.got = f.got /\ e.sent = f.sent
          BY <2>7
        <5>3. p.got = e.got /\ p.sent = e.sent
          BY <2>10
        <5> QED  BY <5>1, <5>2, <5>3, Zenon
      <4> QED  BY <2>11, <4>1
    <3>3. ~s.finished
      BY <1>4, <1>6
    <3>4. t.shut
      BY <2>10, <2>11
    <3>5. t.ended
      BY <2>7, <2>10, <2>11
    <3>6. t.returning
      BY <2>5, <2>7, <2>10, <2>11
    <3>7. ~t.reading
      <4>1. p.reading = e.reading
        BY <2>8, <2>9, OverReads
      <4> QED  BY <2>7, <2>11, <4>1
    <3> QED  BY <3>1, <3>2, <3>3, <3>4, <3>5, <3>6, <3>7
  <2>13. Pumps(s, t)
    BY <1>4, <1>6, <2>12 DEF Pumps
  <2> QED  BY <2>10, <2>11, <2>12, <2>13 DEF Goes, Promised, Lasts, Tells
<1> QED  BY <1>3, <1>4, <1>5, <1>6

\* The end of the source: the reader that waits is told, unless the attempt
\* is no longer alive.
LEMMA EndsGoes ==
  ASSUME NEW r, Sound(r), r.pump = "pulling", NEW well \in BOOLEAN, NEW s,
         s = [r EXCEPT !.finished = well], NEW live, NEW t,
         t = [IF well /\ live THEN Finished(s) ELSE Failed(s)
                EXCEPT !.pump = "over"]
  PROVE  Goes(r, t) /\ Pumps(r, t)
<1>1. r \in States /\ ~r.finished
  BY DEF Sound, Steady
<1>2. s \in States
  BY <1>1 DEF States
<1>3. /\ s.queue = r.queue /\ s.done = r.done /\ s.ended = r.ended
      /\ s.error = r.error /\ s.waiting = r.waiting /\ s.credit = r.credit
      /\ s.shut = r.shut /\ s.pump = "pulling"
      /\ s.returning = r.returning /\ s.noticed = r.noticed
      /\ s.reading = r.reading /\ s.got = r.got /\ s.fate = r.fate
      /\ s.sent = r.sent /\ s.finished = well
  BY <1>1 DEF States
<1>4. Steady(s)
  BY <1>2, <1>3 DEF Sound, Steady
<1>5. CASE ~(well /\ live) \/ s.shut
  <2>1. PICK f : f = Failed(s)
    OBVIOUS
  <2>2. /\ Steady(f) /\ Lasts(s, f) /\ f.shut
        /\ f.got = s.got /\ f.sent = s.sent /\ f.finished = s.finished
        /\ f.fate = s.fate \/ (s.fate = "open" /\ f.fate = "error")
    <3>1. Fails(s, f)
      BY <1>4, <2>1, FailedGoes
    <3> QED  BY <3>1 DEF Fails
  <2>3. s.shut => f = s /\ Finished(s) = s
    <3>1. s.shut => Finished(s) = s
      BY <1>4 DEF Steady, Finished
    <3>2. s.shut => s.ended \/ s.error
      BY <1>4 DEF Steady
    <3> QED  BY <1>2, <2>1, <3>1, <3>2, FailedFields
  <2>4. t = [f EXCEPT !.pump = "over"]
    BY <1>5, <2>1, <2>3
  <2>5. /\ Sound(t)
        /\ t.shut /\ t.ended = f.ended /\ t.returning = f.returning
        /\ t.got = f.got /\ t.sent = f.sent /\ t.fate = f.fate
        /\ t.finished = f.finished
    <3>1. Stopped(f, t)
      BY <2>2, <2>4, OverFields
    <3> QED  BY <3>1 DEF Stopped
  <2>6. Pumps(r, t)
    <3>1. ~f.reading /\ (s.reading => f.ended)
      BY <1>4, <2>1, FailedReads
    <3>2. t.reading = f.reading
      <4>1. Steady(f)
        BY <2>2
      <4> QED  BY <2>4, <4>1, OverReads
    <3> QED  BY <1>3, <2>2, <2>5, <3>1, <3>2 DEF Pumps
  <2> QED  BY <1>1, <1>3, <2>2, <2>5, <2>6 DEF Goes, Promised, Lasts
<1>6. CASE well /\ live /\ ~s.shut
  <2>1. s.waiting /\ ~s.done /\ ~s.ended /\ s.fate = "open" /\ s.queue = <<>>
        /\ ~s.returning
    BY <1>3, <1>4, <1>6 DEF Steady
  <2>2. PICK u : u = [s EXCEPT !.done = TRUE]
    OBVIOUS
  <2>3. u \in States
    BY <1>2, <2>2 DEF States
  <2>4. /\ u.queue = s.queue /\ u.done /\ u.ended = s.ended
        /\ u.error = s.error /\ u.pump = "pulling"
        /\ u.returning = s.returning /\ u.noticed = s.noticed
        /\ u.got = s.got /\ u.fate = s.fate
        /\ u.sent = s.sent /\ u.finished = s.finished
    BY <1>2, <1>3, <2>2 DEF States
  <2>5. PICK e : e = Terminal(u, "complete") /\ u \in States
    BY <2>3
  <2>6. /\ e \in States /\ e.credit = 0 /\ e.shut /\ e.ended
        /\ ~e.waiting /\ ~e.reading
        /\ e.fate = IF u.fate = "open" THEN "complete" ELSE u.fate
        /\ e.pump = IF u.pump = "taking" THEN "refused" ELSE u.pump
        /\ e.queue = u.queue /\ e.done = u.done /\ e.error = u.error
        /\ e.returning = u.returning /\ e.noticed = u.noticed
        /\ e.got = u.got /\ e.sent = u.sent /\ e.finished = u.finished
    BY <2>5, TerminalFields
  <2>7. Finished(s) = e
    BY <2>1, <2>2, <2>5 DEF Finished
  <2>8. t = [e EXCEPT !.pump = "over"]
    BY <1>6, <2>7
  <2>9. Steady(e)
    BY <1>4, <1>6, <2>1, <2>4, <2>6 DEF Steady
  <2>10. /\ Sound(t) /\ t.shut /\ t.ended = e.ended /\ t.returning = e.returning
         /\ t.got = e.got /\ t.sent = e.sent /\ t.fate = e.fate
         /\ t.finished = e.finished
    <3>1. Stopped(e, t)
      BY <2>6, <2>8, <2>9, OverFields
    <3> QED  BY <3>1 DEF Stopped
  <2>11. /\ r.fate = "open" /\ t.fate = "complete" /\ t.got = r.got /\ t.sent = r.sent
         /\ t.finished /\ t.shut /\ t.ended /\ ~r.returning
    <3>1. t.got = r.got /\ t.sent = r.sent
      <4>1. u.got = r.got /\ u.sent = r.sent
        <5>1. s.got = r.got /\ s.sent = r.sent
          BY <1>3
        <5>2. u.got = s.got /\ u.sent = s.sent
          BY <2>4
        <5> QED  BY <5>1, <5>2, Zenon
      <4>2. e.got = u.got /\ e.sent = u.sent
        BY <2>6
      <4>3. t.got = e.got /\ t.sent = e.sent
        BY <2>10
      <4> QED  BY <4>1, <4>2, <4>3, Zenon
    <3>2. r.fate = "open" /\ t.fate = "complete"
      BY <1>3, <2>1, <2>4, <2>6, <2>10
    <3>3. t.shut /\ t.ended /\ ~r.returning
      BY <1>3, <2>1, <2>6, <2>10
    <3>4. t.finished
      BY <1>3, <1>6, <2>4, <2>6, <2>10
    <3> QED  BY <3>1, <3>2, <3>3, <3>4
  <2>12. Pumps(r, t)
    <3>1. t.reading = e.reading
      BY <2>8, <2>9, OverReads
    <3> QED  BY <2>6, <2>10, <2>11, <3>1 DEF Pumps
  <2> QED  BY <2>10, <2>11, <2>12 DEF Goes, Promised, Lasts
<1> QED  BY <1>5, <1>6

-----------------------------------------------------------------------------
(* Streams and their attempts.                                             *)

\* A stream that does not move stays attached: what ends its attempt from
\* outside is a cancellation.
LEMMA AttachedStays ==
  ASSUME NEW b, Attached(b), stream'[b] = stream[b], request'[b] = request[b],
         handler'[b] \in {handler[b], "ended"},
         done \subseteq done', aborted \subseteq aborted',
         b \in done' => b \in done \/ b \in aborted'
  PROVE  Attached(b)'
BY DEF Attached

\* What cancel() of any attempts does to streams.
LEMMA CancelMoves ==
  ASSUME CallsInv, NEW S, Cancel(S)
  PROVE  /\ Opened' = Opened /\ Made' = Made /\ request' = request
         /\ clock' = clock /\ ended' = ended
         /\ done \subseteq done' /\ aborted \subseteq aborted'
         /\ \A b : b \in done' => b \in done \/ b \in aborted'
         /\ \A b \in S : b \in Made => b \in done'
<1> DEFINE H == Reached(S)
<1>1. TypeOK /\ Attempted
  BY TypeParts DEF CallsInv, SessionPart, ProviderPart
<1>2. H = Spread(S, H)
  BY <1>1, ReachedFacts
<1>3. \A b \in S : b \in Made /\ b \notin done => b \in H
  BY <1>1, <1>2, MadeFacts DEF Spread
<1>4. /\ request' = request /\ done' = done \union H /\ clock' = clock
      /\ ended' = ended /\ aborted' = aborted \union H
      /\ pc' = [b \in Attempts |->
           IF b \in H /\ pc[b] = "racing" THEN "settled" ELSE pc[b]]
  BY DEF Cancel
<1> HIDE DEF H
<1>5. Made' = Made /\ Made \subseteq Attempts
  BY <1>1, <1>4, MadeFacts DEF Made
<1>6. \A b \in Made : pc'[b] = "streaming" <=> pc[b] = "streaming"
  BY <1>4, <1>5
<1>7. Opened' = Opened
  BY <1>5, <1>6 DEF Opened
<1> QED  BY <1>3, <1>4, <1>5, <1>7

\* A step of one stream, with what it does to its attempt.
LEMMA EffectKeeps ==
  ASSUME StreamsInv, NEW a \in Opened, NEW t, Goes(stream[a], t), Effect(a, t),
         \/ handler' = handler /\ Tells(stream[a], t)
         \/ handler' = [handler EXCEPT ![a] = "ended"]
  PROVE  StreamsInv' /\ OneEffect
<1> DEFINE s == stream[a]
<1>1. /\ CallsInv /\ TypeOK /\ ProviderTypes /\ Attached(a) /\ Sound(s)
      /\ stream \in [Attempts -> States] /\ Tables
      /\ \A b \in Attempts \ Opened : stream[b] = Fresh
      /\ \A b \in Opened : Attached(b)
      /\ \A b \in Attempts : Sound(stream[b])
  <2>1. CallsInv /\ TypeOK /\ ProviderTypes /\ Tables
    BY TypeParts DEF StreamsInv, CallsInv, SessionPart, ProviderPart
  <2>2. Opened \subseteq Attempts
    BY <2>1, MadeFacts DEF Opened
  <2> QED  BY <2>1, <2>2 DEF StreamsInv, StreamsPart
<1>2. a \in Made /\ pc[a] = "streaming" /\ a \in Attempts
  BY <1>1, MadeFacts DEF Opened
<1>3. /\ stream' = [stream EXCEPT ![a] = t] /\ ledger' = ledger
      /\ closed' = closed /\ withdrawn' = withdrawn /\ denied' = denied
  BY DEF Effect, outside
<1>4. Sound(t) /\ Lasts(s, t)
  BY DEF Goes
<1>5. /\ SessionPart'
      /\ Opened' = Opened /\ Made' = Made /\ request' = request
      /\ clock' = clock /\ ended' = ended
      /\ done \subseteq done' /\ aborted \subseteq aborted'
      /\ \A b : b \in done' => b \in done \/ b \in aborted' \/ (b = a /\ t.shut)
      /\ t.shut => a \in done'
  <2>0. s.shut => a \in done
    BY <1>1 DEF Attached
  <2>1. CASE t.returning /\ ~s.returning
    <3>1. Cancel({a})
      BY <2>1 DEF Effect
    <3>2. SessionPart'
      BY <1>1, <3>1, SessionCancel
    <3> QED  BY <1>1, <1>2, <3>1, <3>2, CancelMoves
  <2>2. CASE ~(t.returning /\ ~s.returning) /\ t.ended /\ ~s.ended
    <3>1. Commit(a)
      BY <2>2 DEF Effect
    <3>2. /\ request' = request /\ clock' = clock /\ ended' = ended
          /\ aborted' = aborted /\ done' = done \union {a} /\ TableWithout({a})
          /\ pc' = pc /\ outcome' = outcome
      BY <3>1 DEF Commit
    <3>3. SessionPart' /\ Made' = Made
      BY <1>1, <1>2, <3>2, SessionLeaves
    <3>4. Opened' = Opened
      BY <3>2, <3>3 DEF Opened
    <3>5. t.shut
      BY <1>4, <2>2 DEF Sound, Steady
    <3> QED  BY <3>2, <3>3, <3>4, <3>5
  <2>3. CASE ~(t.returning /\ ~s.returning) /\ ~(t.ended /\ ~s.ended)
    <3>1. /\ UNCHANGED <<request, pc, done, aborted, outcome, table>>
          /\ UNCHANGED <<clock, ended>>
      BY <2>3 DEF Effect
    <3>2. SessionPart'
      BY <1>1, <3>1, SessionStays DEF CallsInv
    <3>3. Made' = Made /\ Opened' = Opened
      BY <3>1 DEF Made, Opened
    <3>4. t.shut => s.shut
      BY <1>1, <1>4, <2>3 DEF Sound, Steady
    <3> QED  BY <2>0, <3>1, <3>2, <3>3, <3>4
  <2> QED  BY <2>1, <2>2, <2>3
<1>6. /\ \A b \in Attempts \ {a} : handler'[b] = handler[b]
      /\ handler'[a] \in {handler[a], "ended"}
      /\ handler' \in [Attempts -> {"none", "running", "iterating", "ended"}]
  BY <1>1, <1>2 DEF ProviderTypes
<1>7. ProviderPart'
  <2>1. ProviderTypes'
    BY <1>1, <1>3, <1>5, <1>6 DEF ProviderTypes, Recorded
  <2>2. clock \in Nat /\ clock' >= clock
    BY <1>1, <1>5 DEF ProviderTypes, Times
  <2>3. request[a].key = NoKey
    BY <1>1 DEF Attached
  <2>4. Made \subseteq Attempts
    BY <1>1, MadeFacts
  <2>5. \A b \in Made : request[b].key # NoKey => handler'[b] = handler[b]
    BY <1>6, <2>3, <2>4
  <2>6. \A b \in Attempts \ Made' : handler'[b] = handler[b]
    BY <1>2, <1>5, <1>6
  <2> QED  BY <1>1, <1>3, <1>5, <2>1, <2>2, <2>5, <2>6, ProviderStays
<1>8. stream'[a] = t /\ \A b \in Attempts \ {a} : stream'[b] = stream[b]
  BY <1>1, <1>2, <1>3
<1>9. stream' \in [Attempts -> States] /\ DOMAIN stream' = Attempts
      /\ \A b \in Attempts : Sound(stream'[b])
  <2>1. t \in States
    BY <1>4 DEF Sound, Steady
  <2> QED  BY <1>1, <1>3, <1>4, <1>8, <2>1
<1>10. \A b \in Attempts \ Opened' : stream'[b] = Fresh
  BY <1>1, <1>5, <1>8
<1>11. ASSUME NEW b \in Opened'
       PROVE  Attached(b)'
  <2>1. b \in Opened /\ b \in Attempts
    BY <1>1, <1>5, MadeFacts DEF Opened
  <2>2. CASE b # a
    <3>1. stream'[b] = stream[b] /\ handler'[b] = handler[b]
      BY <1>6, <1>8, <2>1, <2>2
    <3> QED  BY <1>1, <1>5, <2>1, <2>2, <3>1, AttachedStays
  <2>3. CASE b = a
    <3>1. t.shut => a \in done'
      BY <1>5
    <3>2. a \in done' /\ ~t.shut => a \in aborted'
      <4>1. ~t.shut => ~s.shut
        BY <1>4 DEF Lasts
      <4>2. a \in done /\ ~s.shut => a \in aborted
        BY <1>1 DEF Attached
      <4> QED  BY <1>5, <4>1, <4>2
    <3>3. t.ended /\ handler'[a] = "iterating" => t.returning
      <4>1. CASE handler' = handler /\ Tells(s, t)
        BY <1>1, <1>4, <4>1 DEF Attached, Tells, Lasts
      <4>2. CASE handler' = [handler EXCEPT ![a] = "ended"]
        BY <1>1, <1>2, <4>2 DEF ProviderTypes
      <4> QED  BY <4>1, <4>2
    <3>4. request'[a].key = NoKey
      BY <1>1, <1>5 DEF Attached
    <3> QED  BY <1>8, <2>3, <3>1, <3>2, <3>3, <3>4 DEF Attached
  <2> QED  BY <2>2, <2>3
<1>12. OneEffect
  BY <1>2, <1>6 DEF OneEffect
<1>13. CallsInv' /\ StreamsPart'
  BY <1>5, <1>7, <1>9, <1>10, <1>11 DEF CallsInv, StreamsPart
<1> QED  BY <1>12, <1>13 DEF StreamsInv

\* What a step of unary calls does to streams: it may cancel their attempts.
LEMMA NextMoves ==
  ASSUME CallsInv, Next
  PROVE  /\ Opened' = Opened /\ done \subseteq done' /\ aborted \subseteq aborted'
         /\ \A b \in Opened : /\ request'[b] = request[b]
                              /\ handler'[b] \in {handler[b], "ended"}
                              /\ b \in done' => b \in done \/ b \in aborted'
<1> DEFINE Moved ==
      /\ Opened' = Opened /\ done \subseteq done' /\ aborted \subseteq aborted'
      /\ \A b \in Opened : /\ request'[b] = request[b]
                           /\ handler'[b] \in {handler[b], "ended"}
                           /\ b \in done' => b \in done \/ b \in aborted'
<1>1. TypeOK /\ Attempted /\ OwnRecords /\ Made \subseteq Attempts
  BY TypeParts, MadeFacts DEF CallsInv, SessionPart, ProviderPart
<1>2. ASSUME NEW S, Cancel(S), handler' = handler
      PROVE  Moved
  BY <1>2, CancelMoves
<1>3. ASSUME NEW q \in Requests, Invoke(q)
      PROVE  Moved
  <2>1. PICK a \in Attempts : a = Len(request) + 1
    BY <1>3 DEF Invoke
  <2>2. /\ Made' = Made \union {a} /\ a \notin Made
        /\ \A b \in Made : request'[b] = request[b]
    BY <1>1, <1>3, <2>1, NewAttempt DEF Invoke
  <2>3. /\ \A b \in Attempts \ {a} : pc'[b] = pc[b] /\ handler'[b] = handler[b]
        /\ pc'[a] # "streaming"
    BY <1>1, <1>3, <2>1 DEF Invoke, Dispatch, TypeOK
  <2>4. done' = done /\ aborted' = aborted
    BY <1>3 DEF Invoke
  <2>5. Opened' = Opened
    BY <1>1, <2>2, <2>3 DEF Opened
  <2> QED  BY <1>1, <2>2, <2>3, <2>4, <2>5 DEF Opened
<1>4. ASSUME NEW a \in Attempts, NEW v, HandlerEnds(a, v)
      PROVE  Moved
  <2>1. /\ \A b \in Attempts : pc'[b] = "streaming" <=> pc[b] = "streaming"
        /\ \A b \in Attempts : handler'[b] \in {handler[b], "ended"}
        /\ request' = request /\ done' = done /\ aborted' = aborted
    BY <1>1, <1>4 DEF HandlerEnds, TypeOK
  <2> QED  BY <1>1, <2>1 DEF Opened, Made
<1>5. ASSUME NEW a \in Attempts, Deliver(a)
      PROVE  Moved
  <2>1. /\ \A b \in Attempts : pc'[b] = "streaming" <=> pc[b] = "streaming"
        /\ pc[a] # "streaming"
        /\ handler' = handler /\ request' = request /\ done' = done \union {a}
        /\ aborted' = aborted
    BY <1>1, <1>5 DEF Deliver, TypeOK
  <2> QED  BY <1>1, <2>1 DEF Opened, Made
<1>6. ASSUME UNCHANGED <<request, pc, done, aborted, handler>>
      PROVE  Moved
  BY <1>6 DEF Opened, Made
<1>7. ASSUME NEW s \in Sessions, NEW n \in Ids, NEW i \in Inputs,
             NEW d \in Deadlines, NEW p \in Made \union {0},
             Invoke([session |-> s, id |-> n, key |-> i[1], body |-> i[2],
                     deadline |-> Deadline(d, p), parent |-> p])
      PROVE  Moved
  BY <1>1, <1>3, <1>7, AskedFacts
<1>8. ASSUME NEW a \in Attempts, CallerCancels(a) \/ DeadlineTimer(a)
      PROVE  Moved
  BY <1>2, <1>8 DEF CallerCancels, DeadlineTimer
<1>9. ASSUME NEW s \in Sessions, CloseSession(s) \/ Deny(s)
      PROVE  Moved
  BY <1>2, <1>6, <1>9 DEF CloseSession, Deny
<1>10. ASSUME Withdraw \/ Tick
       PROVE  Moved
  BY <1>2, <1>6, <1>10 DEF Withdraw, Tick
<1> QED  BY <1>4, <1>5, <1>7, <1>8, <1>9, <1>10 DEF Next

\* At most one stream moves in a step, and as Goes says.
MovesOne ==
  \/ stream' = stream
  \/ \E a \in Attempts : \E t :
       /\ Sound(stream[a]) /\ Goes(stream[a], t)
       /\ stream' = [stream EXCEPT ![a] = t]

\* The same for a step that is not a next() of a reader.
PumpMoves ==
  \/ stream' = stream
  \/ \E a \in Attempts : \E t :
       /\ Goes(stream[a], t) /\ Pumps(stream[a], t)
       /\ stream' = [stream EXCEPT ![a] = t]

\* What every step keeps and does.
Keeps == StreamsInv' /\ OneEffect /\ MovesOne

\* A step of a stream with the callbacks it causes (abandoned, terminal).
LEMMA EffectStep ==
  ASSUME StreamsInv, NEW a \in Opened, NEW t, Goes(stream[a], t), Effect(a, t),
         \/ handler' = handler /\ Tells(stream[a], t)
         \/ handler' = [handler EXCEPT ![a] = "ended"]
  PROVE  Keeps /\ (Pumps(stream[a], t) => PumpMoves)
<1>1. StreamsInv' /\ OneEffect
  BY EffectKeeps
<1>2. a \in Attempts
  BY TypeParts, MadeFacts DEF StreamsInv, CallsInv, SessionPart, ProviderPart, Opened
<1>3. Sound(stream[a])
  BY <1>2 DEF StreamsInv, StreamsPart
<1>4. MovesOne /\ (Pumps(stream[a], t) => PumpMoves)
  BY <1>2, <1>3 DEF MovesOne, PumpMoves, Effect
<1> QED  BY <1>1, <1>4 DEF Keeps

\* A step of unary calls.
LEMMA UnaryStep ==
  ASSUME StreamsInv, Next, stream' = stream
  PROVE  Keeps
<1>1. CallsInv
  BY DEF StreamsInv
<1>2. CallsInv' /\ OneEffect
  BY <1>1, NextKeeps, NextEffects
<1>3. /\ Opened' = Opened /\ done \subseteq done' /\ aborted \subseteq aborted'
      /\ \A b \in Opened : /\ request'[b] = request[b]
                           /\ handler'[b] \in {handler[b], "ended"}
                           /\ b \in done' => b \in done \/ b \in aborted'
  BY <1>1, NextMoves
<1>4. \A b \in Opened : Attached(b)'
  BY <1>3, AttachedStays DEF StreamsInv, StreamsPart
<1>5. StreamsPart'
  BY <1>3, <1>4 DEF StreamsInv, StreamsPart
<1> QED  BY <1>2, <1>5 DEF Keeps, StreamsInv, MovesOne

\* A stream that is not opened is sound, and so is one whose opening fails.
LEMMA FreshFacts ==
  /\ Sound(Fresh) /\ ~Fresh.shut /\ ~Fresh.ended /\ ~Fresh.returning
  /\ Goes(Fresh, [Failed(Fresh) EXCEPT !.pump = "over"])
  /\ ~[Failed(Fresh) EXCEPT !.pump = "over"].ended
<1>1. Fresh \in States
  <2>1. <<>> \in Seq(Nat) /\ 0 \in 0 .. Capacity
    BY StreamsAssumption
  <2> QED  BY <2>1 DEF Fresh, States
<1>2. /\ Fresh.queue = <<>> /\ ~Fresh.done /\ ~Fresh.ended /\ ~Fresh.error
      /\ ~Fresh.waiting /\ Fresh.credit = 0 /\ ~Fresh.shut
      /\ Fresh.pump = "taking" /\ ~Fresh.returning /\ ~Fresh.noticed
      /\ ~Fresh.reading /\ Fresh.got = <<>> /\ Fresh.fate = "open"
      /\ Fresh.sent = 0 /\ ~Fresh.finished
  BY DEF Fresh
<1>3. <<>> = [i \in 1 .. 0 |-> i]
  OBVIOUS
<1>4. Fresh.got = [i \in 1 .. Fresh.sent |-> i]
  BY <1>2, <1>3
<1>5. Sound(Fresh)
  BY <1>1, <1>2, <1>4 DEF Sound, Steady
<1>6. PICK t : t = [Failed(Fresh) EXCEPT !.pump = "over"]
  OBVIOUS
<1>7. Goes(Fresh, t)
  BY <1>5, <1>6, BreaksGoes
<1>8. PICK f : f = Failed(Fresh)
  OBVIOUS
<1>9. ~f.ended
  BY <1>1, <1>2, <1>8, FailedFields
<1>10. Steady(f) /\ f.shut
  <2>1. Fails(Fresh, f)
    BY <1>5, <1>8, FailedGoes DEF Sound
  <2> QED  BY <2>1 DEF Fails
<1>11. ~t.ended
  <2>1. Stopped(f, t)
    BY <1>6, <1>8, <1>10, OverFields
  <2> QED  BY <1>9, <2>1 DEF Stopped
<1> QED  BY <1>2, <1>5, <1>6, <1>7, <1>11

\* The steps that add a stream t to the streams.
LEMMA JoinsStreams ==
  ASSUME StreamsInv, NEW a \in Attempts, a \notin Made, CallsInv', NEW t, Sound(t),
         NEW q, Made' = Made \union {a}, request'[a] = q, q.key = NoKey,
         \A b \in Made : request'[b] = request[b],
         pc' = [pc EXCEPT ![a] = "streaming"],
         \A b \in Attempts \ {a} : handler'[b] = handler[b],
         stream' = [stream EXCEPT ![a] = t], done \subseteq done', aborted \subseteq aborted',
         \A b \in Made : b \in done' => b \in done,
         t.shut => a \in done', ~t.ended, a \in done' => a \in aborted'
  PROVE  StreamsInv'
<1>1. /\ TypeOK /\ Made \subseteq Attempts /\ stream \in [Attempts -> States]
      /\ \A b \in Attempts : Sound(stream[b])
      /\ \A b \in Attempts \ Opened : stream[b] = Fresh
      /\ \A b \in Opened : Attached(b)
  BY TypeParts, MadeFacts
     DEF StreamsInv, StreamsPart, CallsInv, SessionPart, ProviderPart
<1>2. pc'[a] = "streaming" /\ \A b \in Attempts \ {a} : pc'[b] = pc[b]
  BY <1>1 DEF TypeOK
<1>3. Opened' = Opened \union {a}
  BY <1>1, <1>2 DEF Opened
<1>4. stream'[a] = t /\ \A b \in Attempts \ {a} : stream'[b] = stream[b]
  BY <1>1
<1>5. t \in States
  BY DEF Sound, Steady
<1>6. stream' \in [Attempts -> States] /\ DOMAIN stream' = Attempts
      /\ \A b \in Attempts : Sound(stream'[b])
  BY <1>1, <1>4, <1>5
<1>7. \A b \in Attempts \ Opened' : stream'[b] = Fresh
  BY <1>1, <1>3, <1>4
<1>8. ASSUME NEW b \in Opened'
      PROVE  Attached(b)'
  <2>1. CASE b = a
    BY <1>4, <2>1 DEF Attached
  <2>2. CASE b # a
    <3>1. b \in Opened /\ b \in Made /\ b \in Attempts
      BY <1>1, <1>3, <2>2 DEF Opened
    <3>2. stream'[b] = stream[b] /\ handler'[b] = handler[b] /\ request'[b] = request[b]
      BY <1>4, <2>2, <3>1
    <3>3. Attached(b)
      BY <1>1, <3>1
    <3>4. b \in done' => b \in done \/ b \in aborted'
      BY <3>1
    <3>5. handler'[b] \in {handler[b], "ended"}
      BY <3>2
    <3> QED  BY <3>2, <3>3, <3>4, <3>5, AttachedStays
  <2> QED  BY <2>1, <2>2
<1> QED  BY <1>6, <1>7, <1>8 DEF StreamsInv, StreamsPart

\* stream() that opens.
LEMMA OpenStep ==
  ASSUME StreamsInv, NEW q \in Requests, q.parent \in Made \union {0}, Open(q)
  PROVE  Keeps
<1>1. CallsInv /\ TypeOK /\ ProviderTypes /\ Attempted /\ Tables /\ OwnRecords
  BY TypeParts DEF StreamsInv, CallsInv, SessionPart, ProviderPart
<1>2. PICK a \in Attempts : a = Len(request) + 1
  BY DEF Open
<1>3. /\ Admissible(q) /\ q.key = NoKey /\ request' = Append(request, q)
      /\ pending' = [pending EXCEPT ![<<q.session, q.id>>] = a]
      /\ admitted' = admitted \union {a}
      /\ pc' = [pc EXCEPT ![a] = "streaming"]
      /\ handler' = [handler EXCEPT ![a] = "iterating"]
      /\ clock' = clock /\ done' = done /\ aborted' = aborted
      /\ outcome' = outcome /\ ledger' = ledger /\ ended' = ended
      /\ closed' = closed /\ withdrawn' = withdrawn /\ denied' = denied
      /\ stream' = stream
  BY <1>2 DEF Open, outside
<1>4. /\ Made' = Made \union {a} /\ a \notin Made /\ request'[a] = q
      /\ \A b \in Made : request'[b] = request[b]
  BY <1>1, <1>2, <1>3, NewAttempt
<1>5. SessionPart'
  <2>1. outcome[a] = -1 /\ -1 \in -1 .. MaxAttempts
    BY <1>1, <1>4, CallsAssumption DEF Attempted
  <2>2. outcome' = [outcome EXCEPT ![a] = -1]
    BY <1>1, <1>3, <2>1 DEF TypeOK
  <2>3. "streaming" \in {"racing", "settled", "streaming"} /\ ~(-1 > 0)
    OBVIOUS
  <2>4. PICK p \in {"racing", "settled", "streaming"} : p = "streaming"
    BY <2>3
  <2>5. PICK v \in -1 .. MaxAttempts : v = -1
    BY <2>1
  <2>6. ~(v > 0)
    BY <2>5
  <2>7. pc' = [pc EXCEPT ![a] = p] /\ outcome' = [outcome EXCEPT ![a] = v]
    BY <1>3, <2>2, <2>4, <2>5, Zenon
  <2> QED  BY <1>1, <1>2, <1>3, <2>6, <2>7, SessionJoins
<1>6. /\ \A b \in Attempts \ {a} : handler'[b] = handler[b]
      /\ handler'[a] = "iterating"
      /\ handler' \in [Attempts -> {"none", "running", "iterating", "ended"}]
      /\ Made \subseteq Attempts
  BY <1>1, <1>3, MadeFacts DEF ProviderTypes
<1>7. ProviderPart'
  <2>1. ProviderTypes'
    BY <1>1, <1>3, <1>6 DEF ProviderTypes, Recorded
  <2>2. clock \in Nat /\ clock' >= clock
    BY <1>1, <1>3 DEF ProviderTypes, Times
  <2>3. \A b \in Made : handler'[b] = handler[b]
    BY <1>4, <1>6
  <2>4. \A b \in Made' \ Made : request'[b].key = NoKey
    BY <1>3, <1>4
  <2>5. \A b \in Attempts \ Made' : handler'[b] = handler[b]
    BY <1>4, <1>6
  <2> QED  BY <1>1, <1>3, <1>4, <2>1, <2>2, <2>3, <2>4, <2>5, ProviderStays
<1>8. CallsInv'
  BY <1>5, <1>7 DEF CallsInv
<1>9. stream[a] = Fresh /\ stream' = [stream EXCEPT ![a] = Fresh]
  <2>1. a \notin Opened /\ stream \in [Attempts -> States]
    BY <1>4 DEF Opened, StreamsInv, StreamsPart
  <2>2. stream[a] = Fresh
    BY <2>1 DEF StreamsInv, StreamsPart
  <2> QED  BY <1>3, <2>1, <2>2
<1>10. a \notin done /\ Sound(Fresh) /\ ~Fresh.shut /\ ~Fresh.ended
  BY <1>1, <1>4, FreshFacts DEF Tables
<1>11. StreamsInv'
  BY <1>3, <1>4, <1>6, <1>8, <1>9, <1>10, JoinsStreams
<1>12. OneEffect
  BY <1>6 DEF OneEffect
<1> QED  BY <1>3, <1>11, <1>12 DEF Keeps, MovesOne

\* stream() whose opening fails.
LEMMA OpenFailsStep ==
  ASSUME StreamsInv, NEW q \in Requests, q.parent \in Made \union {0}, OpenFails(q)
  PROVE  Keeps /\ PumpMoves
<1>1. CallsInv /\ TypeOK /\ ProviderTypes /\ Attempted /\ Tables /\ OwnRecords
  BY TypeParts DEF StreamsInv, CallsInv, SessionPart, ProviderPart
<1>2. PICK a \in Attempts : a = Len(request) + 1
  BY DEF OpenFails
<1>20. PICK t : t = [Failed(Fresh) EXCEPT !.pump = "over"]
  OBVIOUS
<1>3. /\ q.key = NoKey /\ request' = Append(request, q)
      /\ pc' = [pc EXCEPT ![a] = "streaming"]
      /\ handler' = [handler EXCEPT ![a] = "ended"]
      /\ stream' = [stream EXCEPT ![a] = t]
      /\ done' = done \union {a} /\ aborted' = aborted \union {a}
      /\ clock' = clock /\ UNCHANGED <<outcome, table>>
      /\ ledger' = ledger /\ ended' = ended
      /\ closed' = closed /\ withdrawn' = withdrawn /\ denied' = denied
  BY <1>2, <1>20 DEF OpenFails, outside
<1>4. /\ Made' = Made \union {a} /\ a \notin Made /\ request'[a] = q
      /\ \A b \in Made : request'[b] = request[b]
  BY <1>1, <1>2, <1>3, NewAttempt
<1>5. SessionPart'
  BY <1>1, <1>2, <1>3, SessionPasses
<1>6. /\ \A b \in Attempts \ {a} : handler'[b] = handler[b]
      /\ handler'[a] = "ended"
      /\ handler' \in [Attempts -> {"none", "running", "iterating", "ended"}]
      /\ Made \subseteq Attempts
  BY <1>1, <1>3, MadeFacts DEF ProviderTypes
<1>7. ProviderPart'
  <2>1. ProviderTypes'
    BY <1>1, <1>3, <1>6 DEF ProviderTypes, Recorded
  <2>2. clock \in Nat /\ clock' >= clock
    BY <1>1, <1>3 DEF ProviderTypes, Times
  <2>3. \A b \in Made : handler'[b] = handler[b]
    BY <1>4, <1>6
  <2>4. \A b \in Made' \ Made : request'[b].key = NoKey
    BY <1>3, <1>4
  <2>5. \A b \in Attempts \ Made' : handler'[b] = handler[b]
    BY <1>4, <1>6
  <2> QED  BY <1>1, <1>3, <1>4, <2>1, <2>2, <2>3, <2>4, <2>5, ProviderStays
<1>8. CallsInv'
  BY <1>5, <1>7 DEF CallsInv
<1>9. stream[a] = Fresh
  BY <1>4 DEF Opened, StreamsInv, StreamsPart
<1>10. Sound(Fresh) /\ Goes(Fresh, t) /\ ~t.ended /\ Pumps(Fresh, t)
  BY <1>20, FreshFacts, BreaksGoes
<1>11. StreamsInv'
  <2>1. Sound(t)
    BY <1>10 DEF Goes
  <2> QED  BY <1>3, <1>4, <1>6, <1>8, <1>10, <2>1, JoinsStreams
<1>12. OneEffect
  BY <1>6 DEF OneEffect
<1>13. MovesOne /\ PumpMoves
  BY <1>3, <1>9, <1>10 DEF MovesOne, PumpMoves
<1> QED  BY <1>11, <1>12, <1>13 DEF Keeps

\* The source has returned.
LEMMA ReturnsStep ==
  ASSUME StreamsInv, NEW a \in Attempts, SourceReturns(a)
  PROVE  Keeps
<1>1. /\ a \in Opened /\ handler' = [handler EXCEPT ![a] = "ended"]
      /\ UNCHANGED <<request, pc, done, aborted, outcome, table, ledger,
                     outside, clock, ended>>
      /\ stream' = stream
  BY DEF SourceReturns
<1>2. PICK t : t = stream[a]
  OBVIOUS
<1>3. Sound(stream[a]) /\ stream \in [Attempts -> States]
  BY DEF StreamsInv, StreamsPart
<1>4. Goes(stream[a], t)
  BY <1>2, <1>3 DEF Goes, Promised, Lasts
<1>5. Effect(a, t)
  BY <1>1, <1>2, <1>3 DEF Effect
<1> QED  BY <1>1, <1>4, <1>5, EffectStep

\* An attempt that is a stream.
LEMMA OpenedFacts ==
  ASSUME StreamsInv, NEW a \in Opened
  PROVE  a \in Attempts /\ Sound(stream[a])
<1>1. a \in Attempts
  BY TypeParts, MadeFacts DEF StreamsInv, CallsInv, SessionPart, ProviderPart, Opened
<1> QED  BY <1>1 DEF StreamsInv, StreamsPart

\* The failure promise reaches the channel; the pump resumes.
LEMMA WakeStep ==
  ASSUME StreamsInv, NEW a \in Attempts, FailureReaches(a) \/ PumpResumes(a)
  PROVE  Keeps /\ PumpMoves
<1>1. a \in Opened /\ handler' = handler
  BY DEF FailureReaches, PumpResumes
<1>2. PICK s : s = stream[a] /\ Sound(s)
  BY <1>1, OpenedFacts
<1>3. PICK t : /\ Effect(a, t)
               /\ \/ t = [Failed(s) EXCEPT !.pump = "over"]
                  \/ t = [Failed(s) EXCEPT !.noticed = TRUE]
                  \/ s.pump = "granted" /\ t = [s EXCEPT !.pump = "pulling"]
  <2>1. CASE FailureReaches(a)
    BY <1>2, <2>1 DEF FailureReaches
  <2>2. CASE PumpResumes(a)
    <3>1. PICK t : /\ Effect(a, t)
                   /\ t = IF s.pump = "granted" /\ Alive(a)
                          THEN [s EXCEPT !.pump = "pulling"]
                          ELSE [Failed(s) EXCEPT !.pump = "over"]
      BY <1>2, <2>2 DEF PumpResumes
    <3> QED  BY <3>1
  <2> QED  BY <2>1, <2>2
<1>4. Goes(s, t) /\ Tells(s, t) /\ Pumps(s, t)
  BY <1>2, <1>3, BreaksGoes, PullsGoes
<1> QED  BY <1>1, <1>2, <1>3, <1>4, EffectStep

\* The source yields an item.
LEMMA YieldsStep ==
  ASSUME StreamsInv, NEW a \in Attempts, NEW valid \in BOOLEAN, Yields(a, valid)
  PROVE  Keeps /\ PumpMoves
<1>1. a \in Opened /\ handler' = handler
  BY DEF Yields
<1>2. PICK s : s = stream[a] /\ Sound(s)
  BY <1>1, OpenedFacts
<1>3. s.pump = "pulling" /\ s.sent < MaxItems
  BY <1>2 DEF Yields
<1>4. PICK p : p = IF Alive(a) THEN Pushed(s, s.sent + 1, valid)
                   ELSE [Failed(s) EXCEPT !.pump = "over"]
  OBVIOUS
<1>5. PICK t : /\ Effect(a, t)
               /\ t = [p EXCEPT !.sent =
                     IF p.got # s.got \/ p.queue # s.queue THEN s.sent + 1 ELSE @]
  BY <1>2, <1>4 DEF Yields
<1>6. Goes(s, t) /\ Tells(s, t) /\ Pumps(s, t)
  <2>1. CASE Alive(a)
    <3>1. p = Pushed(s, s.sent + 1, valid)
      BY <1>4, <2>1
    <3> QED  BY <1>2, <1>3, <1>5, <3>1, PushedGoes
  <2>2. CASE ~Alive(a)
    <3>1. p = [Failed(s) EXCEPT !.pump = "over"]
      BY <1>4, <2>2
    <3>2. /\ Goes(s, p) /\ Tells(s, p) /\ Pumps(s, p)
          /\ p.got = s.got /\ p.queue = <<>>
      BY <1>2, <3>1, BreaksGoes
    <3>3. s.queue = <<>>
      BY <1>2 DEF Sound, Steady
    <3>4. t = [p EXCEPT !.sent = p.sent]
      BY <1>5, <3>2, <3>3
    <3>5. p \in States
      BY <3>2 DEF Goes, Sound, Steady
    <3>6. t = p
      BY <3>4, <3>5 DEF States
    <3> QED  BY <3>2, <3>6
  <2> QED  BY <2>1, <2>2
<1> QED  BY <1>1, <1>2, <1>5, <1>6, EffectStep

\* The source ends or throws.
LEMMA EndsStep ==
  ASSUME StreamsInv, NEW a \in Attempts, NEW well \in BOOLEAN, SourceEnds(a, well)
  PROVE  Keeps /\ PumpMoves
<1>1. a \in Opened /\ handler' = [handler EXCEPT ![a] = "ended"]
  BY DEF SourceEnds
<1>2. PICK r : r = stream[a] /\ Sound(r)
  BY <1>1, OpenedFacts
<1>3. PICK s : s = [r EXCEPT !.finished = well]
  OBVIOUS
<1>4. s.pump = r.pump
  BY <1>2, <1>3 DEF Sound, Steady, States
<1>5. s.pump = "pulling"
  BY <1>2, <1>3 DEF SourceEnds
<1>6. PICK t : /\ Effect(a, t)
               /\ t = [IF well /\ Alive(a) THEN Finished(s) ELSE Failed(s)
                         EXCEPT !.pump = "over"]
  BY <1>2, <1>3 DEF SourceEnds
<1>7. Goes(r, t) /\ Pumps(r, t)
  BY <1>2, <1>3, <1>4, <1>5, <1>6, EndsGoes
<1> QED  BY <1>1, <1>2, <1>6, <1>7, EffectStep

\* Every step of calls, pumps and sources.
LEMMA CallsStepKeeps ==
  ASSUME StreamsInv, CallsStep
  PROVE  Keeps /\ PumpMoves
<1>1. CASE Next /\ UNCHANGED stream
  BY <1>1, UnaryStep DEF PumpMoves
<1>2. ASSUME NEW s \in Sessions, NEW n \in Ids, NEW i \in Inputs,
             NEW d \in Deadlines, NEW p \in Made \union {0}, NEW q,
             q = [session |-> s, id |-> n, key |-> i[1], body |-> i[2],
                  deadline |-> Deadline(d, p), parent |-> p],
             Open(q) \/ OpenFails(q)
      PROVE  Keeps /\ PumpMoves
  <2>1. q \in Requests /\ q.parent \in Made \union {0}
    <3>1. TypeOK /\ Made \subseteq Attempts
      BY TypeParts, MadeFacts DEF StreamsInv, CallsInv, SessionPart, ProviderPart
    <3> QED  BY <1>2, <3>1, AskedFacts
  <2>2. CASE Open(q)
    <3>1. stream' = stream
      BY <2>2 DEF Open
    <3> QED  BY <2>1, <2>2, <3>1, OpenStep DEF PumpMoves
  <2>3. CASE OpenFails(q)
    BY <2>1, <2>3, OpenFailsStep
  <2> QED  BY <1>2, <2>2, <2>3
<1>3. ASSUME NEW a \in Attempts, SourceReturns(a)
      PROVE  Keeps /\ PumpMoves
  BY <1>3, ReturnsStep DEF PumpMoves, SourceReturns
<1>4. ASSUME NEW a \in Attempts, FailureReaches(a) \/ PumpResumes(a)
      PROVE  Keeps /\ PumpMoves
  BY <1>4, WakeStep
<1>5. ASSUME NEW a \in Attempts, NEW b \in BOOLEAN, Yields(a, b) \/ SourceEnds(a, b)
      PROVE  Keeps /\ PumpMoves
  BY <1>5, YieldsStep, EndsStep
<1> QED  BY <1>1, <1>2, <1>3, <1>4, <1>5 DEF CallsStep

\* A next() that reaches the channel, from its reader or from streamOutcomes.
LEMMA ReadStep ==
  ASSUME StreamsInv, NEW a \in Opened, ~stream[a].reading,
         Effect(a, Granted(Read(stream[a], Alive(a)))), handler' = handler
  PROVE  /\ Keeps
         /\ \E t : /\ stream' = [stream EXCEPT ![a] = t] /\ Goes(stream[a], t)
                   /\ t.sent = stream[a].sent /\ (t.reading \/ t.ended)
<1>1. PICK s : s = stream[a] /\ Sound(s)
  BY OpenedFacts
<1>2. PICK t : Effect(a, t) /\ t = Granted(Read(s, Alive(a)))
  BY <1>1
<1>3. Goes(s, t) /\ Tells(s, t) /\ t.sent = s.sent /\ (t.reading \/ t.ended)
  BY <1>1, <1>2, ReadGoes
<1>4. Keeps
  BY <1>1, <1>2, <1>3, EffectStep
<1>5. stream' = [stream EXCEPT ![a] = t]
  BY <1>2 DEF Effect
<1> QED  BY <1>1, <1>3, <1>4, <1>5

\* A return() that reaches the channel, and a step that leaves it alone.
LEMMA LeaveStep ==
  ASSUME StreamsInv, NEW a \in Opened, handler' = handler,
         Effect(a, Returned(stream[a])) \/ Effect(a, stream[a])
  PROVE  /\ Keeps
         /\ \E t : /\ stream' = [stream EXCEPT ![a] = t] /\ Goes(stream[a], t)
                   /\ t.sent = stream[a].sent /\ t.finished = stream[a].finished
                   /\ t.reading => stream[a].reading
<1>1. PICK s : s = stream[a] /\ Sound(s)
  BY OpenedFacts
<1>2. PICK t : Effect(a, t) /\ (t = Returned(s) \/ t = s)
  BY <1>1
<1>3. /\ Goes(s, t) /\ Tells(s, t)
      /\ t.sent = s.sent /\ t.finished = s.finished /\ (t.reading => s.reading)
  <2>1. CASE t = Returned(s)
    BY <1>1, <2>1, ReturnedGoes
  <2>2. CASE t = s
    BY <1>1, <2>2 DEF Goes, Promised, Lasts, Tells
  <2> QED  BY <1>2, <2>1, <2>2
<1>4. Keeps
  BY <1>1, <1>2, <1>3, EffectStep
<1>5. stream' = [stream EXCEPT ![a] = t]
  BY <1>2 DEF Effect
<1> QED  BY <1>1, <1>3, <1>4, <1>5

\* A reader that has its stream at hand.
LEMMA ReaderStep ==
  ASSUME StreamsInv, NEW a \in Attempts, ReaderNext(a) \/ ReaderReturns(a)
  PROVE  Keeps
BY ReadStep, LeaveStep DEF ReaderNext, ReaderReturns

\* The first state.
LEMMA StreamsStart ==
  ASSUME StreamsInit
  PROVE  StreamsInv
<1>1. CallsInv
  BY InitHolds DEF StreamsInit
<1>2. stream = [a \in Attempts |-> Fresh] /\ Fresh \in States
  BY FreshFacts DEF StreamsInit, Sound, Steady
<1>3. Opened = {}
  <2>1. request = <<>>
    BY DEF StreamsInit, Init
  <2> QED  BY <2>1 DEF Opened, Made
<1> QED  BY <1>1, <1>2, <1>3, FreshFacts DEF StreamsInv, StreamsPart

\* A step that changes nothing here.
LEMMA StreamsStutter ==
  ASSUME StreamsInv, UNCHANGED allVars
  PROVE  Keeps
<1>1. UNCHANGED vars /\ stream' = stream
  BY DEF allVars
<1>2. UNCHANGED <<request, pc, done, aborted, handler>>
  BY <1>1 DEF vars
<1>3. CallsInv' /\ OneEffect
  BY <1>1, <1>2, StutterKeeps DEF StreamsInv, OneEffect
<1>4. StreamsPart'
  BY <1>1, <1>2 DEF StreamsInv, StreamsPart, Attached, Opened, Made
<1> QED  BY <1>1, <1>3, <1>4 DEF Keeps, StreamsInv, MovesOne
-----------------------------------------------------------------------------
(* Streams as channels.                                                    *)

\* The first n items.
Upto(n) == [i \in 1 .. n |-> i]

\* The state of Channel when the readers are at hand.
Sents == [a \in Attempts |-> Upto(stream[a].sent)]
Finisheds == {a \in Attempts : stream[a].finished}
Gots == [a \in Attempts |-> stream[a].got]
Fates == [a \in Attempts |-> stream[a].fate]

\* Whatever moves a stream is a step of Channel or none.
LEMMA ChannelStep ==
  ASSUME StreamsInv, MovesOne
  PROVE  [Promise!Next]_(Promise!channel)
<1>1. CASE stream' = stream
  BY <1>1 DEF Promise!channel
<1>2. ASSUME NEW a \in Attempts, NEW t, Sound(stream[a]), Goes(stream[a], t),
             stream' = [stream EXCEPT ![a] = t]
      PROVE  [Promise!Next]_(Promise!channel)
  <2>1. PICK s : s = stream[a]
    OBVIOUS
  <2>2. /\ stream \in [Attempts -> States] /\ s.sent \in Nat
        /\ s.got = Upto(s.sent)
    BY <1>2, <2>1 DEF StreamsInv, StreamsPart, Sound, Steady, States, Upto
  <2>3. stream'[a] = t /\ \A b \in Attempts \ {a} : stream'[b] = stream[b]
    BY <1>2, <2>2
  <2>4. /\ Sents' = [Sents EXCEPT ![a] = Upto(t.sent)]
        /\ t.sent = s.sent => Sents' = Sents
        /\ t.finished => Finisheds' = Finisheds \union {a}
        /\ (t.finished <=> s.finished) => Finisheds' = Finisheds
    <3>1. Sents' = [Sents EXCEPT ![a] = Upto(t.sent)]
      BY <2>3 DEF Sents
    <3>2. t.sent = s.sent => Sents' = Sents
      <4>1. ASSUME t.sent = s.sent
            PROVE  \A b \in Attempts : stream'[b].sent = stream[b].sent
        BY <2>1, <2>3, <4>1
      <4> QED  BY <4>1 DEF Sents
    <3>3. t.finished => Finisheds' = Finisheds \union {a}
      BY <2>3 DEF Finisheds
    <3>4. (t.finished <=> s.finished) => Finisheds' = Finisheds
      BY <2>1, <2>3 DEF Finisheds
    <3> QED  BY <3>1, <3>2, <3>3, <3>4
  <2>5. /\ Gots' = [Gots EXCEPT ![a] = t.got] /\ Fates' = [Fates EXCEPT ![a] = t.fate]
        /\ t.got = s.got => Gots' = Gots
        /\ t.fate = s.fate => Fates' = Fates
    BY <2>1, <2>3 DEF Gots, Fates
  <2>6. /\ Sents[a] = Upto(s.sent) /\ Gots[a] = s.got
        /\ Fates[a] = s.fate /\ (a \in Finisheds <=> s.finished)
    BY <2>1 DEF Sents, Finisheds, Gots, Fates
  <2>7. CASE /\ t.got = s.got /\ t.sent = s.sent /\ t.fate = s.fate
             /\ (t.finished <=> s.finished)
    BY <2>4, <2>5, <2>7 DEF Promise!channel, Sents, Finisheds, Gots, Fates, Upto
  <2>8. CASE t.got = s.got /\ t.sent = s.sent /\ t.fate = s.fate /\ t.finished
    <3>1. Promise!Finish(a)
      BY <2>4, <2>5, <2>8 DEF Promise!Finish, Sents, Finisheds, Gots, Fates, Upto
    <3> QED  BY <3>1 DEF Promise!Next
  <2>9. CASE /\ s.fate = "open" /\ t.fate = "open" /\ ~s.finished /\ ~t.finished
             /\ s.sent < MaxItems /\ t.sent = s.sent + 1
             /\ t.got = Append(s.got, s.sent + 1)
    <3>1. PICK v \in 1 .. MaxItems : v = s.sent + 1
      BY <2>2, <2>9, StreamsAssumption
    <3>2. Upto(t.sent) = Append(Sents[a], v)
      BY <2>2, <2>6, <2>9, <3>1, NextItem DEF Upto
    <3>3. /\ Sents' = [Sents EXCEPT ![a] = Append(@, v)]
          /\ Gots' = [Gots EXCEPT ![a] = Append(@, v)]
          /\ Fates' = Fates /\ Finisheds' = Finisheds
          /\ Fates[a] = "open" /\ a \notin Finisheds
          /\ Gots[a] = Sents[a]
      BY <2>2, <2>4, <2>5, <2>6, <2>9, <3>1, <3>2
    <3>4. Promise!HandOver(a)
      BY <3>1, <3>3 DEF Promise!HandOver, Promise!Open, Sents, Finisheds, Gots, Fates, Upto
    <3> QED  BY <3>4 DEF Promise!Next
  <2>10. CASE /\ t.got = s.got /\ t.sent = s.sent /\ s.fate = "open"
              /\ \/ t.fate = "complete" /\ t.finished
                 \/ t.fate = "error" /\ (t.finished \/ ~s.finished)
                 \/ t.fate = "returned" /\ (t.finished <=> s.finished)
    <3>1. /\ Sents' = Sents /\ Gots' = Gots
          /\ Fates' = [Fates EXCEPT ![a] = t.fate] /\ Fates[a] = "open"
          /\ Gots[a] = Sents[a]
      BY <2>2, <2>4, <2>5, <2>6, <2>10
    <3>2. CASE t.fate = "complete" /\ t.finished
      <4>1. Promise!Complete(a)
        BY <2>4, <3>1, <3>2
           DEF Promise!Complete, Promise!Settle, Promise!Open, Sents, Finisheds, Gots, Fates, Upto
      <4> QED  BY <4>1 DEF Promise!Next
    <3>3. CASE t.fate = "error" /\ (t.finished \/ ~s.finished)
      <4>1. Finisheds' \in {Finisheds, Finisheds \union {a}}
        BY <2>4, <3>3
      <4>2. Promise!Break(a)
        BY <3>1, <3>3, <4>1
           DEF Promise!Break, Promise!Settle, Promise!Open, Sents, Finisheds, Gots, Fates, Upto
      <4> QED  BY <4>2 DEF Promise!Next
    <3>4. CASE t.fate = "returned" /\ (t.finished <=> s.finished)
      <4>1. Promise!Return(a)
        BY <2>4, <3>1, <3>4
           DEF Promise!Return, Promise!Settle, Promise!Open, Sents, Finisheds, Gots, Fates, Upto
      <4> QED  BY <4>1 DEF Promise!Next
    <3> QED  BY <2>10, <3>2, <3>3, <3>4
  <2>11. Promised(s, t)
    BY <1>2, <2>1 DEF Goes
  <2> QED  BY <2>7, <2>8, <2>9, <2>10, <2>11 DEF Promised
<1> QED  BY <1>1, <1>2 DEF MovesOne

\* Channels that are not opened have not moved.
LEMMA ChannelStart ==
  ASSUME StreamsInit
  PROVE  Promise!Init
<1>1. \A a \in Attempts : /\ stream[a].sent = 0 /\ ~stream[a].finished
                          /\ stream[a].got = <<>> /\ stream[a].fate = "open"
  BY DEF StreamsInit, Fresh
<1>2. [i \in 1 .. 0 |-> i] = <<>>
  OBVIOUS
<1> QED  BY <1>1, <1>2 DEF Promise!Init

-----------------------------------------------------------------------------
(* Streams whose reader is far.                                            *)

\* The far end of a stream and its near end.  The far reader has the records
\* up to seq, streamOutcomes has numbered those up to enc, and the stream has
\* produced at most one item more: the answer to the pull under way.
Carried(e, s) ==
  /\ e.got = [i \in 1 .. e.seq |-> i]
  /\ e.seq <= e.enc /\ e.enc <= s.sent
  /\ s.reading => e.pulling /\ s.sent = e.enc
  /\ e.pulling => e.fate = "open"
  /\ e.pulling /\ ~s.reading => s.sent = e.enc + 1 \/ (s.sent = e.enc /\ s.ended)
  /\ e.fate = "open" /\ ~e.pulling => s.sent = e.enc

FarPart ==
  /\ far \in [Bridged -> Ends]
  /\ \A a \in Bridged : Carried(far[a], stream[a])
  /\ \A a \in Bridged : stream[a].fate = "complete" => stream[a].finished

OutcomesInv == StreamsInv /\ FarPart

\* What a step means to the far reader, in the words of Channel.
FarPromised(e, s, d, t) ==
  \/ /\ d.got = e.got /\ d.fate = e.fate /\ t.sent = s.sent
     /\ s.finished => t.finished
  \/ /\ d.got = e.got /\ d.fate = e.fate /\ e.fate = "open"
     /\ ~s.finished /\ ~t.finished /\ s.sent < MaxItems /\ t.sent = s.sent + 1
  \/ /\ d.got = Append(e.got, e.seq + 1) /\ d.fate = e.fate /\ e.fate = "open"
     /\ t.sent = s.sent /\ (t.finished <=> s.finished) /\ e.seq < s.sent
  \/ /\ d.got = e.got /\ t.sent = s.sent /\ e.fate = "open"
     /\ \/ d.fate = "complete" /\ t.finished /\ e.seq = s.sent
        \/ d.fate = "error" /\ (s.finished => t.finished)
        \/ d.fate = "returned" /\ (t.finished <=> s.finished)

\* At most one bridged stream moves in a step, and as FarPromised says.
FarMoves ==
  \/ far' = far /\ \A b \in Bridged : stream'[b] = stream[b]
  \/ \E a \in Bridged : \E d : \E t :
       /\ far' = [far EXCEPT ![a] = d] /\ stream' = [stream EXCEPT ![a] = t]
       /\ FarPromised(far[a], stream[a], d, t)

FarKeeps == Keeps /\ FarPart' /\ FarMoves

\* The two ends of a bridged stream.
LEMMA BridgedFacts ==
  ASSUME OutcomesInv, NEW a \in Bridged
  PROVE  /\ a \in Attempts /\ far[a] \in Ends /\ Carried(far[a], stream[a])
         /\ stream[a].fate = "complete" => stream[a].finished
         /\ Sound(stream[a]) /\ stream[a] \in States
         /\ stream[a].sent \in Nat /\ far[a].enc \in Nat /\ far[a].seq \in Nat
<1>1. a \in Attempts
  BY OutcomesAssumption
<1>2. far[a] \in Ends /\ stream[a] \in States
  BY <1>1 DEF OutcomesInv, FarPart, StreamsInv, StreamsPart
<1>3. stream[a].sent \in Nat /\ far[a].enc \in Nat /\ far[a].seq \in Nat
  BY <1>2 DEF Ends, States
<1> QED  BY <1>1, <1>2, <1>3 DEF OutcomesInv, FarPart, StreamsInv, StreamsPart

\* A stream does not forget that its source ended, and completes after it.
LEMMA PromisedFacts ==
  ASSUME NEW s, NEW t, Promised(s, t), s.fate = "complete" => s.finished
  PROVE  /\ s.finished => t.finished
         /\ t.fate = "complete" => t.finished
BY DEF Promised

\* A step of one bridged stream and of its far end.
LEMMA FarStep ==
  ASSUME OutcomesInv, Keeps, NEW a \in Bridged, NEW d \in Ends, NEW t,
         far' = [far EXCEPT ![a] = d], stream' = [stream EXCEPT ![a] = t],
         Carried(d, t), t.fate = "complete" => t.finished,
         FarPromised(far[a], stream[a], d, t)
  PROVE  FarKeeps
<1>1. far \in [Bridged -> Ends] /\ stream \in [Attempts -> States]
  BY DEF OutcomesInv, FarPart, StreamsInv, StreamsPart
<1>2. /\ far' \in [Bridged -> Ends] /\ far'[a] = d
      /\ \A b \in Bridged \ {a} : far'[b] = far[b]
  BY <1>1
<1>3. stream'[a] = t /\ \A b \in Bridged \ {a} : stream'[b] = stream[b]
  BY <1>1, OutcomesAssumption
<1>4. \A b \in Bridged : Carried(far'[b], stream'[b])
  BY <1>2, <1>3 DEF OutcomesInv, FarPart
<1>5. \A b \in Bridged : stream'[b].fate = "complete" => stream'[b].finished
  BY <1>3 DEF OutcomesInv, FarPart
<1>6. FarPart'
  BY <1>2, <1>4, <1>5 DEF FarPart
<1>7. FarMoves
  BY DEF FarMoves
<1> QED  BY <1>6, <1>7 DEF FarKeeps

\* The answer of a pump, and what is none, leave the two ends together.
LEMMA CarriedStays ==
  ASSUME NEW e, NEW s, NEW t, Carried(e, s), Pumps(s, t), Lasts(s, t),
         e.enc \in Nat, s.sent \in Nat
  PROVE  Carried(e, t)
<1>1. s.sent = t.sent \/ s.sent + 1 = t.sent
  BY DEF Pumps
<1>2. e.enc <= t.sent
  BY <1>1 DEF Carried
<1>3. t.reading => e.pulling /\ t.sent = e.enc
  BY DEF Carried, Pumps
<1>4. e.pulling /\ ~t.reading => t.sent = e.enc + 1 \/ (t.sent = e.enc /\ t.ended)
  BY DEF Carried, Pumps, Lasts
<1>5. e.fate = "open" /\ ~e.pulling => t.sent = e.enc
  BY DEF Carried, Pumps
<1> QED  BY <1>2, <1>3, <1>4, <1>5 DEF Carried

\* A step of calls, pumps and sources, as far as bridged streams go.
LEMMA PumpsFar ==
  ASSUME OutcomesInv, Keeps, PumpMoves, far' = far
  PROVE  FarKeeps
<1>1. far \in [Bridged -> Ends] /\ stream \in [Attempts -> States]
  BY DEF OutcomesInv, FarPart, StreamsInv, StreamsPart
<1>2. ASSUME \A b \in Bridged : stream'[b] = stream[b]
      PROVE  FarKeeps
  BY <1>2 DEF FarKeeps, FarMoves, FarPart, OutcomesInv
<1>3. CASE stream' = stream
  BY <1>2, <1>3
<1>4. ASSUME NEW a \in Attempts, NEW t, Goes(stream[a], t), Pumps(stream[a], t),
             stream' = [stream EXCEPT ![a] = t]
      PROVE  FarKeeps
  <2>1. CASE a \notin Bridged
    <3>1. \A b \in Bridged : stream'[b] = stream[b]
      BY <1>1, <1>4, <2>1, OutcomesAssumption
    <3> QED  BY <1>2, <3>1
  <2>2. CASE a \in Bridged
    <3>1. PICK e, s : e = far[a] /\ s = stream[a]
      OBVIOUS
    <3>2. /\ e \in Ends /\ Carried(e, s) /\ s.sent \in Nat /\ e.enc \in Nat
          /\ s.fate = "complete" => s.finished
      BY <2>2, <3>1, BridgedFacts
    <3>3. Promised(s, t) /\ Lasts(s, t) /\ Pumps(s, t)
      BY <1>4, <3>1 DEF Goes
    <3>4. Carried(e, t)
      BY <3>2, <3>3, CarriedStays
    <3>5. (s.finished => t.finished) /\ (t.fate = "complete" => t.finished)
      BY <3>2, <3>3, PromisedFacts
    <3>6. FarPromised(e, s, e, t)
      <4>1. CASE t.sent = s.sent
        BY <3>5, <4>1 DEF FarPromised
      <4>2. CASE t.sent # s.sent
        <5>1. s.reading
          BY <3>3, <4>2 DEF Pumps
        <5>2. e.fate = "open"
          BY <3>2, <5>1 DEF Carried
        <5>3. ~s.finished /\ ~t.finished /\ s.sent < MaxItems /\ t.sent = s.sent + 1
          BY <3>3, <4>2 DEF Promised
        <5> QED  BY <5>2, <5>3 DEF FarPromised
      <4> QED  BY <4>1, <4>2
    <3>7. far' = [far EXCEPT ![a] = e]
      BY <1>1, <2>2, <3>1
    <3> QED  BY <1>4, <2>2, <3>1, <3>2, <3>4, <3>5, <3>6, <3>7, FarStep
  <2> QED  BY <2>1, <2>2
<1> QED  BY <1>3, <1>4 DEF PumpMoves

\* The far reader has an outcome: f, or what the step told it.
LEMMA FarEndsStep ==
  ASSUME OutcomesInv, NEW a \in Bridged, a \in Opened, NEW f, NEW s,
         s = stream[a] \/ s = Returned(stream[a]), FarEnds(a, f, s),
         far[a].fate = "open", ~stream[a].reading,
         \/ f \in {"error", "returned"}
         \/ f = "complete" /\ stream[a].finished /\ far[a].seq = stream[a].sent
  PROVE  FarKeeps
<1>1. StreamsInv /\ handler' = handler /\ Effect(a, s)
      /\ far' = [far EXCEPT ![a] = [@ EXCEPT !.pulling = FALSE, !.fate = f]]
  BY DEF OutcomesInv, FarEnds
<1>2. PICK e, r : e = far[a] /\ r = stream[a]
  OBVIOUS
<1>3. /\ e \in Ends /\ Carried(e, r) /\ r.sent \in Nat /\ e.enc \in Nat /\ e.seq \in Nat
      /\ r.fate = "complete" => r.finished
  BY <1>2, BridgedFacts
<1>4. PICK t : /\ stream' = [stream EXCEPT ![a] = t] /\ Goes(r, t)
               /\ t.sent = r.sent /\ t.finished = r.finished /\ ~t.reading
  BY <1>1, <1>2, LeaveStep
<1>5. Keeps
  BY <1>1, LeaveStep
<1>6. PICK d : d = [e EXCEPT !.pulling = FALSE, !.fate = f]
  OBVIOUS
<1>7. d \in Ends
  BY <1>3, <1>6 DEF Ends
<1>8. /\ ~d.pulling /\ d.fate = f /\ d.enc = e.enc /\ d.seq = e.seq /\ d.got = e.got
  BY <1>3, <1>6 DEF Ends
<1>9. Carried(d, t)
  BY <1>3, <1>4, <1>8 DEF Carried
<1>10. t.fate = "complete" => t.finished
  BY <1>3, <1>4, PromisedFacts DEF Goes
<1>11. FarPromised(e, r, d, t)
  BY <1>2, <1>4, <1>8 DEF FarPromised
<1>12. far' = [far EXCEPT ![a] = d]
  BY <1>1, <1>2, <1>6
<1> QED  BY <1>2, <1>4, <1>5, <1>7, <1>9, <1>10, <1>11, <1>12, FarStep

\* streamOutcomes pulls the stream, having numbered the records up to n.
LEMMA FarPullsStep ==
  ASSUME OutcomesInv, NEW a \in Bridged, a \in Opened, NEW d \in Ends,
         far' = [far EXCEPT ![a] = d], handler' = handler,
         Effect(a, Granted(Read(stream[a], Alive(a)))), ~stream[a].reading,
         far[a].fate = "open", d.fate = "open", d.pulling,
         d.got = far[a].got, d.seq = far[a].seq, d.enc = stream[a].sent
  PROVE  FarKeeps
<1>1. StreamsInv
  BY DEF OutcomesInv
<1>2. PICK e, r : e = far[a] /\ r = stream[a]
  OBVIOUS
<1>3. /\ e \in Ends /\ Carried(e, r) /\ r.sent \in Nat /\ e.enc \in Nat /\ e.seq \in Nat
      /\ r.fate = "complete" => r.finished
  BY <1>2, BridgedFacts
<1>4. PICK t : /\ stream' = [stream EXCEPT ![a] = t] /\ Goes(r, t)
               /\ t.sent = r.sent /\ (t.reading \/ t.ended)
  BY <1>1, <1>2, ReadStep
<1>5. Keeps
  BY <1>1, ReadStep
<1>6. Carried(d, t)
  BY <1>2, <1>3, <1>4 DEF Carried
<1>7. (r.finished => t.finished) /\ (t.fate = "complete" => t.finished)
  BY <1>3, <1>4, PromisedFacts DEF Goes
<1>8. FarPromised(e, r, d, t)
  BY <1>2, <1>4, <1>7 DEF FarPromised
<1> QED  BY <1>2, <1>4, <1>5, <1>6, <1>7, <1>8, FarStep

\* next() of the far reader.
LEMMA FarNextStep ==
  ASSUME OutcomesInv, NEW a \in Bridged, FarNext(a)
  PROVE  FarKeeps
<1>1. PICK e, r : e = far[a] /\ r = stream[a]
  OBVIOUS
<1>2. /\ e \in Ends /\ Carried(e, r) /\ r.sent \in Nat /\ e.enc \in Nat /\ e.seq \in Nat
  BY <1>1, BridgedFacts
<1>3. a \in Opened /\ e.fate = "open" /\ ~e.pulling
  BY <1>1 DEF FarNext
<1>4. ~r.reading /\ r.sent = e.enc
  BY <1>2, <1>3 DEF Carried
<1>5. CASE e.again
  <2>1. FarEnds(a, "error", Returned(stream[a]))
    BY <1>1, <1>5 DEF FarNext
  <2> QED  BY <1>1, <1>3, <1>4, <2>1, FarEndsStep
<1>6. CASE ~e.again
  <2>1. PICK d : d = [e EXCEPT !.started = TRUE, !.pulling = TRUE]
    OBVIOUS
  <2>2. d \in Ends
    BY <1>2, <2>1 DEF Ends
  <2>3. d.pulling /\ d.fate = e.fate /\ d.enc = e.enc /\ d.seq = e.seq /\ d.got = e.got
    BY <1>2, <2>1 DEF Ends
  <2>4. /\ far' = [far EXCEPT ![a] = d] /\ handler' = handler
        /\ Effect(a, Granted(Read(stream[a], Alive(a))))
    BY <1>1, <1>6, <2>1 DEF FarNext
  <2> QED  BY <1>1, <1>3, <1>4, <2>2, <2>3, <2>4, FarPullsStep
<1> QED  BY <1>5, <1>6

\* The stream has answered: with one item more than were numbered, or its end.
LEMMA AnswersFacts ==
  ASSUME OutcomesInv, NEW a \in Bridged, Answers(a)
  PROVE  /\ a \in Opened /\ far[a].pulling /\ far[a].fate = "open"
         /\ ~stream[a].reading
         /\ Len(stream[a].got) = stream[a].sent
         /\ Item(a) => stream[a].sent = far[a].enc + 1
         /\ ~Item(a) => stream[a].sent = far[a].enc /\ stream[a].fate # "open"
<1>1. PICK e, r : e = far[a] /\ r = stream[a]
  OBVIOUS
<1>2. /\ e \in Ends /\ Carried(e, r) /\ r.sent \in Nat /\ e.enc \in Nat /\ Sound(r)
  BY <1>1, BridgedFacts
<1>3. a \in Opened /\ e.pulling /\ ~r.reading
  BY <1>1 DEF Answers
<1>4. e.fate = "open" /\ (r.sent = e.enc + 1 \/ (r.sent = e.enc /\ r.ended))
  BY <1>2, <1>3 DEF Carried
<1>5. r.got = [i \in 1 .. r.sent |-> i] /\ (r.ended => r.fate # "open")
  BY <1>2 DEF Sound, Steady
<1>6. Len(r.got) = r.sent
  BY <1>2, <1>5
<1>7. Item(a) <=> r.sent > e.enc
  BY <1>1, <1>6 DEF Item
<1>8. Item(a) => r.sent = e.enc + 1
  BY <1>2, <1>4, <1>7
<1>9. ~Item(a) => r.sent = e.enc /\ r.fate # "open"
  BY <1>2, <1>4, <1>5, <1>7
<1> QED  BY <1>1, <1>3, <1>4, <1>6, <1>8, <1>9

\* The record of an item arrives.
LEMMA ItemArrivesStep ==
  ASSUME OutcomesInv, NEW a \in Bridged, NEW again \in BOOLEAN, ItemArrives(a, again)
  PROVE  FarKeeps
<1>1. PICK e, r : e = far[a] /\ r = stream[a]
  OBVIOUS
<1>2. /\ e \in Ends /\ Carried(e, r) /\ r.sent \in Nat /\ e.enc \in Nat /\ e.seq \in Nat
      /\ r.fate = "complete" => r.finished
      /\ Sound(r) /\ a \in Attempts
  BY <1>1, BridgedFacts
<1>3. Answers(a) /\ Item(a)
  BY DEF ItemArrives
<1>4. /\ a \in Opened /\ e.pulling /\ e.fate = "open" /\ ~r.reading
      /\ Len(r.got) = r.sent /\ r.sent = e.enc + 1
  BY <1>1, <1>3, AnswersFacts
<1>5. CASE ~InOrder(a)
  <2>1. FarEnds(a, "error", Returned(stream[a]))
    BY <1>5 DEF ItemArrives
  <2> QED  BY <1>1, <1>4, <2>1, FarEndsStep
<1>6. CASE InOrder(a)
  <2>1. e.enc = e.seq
    BY <1>1, <1>6 DEF InOrder
  <2>2. r.got[Len(r.got)] = e.seq + 1
    <3>1. r.got = [i \in 1 .. r.sent |-> i] /\ r.sent \in 1 .. r.sent
      BY <1>2, <1>4 DEF Sound, Steady
    <3>2. r.got[r.sent] = r.sent
      BY <3>1
    <3> QED  BY <1>4, <2>1, <3>2
  <2>3. PICK d : d = [e EXCEPT !.pulling = FALSE, !.again = again,
                        !.enc = e.enc + 1, !.seq = e.seq + 1,
                        !.got = Append(e.got, e.seq + 1)]
    OBVIOUS
  <2>4. far' = [far EXCEPT ![a] = d] /\ UNCHANGED <<vars, stream>>
    <3>1. /\ far' = [far EXCEPT ![a] =
                [far[a] EXCEPT !.pulling = FALSE, !.again = again,
                               !.enc = far[a].enc + 1, !.seq = far[a].seq + 1,
                               !.got = Append(far[a].got, r.got[Len(r.got)])]]
          /\ UNCHANGED <<vars, stream>>
      BY <1>1, <1>6 DEF ItemArrives
    <3>2. d = [far[a] EXCEPT !.pulling = FALSE, !.again = again,
                             !.enc = far[a].enc + 1, !.seq = far[a].seq + 1,
                             !.got = Append(far[a].got, r.got[Len(r.got)])]
      BY <1>1, <2>2, <2>3, Zenon
    <3> QED  BY <3>1, <3>2, Zenon
  <2>5. /\ e.got = [i \in 1 .. e.seq |-> i] /\ e.got \in Seq(Nat)
        /\ Append(e.got, e.seq + 1) \in Seq(Nat)
        /\ Append(e.got, e.seq + 1) = [i \in 1 .. e.seq + 1 |-> i]
    <3>1. e.got = [i \in 1 .. e.seq |-> i]
      BY <1>2 DEF Carried
    <3> QED  BY <1>2, <3>1, NextItem
  <2>6. d \in Ends
    <3>1. e.enc + 1 \in Nat /\ e.seq + 1 \in Nat
      BY <1>2
    <3> QED  BY <1>2, <2>3, <2>5, <3>1 DEF Ends
  <2>7. /\ ~d.pulling /\ d.fate = e.fate /\ d.enc = e.enc + 1 /\ d.seq = e.seq + 1
        /\ d.got = Append(e.got, e.seq + 1)
    BY <1>2, <2>3 DEF Ends
  <2>8. Carried(d, r)
    <3>1. d.got = [i \in 1 .. d.seq |-> i]
      BY <2>5, <2>7
    <3> QED  BY <1>2, <1>4, <2>1, <2>7, <3>1 DEF Carried
  <2>9. FarPromised(e, r, d, r)
    BY <1>2, <1>4, <2>1, <2>7 DEF FarPromised
  <2>10. Keeps
    BY <2>4, StreamsStutter DEF OutcomesInv, allVars
  <2>11. stream' = [stream EXCEPT ![a] = r]
    BY <1>1, <1>2, <2>4 DEF OutcomesInv, StreamsInv, StreamsPart
  <2> QED  BY <1>1, <1>2, <2>4, <2>6, <2>8, <2>9, <2>10, <2>11, FarStep
<1> QED  BY <1>5, <1>6

\* The record of an item is lost.
LEMMA ItemLostStep ==
  ASSUME OutcomesInv, NEW a \in Bridged, ItemLost(a)
  PROVE  FarKeeps
<1>1. PICK e, r : e = far[a] /\ r = stream[a]
  OBVIOUS
<1>2. e \in Ends /\ e.enc \in Nat
  BY <1>1, BridgedFacts
<1>3. /\ a \in Opened /\ e.pulling /\ e.fate = "open" /\ ~r.reading
      /\ r.sent = e.enc + 1
  BY <1>1, AnswersFacts DEF ItemLost
<1>4. PICK d : d = [e EXCEPT !.enc = e.enc + 1]
  OBVIOUS
<1>5. d \in Ends
  BY <1>2, <1>4 DEF Ends
<1>6. /\ d.pulling = e.pulling /\ d.fate = e.fate /\ d.enc = e.enc + 1
      /\ d.seq = e.seq /\ d.got = e.got
  BY <1>2, <1>4 DEF Ends
<1>7. /\ far' = [far EXCEPT ![a] = d] /\ handler' = handler
      /\ Effect(a, Granted(Read(stream[a], Alive(a))))
  <2>1. far' = [far EXCEPT ![a] = [far[a] EXCEPT !.enc = far[a].enc + 1]]
    BY DEF ItemLost
  <2>2. far' = [far EXCEPT ![a] = d]
    BY <1>1, <1>4, <2>1, Zenon
  <2> QED  BY <2>2 DEF ItemLost
<1> QED  BY <1>1, <1>3, <1>5, <1>6, <1>7, FarPullsStep

\* The record of the end arrives or is lost.
LEMMA EndStep ==
  ASSUME OutcomesInv, NEW a \in Bridged, EndArrives(a) \/ EndLost(a)
  PROVE  FarKeeps
<1>1. PICK e, r : e = far[a] /\ r = stream[a]
  OBVIOUS
<1>2. r \in States /\ (r.fate = "complete" => r.finished)
  BY <1>1, BridgedFacts
<1>3. Answers(a) /\ ~Item(a)
  BY DEF EndArrives, EndLost
<1>4. /\ a \in Opened /\ e.fate = "open" /\ ~r.reading
      /\ r.sent = e.enc /\ r.fate # "open"
  BY <1>1, <1>3, AnswersFacts
<1>5. PICK f : /\ FarEnds(a, f, stream[a])
               /\ f = "error" \/ (InOrder(a) /\ f = r.fate)
  BY <1>1 DEF EndArrives, EndLost
<1>6. r.fate \in {"complete", "error", "returned"}
  BY <1>2, <1>4 DEF States
<1>7. \/ f \in {"error", "returned"}
      \/ f = "complete" /\ r.finished /\ e.seq = r.sent
  BY <1>1, <1>2, <1>4, <1>5, <1>6 DEF InOrder
<1> QED  BY <1>1, <1>4, <1>5, <1>7, FarEndsStep

\* return() of the far reader.
LEMMA FarReturnsStep ==
  ASSUME OutcomesInv, NEW a \in Bridged, FarReturns(a)
  PROVE  FarKeeps
<1>1. a \in Opened /\ far[a].fate = "open" /\ ~far[a].pulling
  BY DEF FarReturns
<1>2. ~stream[a].reading
  BY <1>1, BridgedFacts DEF Carried
<1>3. PICK s : FarEnds(a, "returned", s) /\ (s = stream[a] \/ s = Returned(stream[a]))
  BY DEF FarReturns
<1> QED  BY <1>1, <1>2, <1>3, FarEndsStep

\* A reader at hand does not move bridged streams.
LEMMA OtherReaderStep ==
  ASSUME OutcomesInv, NEW a \in Attempts \ Bridged,
         ReaderNext(a) \/ ReaderReturns(a), far' = far
  PROVE  FarKeeps
<1>1. StreamsInv
  BY DEF OutcomesInv
<1>2. Keeps
  BY <1>1, ReaderStep
<1>3. PICK t : stream' = [stream EXCEPT ![a] = t]
  BY DEF ReaderNext, ReaderReturns, Effect
<1>4. \A b \in Bridged : stream'[b] = stream[b]
  BY <1>1, <1>3, OutcomesAssumption DEF StreamsInv, StreamsPart
<1> QED  BY <1>2, <1>4 DEF FarKeeps, FarMoves, FarPart, OutcomesInv

\* Every step keeps the invariant and the promises.
LEMMA OutcomesKeep ==
  ASSUME OutcomesInv, [OutcomesNext]_outcomeVars
  PROVE  FarKeeps
<1>1. CASE CallsStep /\ far' = far
  <2>1. Keeps /\ PumpMoves
    BY <1>1, CallsStepKeeps DEF OutcomesInv
  <2> QED  BY <1>1, <2>1, PumpsFar
<1>2. CASE UNCHANGED outcomeVars
  <2>1. UNCHANGED allVars /\ far' = far
    BY <1>2 DEF outcomeVars
  <2>2. Keeps /\ stream' = stream
    BY <2>1, StreamsStutter DEF OutcomesInv, allVars
  <2> QED  BY <2>1, <2>2, PumpsFar DEF PumpMoves
<1>3. ASSUME NEW a \in Bridged, NEW b \in BOOLEAN,
             \/ FarNext(a) \/ FarReturns(a) \/ ItemLost(a)
             \/ EndArrives(a) \/ EndLost(a) \/ ItemArrives(a, b)
      PROVE  FarKeeps
  BY <1>3, FarNextStep, FarReturnsStep, ItemLostStep, EndStep, ItemArrivesStep
<1> QED  BY <1>1, <1>2, <1>3, OtherReaderStep DEF OutcomesNext

\* The state of Channel when the readers are far.
FarSents == [a \in Bridged |-> Upto(stream[a].sent)]
FarFinisheds == {a \in Bridged : stream[a].finished}
FarGots == [a \in Bridged |-> far[a].got]
FarFates == [a \in Bridged |-> far[a].fate]

\* Whatever moves a bridged stream or its far end is a step of Channel for the
\* far reader, or none.
LEMMA FarChannelStep ==
  ASSUME OutcomesInv, FarMoves
  PROVE  [FarPromise!Next]_(FarPromise!channel)
<1>1. CASE far' = far /\ \A b \in Bridged : stream'[b] = stream[b]
  BY <1>1 DEF FarPromise!channel
<1>2. ASSUME NEW a \in Bridged, NEW d, NEW t,
             far' = [far EXCEPT ![a] = d], stream' = [stream EXCEPT ![a] = t],
             FarPromised(far[a], stream[a], d, t)
      PROVE  [FarPromise!Next]_(FarPromise!channel)
  <2>1. PICK e, s : e = far[a] /\ s = stream[a]
    OBVIOUS
  <2>2. /\ far \in [Bridged -> Ends] /\ stream \in [Attempts -> States]
        /\ s.sent \in Nat /\ e.seq \in Nat /\ e.got = Upto(e.seq)
    BY <2>1, BridgedFacts
       DEF OutcomesInv, FarPart, StreamsInv, StreamsPart, Carried, Upto
  <2>3. /\ stream'[a] = t /\ \A b \in Bridged \ {a} : stream'[b] = stream[b]
        /\ far'[a] = d /\ \A b \in Bridged \ {a} : far'[b] = far[b]
    BY <1>2, <2>2, OutcomesAssumption
  <2>4. /\ FarSents' = [FarSents EXCEPT ![a] = Upto(t.sent)]
        /\ t.sent = s.sent => FarSents' = FarSents
        /\ t.finished => FarFinisheds' = FarFinisheds \union {a}
        /\ (t.finished <=> s.finished) => FarFinisheds' = FarFinisheds
    <3>1. FarSents' = [FarSents EXCEPT ![a] = Upto(t.sent)]
      BY <2>3 DEF FarSents
    <3>2. t.sent = s.sent => FarSents' = FarSents
      <4>1. ASSUME t.sent = s.sent
            PROVE  \A b \in Bridged : stream'[b].sent = stream[b].sent
        BY <2>1, <2>3, <4>1
      <4> QED  BY <4>1 DEF FarSents
    <3>3. t.finished => FarFinisheds' = FarFinisheds \union {a}
      BY <2>3 DEF FarFinisheds
    <3>4. (t.finished <=> s.finished) => FarFinisheds' = FarFinisheds
      BY <2>1, <2>3 DEF FarFinisheds
    <3> QED  BY <3>1, <3>2, <3>3, <3>4
  <2>5. /\ FarGots' = [FarGots EXCEPT ![a] = d.got]
        /\ FarFates' = [FarFates EXCEPT ![a] = d.fate]
        /\ d.got = e.got => FarGots' = FarGots
        /\ d.fate = e.fate => FarFates' = FarFates
    BY <2>1, <2>3 DEF FarGots, FarFates
  <2>6. /\ FarSents[a] = Upto(s.sent) /\ FarGots[a] = e.got
        /\ FarFates[a] = e.fate /\ (a \in FarFinisheds <=> s.finished)
    BY <2>1 DEF FarSents, FarGots, FarFates, FarFinisheds
  <2>7. CASE /\ d.got = e.got /\ d.fate = e.fate /\ t.sent = s.sent
             /\ s.finished => t.finished
    <3>1. CASE t.finished
      <4>1. FarPromise!Finish(a)
        BY <2>4, <2>5, <2>7, <3>1
           DEF FarPromise!Finish, FarSents, FarFinisheds, FarGots, FarFates, Upto
      <4> QED  BY <4>1 DEF FarPromise!Next
    <3>2. CASE ~t.finished
      BY <2>4, <2>5, <2>7, <3>2
         DEF FarPromise!channel, FarSents, FarFinisheds, FarGots, FarFates, Upto
    <3> QED  BY <3>1, <3>2
  <2>8. CASE /\ d.got = e.got /\ d.fate = e.fate /\ e.fate = "open"
             /\ ~s.finished /\ ~t.finished /\ s.sent < MaxItems /\ t.sent = s.sent + 1
    <3>1. PICK v \in 1 .. MaxItems : v = s.sent + 1
      BY <2>2, <2>8, StreamsAssumption
    <3>2. Upto(t.sent) = Append(FarSents[a], v)
      BY <2>2, <2>6, <2>8, <3>1, NextItem DEF Upto
    <3>3. /\ FarSents' = [FarSents EXCEPT ![a] = Append(@, v)] /\ FarGots' = FarGots
          /\ FarFates' = FarFates /\ FarFinisheds' = FarFinisheds
          /\ FarFates[a] = "open" /\ a \notin FarFinisheds
      BY <2>4, <2>5, <2>6, <2>8, <3>2
    <3>4. FarPromise!Send(a)
      BY <3>1, <3>3
         DEF FarPromise!Send, FarPromise!Open, FarSents, FarFinisheds, FarGots, FarFates, Upto
    <3> QED  BY <3>4 DEF FarPromise!Next
  <2>9. CASE /\ d.got = Append(e.got, e.seq + 1) /\ d.fate = e.fate /\ e.fate = "open"
             /\ t.sent = s.sent /\ (t.finished <=> s.finished) /\ e.seq < s.sent
    <3>1. /\ Len(FarGots[a]) = e.seq /\ Len(FarSents[a]) = s.sent
          /\ FarSents[a][e.seq + 1] = e.seq + 1
      BY <2>2, <2>6, <2>9 DEF Upto
    <3>2. /\ FarGots' = [FarGots EXCEPT ![a] = Append(@, FarSents[a][Len(@) + 1])]
          /\ FarSents' = FarSents /\ FarFates' = FarFates /\ FarFinisheds' = FarFinisheds
          /\ FarFates[a] = "open" /\ Len(FarGots[a]) < Len(FarSents[a])
      BY <2>4, <2>5, <2>6, <2>9, <3>1
    <3>3. FarPromise!Receive(a)
      BY <3>2
         DEF FarPromise!Receive, FarPromise!Open, FarSents, FarFinisheds, FarGots, FarFates, Upto
    <3> QED  BY <3>3 DEF FarPromise!Next
  <2>10. CASE /\ d.got = e.got /\ t.sent = s.sent /\ e.fate = "open"
              /\ \/ d.fate = "complete" /\ t.finished /\ e.seq = s.sent
                 \/ d.fate = "error" /\ (s.finished => t.finished)
                 \/ d.fate = "returned" /\ (t.finished <=> s.finished)
    <3>1. /\ FarSents' = FarSents /\ FarGots' = FarGots
          /\ FarFates' = [FarFates EXCEPT ![a] = d.fate] /\ FarFates[a] = "open"
      BY <2>4, <2>5, <2>6, <2>10
    <3>2. CASE d.fate = "complete" /\ t.finished /\ e.seq = s.sent
      <4>1. FarGots[a] = FarSents[a]
        BY <2>2, <2>6, <3>2
      <4>2. FarPromise!Complete(a)
        BY <2>4, <3>1, <3>2, <4>1
           DEF FarPromise!Complete, FarPromise!Settle, FarPromise!Open, FarSents,
               FarFinisheds, FarGots, FarFates, Upto
      <4> QED  BY <4>2 DEF FarPromise!Next
    <3>3. CASE d.fate = "error" /\ (s.finished => t.finished)
      <4>1. FarFinisheds' \in {FarFinisheds, FarFinisheds \union {a}}
        BY <2>4, <3>3
      <4>2. FarPromise!Break(a)
        BY <3>1, <3>3, <4>1
           DEF FarPromise!Break, FarPromise!Settle, FarPromise!Open, FarSents,
               FarFinisheds, FarGots, FarFates, Upto
      <4> QED  BY <4>2 DEF FarPromise!Next
    <3>4. CASE d.fate = "returned" /\ (t.finished <=> s.finished)
      <4>1. FarPromise!Return(a)
        BY <2>4, <3>1, <3>4
           DEF FarPromise!Return, FarPromise!Settle, FarPromise!Open, FarSents,
               FarFinisheds, FarGots, FarFates, Upto
      <4> QED  BY <4>1 DEF FarPromise!Next
    <3> QED  BY <2>10, <3>2, <3>3, <3>4
  <2>11. FarPromised(e, s, d, t)
    BY <1>2, <2>1
  <2> QED  BY <2>7, <2>8, <2>9, <2>10, <2>11 DEF FarPromised
<1> QED  BY <1>1, <1>2 DEF FarMoves

\* The first state.
LEMMA OutcomesStart ==
  ASSUME OutcomesInit
  PROVE  OutcomesInv /\ FarPromise!Init
<1>1. StreamsInv
  BY StreamsStart DEF OutcomesInit
<1>2. ASSUME NEW a \in Bridged
      PROVE  /\ stream[a].sent = 0 /\ ~stream[a].finished /\ ~stream[a].reading
             /\ stream[a].fate = "open"
  BY OutcomesAssumption DEF OutcomesInit, StreamsInit, Fresh
<1>3. PICK e : e = [started |-> FALSE, pulling |-> FALSE, enc |-> 0, seq |-> 0,
                    again |-> FALSE, got |-> <<>>, fate |-> "open"]
  OBVIOUS
<1>4. far = [a \in Bridged |-> e]
  BY <1>3 DEF OutcomesInit
<1>5. e \in Ends
  <2>1. <<>> \in Seq(Nat)
    OBVIOUS
  <2> QED  BY <1>3, <2>1 DEF Ends
<1>6. [i \in 1 .. 0 |-> i] = <<>>
  OBVIOUS
<1>7. e.seq = 0 /\ e.enc = 0 /\ ~e.pulling /\ e.fate = "open" /\ e.got = <<>>
  BY <1>3
<1>8. e.got = [i \in 1 .. e.seq |-> i]
  BY <1>6, <1>7
<1>9. FarPart
  BY <1>2, <1>4, <1>5, <1>7, <1>8 DEF FarPart, Carried
<1>10. FarPromise!Init
  BY <1>2, <1>4, <1>6, <1>7 DEF FarPromise!Init
<1> QED  BY <1>1, <1>9, <1>10 DEF OutcomesInv

\* What the invariant says of streams.
LEMMA StreamsInvHolds ==
  ASSUME StreamsInv
  PROVE  DemandDriven /\ NobodyIsForgotten
<1>1. TypeOK /\ stream \in [Attempts -> States] /\ \A a \in Opened : Attached(a)
  BY TypeParts DEF StreamsInv, StreamsPart, CallsInv, SessionPart, ProviderPart
<1>2. ASSUME NEW a \in Opened
      PROVE  /\ stream[a].queue = <<>> /\ stream[a].credit = 0
             /\ stream[a].reading = stream[a].waiting
             /\ ~stream[a].shut =>
                  stream[a].waiting = (stream[a].pump \in {"granted", "pulling"})
  <2>1. PICK s : s = stream[a] /\ Sound(s)
    BY OpenedFacts
  <2>2. s.reading \in BOOLEAN /\ s.waiting \in BOOLEAN
    BY <2>1 DEF Sound, Steady, States
  <2> QED  BY <2>1, <2>2 DEF Sound, Steady
<1>3. DemandDriven
  BY <1>1, <1>2 DEF DemandDriven, StreamsTypeOK
<1>4. ASSUME NEW a \in Opened
      PROVE  /\ stream[a].ended =>
                  /\ a \in done /\ stream[a].shut
                  /\ handler[a] = "iterating" => stream[a].returning
             /\ stream[a].waiting =>
                  a \notin done \/ (a \in aborted /\ ~stream[a].noticed)
  <2>1. PICK s : s = stream[a] /\ Sound(s)
    BY OpenedFacts
  <2>2. (s.ended => s.shut) /\ (s.waiting => ~s.shut) /\ (s.noticed => s.shut)
    BY <2>1 DEF Sound, Steady
  <2> QED  BY <1>1, <2>1, <2>2 DEF Attached
<1>5. NobodyIsForgotten
  BY <1>4 DEF NobodyIsForgotten
<1> QED  BY <1>3, <1>5

-----------------------------------------------------------------------------
(* The theorems.                                                           *)

\* The inductive invariant of calls, streams and far readers.
THEOREM OutcomesInvariance == OutcomesSpec => []OutcomesInv
<1>1. OutcomesInit => OutcomesInv
  BY OutcomesStart
<1>2. OutcomesInv /\ [OutcomesNext]_outcomeVars => OutcomesInv'
  BY OutcomesKeep DEF FarKeeps, Keeps, OutcomesInv
<1> QED  BY <1>1, <1>2, PTL DEF OutcomesSpec

\* The tables of outstanding calls are exact and within their bounds
\* (prepare, cancel, commit of ContractSession).
THEOREM TablesStayExact == OutcomesSpec => []TablesAreExact
<1>1. OutcomesInv => TablesAreExact
  BY CallsInvHolds DEF OutcomesInv, StreamsInv
<1> QED  BY <1>1, OutcomesInvariance, PTL

\* Callers get the answer of the handler of their own call or of one that asked
\* the same (ContractSession.unary and the provider's ledger).
THEOREM AnswersStayOwn == OutcomesSpec => []AnswersAreOwn
<1>1. OutcomesInv => AnswersAreOwn
  BY CallsInvHolds DEF OutcomesInv, StreamsInv
<1> QED  BY <1>1, OutcomesInvariance, PTL

\* No call outlives the call that made it (the parent's controller in prepare).
THEOREM ChildrenEndFirst == OutcomesSpec => []NoOrphans
<1>1. OutcomesInv => NoOrphans
  BY CallsInvHolds DEF OutcomesInv, StreamsInv
<1> QED  BY <1>1, OutcomesInvariance, PTL

\* A key starts no second handler while the first runs or its record is kept
\* (the ledger of the provider).
THEOREM KeysActOnce == OutcomesSpec => NoSecondEffect
<1>1. OutcomesInv /\ [OutcomesNext]_outcomeVars => OneEffect
  BY OutcomesKeep DEF FarKeeps, Keeps
<1> QED  BY <1>1, OutcomesInvariance, PTL DEF OutcomesSpec, NoSecondEffect, OneEffect

\* Nothing is produced ahead of the reader (CreditWindow, BoundedChannel).
THEOREM StreamsAreDemandDriven == OutcomesSpec => []DemandDriven
<1>1. OutcomesInv => DemandDriven
  BY StreamsInvHolds DEF OutcomesInv
<1> QED  BY <1>1, OutcomesInvariance, PTL

\* An ended stream holds nothing, and a reader that waits will hear of the end
\* of its attempt (terminal, abandon, failure).
THEOREM ReadersAreRemembered == OutcomesSpec => []NobodyIsForgotten
<1>1. OutcomesInv => NobodyIsForgotten
  BY StreamsInvHolds DEF OutcomesInv
<1> QED  BY <1>1, OutcomesInvariance, PTL

\* Every stream implements Channel for the reader at hand (stream,
\* BoundedChannel).
THEOREM StreamsImplementChannel == OutcomesSpec => ChannelIsKept
<1>1. OutcomesInit => Promise!Init
  BY ChannelStart DEF OutcomesInit
<1>2. OutcomesInv /\ [OutcomesNext]_outcomeVars => [Promise!Next]_(Promise!channel)
  BY OutcomesKeep, ChannelStep DEF FarKeeps, Keeps, OutcomesInv
<1> QED  BY <1>1, <1>2, OutcomesInvariance, PTL DEF OutcomesSpec, ChannelIsKept, Promise!Spec

\* Every bridged stream implements Channel for its far reader, over a transport
\* that loses and repeats records (streamOutcomes, readStreamOutcomes).
THEOREM RecordsImplementChannel == OutcomesSpec => FarChannelIsKept
<1>1. OutcomesInit => far \in [Bridged -> Ends] /\ FarPromise!Init
  BY OutcomesStart DEF OutcomesInv, FarPart
<1>2. OutcomesInv /\ [OutcomesNext]_outcomeVars => [FarPromise!Next]_(FarPromise!channel)
  BY OutcomesKeep, FarChannelStep DEF FarKeeps
<1> QED  BY <1>1, <1>2, OutcomesInvariance, PTL
         DEF OutcomesSpec, FarChannelIsKept, FarPromise!Spec

=============================================================================
