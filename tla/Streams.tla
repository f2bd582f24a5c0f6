------------------------------- MODULE Streams -------------------------------
(***************************************************************************)
(* Streamed calls of in-process capabilities: ContractSession.stream with  *)
(* its BoundedChannel (packages/acap-contracts/src/runtime.ts) and its     *)
(* CreditWindow (stream.ts), beside the unary calls of Calls.  A stream is *)
(* an attempt like any other: prepare(), the tables, the deadline, the     *)
(* parent and the cancellation are those of Calls.                         *)
(*                                                                         *)
(* Three parties move each stream: the reader (next, return), the pump     *)
(* (which runs from one await to the next in one step) and the source, the *)
(* provider's iterator.  cancel() only rejects the failure promise of the  *)
(* attempt; the channel hears of it in a later step.                       *)
(***************************************************************************)
EXTENDS Calls

CONSTANTS
  MaxStreams, \* bound: streams opened
  MaxItems,   \* bound: items a source produces
  Capacity    \* binding.streamCapacity

ASSUME StreamsAssumption ==
  {MaxStreams, MaxItems} \subseteq Nat /\ Capacity \in Nat \ {0}

VARIABLE stream   \* per attempt: channel, credits, pump and reader

allVars == <<vars, stream>>

\* queue to waiting: BoundedChannel; credit, shut: CreditWindow; pump: where
\* the pump is ("granted" and "refused" are the settled promises of take());
\* returning: the iterator was told to return; noticed: the rejection of
\* failure reached the channel; reading to fate: the reader and what it was
\* answered; sent, finished: the items the source produced, and its end.
States == [queue : Seq(Nat), done : BOOLEAN, ended : BOOLEAN,
           error : BOOLEAN, waiting : BOOLEAN,
           credit : 0 .. Capacity, shut : BOOLEAN,
           pump : {"taking", "granted", "refused", "pulling", "over"},
           returning : BOOLEAN, noticed : BOOLEAN, reading : BOOLEAN,
           got : Seq(Nat), fate : {"open", "complete", "error", "returned"},
           sent : Nat, finished : BOOLEAN]

\* Mutant: the pump starts with a credit.
FreshEager == [queue |-> <<>>, done |-> FALSE, ended |-> FALSE,
          error |-> FALSE, waiting |-> FALSE, credit |-> 0, shut |-> FALSE,
          pump |-> "granted", returning |-> FALSE, noticed |-> FALSE,
          reading |-> FALSE, got |-> <<>>, fate |-> "open", sent |-> 0,
          finished |-> FALSE]

\* A stream whose pump awaits its first credit; also one not yet opened.
Fresh == [queue |-> <<>>, done |-> FALSE, ended |-> FALSE, error |-> FALSE,
          waiting |-> FALSE, credit |-> 0, shut |-> FALSE, pump |-> "taking",
          returning |-> FALSE, noticed |-> FALSE, reading |-> FALSE,
          got |-> <<>>, fate |-> "open", sent |-> 0, finished |-> FALSE]

StreamsTypeOK == TypeOK /\ stream \in [Attempts -> States]

StreamsInit == Init /\ stream = [a \in Attempts |-> Fresh]

\* The attempts that are streams.
Opened == {a \in Made : pc[a] = "streaming"}

-----------------------------------------------------------------------------
(* BoundedChannel and CreditWindow.                                        *)

\* CreditWindow.close(): a pump that waits for a credit is refused.
Shut(s) ==
  [s EXCEPT !.credit = 0, !.shut = TRUE,
            !.pump = IF @ = "taking" THEN "refused" ELSE @]

\* take() at the top of the pump's loop.
Taking(s) ==
  IF s.shut THEN [s EXCEPT !.pump = "refused"]
  ELSE IF s.credit > 0 THEN [s EXCEPT !.credit = @ - 1, !.pump = "granted"]
  ELSE [s EXCEPT !.pump = "taking"]

\* grant(1); beyond the maximum it throws out of next(), whose reading flag
\* then stays.
Granted(s) ==
  IF s.shut THEN s
  ELSE IF s.credit >= Capacity THEN [s EXCEPT !.reading = TRUE]
  ELSE IF s.pump = "taking" THEN [s EXCEPT !.pump = "granted"]
  ELSE [s EXCEPT !.credit = @ + 1]

\* The promise of the reader settles with outcome f.
Answered(s, f) ==
  [s EXCEPT !.waiting = FALSE, !.reading = FALSE,
            !.fate = IF @ = "open" THEN f ELSE @]

\* The promise of the reader settles with item v.
Handed(s, v) ==
  [s EXCEPT !.waiting = FALSE, !.reading = FALSE, !.got = Append(@, v)]

\* The channel is over for the reader: terminal().
Terminal(s, f) == Shut([Answered(s, f) EXCEPT !.ended = TRUE])

\* The callback abandoned(): no credits, and the iterator returns.  That
\* the attempt is cancelled is in Effect.
Abandoned(s) == [Shut(s) EXCEPT !.returning = TRUE]

\* Mutant: a reader that waits is not told.
FailedSilently(s) ==
  IF s.ended \/ s.error THEN s
  ELSE Abandoned([s EXCEPT !.done = TRUE, !.queue = <<>>, !.error = TRUE])

\* fail().
Failed(s) ==
  LET f == Abandoned([s EXCEPT !.done = TRUE, !.queue = <<>>, !.error = TRUE])
  IN  IF s.ended \/ s.error THEN s
      ELSE IF s.waiting THEN Terminal(f, "error") ELSE f

\* finish().
Finished(s) ==
  IF s.done \/ s.ended THEN s
  ELSE LET f == [s EXCEPT !.done = TRUE]
       IN  IF s.waiting THEN Terminal(f, "complete") ELSE f

\* push() of item v and the pump's reaction.  valid: validate() accepts the
\* item; an item that does not conform is queued as 0.
Pushed(s, v, valid) ==
  CASE s.done \/ s.ended -> [s EXCEPT !.pump = "over"]
    [] s.waiting /\ valid -> Taking(Handed(s, v))
    [] s.waiting /\ ~valid ->
         [Terminal(Failed([s EXCEPT !.waiting = FALSE]), "error")
            EXCEPT !.pump = "over"]
    [] ~s.waiting /\ Len(s.queue) >= Capacity ->
         [Failed(s) EXCEPT !.pump = "over"]
    [] OTHER -> Taking([s EXCEPT !.queue = Append(@, IF valid THEN v ELSE 0)])

\* Mutant: the error of a channel reads as its end.
ReadSwallowing(s, live) ==
  CASE s.ended -> Answered(s, "complete")
    [] ~s.ended /\ s.queue # <<>> ->
         IF live THEN [Handed(s, Head(s.queue)) EXCEPT !.queue = Tail(@)]
         ELSE Terminal(Failed(s), "error")
    [] ~s.ended /\ s.queue = <<>> /\ s.done -> Terminal(s, "complete")
    [] OTHER -> [s EXCEPT !.waiting = TRUE, !.reading = TRUE]

\* next() of the channel; live: assertLive() would not throw.
Read(s, live) ==
  CASE s.ended -> Answered(s, "complete")
    [] ~s.ended /\ s.error -> Terminal(s, "error")
    [] ~s.ended /\ ~s.error /\ s.queue # <<>> ->
         IF live /\ Head(s.queue) # 0
         THEN [Handed(s, Head(s.queue)) EXCEPT !.queue = Tail(@)]
         ELSE Terminal(Failed(s), "error")
    [] ~s.ended /\ ~s.error /\ s.queue = <<>> /\ s.done ->
         Terminal(s, "complete")
    [] OTHER -> [s EXCEPT !.waiting = TRUE, !.reading = TRUE]

\* return(); the reader that waits is answered first.
Returned(s) ==
  IF s.ended THEN s
  ELSE Terminal(Abandoned([s EXCEPT !.queue = <<>>, !.done = TRUE]),
                "returned")

-----------------------------------------------------------------------------
(* The attempt behind a stream.                                            *)

\* assertLive(): a committed attempt is done but not aborted.
Alive(a) ==
  /\ a \notin aborted
  /\ request[a].session \notin closed /\ ~withdrawn
  /\ clock < request[a].deadline /\ request[a].session \notin denied

\* commit() of attempt a.
Commit(a) ==
  /\ done' = done \union {a} /\ TableWithout({a})
  /\ UNCHANGED <<clock, request, pc, aborted, outcome, ended>>

\* Stream a becomes s: abandoned() cancels the attempt, terminal() commits
\* it, and both do nothing to an attempt that is done.
Effect(a, s) ==
  /\ stream' = [stream EXCEPT ![a] = s]
  /\ IF s.returning /\ ~stream[a].returning THEN Cancel({a})
     ELSE IF s.ended /\ ~stream[a].ended THEN Commit(a)
     ELSE UNCHANGED <<clock, request, pc, done, aborted, outcome, table, ended>>
  /\ UNCHANGED <<ledger, outside>>

\* stream() up to the first await of the pump.
Open(q) ==
  LET a == Len(request) + 1
  IN  /\ a \in Attempts /\ Cardinality(Opened) < MaxStreams
      /\ Admissible(q) /\ q.key = NoKey
      /\ q.parent # 0 => handler[q.parent] \in {"running", "iterating"}
      /\ request' = Append(request, q)
      /\ pending' = [pending EXCEPT ![<<q.session, q.id>>] = a]
      /\ admitted' = admitted \union {a}
      /\ pc' = [pc EXCEPT ![a] = "streaming"]
      /\ handler' = [handler EXCEPT ![a] = "iterating"]
      /\ UNCHANGED <<clock, done, aborted, outcome, ledger, outside, ended,
                     stream>>

\* stream() when the handler throws or returns no iterable: the channel fails
\* and with it the attempt.
OpenFails(q) ==
  LET a == Len(request) + 1
  IN  /\ a \in Attempts /\ Cardinality(Opened) < MaxStreams
      /\ Admissible(q) /\ q.key = NoKey
      /\ q.parent # 0 => handler[q.parent] \in {"running", "iterating"}
      /\ request' = Append(request, q)
      /\ pc' = [pc EXCEPT ![a] = "streaming"]
      /\ handler' = [handler EXCEPT ![a] = "ended"]
      /\ stream' = [stream EXCEPT ![a] = [Failed(Fresh) EXCEPT !.pump = "over"]]
      /\ done' = done \union {a} /\ aborted' = aborted \union {a}
      /\ UNCHANGED <<clock, outcome, table, ledger, outside, ended>>

\* The failure promise of a cancelled attempt reaches the channel.
FailureReaches(a) ==
  /\ a \in Opened /\ a \in aborted /\ ~stream[a].noticed
  /\ Effect(a, [Failed(stream[a]) EXCEPT !.noticed = TRUE])
  /\ UNCHANGED handler

-----------------------------------------------------------------------------
(* The pump and the source.                                                *)

\* The pump after take(): it pulls the source, or the channel fails.
PumpResumes(a) ==
  /\ a \in Opened /\ stream[a].pump \in {"granted", "refused"}
  /\ Effect(a, IF stream[a].pump = "granted" /\ Alive(a)
               THEN [stream[a] EXCEPT !.pump = "pulling"]
               ELSE [Failed(stream[a]) EXCEPT !.pump = "over"])
  /\ UNCHANGED handler

\* The source yields its next item and the pump pushes it.  An item that is
\* dropped or does not conform does not count as sent.
Yields(a, valid) ==
  LET s == stream[a]
      v == s.sent + 1
      after == IF Alive(a) THEN Pushed(s, v, valid)
               ELSE [Failed(s) EXCEPT !.pump = "over"]
      taken == after.got # s.got \/ after.queue # s.queue
  IN  /\ a \in Opened /\ s.pump = "pulling" /\ s.sent < MaxItems
      /\ Effect(a, [after EXCEPT !.sent = IF taken THEN v ELSE @])
      /\ UNCHANGED handler

\* The source ends (well) or throws.
SourceEnds(a, well) ==
  LET s == [stream[a] EXCEPT !.finished = well]
  IN  /\ a \in Opened /\ s.pump = "pulling"
      /\ handler' = [handler EXCEPT ![a] = "ended"]
      /\ Effect(a, [IF well /\ Alive(a) THEN Finished(s) ELSE Failed(s)
                      EXCEPT !.pump = "over"])

\* The source has run the return() it was told.
SourceReturns(a) ==
  /\ a \in Opened /\ stream[a].returning /\ handler[a] = "iterating"
  /\ stream[a].pump # "pulling"
  /\ handler' = [handler EXCEPT ![a] = "ended"]
  /\ UNCHANGED <<clock, request, pc, done, aborted, outcome, table, ledger,
                 outside, ended, stream>>

-----------------------------------------------------------------------------
(* The reader.                                                             *)

\* next(); a second one before the first is answered is refused and changes
\* nothing.
ReaderNext(a) ==
  /\ a \in Opened /\ ~stream[a].reading
  /\ Effect(a, Granted(Read(stream[a], Alive(a))))
  /\ UNCHANGED handler

\* return().
ReaderReturns(a) ==
  /\ a \in Opened
  /\ Effect(a, Returned(stream[a]))
  /\ UNCHANGED handler

\* The steps of calls, streams and sources that are not the reader's.
CallsStep ==
  \/ Next /\ UNCHANGED stream
  \/ \E s \in Sessions, n \in Ids, i \in Inputs, d \in Deadlines,
        p \in Made \union {0} :
       LET q == [session |-> s, id |-> n, key |-> i[1], body |-> i[2],
                 deadline |-> Deadline(d, p), parent |-> p]
       IN  Open(q) \/ OpenFails(q)
  \/ \E a \in Attempts :
       \/ FailureReaches(a) \/ PumpResumes(a) \/ SourceReturns(a)
       \/ \E b \in BOOLEAN : Yields(a, b) \/ SourceEnds(a, b)

StreamsNext ==
  CallsStep \/ \E a \in Attempts : ReaderNext(a) \/ ReaderReturns(a)

StreamsSpec == StreamsInit /\ [][StreamsNext]_allVars

-----------------------------------------------------------------------------

\* The streams as abstract channels.
Promise == INSTANCE Channel WITH
  Readers <- Attempts, Items <- 1 .. MaxItems,
  sent <- [a \in Attempts |-> [i \in 1 .. stream[a].sent |-> i]],
  finished <- {a \in Attempts : stream[a].finished},
  got <- [a \in Attempts |-> stream[a].got],
  fate <- [a \in Attempts |-> stream[a].fate]

\* Every stream keeps what Channel promises: items in order, none lost or
\* twice, one outcome, and "complete" only when the source ended and every
\* item was handed out, whatever cancellations, deadlines and early returns
\* do between the awaits of the pump (stream, BoundedChannel).
ChannelIsKept == Promise!Spec

\* The types are kept and nothing is produced ahead of the reader: while the
\* credits are open the pump is past take() exactly while the reader waits,
\* so that no item is ever buffered, no credit is left over, and neither
\* push() nor grant() can find its limit exceeded, whatever the capacity
\* (CreditWindow, BoundedChannel.push, the reader's next()).
DemandDriven ==
  /\ StreamsTypeOK
  /\ \A a \in Opened :
       LET s == stream[a]
       IN  /\ s.queue = <<>> /\ s.credit = 0 /\ s.reading = s.waiting
           /\ ~s.shut => s.waiting = (s.pump \in {"granted", "pulling"})

\* Nobody is forgotten.  A stream that ended for its reader holds nothing: its
\* place in the tables is free, its credits are closed, and a source that is
\* still running was told to return (abandon, terminal, commit).  While the
\* reader waits its attempt is outstanding, so that the deadline timer still
\* runs, or the failure is on its way to the channel: a source that never
\* yields again cannot hold it (prepare, cancel, stop, failure.catch, fail).
NobodyIsForgotten ==
  \A a \in Opened :
    /\ stream[a].ended =>
         /\ a \in done /\ stream[a].shut
         /\ handler[a] = "iterating" => stream[a].returning
    /\ stream[a].waiting =>
         a \notin done \/ (a \in aborted /\ ~stream[a].noticed)

=============================================================================
