------------------------------ MODULE Outcomes ------------------------------
(***************************************************************************)
(* A stream carried to its reader as numbered records: streamOutcomes, a   *)
(* transport, and readStreamOutcomes (packages/acap-contracts/src/         *)
(* stream.ts) on top of ContractSession.stream.  All three are generators  *)
(* that pull: nothing moves until the far reader asks, and one record is   *)
(* under way at a time.  The transport is the caller's; it may lose a      *)
(* record or deliver it twice.                                             *)
(***************************************************************************)
EXTENDS Streams

CONSTANT Bridged   \* the attempts whose stream is read through records

ASSUME OutcomesAssumption == Bridged \subseteq Attempts

VARIABLE far   \* per bridged attempt: the two generators and their reader

outcomeVars == <<allVars, far>>

\* started: the generators were pulled; pulling: the far reader waits; enc:
\* the last number of streamOutcomes; seq: that of readStreamOutcomes; again:
\* the transport will deliver the last record once more.
Ends == [started : BOOLEAN, pulling : BOOLEAN, enc : Nat, seq : Nat,
         again : BOOLEAN, got : Seq(Nat),
         fate : {"open", "complete", "error", "returned"}]

OutcomesInit ==
  /\ StreamsInit
  /\ far = [a \in Bridged |->
              [started |-> FALSE, pulling |-> FALSE, enc |-> 0, seq |-> 0,
               again |-> FALSE, got |-> <<>>, fate |-> "open"]]

\* The far reader gets an outcome and the near end of a stream becomes s.
FarEnds(a, f, s) ==
  /\ far' = [far EXCEPT ![a] = [@ EXCEPT !.pulling = FALSE, !.fate = f]]
  /\ Effect(a, s) /\ UNCHANGED handler

\* next() of the far reader.  A record that comes twice is out of sequence:
\* readStreamOutcomes throws, and leaving its loop returns the stream.
FarNext(a) ==
  LET e == far[a]
  IN  /\ a \in Opened /\ e.fate = "open" /\ ~e.pulling
      /\ IF e.again THEN FarEnds(a, "error", Returned(stream[a]))
         ELSE /\ far' = [far EXCEPT ![a] = [@ EXCEPT !.started = TRUE,
                                                     !.pulling = TRUE]]
              /\ Effect(a, Granted(Read(stream[a], Alive(a))))
              /\ UNCHANGED handler

\* The stream has answered the pull of streamOutcomes.
Answers(a) == a \in Opened /\ far[a].pulling /\ ~stream[a].reading

\* The answer is an item, which becomes the next record; otherwise it is the
\* end of the stream.
Item(a) == Len(stream[a].got) > far[a].enc

\* Mutant: the number of a record is not compared.
InOrderAlways(a) == TRUE

\* The number of the next record is the one readStreamOutcomes expects.
InOrder(a) == far[a].enc = far[a].seq

\* The record of an item arrives; again: a duplicate will follow.
ItemArrives(a, again) ==
  /\ Answers(a) /\ Item(a)
  /\ IF InOrder(a)
     THEN /\ far' = [far EXCEPT
                ![a].pulling = FALSE, ![a].again = again,
                ![a].enc = @ + 1, ![a].seq = @ + 1,
                ![a].got = Append(@, stream[a].got[Len(stream[a].got)])]
          /\ UNCHANGED <<vars, stream>>
     ELSE FarEnds(a, "error", Returned(stream[a]))

\* The record of an item is lost and the next one is pulled.
ItemLost(a) ==
  /\ Answers(a) /\ Item(a)
  /\ far' = [far EXCEPT ![a].enc = @ + 1]
  /\ Effect(a, Granted(Read(stream[a], Alive(a)))) /\ UNCHANGED handler

\* The record of the end arrives, in sequence or not.
EndArrives(a) ==
  /\ Answers(a) /\ ~Item(a)
  /\ FarEnds(a, IF InOrder(a) THEN stream[a].fate ELSE "error", stream[a])

\* It is lost: readStreamOutcomes misses a terminal record.
EndLost(a) ==
  /\ Answers(a) /\ ~Item(a) /\ FarEnds(a, "error", stream[a])

\* return() of the far reader; before the first next() it does not reach the
\* stream.
FarReturns(a) ==
  /\ a \in Opened /\ far[a].fate = "open" /\ ~far[a].pulling
  /\ FarEnds(a, "returned",
             IF far[a].started THEN Returned(stream[a]) ELSE stream[a])

OutcomesNext ==
  \/ CallsStep /\ UNCHANGED far
  \/ \E a \in Attempts \ Bridged :
       (ReaderNext(a) \/ ReaderReturns(a)) /\ UNCHANGED far
  \/ \E a \in Bridged :
       \/ FarNext(a) \/ FarReturns(a) \/ ItemLost(a)
       \/ EndArrives(a) \/ EndLost(a)
       \/ \E b \in BOOLEAN : ItemArrives(a, b)

OutcomesSpec == OutcomesInit /\ [][OutcomesNext]_outcomeVars

-----------------------------------------------------------------------------

\* The streams as their far readers see them.
FarPromise == INSTANCE Channel WITH
  Readers <- Bridged, Items <- 1 .. MaxItems,
  sent <- [a \in Bridged |-> [i \in 1 .. stream[a].sent |-> i]],
  finished <- {a \in Bridged : stream[a].finished},
  got <- [a \in Bridged |-> far[a].got],
  fate <- [a \in Bridged |-> far[a].fate]

\* The far reader is promised what the near one is, over a transport that
\* loses and repeats records: a gap, a duplicate or a missing end is an error
\* and never a shorter or longer stream that completes (streamOutcomes,
\* readStreamOutcomes).
FarChannelIsKept == far \in [Bridged -> Ends] /\ FarPromise!Spec

=============================================================================
