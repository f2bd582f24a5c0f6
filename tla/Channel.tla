------------------------------- MODULE Channel -------------------------------
(***************************************************************************)
(* What streams promise their readers, whatever carries them: the items of *)
(* the source in order, none lost and none twice, and then one outcome.    *)
(* The outcome is "complete" only when the source came to its end and      *)
(* every item was handed out; an error or an early return may come at any  *)
(* time and ends everything.                                               *)
(***************************************************************************)
EXTENDS Naturals, Sequences

CONSTANTS
  Readers,   \* one for each stream
  Items      \* what a source may produce

VARIABLES
  sent,      \* per stream: the items the source produced for its reader
  finished,  \* the streams whose source came to its end
  got,       \* per stream: the items handed to the reader
  fate       \* per stream: "open", "complete", "error" or "returned"

channel == <<sent, finished, got, fate>>

Init ==
  /\ sent = [r \in Readers |-> <<>>] /\ got = [r \in Readers |-> <<>>]
  /\ finished = {} /\ fate = [r \in Readers |-> "open"]

Open(r) == fate[r] = "open"
Settle(r, f) == Open(r) /\ fate' = [fate EXCEPT ![r] = f]

\* The source produces an item.
Send(r) ==
  /\ Open(r) /\ r \notin finished
  /\ \E v \in Items : sent' = [sent EXCEPT ![r] = Append(@, v)]
  /\ UNCHANGED <<finished, got, fate>>

\* The reader is handed the next item.
Receive(r) ==
  /\ Open(r) /\ Len(got[r]) < Len(sent[r])
  /\ got' = [got EXCEPT ![r] = Append(@, sent[r][Len(@) + 1])]
  /\ UNCHANGED <<sent, finished, fate>>

\* An item goes to a waiting reader at once.
HandOver(r) ==
  /\ Open(r) /\ r \notin finished /\ got[r] = sent[r]
  /\ \E v \in Items : /\ sent' = [sent EXCEPT ![r] = Append(@, v)]
                      /\ got' = [got EXCEPT ![r] = Append(@, v)]
  /\ UNCHANGED <<finished, fate>>

\* The source comes to its end, perhaps after the reader has left.
Finish(r) == finished' = finished \union {r} /\ UNCHANGED <<sent, got, fate>>

\* Everything was handed out, and the reader is told.
Complete(r) ==
  /\ got[r] = sent[r] /\ Settle(r, "complete")
  /\ finished' = finished \union {r} /\ UNCHANGED <<sent, got>>

\* The reader is told of an error.
Break(r) ==
  /\ Settle(r, "error")
  /\ finished' \in {finished, finished \union {r}} /\ UNCHANGED <<sent, got>>

\* The reader leaves.
Return(r) == Settle(r, "returned") /\ UNCHANGED <<sent, finished, got>>

Next ==
  \E r \in Readers :
    \/ Send(r) \/ Receive(r) \/ HandOver(r) \/ Finish(r)
    \/ Complete(r) \/ Break(r) \/ Return(r)

Spec == Init /\ [][Next]_channel

=============================================================================
