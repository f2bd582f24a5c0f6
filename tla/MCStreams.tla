------------------------------ MODULE MCStreams ------------------------------
(* An instance of Outcomes, with the streams of Streams and the unary calls of Calls, for TLC. *)
EXTENDS Outcomes, TLC

CONSTANTS m, n   \* request ids

TwoIds == {m, n}
IdSymmetry == Permutations(TwoIds)
KeyedAndPlain == {<<"k", "x">>, <<"k", "y">>, <<"none", "x">>}

=============================================================================
