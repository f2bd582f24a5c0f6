---------------------------- MODULE MCScheduler ----------------------------
(***************************************************************************)
(* Small instances of Scheduler for TLC.                                   *)
(***************************************************************************)
EXTENDS Scheduler, TLC

CONSTANTS a, b   \* two physical sessions

TwoSessions == {a, b}
SessionSymmetry == Permutations(TwoSessions)

=============================================================================
