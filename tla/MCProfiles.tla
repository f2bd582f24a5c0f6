----------------------------- MODULE MCProfiles -----------------------------
(* An instance of Profiles, and with it of Lifecycle, for TLC. *)
EXTENDS Profiles

\* Instance 1 requires instance 2, which may be discovered later.
Pair == <<<<2>>, <<>>>>
Both == <<1, 2>>
OneScope == <<"a">>

\* What the theorems about profiles suppose of plan(), for this profile and for
\* every way in which two instances can require each other and be listed.
Lists == {<<>>} \union [1 .. 1 -> Instances] \union [1 .. 2 -> Instances]
With(R, L) == INSTANCE Profiles WITH Requires <- R, Plugins <- L

ASSUME PlansAreSound ==
  /\ PlanIsSound
  /\ \A R \in [Instances -> Lists], L \in Lists : With(R, L)!PlanIsSound

=============================================================================
