------------------------------ MODULE MCSession ------------------------------
(* Instances of Session for TLC. *)
EXTENDS Session, TLC

CONSTANTS a, b

TwoSessions == {a, b}
SessionSymmetry == Permutations(TwoSessions)
NoContexts == {}
FirstContext == {1}
AllContexts == Contexts
AllCodes == Outcomes

=============================================================================
