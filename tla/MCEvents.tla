------------------------------ MODULE MCEvents ------------------------------
(* An instance of Events for TLC: p publishes at the root, q subscribes below it. *)
EXTENDS Events, TLC

CONSTANTS p, q, root, child, b

MCParent == child :> root
MCContexts == {<<p, root>>, <<q, root>>, <<q, child>>}
Allow(i, s, kind, op, issued, expires) ==
  [instance |-> i, scope |-> s, kind |-> kind, ops |-> {op},
   issued |-> issued, expires |-> expires]
MCPolicy ==
  {Allow(p, root, "event", "publish", 0, 2), Allow(q, root, "event", "subscribe", 0, 2),
   Allow(q, child, "event", "subscribe", 0, 1),
   Allow(q, root, "secret", "read", 1, 2)}
MCContext == [x \in Subs |-> <<q, child>>]

=============================================================================
