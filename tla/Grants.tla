------------------------------- MODULE Grants -------------------------------
(***************************************************************************)
(* Authority in the host (packages/kernel/src/index.ts): grants bound to   *)
(* an instance and to one generation of a scope, derived from a grant in   *)
(* the parent scope, revoked or expired at any time; the audit log that    *)
(* issuing and secret reads must pass; and secret(), which uses a grant    *)
(* before and after its await.  What follows when an instance stops or a   *)
(* scope closes is Lifecycle's subject; here they do, and lose their       *)
(* grants.                                                                 *)
(*                                                                         *)
(* now() is the wall clock, and may be set back.  valid() reads it as it   *)
(* is; but fresh() comes before every authorize(), and a fresh() that      *)
(* finds the clock behind the last one that passed disposes every          *)
(* instance, so that none is ACTIVE for a later call (that the clock then  *)
(* stays broken is in Trust).  When it fails for another reason, expired   *)
(* documents or a failed write, that is no more than instances stopping.   *)
(*                                                                         *)
(* A grant's id is its place in the sequence: ids rise in the order of     *)
(* issue.  Its revision never changes, as records are never replaced, and  *)
(* is left out.                                                            *)
(***************************************************************************)
EXTENDS Integers, Sequences, FiniteSets, FiniteSetsExt

CONSTANTS
  Instances,
  Scopes, Root, Parent,  \* Parent[s] of every scope but Root
  Contexts,              \* pairs of an instance and a scope it may act in
  Policy,                \* the grants the operator may issue
  MaxGrants,             \* config.maxGrants
  AuditCapacity,         \* config.auditCapacity
  MaxGeneration,         \* bound: generations of a scope
  MaxTime,               \* bound: now() is at most this
  MaxReads,              \* bound: secret() calls
  MaxDrains              \* bound: drainAudit() calls

Operations == {"publish", "subscribe", "read"}
Kind(op) == IF op = "read" THEN "secret" ELSE "event"

ASSUME GrantsAssumption ==
  /\ Root \in Scopes /\ Parent \in [Scopes \ {Root} -> Scopes]
  /\ IsFiniteSet(Instances) /\ Contexts \subseteq Instances \X Scopes
  /\ Policy \subseteq [instance : Instances, scope : Scopes,
                       kind : {"event", "secret"}, ops : SUBSET Operations,
                       issued : Nat, expires : Nat]
  /\ {MaxGrants, AuditCapacity, MaxTime, MaxReads, MaxDrains} \subseteq Nat
  /\ MaxGeneration \in Nat \ {0}

VARIABLES
  clock,        \* now()
  mark,         \* #water.timeMs of trust: now() when fresh() last passed
  active,       \* instances in state ACTIVE
  generation,   \* per scope: the generation of the last one of that name
  open,         \* scopes that are OPEN
  grants,       \* #grants, in the order of issue
  audit,        \* length of #audit
  unavailable,  \* #auditUnavailable
  reads,        \* secret() calls: caller, scope generation, grant, where it is
  drains        \* drainAudit() calls

authority == <<clock, mark, active, generation, open, grants>>
auditVars == <<audit, unavailable, drains>>
grantVars == <<authority, auditVars, reads>>

Stored == [instance : Instances, scope : Scopes, generation : Nat,
           kind : {"event", "secret"}, ops : SUBSET Operations,
           issued : Nat, expires : Nat, parent : Nat, revoked : BOOLEAN]

GrantsTypeOK ==
  /\ clock \in 0 .. MaxTime /\ mark \in 0 .. MaxTime /\ active \subseteq Instances
  /\ generation \in [Scopes -> 1 .. MaxGeneration] /\ open \subseteq Scopes
  /\ grants \in Seq(Stored) /\ Len(grants) <= MaxGrants
  /\ audit \in 0 .. AuditCapacity /\ unavailable \in BOOLEAN

GrantsInit ==
  /\ clock = 0 /\ mark = 0 /\ active = Instances
  /\ generation = [s \in Scopes |-> 1] /\ open = Scopes
  /\ grants = <<>> /\ audit = 0 /\ unavailable = FALSE
  /\ reads = <<>> /\ drains = 0

-----------------------------------------------------------------------------
(* The audit log.                                                          *)

\* record() with emergency set, k times: a full log only raises the flag.
Note(k) ==
  /\ audit' = Min({audit + k, AuditCapacity})
  /\ unavailable' = (unavailable \/ audit + k > AuditCapacity)
  /\ UNCHANGED drains

\* record() of an ALLOW: a full log refuses what was to be recorded.
Admit ==
  /\ audit < AuditCapacity /\ audit' = audit + 1
  /\ UNCHANGED <<unavailable, drains>>

\* drainAudit().
DrainAudit ==
  /\ drains < MaxDrains /\ drains' = drains + 1
  /\ audit > 0 /\ audit' = 0
  /\ UNCHANGED <<authority, unavailable, reads>>

-----------------------------------------------------------------------------
(* fresh(), and what it stops.                                             *)

\* The grants when those with indices in K are revoked.
Revoking(K) ==
  [k \in DOMAIN grants |-> IF k \in K THEN [grants[k] EXCEPT !.revoked = TRUE]
                           ELSE grants[k]]

\* dispose() of the instances in I that are ACTIVE, up to its first await:
\* each leaves a record and loses its grants.  The step makes n more records.
Stops(I, n) ==
  /\ active' = active \ I
  /\ grants' = Revoking({k \in DOMAIN grants : grants[k].instance \in I \cap active})
  /\ Note(Cardinality(I \cap active) + n)

\* Mutant: the clock is not compared with the last look.
FreshUncompared == TRUE

\* The test of fresh().
Fresh == clock >= mark

\* fresh() passes.
Look == Fresh /\ mark' = clock

\* A step that makes n records, and whose live() gets as far as fresh() when
\* "reached" is true.
Looks(reached, n) ==
  \/ ~reached /\ Note(n) /\ UNCHANGED <<mark, active, grants>>
  \/ reached /\ Look /\ Note(n) /\ UNCHANGED <<active, grants>>
  \/ reached /\ ~Fresh /\ Stops(Instances, n) /\ UNCHANGED mark

-----------------------------------------------------------------------------
(* Grants.                                                                 *)

\* open(): the scope a context is bound to is in place, not a later one of
\* the same name.
IsOpen(s, n) == s \in open /\ generation[s] = n

\* valid() at time t: the grant and every grant it was derived from.
Holds(k, t) ==
  LET v[j \in DOMAIN grants] ==
        /\ ~grants[j].revoked
        /\ IsOpen(grants[j].scope, grants[j].generation)
        /\ grants[j].issued <= t /\ t < grants[j].expires
        /\ grants[j].parent = 0 \/ v[grants[j].parent]
  IN  v[k]

Valid(k) == Holds(k, clock)

\* matches(), with the operations asked for.
Matches(g, i, s, n, kind, ops) ==
  /\ g.instance = i /\ g.scope = s /\ g.generation = n /\ g.kind = kind
  /\ ops \subseteq g.ops

\* The grants that allow operation op to instance i in the scope now open.
Allowing(i, s, op) ==
  {k \in DOMAIN grants :
     Matches(grants[k], i, s, generation[s], Kind(op), {op}) /\ Valid(k)}

\* authorize() with a bound grant.
Authorized(i, s, n, op, k) ==
  /\ IsOpen(s, n) /\ Matches(grants[k], i, s, n, Kind(op), {op}) /\ Valid(k)

\* The grants in the parent scope that a grant of policy p can come from.
Sources(p) ==
  {k \in DOMAIN grants :
     /\ Matches(grants[k], p.instance, Parent[p.scope],
                generation[Parent[p.scope]], p.kind, p.ops)
     /\ grants[k].expires >= p.expires /\ Valid(k)}

\* issueGrant().
IssueGrant(p) ==
  LET k == Len(grants) + 1
      parent == IF p.scope = Root THEN 0 ELSE Min(Sources(p))
  IN  /\ k <= MaxGrants /\ p.instance \in active /\ p.scope \in open
      /\ <<p.instance, p.scope>> \in Contexts
      /\ p.issued <= clock /\ clock < p.expires
      /\ p.scope # Root => Sources(p) # {}
      /\ Look /\ Admit
      /\ grants' = Append(grants,
           [instance |-> p.instance, scope |-> p.scope,
            generation |-> generation[p.scope], kind |-> p.kind,
            ops |-> p.ops, issued |-> p.issued, expires |-> p.expires,
            parent |-> parent, revoked |-> FALSE])
      /\ UNCHANGED <<clock, active, generation, open, reads>>

\* revokeGrant().
RevokeGrant(k) ==
  /\ ~grants[k].revoked /\ grants' = Revoking({k})
  /\ Note(1) /\ UNCHANGED <<clock, mark, active, generation, open, reads>>

\* authorize() finds no grant for a live caller.
Denied(i, s, op) ==
  /\ i \in active /\ s \in open /\ Allowing(i, s, op) = {}
  /\ Look /\ Note(1)
  /\ UNCHANGED <<clock, active, generation, open, grants, reads>>

-----------------------------------------------------------------------------
(* secret().                                                               *)

\* Up to the await.
SecretAsked(i, s) ==
  /\ Len(reads) < MaxReads /\ i \in active /\ s \in open
  /\ Allowing(i, s, "read") # {}
  /\ Look /\ Admit
  /\ reads' = Append(reads, [instance |-> i, scope |-> s,
                             generation |-> generation[s],
                             grant |-> Min(Allowing(i, s, "read")),
                             at |-> "asked"])
  /\ UNCHANGED <<clock, active, generation, open, grants>>

\* open() and the test of the state, with which live() begins.
Lives(i, s, n) == i \in active /\ IsOpen(s, n)

\* live() and authorize() after the await.
StillReadable(r) ==
  /\ Lives(r.instance, r.scope, r.generation) /\ Fresh
  /\ Authorized(r.instance, r.scope, r.generation, "read", r.grant)

\* After the await; a denial is recorded only by authorize().
SecretAnswered(n) ==
  LET r == reads[n]
      lives == Lives(r.instance, r.scope, r.generation)
  IN  /\ r.at = "asked"
      /\ reads' = [reads EXCEPT ![n].at =
                     IF StillReadable(r) THEN "given" ELSE "refused"]
      /\ Looks(lives, IF lives /\ Fresh /\ ~StillReadable(r) THEN 1 ELSE 0)
      /\ UNCHANGED <<clock, generation, open>>

-----------------------------------------------------------------------------
(* What else changes authority.                                            *)

\* dispose() of an ACTIVE instance.
InstanceStops(i) ==
  /\ i \in active /\ Stops({i}, 0)
  /\ UNCHANGED <<clock, mark, generation, open, reads>>

\* Any other use of fresh(), its timer among them (scheduleTrust).
FreshPasses ==
  /\ Look
  /\ UNCHANGED <<clock, active, generation, open, grants, auditVars, reads>>

FreshFails ==
  /\ ~Fresh /\ active # {} /\ Stops(active, 0)
  /\ UNCHANGED <<clock, mark, generation, open, reads>>

\* A scope and those above it.
Above(s) ==
  LET up[t \in Scopes] == {t} \union IF t = Root THEN {} ELSE up[Parent[t]]
  IN  up[s]

\* destroyScope() up to its first await: the scopes below close too, and the
\* grants of all of them are revoked.
ScopeCloses(s) ==
  LET closing == {t \in Scopes : s \in Above(t)}
  IN  /\ s \in open \ {Root} /\ open' = open \ closing
      /\ grants' = Revoking({k \in DOMAIN grants : grants[k].scope \in closing})
      /\ Note(1) /\ UNCHANGED <<clock, mark, active, generation, reads>>

\* createScope() makes a new scope of an old name, for an owner.
ScopeReturns(s) ==
  /\ s \in Scopes \ open /\ generation[s] < MaxGeneration
  /\ Parent[s] \in open
  /\ \E i \in active : <<i, s>> \in Contexts
  /\ open' = open \union {s}
  /\ generation' = [generation EXCEPT ![s] = @ + 1]
  /\ Look /\ Admit
  /\ UNCHANGED <<clock, active, grants, reads>>

\* The clock runs on, or is set.
SetClock(t) ==
  /\ t # clock /\ clock' = t
  /\ UNCHANGED <<mark, active, generation, open, grants, auditVars, reads>>

GrantsNext ==
  \/ \E p \in Policy : IssueGrant(p)
  \/ \E k \in DOMAIN grants : RevokeGrant(k)
  \/ \E c \in Contexts :
       \/ SecretAsked(c[1], c[2])
       \/ \E op \in Operations : Denied(c[1], c[2], op)
  \/ \E n \in DOMAIN reads : SecretAnswered(n)
  \/ \E i \in Instances : InstanceStops(i)
  \/ \E s \in Scopes : ScopeCloses(s) \/ ScopeReturns(s)
  \/ \E t \in 0 .. MaxTime : SetClock(t)
  \/ DrainAudit \/ FreshPasses \/ FreshFails

-----------------------------------------------------------------------------

\* The grants that grant k was derived from, and k.
Chain(k) ==
  LET c[j \in DOMAIN grants] ==
        {j} \union IF grants[j].parent = 0 THEN {} ELSE c[grants[j].parent]
  IN  c[k]

\* Nothing on the way to the root was revoked, has expired or is yet to begin,
\* each scope is the one the grant was issued for, and the clock that says so
\* is not behind one that was looked at before.
Unbroken(k) ==
  /\ clock >= mark
  /\ \A j \in Chain(k) :
       /\ ~grants[j].revoked
       /\ grants[j].issued <= clock /\ clock < grants[j].expires
       /\ grants[j].scope \in open
       /\ grants[j].generation = generation[grants[j].scope]

\* Authority that is gone does not come back: a grant that was revoked, had
\* expired when the host last looked at the clock, or whose scope or source is
\* gone is never accepted again.  valid() alone would accept an expired one
\* when the clock is set back; that the time of the last look, at which every
\* use is judged, only moves on is the work of fresh() (valid, fresh, newScope).
AuthorityNeverReturns ==
  [][\A k \in DOMAIN grants : ~Holds(k, mark) => ~Holds(k, mark)']_grantVars

=============================================================================
