---------------------------- MODULE EventsProofs ----------------------------
(***************************************************************************)
(* Proofs about Grants and Events, for any instances, scopes, policies,    *)
(* subscriptions and bounds.  valid() goes up a chain of grants; that the  *)
(* chain is well-founded (a grant is derived from an earlier one) is part  *)
(* of the invariant, and facts about chains go by the least grant that     *)
(* would break them.                                                       *)
(***************************************************************************)
EXTENDS Events, FiniteSetTheorems, SequenceTheorems, TLAPS

-----------------------------------------------------------------------------
(* Least elements.                                                         *)

\* A nonempty set of natural numbers has a least element.
LEMMA Least ==
  ASSUME NEW T \in SUBSET Nat, T # {}
  PROVE  \E x \in T : \A y \in T : x <= y
  <1> DEFINE R == OpToRel(<, Nat)
  <1>1. IsWellFoundedOn(R, Nat)
    BY NatLessThanWellFounded
  <1>2. \E x \in T : \A y \in T : <<y, x>> \notin R
    BY <1>1, WFMin
  <1>3. \A x, y \in Nat : x < y => <<x, y>> \in R
    BY DEF OpToRel
  <1> HIDE DEF R
  <1>4. PICK x \in T : \A y \in T : <<y, x>> \notin R
    BY <1>2
  <1>5. ASSUME NEW y \in T
        PROVE  x <= y
    <2>1. x \in Nat /\ y \in Nat
      OBVIOUS
    <2>2. <<y, x>> \notin R
      BY <1>4, Zenon
    <2>3. ~(y < x)
      BY <1>3, <2>1, <2>2, Zenon
    <2> QED BY <2>1, <2>3
  <1> QED BY <1>5

\* Min is that element.
LEMMA MinIsLeast ==
  ASSUME NEW T \in SUBSET Nat, T # {}
  PROVE  Min(T) \in T /\ \A y \in T : Min(T) <= y
  BY Least DEF Min

\* The places and elements of a sequence.
LEMMA SeqParts ==
  ASSUME NEW R, NEW q \in Seq(R)
  PROVE  /\ Len(q) \in Nat /\ DOMAIN q = 1 .. Len(q)
         /\ \A k \in DOMAIN q : q[k] \in R
  OBVIOUS

-----------------------------------------------------------------------------
(* Chains of grants.                                                       *)

Reads == [instance : Instances, scope : Scopes, generation : Nat,
          grant : Nat, at : {"asked", "given", "refused"}]

\* A grant is derived from an earlier one.
Derived == \A k \in DOMAIN grants : grants[k].parent < k

\* No grant is of a generation to come.
Dated ==
  \A k \in DOMAIN grants : grants[k].generation <= generation[grants[k].scope]

\* No grant is from after the last look at the clock: issueGrant() looks.
Begun == \A k \in DOMAIN grants : grants[k].issued <= mark

\* A call of secret() keeps to a grant that exists.
Bound ==
  /\ reads \in Seq(Reads)
  /\ \A n \in DOMAIN reads : reads[n].grant \in DOMAIN grants

GrantsInv == GrantsTypeOK /\ Derived /\ Dated /\ Begun /\ Bound

\* What valid() asks of one grant at time t.
GoodAt(j, t) ==
  /\ ~grants[j].revoked
  /\ IsOpen(grants[j].scope, grants[j].generation)
  /\ grants[j].issued <= t /\ t < grants[j].expires

\* What grants are, taken apart.
LEMMA GrantParts ==
  ASSUME GrantsInv
  PROVE  /\ DOMAIN grants = 1 .. Len(grants) /\ Len(grants) \in Nat
         /\ DOMAIN grants \subseteq Nat
         /\ \A j \in DOMAIN grants :
              /\ grants[j] \in Stored /\ grants[j].parent \in Nat
              /\ grants[j].parent < j
              /\ grants[j].parent # 0 => grants[j].parent \in DOMAIN grants
  <1>1. /\ DOMAIN grants = 1 .. Len(grants) /\ Len(grants) \in Nat
        /\ \A j \in DOMAIN grants : grants[j] \in Stored
    BY SeqParts DEF GrantsInv, GrantsTypeOK
  <1>2. \A j \in DOMAIN grants : grants[j].parent \in Nat
    BY <1>1 DEF Stored
  <1> QED BY <1>1, <1>2 DEF GrantsInv, Derived

\* The recursion of valid() has a solution: the largest set of grants that are
\* good and have their parent in the set.
LEMMA HoldsRecursion ==
  ASSUME GrantsInv, NEW t
  PROVE  \A k \in DOMAIN grants : \A j \in Nat :
           grants[k].parent = j
             => (Holds(k, t) <=> GoodAt(k, t) /\ (j = 0 \/ Holds(j, t)))
  <1> DEFINE D == DOMAIN grants
             F(X) == {j \in D : GoodAt(j, t) /\ (grants[j].parent = 0
                                              \/ grants[j].parent \in X)}
             G == UNION {X \in SUBSET D : X \subseteq F(X)}
             w == [j \in D |-> j \in G]
             Step(v) == [j \in D |->
                           /\ ~grants[j].revoked
                           /\ IsOpen(grants[j].scope, grants[j].generation)
                           /\ grants[j].issued <= t /\ t < grants[j].expires
                           /\ grants[j].parent = 0 \/ v[grants[j].parent]]
  <1>1. \A j \in D : grants[j].parent # 0 => grants[j].parent \in D
    BY GrantParts
  <1>2. G \subseteq F(G)
    OBVIOUS
  <1>3. F(G) \subseteq G
    <2>1. F(G) \subseteq F(F(G)) /\ F(G) \subseteq D
      BY <1>2
    <2> QED BY <2>1
  <1>4. w = Step(w)
    <2>1. \A j \in D :
            (j \in G) = (GoodAt(j, t) /\ (grants[j].parent = 0
                                            \/ grants[j].parent \in G))
      BY <1>2, <1>3
    <2>2. \A j \in D : grants[j].parent # 0
                        => w[grants[j].parent] = (grants[j].parent \in G)
      BY <1>1
    <2> HIDE DEF G
    <2>3. \A j \in D : w[j] = (j \in G)
      OBVIOUS
    <2>4. w = [j \in D |-> w[j]]
      OBVIOUS
    <2> HIDE DEF w
    <2>5. \A j \in D : w[j] = Step(w)[j]
      BY <2>1, <2>2, <2>3 DEF GoodAt
    <2>6. Step(w) = [j \in D |-> Step(w)[j]]
      OBVIOUS
    <2> HIDE DEF Step
    <2> QED BY <2>4, <2>5, <2>6, Zenon
  <1> DEFINE v == CHOOSE v : v = Step(v)
  <1>5. v = Step(v)
    BY <1>4
  <1>6. \A k : Holds(k, t) = v[k]
    BY DEF Holds
  <1>7. ASSUME NEW k \in D, NEW j \in Nat, grants[k].parent = j
        PROVE  v[k] = (GoodAt(k, t) /\ (j = 0 \/ v[j]))
    BY <1>5, <1>7 DEF GoodAt
  <1> HIDE DEF v
  <1> QED BY <1>6, <1>7

\* valid() at the time of the last look.
Stands(k) == GoodAt(k, mark)
HoldsUnfolds ==
  \A k \in DOMAIN grants : \A j \in Nat :
    grants[k].parent = j
      => (Holds(k, mark) <=> Stands(k) /\ (j = 0 \/ Holds(j, mark)))

\* It is its own recursion.
LEMMA MarkRecursion == GrantsInv => HoldsUnfolds
  BY HoldsRecursion DEF HoldsUnfolds, Stands

\* So is the chain of a grant.
ChainUnfolds ==
  \A k \in DOMAIN grants :
    Chain(k) = {k} \union IF grants[k].parent = 0 THEN {}
                          ELSE Chain(grants[k].parent)

\* The recursion of Chain has a solution: the grants that are in every set
\* that has the grant and the parents of its members.
LEMMA ChainRecursion == GrantsInv => ChainUnfolds
  <1> SUFFICES ASSUME GrantsInv PROVE ChainUnfolds
    OBVIOUS
  <1> DEFINE D == DOMAIN grants
             Up(j) == grants[j].parent
             Closed == {X \in SUBSET D : \A j \in X : Up(j) # 0 => Up(j) \in X}
             w == [j \in D |-> {i \in D : \A X \in Closed : j \in X => i \in X}]
             Step(c) == [j \in D |->
                           {j} \union IF grants[j].parent = 0 THEN {}
                                      ELSE c[grants[j].parent]]
  <1>1. \A j \in D : Up(j) # 0 => Up(j) \in D
    BY GrantParts
  <1>2. ASSUME NEW j \in D
        PROVE  w[j] = Step(w)[j]
    <2>1. \A k \in D : k \in w[k] /\ w[k] \in Closed
      BY <1>1
    <2>2. j \in w[j] /\ (Up(j) # 0 => w[Up(j)] \subseteq w[j])
      BY <1>1
    <2>3. CASE Up(j) = 0
      <3>1. {j} \in Closed
        BY <2>3
      <3>2. w[j] \subseteq {j}
        BY <3>1
      <3> QED BY <2>2, <2>3, <3>2
    <2>4. CASE Up(j) # 0
      <3>1. w[Up(j)] \in Closed /\ Up(j) \in w[Up(j)]
        BY <1>1, <2>1, <2>4
      <3>2. {j} \union w[Up(j)] \in Closed
        BY <3>1
      <3>3. w[j] \subseteq {j} \union w[Up(j)]
        BY <3>2
      <3>4. w[j] = {j} \union w[Up(j)]
        BY <2>2, <2>4, <3>3
      <3> HIDE DEF w
      <3> QED BY <2>4, <3>4
    <2> QED BY <2>3, <2>4
  <1>3. w = Step(w)
    <2>1. w = [j \in D |-> w[j]]
      OBVIOUS
    <2> HIDE DEF w
    <2>2. Step(w) = [j \in D |-> Step(w)[j]]
      OBVIOUS
    <2> HIDE DEF Step
    <2> QED BY <1>2, <2>1, <2>2, Zenon
  <1> DEFINE c == CHOOSE c : c = Step(c)
  <1>4. c = Step(c)
    BY <1>3
  <1>5. \A k \in D : Chain(k) = c[k]
    BY DEF Chain
  <1> QED BY <1>1, <1>4, <1>5 DEF ChainUnfolds

\* A valid grant is unbroken to the root when the clock is not behind: what
\* valid() finds on its way is true of every grant of the chain.
LEMMA ValidIsUnbroken ==
  ASSUME GrantsInv, NEW k \in DOMAIN grants, Valid(k), Fresh
  PROVE  Unbroken(k)
  <1> DEFINE Bad(i) == Holds(i, clock) /\ \E j \in Chain(i) : ~GoodAt(j, clock)
             T == {i \in DOMAIN grants : Bad(i)}
  <1>1. T = {}
    <2> SUFFICES ASSUME T # {} PROVE FALSE
      OBVIOUS
    <2>1. PICK i \in T : \A y \in T : i <= y
      BY Least, GrantParts
    <2>2. /\ i \in DOMAIN grants /\ i \in Nat /\ Holds(i, clock)
          /\ \E j \in Chain(i) : ~GoodAt(j, clock)
      BY GrantParts
    <2>3. /\ GoodAt(i, clock)
          /\ grants[i].parent = 0 \/ Holds(grants[i].parent, clock)
      BY <2>2, HoldsRecursion, GrantParts
    <2>4. grants[i].parent # 0
          /\ \E j \in Chain(grants[i].parent) : ~GoodAt(j, clock)
      BY <2>2, <2>3, ChainRecursion DEF ChainUnfolds
    <2>5. grants[i].parent \in T
      BY <2>2, <2>3, <2>4, GrantParts
    <2>6. grants[i].parent < i /\ grants[i].parent \in Nat
      BY <2>2, GrantParts
    <2> QED BY <2>1, <2>2, <2>5, <2>6
  <1>2. \A j \in Chain(k) : GoodAt(j, clock)
    BY <1>1 DEF Valid
  <1>3. clock >= mark
    BY DEF Fresh
  <1> QED BY <1>2, <1>3 DEF Unbroken, GoodAt, IsOpen

\* When single grants only lose what valid() asks of them, valid() only goes
\* from true to false.
LEMMA HoldsFades ==
  ASSUME GrantsInv, GrantsInv', DOMAIN grants \subseteq DOMAIN grants',
         \A k \in DOMAIN grants :
           /\ grants'[k].parent = grants[k].parent
           /\ Stands(k)' => Stands(k)
  PROVE  \A k \in DOMAIN grants : Holds(k, mark)' => Holds(k, mark)
  <1> DEFINE T == {i \in DOMAIN grants : Holds(i, mark)' /\ ~Holds(i, mark)}
  <1>1. HoldsUnfolds /\ HoldsUnfolds'
    BY MarkRecursion, PTL
  <1>2. T = {}
    <2> SUFFICES ASSUME T # {} PROVE FALSE
      OBVIOUS
    <2>1. PICK i \in T : \A y \in T : i <= y
      BY Least, GrantParts
    <2>2. i \in DOMAIN grants /\ i \in Nat /\ Holds(i, mark)' /\ ~Holds(i, mark)
      BY GrantParts
    <2>3. PICK j \in Nat : j = grants[i].parent
      BY <2>2, GrantParts
    <2>4. Stands(i)' /\ (j = 0 \/ Holds(j, mark)') /\ Stands(i)
      BY <1>1, <2>2, <2>3 DEF HoldsUnfolds
    <2>5. j # 0 /\ Holds(j, mark)' /\ ~Holds(j, mark)
      BY <1>1, <2>2, <2>3, <2>4 DEF HoldsUnfolds
    <2>6. j \in T /\ j < i
      BY <2>2, <2>3, <2>5, GrantParts
    <2> QED BY <2>1, <2>2, <2>6
  <1> QED BY <1>2

-----------------------------------------------------------------------------
(* Steps of Grants.                                                        *)

AuditOK == audit \in 0 .. AuditCapacity /\ unavailable \in BOOLEAN

\* No step makes a grant better, or gives it another parent.
Fades ==
  /\ DOMAIN grants \subseteq DOMAIN grants'
  /\ \A k \in DOMAIN grants :
       /\ grants'[k].parent = grants[k].parent
       /\ Stands(k)' => Stands(k)

\* A secret is handed out only under an unbroken grant.
ReadsAreAuthorized ==
  \A n \in DOMAIN reads :
    reads[n].at = "asked" /\ reads'[n].at = "given"
      => Unbroken(reads[n].grant) /\ reads[n].instance \in active

\* The same grants, with no more than some of them revoked.
Weakened ==
  /\ grants' \in Seq(Stored) /\ Len(grants') = Len(grants)
  /\ DOMAIN grants' = DOMAIN grants
  /\ \A k \in DOMAIN grants :
       /\ grants'[k].parent = grants[k].parent
       /\ grants'[k].scope = grants[k].scope
       /\ grants'[k].generation = grants[k].generation
       /\ grants'[k].issued = grants[k].issued
       /\ grants'[k].expires = grants[k].expires
       /\ grants[k].revoked => grants'[k].revoked

\* Steps that issue no grant and open no scope.
Calm ==
  /\ Weakened /\ generation' = generation
  /\ open' \subseteq open /\ active' \subseteq active
  /\ clock' \in 0 .. MaxTime /\ mark' \in 0 .. MaxTime /\ mark' >= mark
  /\ AuditOK'

\* Replacing an element of a sequence.
LEMMA SeqExcept ==
  ASSUME NEW R, NEW q \in Seq(R), NEW k \in DOMAIN q, NEW x \in R
  PROVE  LET r == [q EXCEPT ![k] = x]
         IN  /\ r \in Seq(R) /\ Len(r) = Len(q) /\ DOMAIN r = DOMAIN q
             /\ \A j \in DOMAIN q : r[j] = IF j = k THEN x ELSE q[j]
  OBVIOUS

\* The grants as they are.
LEMMA SameGrants ==
  ASSUME GrantsInv, grants' = grants
  PROVE  Weakened
  BY DEF Weakened, GrantsInv, GrantsTypeOK

\* Revoking only revokes (dispose, destroyScope, revokeGrant).
LEMMA RevokingWeakens ==
  ASSUME GrantsInv, NEW K, grants' = Revoking(K)
  PROVE  Weakened
  <1>1. PICK n \in Nat : n = Len(grants)
    BY GrantParts
  <1>2. DOMAIN grants = 1 .. n /\ \A k \in 1 .. n : grants[k] \in Stored
    BY <1>1, GrantParts
  <1>3. /\ DOMAIN grants' = 1 .. n
        /\ grants' = [k \in 1 .. n |-> grants'[k]]
        /\ \A k \in 1 .. n :
             grants'[k] = IF k \in K THEN [grants[k] EXCEPT !.revoked = TRUE]
                          ELSE grants[k]
    BY <1>2 DEF Revoking
  <1>4. ASSUME NEW k \in 1 .. n
        PROVE  /\ grants'[k] \in Stored
               /\ grants'[k].parent = grants[k].parent
               /\ grants'[k].scope = grants[k].scope
               /\ grants'[k].generation = grants[k].generation
               /\ grants'[k].issued = grants[k].issued
               /\ grants'[k].expires = grants[k].expires
               /\ grants[k].revoked => grants'[k].revoked
    <2>1. PICK g \in Stored : g = grants[k]
      BY <1>2
    <2>2. PICK h : h = [g EXCEPT !.revoked = TRUE]
      OBVIOUS
    <2>3. /\ h \in Stored /\ h.parent = g.parent /\ h.scope = g.scope
          /\ h.generation = g.generation /\ h.issued = g.issued
          /\ h.expires = g.expires /\ h.revoked
      BY <2>2 DEF Stored
    <2>4. grants'[k] = IF k \in K THEN h ELSE g
      BY <1>3, <2>1, <2>2
    <2> QED BY <2>1, <2>3, <2>4
  <1>5. grants' \in Seq(Stored) /\ Len(grants') = n
    BY <1>3, <1>4
  <1> QED BY <1>1, <1>2, <1>3, <1>4, <1>5 DEF Weakened

\* Recording keeps the log within its capacity (record).
LEMMA NoteStep ==
  ASSUME AuditOK, NEW k \in Nat, Note(k)
  PROVE  AuditOK'
  <1>1. AuditCapacity \in Nat /\ audit \in Nat /\ audit + k \in Nat
    BY GrantsAssumption DEF AuditOK
  <1>2. /\ Min({audit + k, AuditCapacity}) \in {audit + k, AuditCapacity}
        /\ Min({audit + k, AuditCapacity}) <= AuditCapacity
    BY <1>1, MinIsLeast
  <1>3. audit' \in 0 .. AuditCapacity
    BY <1>1, <1>2 DEF Note
  <1> QED BY <1>3, Zenon DEF Note, AuditOK

\* Parts of the invariant that most steps need.
LEMMA GrantsFacts ==
  ASSUME GrantsInv
  PROVE  /\ AuditOK /\ clock \in Nat /\ mark \in Nat /\ MaxTime \in Nat
         /\ clock \in 0 .. MaxTime /\ mark \in 0 .. MaxTime /\ mark >= mark
         /\ active \subseteq Instances /\ open \subseteq Scopes
         /\ grants' = grants => Weakened
  BY GrantsAssumption, SameGrants DEF GrantsInv, GrantsTypeOK, AuditOK

\* Stopping instances weakens their grants (dispose).
LEMMA StopsStep ==
  ASSUME GrantsInv, NEW I, NEW n \in Nat, Stops(I, n)
  PROVE  Weakened /\ active' \subseteq active /\ AuditOK'
  <1>1. Weakened /\ active' \subseteq active
    BY RevokingWeakens DEF Stops
  <1>2. IsFiniteSet(I \cap active)
    <2>1. I \cap active \subseteq Instances /\ IsFiniteSet(Instances)
      BY GrantsFacts, GrantsAssumption
    <2> QED BY <2>1, FS_Subset
  <1>3. PICK k \in Nat : k = Cardinality(I \cap active) + n
    BY <1>2, FS_CardinalityType
  <1>4. Note(k)
    BY <1>3 DEF Stops
  <1> QED BY <1>1, <1>4, GrantsFacts, NoteStep

\* What a step with live() in it may do to authority (fresh, live).
Looked(n) ==
  \/ Note(n) /\ UNCHANGED <<mark, active, grants>>
  \/ Look /\ Note(n) /\ UNCHANGED <<active, grants>>
  \/ Stops(Instances, n) /\ UNCHANGED mark

\* A look at the clock moves the mark on.
LEMMA LookStep ==
  ASSUME GrantsInv, Look
  PROVE  mark' \in 0 .. MaxTime /\ mark' >= mark
  BY GrantsFacts DEF Look, Fresh

\* A step with live() in it is calm.
LEMMA LookedStep ==
  ASSUME GrantsInv, NEW n \in Nat, Looked(n), UNCHANGED <<clock, generation, open>>
  PROVE  Calm
  <1>1. CASE Note(n) /\ UNCHANGED <<mark, active, grants>>
    BY <1>1, GrantsFacts, NoteStep DEF Calm
  <1>2. CASE Look /\ Note(n) /\ UNCHANGED <<active, grants>>
    BY <1>2, GrantsFacts, LookStep, NoteStep DEF Calm
  <1>3. CASE Stops(Instances, n) /\ UNCHANGED mark
    BY <1>3, GrantsFacts, StopsStep DEF Calm
  <1> QED BY <1>1, <1>2, <1>3 DEF Looked

\* Steps that leave authority alone are calm.
LEMMA IdleStep ==
  ASSUME GrantsInv, UNCHANGED authority, AuditOK'
  PROVE  Calm
  BY GrantsFacts DEF Calm, authority

\* Calm steps keep the invariant and make no grant better.
LEMMA CalmStep ==
  ASSUME GrantsInv, Calm, Bound'
  PROVE  GrantsInv' /\ Fades
  <1>1. GrantsTypeOK'
    BY DEF Calm, Weakened, GrantsInv, GrantsTypeOK, AuditOK
  <1>2. Derived' /\ Dated'
    BY DEF Calm, Weakened, GrantsInv, Derived, Dated
  <1>3. \A k \in DOMAIN grants :
          grants[k].issued \in Nat /\ grants[k].expires \in Nat
    BY GrantParts DEF Stored
  <1>4. mark \in Nat /\ mark' \in Nat /\ mark' >= mark
    BY GrantsFacts DEF Calm
  <1>5. Begun'
    BY <1>3, <1>4 DEF Calm, Weakened, GrantsInv, Begun
  <1>6. ASSUME NEW k \in DOMAIN grants, Stands(k)'
        PROVE  Stands(k)
    <2>1. grants[k].issued <= mark
      BY DEF GrantsInv, Begun
    <2>2. /\ ~grants'[k].revoked /\ mark' < grants'[k].expires
          /\ grants'[k].scope \in open'
          /\ generation'[grants'[k].scope] = grants'[k].generation
      BY <1>6 DEF Stands, GoodAt, IsOpen
    <2>3. /\ ~grants[k].revoked /\ mark' < grants[k].expires
          /\ grants[k].scope \in open
          /\ generation[grants[k].scope] = grants[k].generation
      BY <2>2 DEF Calm, Weakened
    <2>4. mark < grants[k].expires
      BY <1>3, <1>4, <2>3
    <2> QED BY <2>1, <2>3, <2>4 DEF Stands, GoodAt, IsOpen
  <1>7. Fades
    BY <1>6 DEF Calm, Weakened, Fades
  <1> QED BY <1>1, <1>2, <1>5, <1>7 DEF GrantsInv

\* Steps that leave the calls of secret() alone hand nothing out.
LEMMA NothingIsRead ==
  ASSUME UNCHANGED reads
  PROVE  ReadsAreAuthorized
  BY DEF ReadsAreAuthorized

\* Calm steps that leave the calls of secret() alone.
LEMMA QuietStep ==
  ASSUME GrantsInv, Calm, UNCHANGED reads
  PROVE  GrantsInv' /\ Fades /\ ReadsAreAuthorized
  <1>1. Bound'
    BY DEF GrantsInv, Bound, Calm, Weakened
  <1> QED BY <1>1, CalmStep, NothingIsRead

\* issueGrant() derives a grant from an earlier one.
LEMMA IssueGrantStep ==
  ASSUME GrantsInv, NEW p \in Policy, IssueGrant(p)
  PROVE  GrantsInv' /\ Fades
  <1> DEFINE k == Len(grants) + 1
             up == IF p.scope = Root THEN 0 ELSE Min(Sources(p))
  <1>1. PICK g : g = [instance |-> p.instance, scope |-> p.scope,
                      generation |-> generation[p.scope], kind |-> p.kind,
                      ops |-> p.ops, issued |-> p.issued,
                      expires |-> p.expires, parent |-> up, revoked |-> FALSE]
    OBVIOUS
  <1>2. /\ DOMAIN grants = 1 .. Len(grants) /\ Len(grants) \in Nat
        /\ grants \in Seq(Stored)
    BY GrantParts DEF GrantsInv, GrantsTypeOK
  <1>3. up \in Nat /\ up < k
    <2>1. CASE p.scope = Root
      BY <1>2, <2>1
    <2>2. CASE p.scope # Root
      <3>1. Sources(p) # {} /\ Sources(p) \subseteq DOMAIN grants
        BY <2>2 DEF IssueGrant, Sources
      <3>2. Min(Sources(p)) \in DOMAIN grants
        BY <1>2, <3>1, MinIsLeast
      <3> QED BY <1>2, <2>2, <3>2
    <2> QED BY <2>1, <2>2
  <1>4. p \in [instance : Instances, scope : Scopes,
               kind : {"event", "secret"}, ops : SUBSET Operations,
               issued : Nat, expires : Nat]
    BY GrantsAssumption
  <1>5. generation[p.scope] \in Nat
    BY <1>4, GrantsAssumption DEF GrantsInv, GrantsTypeOK
  <1>6. g \in Stored
    BY <1>1, <1>3, <1>4, <1>5 DEF Stored
  <1>7. grants' = Append(grants, g) /\ k <= MaxGrants
    BY <1>1 DEF IssueGrant
  <1>8. /\ grants' \in Seq(Stored) /\ Len(grants') = k
        /\ \A j \in DOMAIN grants : grants'[j] = grants[j]
        /\ grants'[k] = g
    BY <1>2, <1>6, <1>7, AppendProperties
  <1>9. DOMAIN grants' = 1 .. k /\ DOMAIN grants \subseteq DOMAIN grants'
        /\ \A j \in DOMAIN grants' : j \in DOMAIN grants \/ j = k
    BY <1>2, <1>8, SeqParts
  <1>10. UNCHANGED <<clock, active, generation, open, reads, unavailable>>
         /\ audit' \in 0 .. AuditCapacity
    BY GrantsAssumption DEF IssueGrant, Admit, GrantsInv, GrantsTypeOK
  <1>17. mark' \in 0 .. MaxTime /\ mark' >= mark /\ mark' = clock
    BY LookStep DEF IssueGrant, Look
  <1>11. GrantsTypeOK'
    BY <1>7, <1>8, <1>10, <1>17 DEF GrantsInv, GrantsTypeOK
  <1>12. Derived'
    BY <1>1, <1>3, <1>8, <1>9 DEF GrantsInv, Derived
  <1>13. g.scope = p.scope /\ g.generation = generation[p.scope]
    BY <1>1
  <1>14. Dated'
    BY <1>5, <1>8, <1>9, <1>10, <1>13 DEF GrantsInv, Dated
  <1>15. Bound'
    BY <1>9, <1>10 DEF GrantsInv, Bound
  <1>16. Begun'
    <2>1. g.issued = p.issued /\ p.issued <= clock
      BY <1>1 DEF IssueGrant
    <2>2. ASSUME NEW j \in DOMAIN grants'
          PROVE  grants'[j].issued <= mark'
      <3>1. CASE j = k
        BY <1>8, <1>17, <2>1, <3>1
      <3>2. CASE j \in DOMAIN grants
        <4>1. grants'[j] = grants[j] /\ grants[j].issued \in Nat
              /\ grants[j].issued <= mark /\ mark \in Nat /\ mark' \in Nat
          BY <1>8, <1>17, <3>2, GrantParts, GrantsFacts DEF GrantsInv, Begun, Stored
        <4> QED BY <1>17, <4>1
      <3> QED BY <1>9, <3>1, <3>2
    <2> QED BY <2>2 DEF Begun
  <1>18. ASSUME NEW j \in DOMAIN grants, Stands(j)'
         PROVE  Stands(j)
    <2>1. grants'[j] = grants[j] /\ grants[j].expires \in Nat
          /\ grants[j].issued <= mark /\ mark \in Nat /\ mark' \in Nat
      BY <1>8, <1>17, GrantParts, GrantsFacts DEF GrantsInv, Begun, Stored
    <2>2. mark < grants[j].expires
      BY <1>17, <1>18, <2>1 DEF Stands, GoodAt
    <2> QED BY <1>10, <1>18, <2>1, <2>2 DEF Stands, GoodAt, IsOpen
  <1>19. Fades
    BY <1>8, <1>9, <1>18 DEF Fades
  <1> QED BY <1>11, <1>12, <1>14, <1>15, <1>16, <1>19 DEF GrantsInv

\* A scope that returns is of a generation that no grant is of (createScope).
LEMMA ScopeReturnsStep ==
  ASSUME GrantsInv, NEW s \in Scopes, ScopeReturns(s)
  PROVE  GrantsInv' /\ Fades
  <1>1. /\ UNCHANGED <<clock, active, grants, reads, unavailable>>
        /\ audit' \in 0 .. AuditCapacity
    BY GrantsAssumption DEF ScopeReturns, Admit, GrantsInv, GrantsTypeOK
  <1>10. /\ mark' \in 0 .. MaxTime /\ mark' >= mark
         /\ mark \in Nat /\ mark' \in Nat
    BY LookStep, GrantsFacts DEF ScopeReturns
  <1>2. /\ generation \in [Scopes -> 1 .. MaxGeneration]
        /\ generation' = [generation EXCEPT ![s] = generation[s] + 1]
        /\ generation[s] < MaxGeneration /\ MaxGeneration \in Nat
        /\ s \notin open /\ open' = open \union {s}
    BY GrantsAssumption DEF ScopeReturns, GrantsInv, GrantsTypeOK
  <1>3. /\ generation' \in [Scopes -> 1 .. MaxGeneration]
        /\ \A t \in Scopes : generation'[t] >= generation[t]
        /\ generation'[s] > generation[s]
        /\ \A t \in Scopes \ {s} : generation'[t] = generation[t]
    BY <1>2
  <1>4. \A k \in DOMAIN grants : grants[k].scope \in Scopes
                                 /\ grants[k].generation \in Nat
    BY GrantParts DEF Stored
  <1>5. GrantsTypeOK'
    BY <1>1, <1>2, <1>3, <1>10 DEF GrantsInv, GrantsTypeOK
  <1>6. Derived' /\ Bound'
    BY <1>1 DEF GrantsInv, Derived, Bound
  <1>11. \A k \in DOMAIN grants : /\ grants[k].issued <= mark
                                  /\ grants[k].issued \in Nat
                                  /\ grants[k].expires \in Nat
    BY GrantParts DEF GrantsInv, Begun, Stored
  <1>12. Begun'
    BY <1>1, <1>10, <1>11 DEF Begun
  <1>7. ASSUME NEW k \in DOMAIN grants
        PROVE  grants[k].generation <= generation'[grants[k].scope]
    BY <1>2, <1>3, <1>4 DEF GrantsInv, Dated
  <1>8. ASSUME NEW k \in DOMAIN grants, Stands(k)'
        PROVE  Stands(k)
    <2>1. /\ grants[k].scope \in open'
          /\ generation'[grants[k].scope] = grants[k].generation
      BY <1>1, <1>8 DEF Stands, GoodAt, IsOpen
    <2>2. grants[k].scope # s
      BY <1>2, <1>3, <1>4, <2>1 DEF GrantsInv, Dated
    <2>3. mark < grants[k].expires
      BY <1>1, <1>8, <1>10, <1>11 DEF Stands, GoodAt
    <2>4. grants[k].scope \in open
          /\ generation[grants[k].scope] = grants[k].generation
      BY <1>2, <1>3, <1>4, <2>1, <2>2
    <2> QED BY <1>1, <1>8, <1>11, <2>3, <2>4 DEF Stands, GoodAt, IsOpen
  <1>9. Dated' /\ Fades
    BY <1>1, <1>7, <1>8 DEF Dated, Fades
  <1> QED BY <1>5, <1>6, <1>9, <1>12 DEF GrantsInv

\* A step of secret() before its await binds the call to a grant.
LEMMA SecretAskedStep ==
  ASSUME GrantsInv, NEW i \in Instances, NEW s \in Scopes, SecretAsked(i, s)
  PROVE  GrantsInv' /\ Fades /\ ReadsAreAuthorized
  <1> DEFINE may == Allowing(i, s, "read")
  <1>1. PICK r : r = [instance |-> i, scope |-> s,
                      generation |-> generation[s], grant |-> Min(may),
                      at |-> "asked"]
    OBVIOUS
  <1>2. reads' = Append(reads, r)
        /\ UNCHANGED <<clock, active, generation, open, grants>>
    BY <1>1 DEF SecretAsked
  <1>3. Min(may) \in DOMAIN grants /\ Min(may) \in Nat
    <2>1. may # {} /\ may \subseteq DOMAIN grants
      BY DEF SecretAsked, Allowing
    <2> QED BY <2>1, GrantParts, MinIsLeast
  <1>4. generation[s] \in Nat
    BY GrantsAssumption DEF GrantsInv, GrantsTypeOK
  <1>5. r \in Reads /\ r.grant \in DOMAIN grants
    BY <1>1, <1>3, <1>4 DEF Reads
  <1>6. reads \in Seq(Reads)
    BY DEF GrantsInv, Bound
  <1>7. /\ reads' \in Seq(Reads) /\ Len(reads') = Len(reads) + 1
        /\ \A n \in 1 .. Len(reads) : reads'[n] = reads[n]
        /\ reads'[Len(reads) + 1] = r
    BY <1>2, <1>5, <1>6, AppendProperties
  <1>8. /\ DOMAIN reads = 1 .. Len(reads) /\ Len(reads) \in Nat
        /\ DOMAIN reads' = 1 .. Len(reads) + 1
    BY <1>6, <1>7, SeqParts
  <1>10. Bound'
    BY <1>2, <1>5, <1>7, <1>8 DEF GrantsInv, Bound
  <1>11. AuditOK'
    BY GrantsAssumption DEF SecretAsked, Admit, AuditOK, GrantsInv, GrantsTypeOK
  <1>12. Calm
    BY <1>2, <1>11, GrantsFacts, LookStep DEF Calm, SecretAsked
  <1>13. GrantsInv' /\ Fades
    BY <1>10, <1>12, CalmStep
  <1>14. ReadsAreAuthorized
    BY <1>7, <1>8 DEF ReadsAreAuthorized
  <1> QED BY <1>13, <1>14

\* After its await secret() hands the value out under a grant that is unbroken
\* at that moment, or refuses.
LEMMA SecretAnsweredStep ==
  ASSUME GrantsInv, NEW n \in DOMAIN reads, SecretAnswered(n)
  PROVE  GrantsInv' /\ Fades /\ ReadsAreAuthorized
  <1> DEFINE end == IF StillReadable(reads[n]) THEN "given" ELSE "refused"
  <1>1. PICK r : r = [reads[n] EXCEPT !.at = end]
    OBVIOUS
  <1>2. reads \in Seq(Reads) /\ reads[n] \in Reads
    BY SeqParts DEF GrantsInv, Bound
  <1>3. reads' = [reads EXCEPT ![n] = r]
    BY <1>1 DEF SecretAnswered
  <1>4. r \in Reads /\ r.grant = reads[n].grant /\ r.at = end
    BY <1>1, <1>2 DEF Reads
  <1>5. /\ reads' \in Seq(Reads) /\ DOMAIN reads' = DOMAIN reads
        /\ \A m \in DOMAIN reads : reads'[m] = IF m = n THEN r ELSE reads[m]
    BY <1>2, <1>3, <1>4, SeqExcept
  <1>6. Calm
    <2>1. \E k \in {0, 1} : Looked(k)
      BY DEF SecretAnswered, Looks, Looked
    <2>2. UNCHANGED <<clock, generation, open>>
      BY DEF SecretAnswered
    <2> QED BY <2>1, <2>2, LookedStep
  <1>7. Bound'
    BY <1>4, <1>5, <1>6 DEF GrantsInv, Bound, Calm, Weakened
  <1>10. GrantsInv' /\ Fades
    BY <1>6, <1>7, CalmStep
  <1>11. StillReadable(reads[n])
           => Unbroken(reads[n].grant) /\ reads[n].instance \in active
    BY ValidIsUnbroken DEF StillReadable, Lives, Authorized, GrantsInv, Bound
  <1>12. ASSUME NEW m \in DOMAIN reads, reads[m].at = "asked",
                reads'[m].at = "given"
         PROVE  Unbroken(reads[m].grant) /\ reads[m].instance \in active
    BY <1>4, <1>5, <1>11, <1>12
  <1>13. ReadsAreAuthorized
    BY <1>12 DEF ReadsAreAuthorized
  <1> QED BY <1>10, <1>13

\* Any step of Grants.
LEMMA GrantsStep ==
  ASSUME GrantsInv, GrantsNext
  PROVE  GrantsInv' /\ Fades /\ ReadsAreAuthorized
  <1>3. ASSUME NEW p \in Policy, IssueGrant(p)
        PROVE  GrantsInv' /\ Fades /\ ReadsAreAuthorized
    BY <1>3, IssueGrantStep, NothingIsRead DEF IssueGrant
  <1>4. ASSUME NEW k \in DOMAIN grants, RevokeGrant(k)
        PROVE  GrantsInv' /\ Fades /\ ReadsAreAuthorized
    <2>1. Weakened /\ AuditOK'
      BY <1>4, GrantsFacts, RevokingWeakens, NoteStep DEF RevokeGrant
    <2>2. Calm /\ UNCHANGED reads
      BY <1>4, <2>1, GrantsFacts DEF RevokeGrant, Calm
    <2> QED BY <2>2, QuietStep
  <1>5. ASSUME NEW x \in Contexts, SecretAsked(x[1], x[2])
        PROVE  GrantsInv' /\ Fades /\ ReadsAreAuthorized
    <2>1. x[1] \in Instances /\ x[2] \in Scopes
      BY GrantsAssumption
    <2> QED BY <1>5, <2>1, SecretAskedStep
  <1>6. ASSUME NEW x \in Contexts, NEW op \in Operations, Denied(x[1], x[2], op)
        PROVE  GrantsInv' /\ Fades /\ ReadsAreAuthorized
    <2>1. Looked(1) /\ UNCHANGED <<clock, generation, open, reads>>
      BY <1>6 DEF Denied, Looked
    <2> QED BY <2>1, LookedStep, QuietStep
  <1>7. ASSUME NEW n \in DOMAIN reads, SecretAnswered(n)
        PROVE  GrantsInv' /\ Fades /\ ReadsAreAuthorized
    BY <1>7, SecretAnsweredStep
  <1>8. ASSUME NEW i \in Instances, InstanceStops(i)
        PROVE  GrantsInv' /\ Fades /\ ReadsAreAuthorized
    <2>1. Weakened /\ active' \subseteq active /\ AuditOK'
      BY <1>8, StopsStep DEF InstanceStops
    <2>2. Calm /\ UNCHANGED reads
      BY <1>8, <2>1, GrantsFacts DEF InstanceStops, Calm
    <2> QED BY <2>2, QuietStep
  <1>9. ASSUME NEW s \in Scopes, ScopeCloses(s)
        PROVE  GrantsInv' /\ Fades /\ ReadsAreAuthorized
    <2>1. Weakened
      BY <1>9, RevokingWeakens DEF ScopeCloses
    <2>2. AuditOK'
      BY <1>9, GrantsFacts, NoteStep DEF ScopeCloses
    <2>3. /\ open' \subseteq open
          /\ UNCHANGED <<clock, mark, active, generation, reads>>
      BY <1>9 DEF ScopeCloses
    <2>4. Calm
      BY <2>1, <2>2, <2>3, GrantsFacts DEF Calm
    <2> QED BY <2>3, <2>4, QuietStep
  <1>10. ASSUME NEW s \in Scopes, ScopeReturns(s)
         PROVE  GrantsInv' /\ Fades /\ ReadsAreAuthorized
    BY <1>10, ScopeReturnsStep, NothingIsRead DEF ScopeReturns
  <1>11. CASE DrainAudit
    <2>1. UNCHANGED <<authority, reads, unavailable>> /\ audit' = 0
      BY <1>11 DEF DrainAudit
    <2>2. AuditOK'
      BY <2>1, GrantsFacts, GrantsAssumption DEF AuditOK
    <2> QED BY <2>1, <2>2, IdleStep, QuietStep
  <1>12. ASSUME NEW t \in 0 .. MaxTime, SetClock(t)
         PROVE  GrantsInv' /\ Fades /\ ReadsAreAuthorized
    <2>1. /\ UNCHANGED <<mark, active, generation, open, grants, reads>>
          /\ clock' \in 0 .. MaxTime /\ AuditOK'
      BY <1>12, GrantsFacts DEF SetClock, auditVars, AuditOK
    <2>2. Calm
      BY <2>1, GrantsFacts DEF Calm
    <2> QED BY <2>1, <2>2, QuietStep
  <1>13. CASE FreshPasses
    <2>1. /\ UNCHANGED <<clock, active, generation, open, grants, reads>>
          /\ AuditOK' /\ Look
      BY <1>13, GrantsFacts DEF FreshPasses, auditVars, AuditOK
    <2>2. Calm
      BY <2>1, GrantsFacts, LookStep DEF Calm
    <2> QED BY <2>1, <2>2, QuietStep
  <1>14. CASE FreshFails
    <2>1. Weakened /\ active' \subseteq active /\ AuditOK'
      BY <1>14, StopsStep DEF FreshFails
    <2>2. Calm /\ UNCHANGED reads
      BY <1>14, <2>1, GrantsFacts DEF FreshFails, Calm
    <2> QED BY <2>2, QuietStep
  <1> QED BY <1>3, <1>4, <1>5, <1>6, <1>7, <1>8, <1>9, <1>10, <1>11, <1>12,
             <1>13, <1>14
          DEF GrantsNext

-----------------------------------------------------------------------------
(* Sequences of events.                                                    *)

\* Concatenation, as an operator whose definition the provers may ignore.
Cat(u, v) == u \o v

\* Concatenation is associative.
LEMMA CatAssociates ==
  ASSUME NEW E, NEW u \in Seq(E), NEW v \in Seq(E), NEW w \in Seq(E)
  PROVE  Cat(u, v) \in Seq(E) /\ Cat(Cat(u, v), w) = Cat(u, Cat(v, w))
  <1>1. u \o v \in Seq(E)
    OBVIOUS
  <1>2. (u \o v) \o w = u \o (v \o w)
    OBVIOUS
  <1> QED BY <1>1, <1>2 DEF Cat

\* A sequence of one element.
LEMMA Singleton ==
  ASSUME NEW E, NEW e \in E
  PROVE  <<e>> \in Seq(E) /\ Len(<<e>>) = 1 /\ <<e>>[1] = e
  OBVIOUS

\* A sequence that is not empty has a first element.
LEMMA FirstElement ==
  ASSUME NEW E, NEW q \in Seq(E), q # <<>>
  PROVE  1 \in DOMAIN q /\ q[1] \in E
  OBVIOUS

\* A queue is what lies before an element, the element, and the rest.
LEMMA QueueCut ==
  ASSUME NEW E, NEW q \in Seq(E), NEW k \in 1 .. Len(q)
  PROVE  /\ SubSeq(q, 1, k - 1) \in Seq(E) /\ q[k] \in E
         /\ <<q[k]>> \in Seq(E)
         /\ SubSeq(q, k + 1, Len(q)) \in Seq(E)
         /\ q = Cat(Cat(SubSeq(q, 1, k - 1), <<q[k]>>), SubSeq(q, k + 1, Len(q)))
         /\ Len(SubSeq(q, k + 1, Len(q))) <= Len(q)
         /\ \A j \in DOMAIN SubSeq(q, k + 1, Len(q)) :
              \E i \in DOMAIN q : SubSeq(q, k + 1, Len(q))[j] = q[i]
  <1>1. PICK n \in Nat : n = Len(q)
    OBVIOUS
  <1>2. /\ k \in Nat /\ k <= n /\ 1 <= k
        /\ DOMAIN q = 1 .. n /\ \A j \in 1 .. n : q[j] \in E
    BY <1>1
  <1>3. SubSeq(q, 1, k - 1) \in Seq(E)
    BY <1>2, SubSeqProperties
  <1>4. PICK rest : rest = SubSeq(q, k + 1, n)
    OBVIOUS
  <1>5. /\ rest \in Seq(E)
        /\ \A j \in 1 .. n - (k + 1) + 1 : rest[j] = q[k + 1 + j - 1]
    BY <1>2, <1>4, SubSeqProperties
  <1>6. Len(rest) = IF k + 1 <= n THEN n - (k + 1) + 1 ELSE 0
    BY <1>2, <1>4, SubSeqProperties
  <1>7. q[k] \in E /\ <<q[k]>> \in Seq(E)
    BY <1>2, Singleton
  <1>8. SubSeq(q, 1, k) = SubSeq(q, 1, k - 1) \o <<q[k]>>
    BY <1>1, <1>2, SubSeqRecursiveSecond
  <1>9. SubSeq(q, 1, k) \o rest = SubSeq(q, 1, n)
    <2>1. 1 \in 1 .. Len(q) + 1 /\ k \in 1 - 1 .. Len(q) /\ Len(q) \in k .. Len(q)
      BY <1>1, <1>2
    <2> QED BY <1>1, <1>4, <2>1, ConcatAdjacentSubSeq
  <1>10. SubSeq(q, 1, n) = q
    BY <1>1, SubSeqFull
  <1>11. q = Cat(Cat(SubSeq(q, 1, k - 1), <<q[k]>>), rest)
    BY <1>8, <1>9, <1>10, Zenon DEF Cat
  <1>12. PICK m : m = Len(rest)
    OBVIOUS
  <1>13. m = IF k + 1 <= n THEN n - (k + 1) + 1 ELSE 0
    BY <1>6, <1>12, Zenon
  <1>14. m <= n /\ \A j \in 1 .. m : j \in 1 .. n - (k + 1) + 1
                                    /\ k + 1 + j - 1 \in 1 .. n
    BY <1>2, <1>13
  <1>15. ASSUME NEW j \in DOMAIN rest
         PROVE  \E i \in DOMAIN q : rest[j] = q[i]
    <2>1. j \in 1 .. m
      BY <1>5, <1>12, SeqParts
    <2> QED BY <1>2, <1>5, <1>14, <2>1
  <1>16. \A j \in DOMAIN rest : \E i \in DOMAIN q : rest[j] = q[i]
    BY <1>15
  <1>17. Len(rest) <= Len(q) /\ rest = SubSeq(q, k + 1, Len(q))
    BY <1>1, <1>4, <1>12, <1>14, Zenon
  <1> QED BY <1>3, <1>5, <1>7, <1>11, <1>16, <1>17, Zenon

\* What lies before an element can be settled first, and then the element is
\* the current one.
LEMMA QueueAdvances ==
  ASSUME NEW E, NEW a \in Seq(E), NEW c \in Seq(E), NEW q \in Seq(E),
         NEW u \in Seq(E), NEW v \in Seq(E), NEW w \in Seq(E),
         q = Cat(Cat(u, v), w)
  PROVE  /\ Cat(Cat(a, c), u) \in Seq(E)
         /\ Cat(Cat(a, c), q) = Cat(Cat(Cat(Cat(a, c), u), v), w)
  <1>1. /\ Cat(a, c) \in Seq(E) /\ Cat(v, w) \in Seq(E)
        /\ Cat(Cat(a, c), u) \in Seq(E)
    BY CatAssociates
  <1>2. q = Cat(u, Cat(v, w))
    BY CatAssociates
  <1>3. Cat(Cat(a, c), Cat(u, Cat(v, w))) = Cat(Cat(Cat(a, c), u), Cat(v, w))
    BY <1>1, CatAssociates
  <1>4. Cat(Cat(Cat(a, c), u), Cat(v, w)) = Cat(Cat(Cat(Cat(a, c), u), v), w)
    BY <1>1, CatAssociates
  <1> QED BY <1>1, <1>2, <1>3, <1>4, Zenon

\* What is queued is admitted.
LEMMA QueueGrows ==
  ASSUME NEW E, NEW a \in Seq(E), NEW c \in Seq(E), NEW q \in Seq(E),
         NEW e \in E
  PROVE  /\ Append(Cat(Cat(a, c), q), e) = Cat(Cat(a, c), Append(q, e))
         /\ Append(Cat(Cat(a, c), q), e) \in Seq(E) /\ Append(q, e) \in Seq(E)
         /\ Append(q, e) # <<>> /\ Len(Append(q, e)) = Len(q) + 1
         /\ \A j \in DOMAIN Append(q, e) :
              Append(q, e)[j] = e \/ \E i \in DOMAIN q : Append(q, e)[j] = q[i]
  <1> PICK d \in Seq(E) : d = Cat(Cat(a, c), q)
    BY CatAssociates
  <1>1. Append(d, e) = Cat(d, <<e>>) /\ Append(q, e) = Cat(q, <<e>>)
    BY AppendIsConcat DEF Cat
  <1>2. PICK x \in Seq(E) : x = <<e>>
    BY Singleton
  <1>3. Cat(a, c) \in Seq(E)
    BY CatAssociates
  <1>4. Cat(Cat(Cat(a, c), q), x) = Cat(Cat(a, c), Cat(q, x))
    BY <1>3, CatAssociates
  <1>5. /\ Append(d, e) \in Seq(E) /\ Append(q, e) \in Seq(E)
        /\ Append(q, e) # <<>>
        /\ Len(Append(q, e)) = Len(q) + 1 /\ Append(q, e)[Len(q) + 1] = e
        /\ \A j \in 1 .. Len(q) : Append(q, e)[j] = q[j]
    BY AppendProperties
  <1>6. DOMAIN Append(q, e) = 1 .. Len(q) + 1 /\ DOMAIN q = 1 .. Len(q)
        /\ Len(q) \in Nat
    BY <1>5, SeqParts
  <1>7. \A j \in DOMAIN Append(q, e) :
          Append(q, e)[j] = e \/ \E i \in DOMAIN q : Append(q, e)[j] = q[i]
    BY <1>5, <1>6
  <1>8. Append(d, e) = Cat(Cat(a, c), Append(q, e))
    BY <1>1, <1>2, <1>4, Zenon
  <1> QED BY <1>5, <1>7, <1>8, Zenon

-----------------------------------------------------------------------------
(* The invariant of Events.                                                *)

Emitted == [source : Instances, scope : Scopes, generation : Nat,
            grant : Nat, number : Nat]

\* An event keeps to a grant that exists, and no instance has numbered more
\* events than there are.
Sourced ==
  /\ events \in Seq(Emitted)
  /\ \A e \in DOMAIN events : events[e].grant \in DOMAIN grants
  /\ \A i \in Instances : sequence[i] <= Len(events)

\* A subscription that was not made is blank.
Blank(s) ==
  /\ ~s.live /\ s.pump = "idle" /\ s.queue = <<>> /\ s.current = <<>>
  /\ s.running = {} /\ s.admitted = <<>> /\ s.settled = <<>>

\* Subscription s, when there are n events and the grants G.
Tidy(s, n, G) ==
  /\ IF s.made THEN s.grant \in G ELSE Blank(s)
  /\ Len(s.queue) <= EventQueue /\ Len(s.current) <= 1
  /\ \A k \in DOMAIN s.queue : s.queue[k] <= n
  /\ \A k \in DOMAIN s.current : s.current[k] <= n
  /\ s.pump \in {"starting", "handling"} => s.current # <<>>
  /\ s.live => /\ s.admitted = Cat(Cat(s.settled, s.current), s.queue)
               /\ s.queue # <<>> => s.pump # "idle"

\* Subscription s of an instance that missed no deadline: one handler runs, and
\* while the subscription lives the pump waits for it.
Prompt(s) ==
  /\ s.live => s.running \subseteq IF s.pump = "handling" THEN {s.current[1]}
                                    ELSE {}
  /\ \E e \in Nat : s.running \subseteq {e}

EventsInv ==
  /\ GrantsInv /\ EventsTypeOK /\ Sourced
  /\ \A b \in Subs : Tidy(subs[b], Len(events), DOMAIN grants)
  /\ \A b \in Subs : Subscriber(b) \notin overdue => Prompt(subs[b])

-----------------------------------------------------------------------------
(* Steps of one subscription.                                              *)

\* A handler starts only for a live subscription, under grants unbroken on
\* both sides, between instances that are ACTIVE.
StartsAreAuthorized ==
  \A b \in Subs : \A e \in subs'[b].running \ subs[b].running :
    /\ subs[b].live
    /\ Unbroken(subs[b].grant) /\ Unbroken(events[e].grant)
    /\ {Subscriber(b), events[e].source} \subseteq active

\* What a subscription is made of.
LEMMA SubscriptionParts ==
  ASSUME NEW s \in Subscriptions
  PROVE  /\ s.made \in BOOLEAN /\ s.live \in BOOLEAN
         /\ s.generation \in Nat /\ s.grant \in Nat
         /\ s.queue \in Seq(1 .. MaxEvents) /\ s.current \in Seq(1 .. MaxEvents)
         /\ s.pump \in {"idle", "turning", "starting", "handling"}
         /\ s.running \subseteq 1 .. MaxEvents
         /\ s.admitted \in Seq(1 .. MaxEvents)
         /\ s.settled \in Seq(1 .. MaxEvents)
  BY DEF Subscriptions

\* A step that changes one subscription and leaves it tidy and prompt.
LEMMA OneSubscription ==
  ASSUME EventsInv, NEW b \in Subs, NEW t \in Subscriptions,
         subs' = [subs EXCEPT ![b] = t],
         Calm, UNCHANGED <<reads, events, sequence>>,
         overdue \subseteq overdue',
         Tidy(t, Len(events), DOMAIN grants),
         Subscriber(b) \notin overdue' => Prompt(t)
  PROVE  /\ EventsInv' /\ Fades /\ ReadsAreAuthorized
         /\ t.running \subseteq subs[b].running => StartsAreAuthorized
  <1>1. DOMAIN grants' = DOMAIN grants
    BY DEF Calm, Weakened
  <1>3. GrantsInv' /\ Fades /\ ReadsAreAuthorized
    BY QuietStep DEF EventsInv
  <1>4. /\ subs \in [Subs -> Subscriptions] /\ subs' \in [Subs -> Subscriptions]
        /\ \A x \in Subs : subs'[x] = IF x = b THEN t ELSE subs[x]
    BY DEF EventsInv, EventsTypeOK
  <1>5. \A x \in Subs : Tidy(subs'[x], Len(events), DOMAIN grants)
    BY <1>4 DEF EventsInv
  <1>6. \A x \in Subs : Subscriber(x) \notin overdue' => Prompt(subs'[x])
    BY <1>4 DEF EventsInv
  <1>7. \A x \in Subs : Len(subs'[x].queue) <= EventQueue
    BY <1>5 DEF Tidy
  <1>8. Len(events') <= MaxEvents
        /\ sequence' \in [Instances -> 0 .. MaxEvents]
    BY DEF EventsInv, EventsTypeOK
  <1>9. EventsTypeOK'
    BY <1>3, <1>4, <1>7, <1>8 DEF EventsTypeOK, GrantsInv
  <1>10. Sourced'
    BY <1>1 DEF EventsInv, Sourced
  <1>11. EventsInv'
    BY <1>1, <1>3, <1>5, <1>6, <1>9, <1>10 DEF EventsInv, Subscriber
  <1>12. t.running \subseteq subs[b].running => StartsAreAuthorized
    BY <1>4 DEF StartsAreAuthorized
  <1> QED BY <1>3, <1>11, <1>12

\* subscribe() begins with nothing queued, nothing lost and no handler.
LEMMA SubscribeStep ==
  ASSUME EventsInv, NEW b \in Subs, Subscribe(b)
  PROVE  EventsInv' /\ Fades /\ ReadsAreAuthorized /\ StartsAreAuthorized
  <1> DEFINE may == Allowing(Subscriber(b), ScopeOf(b), "subscribe")
  <1>1. PICK s \in Subscriptions : s = subs[b]
    BY DEF EventsInv, EventsTypeOK
  <1>2. PICK g \in DOMAIN grants : g = Min(may) /\ g \in Nat
    <2>1. may # {} /\ may \subseteq DOMAIN grants
      BY DEF Subscribe, Allowing
    <2> QED BY <2>1, GrantParts, MinIsLeast DEF EventsInv
  <1>3. PICK n \in Nat : n = generation[ScopeOf(b)]
    <2>1. ScopeOf(b) \in Scopes
      BY GrantsAssumption, EventsAssumption DEF ScopeOf
    <2> QED BY <2>1, GrantsAssumption DEF EventsInv, GrantsInv, GrantsTypeOK
  <1>4. PICK t : t = [s EXCEPT !.made = TRUE, !.live = TRUE,
                              !.generation = n, !.grant = g]
    OBVIOUS
  <1>5. subs' = [subs EXCEPT ![b] = t]
    BY <1>1, <1>2, <1>3, <1>4 DEF Subscribe, EventsInv, EventsTypeOK
  <1>6. /\ t \in Subscriptions
        /\ t.made /\ t.grant = g /\ t.queue = s.queue
        /\ t.current = s.current /\ t.pump = s.pump /\ t.running = s.running
        /\ t.admitted = s.admitted /\ t.settled = s.settled
    <2>1. t \in Subscriptions
      BY <1>2, <1>3, <1>4 DEF Subscriptions
    <2>2. /\ t.made /\ t.grant = g /\ t.queue = s.queue
          /\ t.current = s.current /\ t.pump = s.pump /\ t.running = s.running
          /\ t.admitted = s.admitted /\ t.settled = s.settled
      BY <1>4 DEF Subscriptions
    <2> QED BY <2>1, <2>2
  <1>7. Tidy(s, Len(events), DOMAIN grants) /\ Blank(s)
    BY <1>1 DEF EventsInv, Tidy, Subscribe
  <1>8. Cat(Cat(<<>>, <<>>), <<>>) = <<>>
    BY DEF Cat
  <1>9. Tidy(t, Len(events), DOMAIN grants)
    BY <1>6, <1>7, <1>8 DEF Tidy, Blank
  <1>10. Prompt(t)
    BY <1>6, <1>7 DEF Prompt, Blank
  <1>11. UNCHANGED <<clock, active, generation, open, grants, auditVars, reads,
                     events, sequence, overdue>> /\ Look
    BY DEF Subscribe
  <1>12. GrantsInv
    BY DEF EventsInv
  <1>13. AuditOK'
    BY <1>11, <1>12, GrantsFacts DEF AuditOK, auditVars
  <1>14. Calm
    BY <1>11, <1>12, <1>13, GrantsFacts, LookStep DEF Calm
  <1> QED BY <1>1, <1>5, <1>6, <1>9, <1>10, <1>11, <1>14, OneSubscription

\* A subscription that was ended.
Cancelled(s) ==
  [s EXCEPT !.live = FALSE, !.queue = <<>>,
            !.pump = IF @ = "handling" THEN "turning" ELSE @]

\* The end of a subscription: its queue is dropped, and the pump no longer
\* waits for its handler.
LEMMA CancelledIsTidy ==
  ASSUME NEW s \in Subscriptions, NEW n, NEW G, Tidy(s, n, G), s.live,
         NEW t, t = Cancelled(s)
  PROVE  /\ t \in Subscriptions /\ Tidy(t, n, G) /\ t.running = s.running
         /\ Prompt(s) => Prompt(t)
  <1>1. /\ t.made = s.made /\ ~t.live /\ t.grant = s.grant /\ t.queue = <<>>
        /\ t.current = s.current /\ t.running = s.running
        /\ t.pump = IF s.pump = "handling" THEN "turning" ELSE s.pump
    BY DEF Subscriptions, Cancelled
  <1>2. t \in Subscriptions
    <2>1. <<>> \in Seq(1 .. MaxEvents)
      OBVIOUS
    <2> QED BY <2>1 DEF Subscriptions, Cancelled
  <1>3. s.made /\ s.grant \in G
    BY DEF Tidy, Blank
  <1>4. Len(<<>>) = 0 /\ DOMAIN <<>> = {} /\ 0 <= EventQueue
    BY EventsAssumption
  <1>5. Tidy(t, n, G)
    BY <1>1, <1>3, <1>4 DEF Tidy
  <1>6. Prompt(s) => Prompt(t)
    BY <1>1 DEF Prompt
  <1> QED BY <1>1, <1>2, <1>5, <1>6

\* The disposer ends a subscription.
LEMMA UnsubscribeStep ==
  ASSUME EventsInv, NEW b \in Subs, Unsubscribe(b)
  PROVE  EventsInv' /\ Fades /\ ReadsAreAuthorized /\ StartsAreAuthorized
  <1>1. PICK s \in Subscriptions : s = subs[b]
    BY DEF EventsInv, EventsTypeOK
  <1>2. PICK t : t = Cancelled(s)
    OBVIOUS
  <1>3. subs' = [subs EXCEPT ![b] = t]
    BY <1>1, <1>2 DEF Unsubscribe, EventsInv, EventsTypeOK, Cancelled
  <1>4. /\ t \in Subscriptions /\ Tidy(t, Len(events), DOMAIN grants)
        /\ t.running = s.running
        /\ Prompt(s) => Prompt(t)
    BY <1>1, <1>2, CancelledIsTidy DEF EventsInv, Unsubscribe
  <1>5. UNCHANGED <<authority, reads, events, sequence, overdue>> /\ AuditOK'
    BY DEF Unsubscribe, grantVars, auditVars, AuditOK, EventsInv, GrantsInv,
           GrantsTypeOK
  <1>10. Calm
    BY <1>5, IdleStep DEF EventsInv
  <1>6. overdue' = overdue
    BY DEF Unsubscribe
  <1>7. Subscriber(b) \notin overdue => Prompt(s)
    BY <1>1 DEF EventsInv
  <1>8. Subscriber(b) \notin overdue' => Prompt(t)
    BY <1>4, <1>6, <1>7
  <1>9. overdue \subseteq overdue' /\ t.running \subseteq subs[b].running
    BY <1>1, <1>4, <1>6
  <1> QED BY <1>3, <1>4, <1>5, <1>8, <1>9, <1>10, OneSubscription

\* After maxCallMs the pump goes on, and the instance is marked for restart.
LEMMA TimesOutStep ==
  ASSUME EventsInv, NEW b \in Subs, HandlerTimesOut(b)
  PROVE  EventsInv' /\ Fades /\ ReadsAreAuthorized /\ StartsAreAuthorized
  <1>1. PICK s \in Subscriptions : s = subs[b]
    BY DEF EventsInv, EventsTypeOK
  <1>2. PICK t : t = [s EXCEPT !.pump = "turning"]
    OBVIOUS
  <1>3. subs' = [subs EXCEPT ![b] = t]
    BY <1>1, <1>2 DEF HandlerTimesOut, EventsInv, EventsTypeOK
  <1>4. t \in Subscriptions
    BY <1>2 DEF Subscriptions
  <1>5. /\ t.made = s.made /\ t.live = s.live /\ t.grant = s.grant
        /\ t.queue = s.queue /\ t.current = s.current /\ t.running = s.running
        /\ t.admitted = s.admitted /\ t.settled = s.settled
        /\ t.pump = "turning" /\ s.pump = "handling"
    BY <1>1, <1>2 DEF Subscriptions, HandlerTimesOut
  <1>6. Tidy(s, Len(events), DOMAIN grants)
    BY <1>1 DEF EventsInv
  <1>7. Tidy(t, Len(events), DOMAIN grants)
    BY <1>5, <1>6 DEF Tidy, Blank
  <1>8. UNCHANGED <<authority, reads, events, sequence>>
    BY DEF HandlerTimesOut
  <1>9. AuditOK'
    BY GrantsFacts, NoteStep DEF HandlerTimesOut, EventsInv
  <1>12. Calm
    BY <1>8, <1>9, IdleStep DEF EventsInv
  <1>10. overdue \subseteq overdue' /\ Subscriber(b) \in overdue'
    BY DEF HandlerTimesOut
  <1>11. t.running \subseteq subs[b].running
    BY <1>1, <1>5
  <1> QED BY <1>3, <1>4, <1>7, <1>8, <1>10, <1>11, <1>12, OneSubscription

\* A subscription after its handler of event e has settled.
Released(s, e) ==
  [s EXCEPT !.running = @ \ {e},
            !.pump = IF s.pump = "handling" /\ s.current = <<e>> THEN "turning"
                     ELSE @]

\* When the only handler settles, the pump that waited for it goes on.
LEMMA ReleasedIsPrompt ==
  ASSUME NEW s \in Subscriptions, NEW n, NEW G, Tidy(s, n, G),
         NEW e \in s.running, NEW t, t = Released(s, e)
  PROVE  /\ t \in Subscriptions /\ Tidy(t, n, G) /\ t.running \subseteq s.running
         /\ Prompt(s) => Prompt(t)
  <1>1. t \in Subscriptions
    BY DEF Subscriptions, Released
  <1>2. /\ t.made = s.made /\ t.live = s.live /\ t.grant = s.grant
        /\ t.queue = s.queue /\ t.current = s.current
        /\ t.admitted = s.admitted /\ t.settled = s.settled
        /\ t.running = s.running \ {e}
        /\ t.pump = IF s.pump = "handling" /\ s.current = <<e>> THEN "turning"
                    ELSE s.pump
    BY DEF Subscriptions, Released
  <1>3. Tidy(t, n, G)
    BY <1>2 DEF Tidy, Blank
  <1>4. ASSUME Prompt(s)
        PROVE  Prompt(t)
    <2>1. \E x \in Nat : t.running \subseteq {x}
      BY <1>2, <1>4 DEF Prompt
    <2>2. ASSUME t.live
          PROVE  t.running = {}
      <3>1. s.pump = "handling" /\ e = s.current[1] /\ s.running \subseteq {e}
        BY <1>2, <1>4, <2>2 DEF Prompt
      <3> QED BY <1>2, <3>1
    <2> QED BY <2>1, <2>2 DEF Prompt
  <1> QED BY <1>1, <1>2, <1>3, <1>4

\* A handler settles.
LEMMA HandlerEndsStep ==
  ASSUME EventsInv, NEW b \in Subs, NEW e \in 1 .. MaxEvents, NEW outcome,
         HandlerEnds(b, e, outcome)
  PROVE  EventsInv' /\ Fades /\ ReadsAreAuthorized /\ StartsAreAuthorized
  <1>1. PICK s \in Subscriptions : s = subs[b]
    BY DEF EventsInv, EventsTypeOK
  <1>2. PICK t : t = Released(s, e)
    OBVIOUS
  <1>3. subs' = [subs EXCEPT ![b] = t]
    BY <1>1, <1>2 DEF HandlerEnds, EventsInv, EventsTypeOK, Released
  <1>4. e \in s.running /\ Tidy(s, Len(events), DOMAIN grants)
    BY <1>1 DEF HandlerEnds, EventsInv
  <1>5. /\ t \in Subscriptions /\ Tidy(t, Len(events), DOMAIN grants)
        /\ t.running \subseteq s.running
        /\ Prompt(s) => Prompt(t)
    BY <1>2, <1>4, ReleasedIsPrompt
  <1>6. UNCHANGED <<authority, reads, events, sequence>>
    BY DEF HandlerEnds
  <1>7. AuditOK'
    <2>1. AuditOK
      BY GrantsFacts DEF EventsInv
    <2>2. \E k \in Nat : Note(k)
      BY DEF HandlerEnds
    <2> QED BY <2>1, <2>2, NoteStep
  <1>11. Calm
    BY <1>6, <1>7, IdleStep DEF EventsInv
  <1>8. overdue \subseteq overdue'
    BY DEF HandlerEnds
  <1>9. Subscriber(b) \notin overdue' => Prompt(t)
    BY <1>1, <1>5, <1>8 DEF EventsInv
  <1>10. t.running \subseteq subs[b].running
    BY <1>1, <1>5
  <1> QED BY <1>3, <1>5, <1>6, <1>8, <1>9, <1>10, <1>11, OneSubscription

\* A subscription whose handler was called, or was not.
Called(s, starts) ==
  [s EXCEPT !.pump = IF starts THEN "handling" ELSE "turning",
            !.running = IF starts THEN @ \union {s.current[1]} ELSE @]

\* The handler that is called is the only one, if no deadline was missed.
LEMMA CalledIsPrompt ==
  ASSUME NEW s \in Subscriptions, NEW n, NEW G, Tidy(s, n, G),
         s.pump = "starting", NEW starts \in BOOLEAN, starts => s.live,
         NEW t, t = Called(s, starts)
  PROVE  /\ t \in Subscriptions /\ Tidy(t, n, G)
         /\ t.running \subseteq s.running
              \/ (starts /\ t.running \subseteq s.running \union {s.current[1]})
         /\ s.current[1] \in 1 .. MaxEvents /\ s.current[1] <= n
         /\ Prompt(s) => Prompt(t)
  <1>1. s.current # <<>> /\ s.current \in Seq(1 .. MaxEvents)
    BY SubscriptionParts DEF Tidy
  <1>2. 1 \in DOMAIN s.current /\ s.current[1] \in 1 .. MaxEvents
    BY <1>1, FirstElement
  <1>3. s.current[1] <= n
    BY <1>2 DEF Tidy
  <1>4. t \in Subscriptions
    BY <1>2 DEF Subscriptions, Called
  <1>5. /\ t.made = s.made /\ t.live = s.live /\ t.grant = s.grant
        /\ t.queue = s.queue /\ t.current = s.current
        /\ t.admitted = s.admitted /\ t.settled = s.settled
        /\ t.pump = IF starts THEN "handling" ELSE "turning"
        /\ t.running = IF starts THEN s.running \union {s.current[1]}
                       ELSE s.running
    BY DEF Subscriptions, Called
  <1>6. Tidy(t, n, G)
    <2>1. s.made /\ s.grant \in G
      BY DEF Tidy, Blank
    <2> QED BY <1>1, <1>5, <2>1 DEF Tidy
  <1>7. ASSUME Prompt(s)
        PROVE  Prompt(t)
    <2>1. CASE starts
      <3>1. s.running = {}
        BY <1>7, <2>1 DEF Prompt
      <3>2. t.running = {s.current[1]} /\ t.pump = "handling"
            /\ t.current[1] = s.current[1]
        BY <1>5, <2>1, <3>1
      <3>3. s.current[1] \in Nat
        BY <1>2, EventsAssumption
      <3> QED BY <3>2, <3>3 DEF Prompt
    <2>2. CASE ~starts
      BY <1>5, <1>7, <2>2 DEF Prompt
    <2> QED BY <2>1, <2>2
  <1> QED BY <1>2, <1>3, <1>4, <1>5, <1>6, <1>7

\* The microtask looks at authority again before it calls the handler.
LEMMA HandlerStartsStep ==
  ASSUME EventsInv, NEW b \in Subs, HandlerStarts(b)
  PROVE  EventsInv' /\ Fades /\ ReadsAreAuthorized /\ StartsAreAuthorized
  <1>1. PICK s \in Subscriptions : s = subs[b]
    BY DEF EventsInv, EventsTypeOK
  <1>2. PICK starts \in BOOLEAN : starts = Starts(b)
    BY DEF Starts
  <1>3. PICK t : t = Called(s, starts)
    OBVIOUS
  <1>4. subs' = [subs EXCEPT ![b] = t]
    BY <1>1, <1>2, <1>3 DEF HandlerStarts, EventsInv, EventsTypeOK, Called
  <1>5. /\ s.pump = "starting" /\ Tidy(s, Len(events), DOMAIN grants)
        /\ starts => s.live
    BY <1>1, <1>2 DEF HandlerStarts, EventsInv, Starts
  <1>6. /\ t \in Subscriptions /\ Tidy(t, Len(events), DOMAIN grants)
        /\ t.running \subseteq s.running
             \/ (starts /\ t.running \subseteq s.running \union {s.current[1]})
        /\ s.current[1] \in 1 .. MaxEvents /\ s.current[1] <= Len(events)
        /\ Prompt(s) => Prompt(t)
    BY <1>3, <1>5, CalledIsPrompt
  <1>7. /\ UNCHANGED <<clock, generation, open, reads, events, sequence>>
        /\ overdue' = overdue
    BY DEF HandlerStarts
  <1>8. Calm
    <2>1. PICK k \in Nat : k = IF Starts(b) \/ ~subs[b].live THEN 0
                              ELSE Refusals(b, subs[b].current[1])
      BY DEF Refusals
    <2>2. Looked(k)
      BY <2>1 DEF HandlerStarts, Looks, Looked
    <2> QED BY <1>7, <2>2, LookedStep DEF EventsInv
  <1>9. Subscriber(b) \notin overdue' => Prompt(t)
    BY <1>1, <1>6, <1>7 DEF EventsInv
  <1>10. overdue \subseteq overdue'
    BY <1>7
  <1>11. EventsInv' /\ Fades /\ ReadsAreAuthorized
         /\ (t.running \subseteq subs[b].running => StartsAreAuthorized)
    BY <1>4, <1>6, <1>7, <1>8, <1>9, <1>10, OneSubscription
  <1>12. CASE t.running \subseteq s.running
    BY <1>1, <1>11, <1>12
  <1>13. CASE starts /\ t.running \subseteq s.running \union {s.current[1]}
    <2>1. PICK e : e = s.current[1]
      OBVIOUS
    <2>2. subs[b].live /\ Deliverable(b, e)
      BY <1>1, <1>2, <1>13, <2>1 DEF Starts
    <2>3. /\ Subscriber(b) \in active /\ events[e].source \in active
          /\ Valid(subs[b].grant) /\ Valid(events[e].grant) /\ Fresh
      BY <2>2 DEF Deliverable, Authorized, SubscriberLives, SourceLives, Lives
    <2>4. e \in DOMAIN events
      <3>1. e \in Nat /\ 1 <= e /\ e <= Len(events)
        BY <1>6, <2>1, EventsAssumption
      <3>2. Len(events) \in Nat /\ DOMAIN events = 1 .. Len(events)
        BY SeqParts DEF EventsInv, Sourced
      <3> QED BY <3>1, <3>2
    <2>5. events[e].grant \in DOMAIN grants /\ subs[b].grant \in DOMAIN grants
      BY <1>1, <1>5, <2>2, <2>4 DEF EventsInv, Sourced, Tidy, Blank
    <2>6. Unbroken(subs[b].grant) /\ Unbroken(events[e].grant)
      BY <2>3, <2>5, ValidIsUnbroken DEF EventsInv
    <2>7. \A x \in Subs : subs'[x] = IF x = b THEN t ELSE subs[x]
      BY <1>4 DEF EventsInv, EventsTypeOK
    <2>8. \A x \in Subs : \A f \in subs'[x].running \ subs[x].running :
            x = b /\ f = e
      BY <1>1, <1>13, <2>1, <2>7
    <2>9. StartsAreAuthorized
      BY <2>2, <2>3, <2>6, <2>8 DEF StartsAreAuthorized
    <2> QED BY <1>11, <2>9
  <1> QED BY <1>6, <1>12, <1>13

\* A subscription whose pump found nothing to handle.
Stopped(s) ==
  [s EXCEPT !.pump = "idle", !.queue = <<>>, !.current = <<>>,
            !.settled = Cat(Cat(s.settled, s.current), s.queue)]

\* A subscription whose pump took the element at k.
Advanced(s, k) ==
  [s EXCEPT !.pump = "starting", !.current = <<s.queue[k]>>,
            !.queue = SubSeq(s.queue, k + 1, Len(s.queue)),
            !.settled = Cat(Cat(s.settled, s.current), SubSeq(s.queue, 1, k - 1))]

\* When the pump stops, everything admitted is settled.
LEMMA StoppedIsTidy ==
  ASSUME NEW s \in Subscriptions, NEW n, NEW G, Tidy(s, n, G),
         s.pump = "turning", NEW t, t = Stopped(s)
  PROVE  /\ t \in Subscriptions /\ Tidy(t, n, G) /\ t.running = s.running
         /\ Prompt(s) => Prompt(t)
  <1>1. PICK x : x = Cat(Cat(s.settled, s.current), s.queue)
    OBVIOUS
  <1>2. x \in Seq(1 .. MaxEvents)
    <2>1. /\ s.settled \in Seq(1 .. MaxEvents) /\ s.queue \in Seq(1 .. MaxEvents)
          /\ s.current \in Seq(1 .. MaxEvents)
      BY SubscriptionParts
    <2>2. Cat(s.settled, s.current) \in Seq(1 .. MaxEvents)
      BY <2>1, CatAssociates
    <2> QED BY <1>1, <2>1, <2>2, CatAssociates
  <1>3. /\ Cat(Cat(x, <<>>), <<>>) = x /\ <<>> \in Seq(1 .. MaxEvents)
        /\ Len(<<>>) = 0 /\ DOMAIN <<>> = {} /\ 0 <= EventQueue /\ 0 <= 1
    BY <1>2, ConcatEmptySeq, EventsAssumption DEF Cat
  <1>4. t \in Subscriptions
    BY <1>1, <1>2, <1>3 DEF Subscriptions, Stopped
  <1>5. /\ t.made = s.made /\ t.live = s.live /\ t.grant = s.grant
        /\ t.queue = <<>> /\ t.current = <<>> /\ t.running = s.running
        /\ t.admitted = s.admitted /\ t.settled = x /\ t.pump = "idle"
    BY <1>1 DEF Subscriptions, Stopped
  <1>6. s.made /\ s.grant \in G /\ (s.live => s.admitted = x)
    BY <1>1 DEF Tidy, Blank
  <1>7. Tidy(t, n, G)
    BY <1>3, <1>5, <1>6 DEF Tidy
  <1>8. Prompt(s) => Prompt(t)
    BY <1>5 DEF Prompt
  <1> QED BY <1>4, <1>5, <1>7, <1>8

\* When the pump takes an element, those before it are settled, and it, and
\* those behind it, are not lost.
LEMMA AdvancedIsTidy ==
  ASSUME NEW s \in Subscriptions, NEW n, NEW G, Tidy(s, n, G),
         s.pump = "turning", NEW k \in 1 .. Len(s.queue),
         NEW t, t = Advanced(s, k)
  PROVE  /\ t \in Subscriptions /\ Tidy(t, n, G) /\ t.running = s.running
         /\ Prompt(s) => Prompt(t)
  <1>1. /\ s.settled \in Seq(1 .. MaxEvents) /\ s.queue \in Seq(1 .. MaxEvents)
        /\ s.current \in Seq(1 .. MaxEvents)
    BY SubscriptionParts
  <1>2. PICK before : before = SubSeq(s.queue, 1, k - 1)
    OBVIOUS
  <1>3. PICK rest : rest = SubSeq(s.queue, k + 1, Len(s.queue))
    OBVIOUS
  <1>4. PICK taken : taken = <<s.queue[k]>>
    OBVIOUS
  <1>5. /\ before \in Seq(1 .. MaxEvents) /\ rest \in Seq(1 .. MaxEvents)
        /\ taken \in Seq(1 .. MaxEvents)
        /\ s.queue = Cat(Cat(before, taken), rest)
        /\ Len(rest) <= Len(s.queue)
        /\ \A j \in DOMAIN rest : \E i \in DOMAIN s.queue : rest[j] = s.queue[i]
    <2>1. PICK q \in Seq(1 .. MaxEvents) : q = s.queue
      BY <1>1
    <2>2. PICK m \in 1 .. Len(q) : m = k
      BY <2>1
    <2>3. /\ before = SubSeq(q, 1, m - 1) /\ taken = <<q[m]>>
          /\ rest = SubSeq(q, m + 1, Len(q))
      BY <1>2, <1>3, <1>4, <2>1, <2>2
    <2>4. /\ SubSeq(q, 1, m - 1) \in Seq(1 .. MaxEvents)
          /\ <<q[m]>> \in Seq(1 .. MaxEvents)
          /\ SubSeq(q, m + 1, Len(q)) \in Seq(1 .. MaxEvents)
          /\ q = Cat(Cat(SubSeq(q, 1, m - 1), <<q[m]>>),
                     SubSeq(q, m + 1, Len(q)))
          /\ Len(SubSeq(q, m + 1, Len(q))) <= Len(q)
          /\ \A j \in DOMAIN SubSeq(q, m + 1, Len(q)) :
               \E i \in DOMAIN q : SubSeq(q, m + 1, Len(q))[j] = q[i]
      BY ONLY QueueCut
    <2>5. /\ before \in Seq(1 .. MaxEvents) /\ rest \in Seq(1 .. MaxEvents)
          /\ taken \in Seq(1 .. MaxEvents)
          /\ q = Cat(Cat(before, taken), rest) /\ Len(rest) <= Len(q)
          /\ \A j \in DOMAIN rest : \E i \in DOMAIN q : rest[j] = q[i]
      BY ONLY <2>3, <2>4
    <2> QED BY <2>1, <2>5
  <1>6. PICK x : x = Cat(Cat(s.settled, s.current), before)
    OBVIOUS
  <1>7. /\ x \in Seq(1 .. MaxEvents)
        /\ Cat(Cat(s.settled, s.current), s.queue) = Cat(Cat(x, taken), rest)
    BY <1>1, <1>5, <1>6, QueueAdvances
  <1>8. t \in Subscriptions
    BY <1>2, <1>3, <1>4, <1>5, <1>6, <1>7 DEF Subscriptions, Advanced
  <1>9. /\ t.made = s.made /\ t.live = s.live /\ t.grant = s.grant
        /\ t.queue = rest /\ t.current = taken /\ t.running = s.running
        /\ t.admitted = s.admitted /\ t.settled = x /\ t.pump = "starting"
    BY <1>2, <1>3, <1>4, <1>6 DEF Subscriptions, Advanced
  <1>10. /\ s.made /\ s.grant \in G
         /\ s.live => s.admitted = Cat(Cat(x, taken), rest)
    BY <1>7 DEF Tidy, Blank
  <1>11. Len(rest) <= EventQueue
    <2>1. Len(s.queue) \in Nat /\ Len(rest) \in Nat /\ Len(s.queue) <= EventQueue
      BY <1>1, <1>5, SeqParts DEF Tidy
    <2> QED BY <1>5, <2>1, EventsAssumption
  <1>12. k \in DOMAIN s.queue
    BY <1>1, SeqParts
  <1>13. /\ Len(taken) = 1 /\ taken # <<>> /\ DOMAIN taken = {1}
         /\ taken[1] = s.queue[k]
    BY <1>4
  <1>14. /\ \A j \in DOMAIN rest : rest[j] <= n
         /\ \A j \in DOMAIN taken : taken[j] <= n
    BY <1>5, <1>12, <1>13 DEF Tidy
  <1>15. Tidy(t, n, G)
    BY <1>9, <1>10, <1>11, <1>13, <1>14 DEF Tidy
  <1>16. Prompt(s) => Prompt(t)
    BY <1>9 DEF Prompt
  <1> QED BY <1>8, <1>9, <1>15, <1>16

\* The pump goes on to the first event it may deliver, or stops.
LEMMA PumpTurnsStep ==
  ASSUME EventsInv, NEW b \in Subs, PumpTurns(b)
  PROVE  EventsInv' /\ Fades /\ ReadsAreAuthorized /\ StartsAreAuthorized
  <1>1. PICK s \in Subscriptions : s = subs[b]
    BY DEF EventsInv, EventsTypeOK
  <1>2. s.pump = "turning" /\ Tidy(s, Len(events), DOMAIN grants)
    BY <1>1 DEF PumpTurns, EventsInv
  <1>3. DOMAIN s.queue = 1 .. Len(s.queue) /\ Len(s.queue) \in Nat
    BY SubscriptionParts, SeqParts
  <1>4. PICK t : t = Turn(b)
    OBVIOUS
  <1>5. t = Stopped(s) \/ \E k \in 1 .. Len(s.queue) : t = Advanced(s, k)
    <2> DEFINE good == {k \in DOMAIN s.queue : Deliverable(b, s.queue[k])}
    <2>1. CASE ~s.live \/ good = {}
      BY <1>1, <1>4, <2>1 DEF Turn, Stopped, Cat
    <2>2. CASE s.live /\ good # {}
      <3>1. PICK k : k = Min(good)
        OBVIOUS
      <3>2. good \subseteq DOMAIN s.queue /\ good \subseteq Nat
        BY <1>3
      <3>3. k \in good /\ k \in DOMAIN s.queue
        <4> HIDE DEF good
        <4> QED BY <2>2, <3>1, <3>2, MinIsLeast
      <3>4. t = Advanced(s, k)
        BY <1>1, <1>4, <2>2, <3>1 DEF Turn, Advanced, Cat
      <3> QED BY <1>3, <3>3, <3>4
    <2> QED BY <2>1, <2>2
  <1>6. /\ t \in Subscriptions /\ Tidy(t, Len(events), DOMAIN grants)
        /\ t.running = s.running
        /\ Prompt(s) => Prompt(t)
    BY <1>2, <1>5, StoppedIsTidy, AdvancedIsTidy
  <1>7. subs' = [subs EXCEPT ![b] = t]
    BY <1>4 DEF PumpTurns
  <1>8. /\ UNCHANGED <<clock, generation, open, reads, events, sequence>>
        /\ overdue' = overdue
    BY DEF PumpTurns
  <1>9. Calm
    <2> DEFINE twice == {k \in Refused(b) : Refusals(b, subs[b].queue[k]) = 2}
    <2>1. Refused(b) \subseteq DOMAIN s.queue /\ twice \subseteq DOMAIN s.queue
      BY <1>1 DEF Refused
    <2>2. IsFiniteSet(DOMAIN s.queue)
      BY <1>3, FS_Interval
    <2>3. IsFiniteSet(Refused(b)) /\ IsFiniteSet(twice)
      BY <2>1, <2>2, FS_Subset
    <2>4. Cardinality(Refused(b)) \in Nat /\ Cardinality(twice) \in Nat
      BY <2>3, FS_CardinalityType
    <2>5. PICK k \in Nat : k = Cardinality(Refused(b)) + Cardinality(twice)
      BY <2>4
    <2>6. Looked(k)
      BY <2>5 DEF PumpTurns, Looks, Looked
    <2> QED BY <1>8, <2>6, LookedStep DEF EventsInv
  <1>10. Subscriber(b) \notin overdue' => Prompt(t)
    BY <1>1, <1>6, <1>8 DEF EventsInv
  <1>11. overdue \subseteq overdue' /\ t.running \subseteq subs[b].running
    BY <1>1, <1>6, <1>8
  <1> QED BY <1>6, <1>7, <1>8, <1>9, <1>10, <1>11, OneSubscription

-----------------------------------------------------------------------------
(* emit(), which reaches every subscription that sees the scope.           *)

\* More events and more grants leave a subscription tidy.
LEMMA TidyGrows ==
  ASSUME NEW s \in Subscriptions, NEW n \in Nat, NEW m \in Nat, n <= m,
         NEW G, NEW H, G \subseteq H, Tidy(s, n, G)
  PROVE  Tidy(s, m, H)
  <1>1. /\ s.queue \in Seq(1 .. MaxEvents) /\ s.current \in Seq(1 .. MaxEvents)
    BY SubscriptionParts
  <1>2. /\ \A k \in DOMAIN s.queue : s.queue[k] \in Nat
        /\ \A k \in DOMAIN s.current : s.current[k] \in Nat
    BY <1>1, SeqParts, EventsAssumption
  <1>3. /\ \A k \in DOMAIN s.queue : s.queue[k] <= m
        /\ \A k \in DOMAIN s.current : s.current[k] <= m
    BY <1>2 DEF Tidy
  <1> QED BY <1>3 DEF Tidy

\* A subscription with event e at the end of its queue.
Queued(s, e) ==
  [s EXCEPT !.queue = Append(s.queue, e), !.admitted = Append(s.admitted, e),
            !.pump = IF s.pump = "idle" THEN "turning" ELSE s.pump]

\* What is queued is admitted, and an idle pump is woken.
LEMMA QueuedIsTidy ==
  ASSUME NEW s \in Subscriptions, NEW n \in Nat, NEW G, Tidy(s, n, G), s.live,
         ~(Len(s.queue) >= EventQueue), NEW e \in 1 .. MaxEvents, e = n + 1,
         NEW t, t = Queued(s, e)
  PROVE  /\ t \in Subscriptions /\ Tidy(t, e, G) /\ t.running = s.running
         /\ Prompt(s) => Prompt(t)
  <1>1. /\ s.settled \in Seq(1 .. MaxEvents) /\ s.queue \in Seq(1 .. MaxEvents)
        /\ s.current \in Seq(1 .. MaxEvents)
        /\ s.admitted \in Seq(1 .. MaxEvents)
    BY SubscriptionParts
  <1>2. PICK q : q = Append(s.queue, e)
    OBVIOUS
  <1>3. PICK d : d = Append(s.admitted, e)
    OBVIOUS
  <1>4. /\ s.made /\ s.grant \in G
        /\ s.admitted = Cat(Cat(s.settled, s.current), s.queue)
    BY DEF Tidy, Blank
  <1>5. /\ d = Cat(Cat(s.settled, s.current), q)
        /\ d \in Seq(1 .. MaxEvents) /\ q \in Seq(1 .. MaxEvents) /\ q # <<>>
        /\ Len(q) = Len(s.queue) + 1
        /\ \A j \in DOMAIN q :
             q[j] = e \/ \E i \in DOMAIN s.queue : q[j] = s.queue[i]
    <2> PICK E : E = 1 .. MaxEvents
      OBVIOUS
    <2>1. PICK old \in Seq(E) : old = s.queue
      BY <1>1
    <2>2. PICK x \in E : x = e
      OBVIOUS
    <2>3. PICK a \in Seq(E) : a = s.settled
      BY <1>1
    <2>4. PICK c \in Seq(E) : c = s.current
      BY <1>1
    <2>5. s.admitted = Cat(Cat(a, c), old)
      BY <1>4, <2>1, <2>3, <2>4
    <2>6. /\ Append(Cat(Cat(a, c), old), x) = Cat(Cat(a, c), Append(old, x))
          /\ Append(Cat(Cat(a, c), old), x) \in Seq(E)
          /\ Append(old, x) \in Seq(E) /\ Append(old, x) # <<>>
          /\ Len(Append(old, x)) = Len(old) + 1
          /\ \A j \in DOMAIN Append(old, x) :
               Append(old, x)[j] = x
                 \/ \E i \in DOMAIN old : Append(old, x)[j] = old[i]
      <3>1. Append(Cat(Cat(a, c), old), x) = Cat(Cat(a, c), Append(old, x))
        BY ONLY QueueGrows
      <3>2. Append(Cat(Cat(a, c), old), x) \in Seq(E)
        BY ONLY QueueGrows
      <3>3. /\ Append(old, x) \in Seq(E) /\ Append(old, x) # <<>>
            /\ Len(Append(old, x)) = Len(old) + 1
        BY ONLY QueueGrows
      <3>4. \A j \in DOMAIN Append(old, x) :
              Append(old, x)[j] = x
                \/ \E i \in DOMAIN old : Append(old, x)[j] = old[i]
        BY ONLY QueueGrows
      <3> QED BY ONLY <3>1, <3>2, <3>3, <3>4
    <2>7. q = Append(old, x) /\ d = Append(Cat(Cat(a, c), old), x)
      BY <1>2, <1>3, <2>1, <2>2, <2>5
    <2>8. /\ d = Cat(Cat(a, c), q)
          /\ d \in Seq(E) /\ q \in Seq(E)
          /\ q # <<>> /\ Len(q) = Len(old) + 1
          /\ \A j \in DOMAIN q : q[j] = x \/ \E i \in DOMAIN old : q[j] = old[i]
      BY ONLY <2>6, <2>7
    <2> QED BY <2>1, <2>2, <2>3, <2>4, <2>8
  <1>6. t \in Subscriptions
    BY <1>2, <1>3, <1>5 DEF Subscriptions, Queued
  <1>7. /\ t.made = s.made /\ t.live = s.live /\ t.grant = s.grant
        /\ t.queue = q /\ t.current = s.current /\ t.running = s.running
        /\ t.admitted = d /\ t.settled = s.settled
        /\ t.pump = IF s.pump = "idle" THEN "turning" ELSE s.pump
    BY <1>2, <1>3 DEF Subscriptions, Queued
  <1>8. n <= e /\ e \in Nat
    OBVIOUS
  <1>9. Tidy(s, e, G)
    BY <1>8, TidyGrows
  <1>10. Len(q) <= EventQueue
    <2>1. Len(s.queue) \in Nat
      BY <1>1, SeqParts
    <2> QED BY <1>5, <2>1, EventsAssumption
  <1>11. \A j \in DOMAIN q : q[j] <= e
    BY <1>5, <1>8, <1>9 DEF Tidy
  <1>12. Tidy(t, e, G)
    BY <1>4, <1>5, <1>7, <1>9, <1>10, <1>11 DEF Tidy
  <1>13. Prompt(s) => Prompt(t)
    BY <1>7 DEF Prompt
  <1> QED BY <1>6, <1>7, <1>12, <1>13

\* An event is queued where it is seen and there is room, and a subscription
\* without room is ended; the event keeps to the grant it was sent under.
LEMMA EmitStep ==
  ASSUME EventsInv, NEW i \in Instances, NEW s \in Scopes, Emit(i, s)
  PROVE  EventsInv' /\ Fades /\ ReadsAreAuthorized /\ StartsAreAuthorized
  <1> DEFINE may == Allowing(i, s, "publish")
             full == {b \in Reached(s) : Full(b)}
  <1>1. /\ events \in Seq(Emitted) /\ Len(events) \in Nat
        /\ DOMAIN events = 1 .. Len(events)
    BY SeqParts DEF EventsInv, Sourced
  <1>2. PICK n \in Nat : n = Len(events)
    BY <1>1
  <1>3. PICK e \in 1 .. MaxEvents : e = n + 1
    BY <1>2, EventsAssumption DEF Emit
  <1>4. PICK g \in DOMAIN grants : g = Min(may) /\ g \in Nat
    <2>1. may # {} /\ may \subseteq DOMAIN grants
      BY DEF Emit, Allowing
    <2> QED BY <2>1, GrantParts, MinIsLeast DEF EventsInv
  <1>5. /\ sequence \in [Instances -> 0 .. MaxEvents]
        /\ \A x \in Instances : sequence[x] <= n
    BY <1>2 DEF EventsInv, EventsTypeOK, Sourced
  <1>6. PICK x : x = [source |-> i, scope |-> s, generation |-> generation[s],
                      grant |-> g, number |-> sequence[i] + 1]
    OBVIOUS
  <1>7. x \in Emitted /\ x.grant = g
    <2>1. generation[s] \in Nat /\ sequence[i] + 1 \in Nat
      BY <1>5, GrantsAssumption DEF EventsInv, GrantsInv, GrantsTypeOK
    <2> QED BY <1>4, <1>6, <2>1 DEF Emitted
  <1>8. events' = Append(events, x)
    BY <1>4, <1>6 DEF Emit
  <1>9. /\ events' \in Seq(Emitted) /\ Len(events') = e
        /\ \A k \in 1 .. n : events'[k] = events[k]
        /\ events'[e] = x
    BY <1>1, <1>2, <1>3, <1>7, <1>8, AppendProperties
  <1>10. DOMAIN events' = 1 .. e /\ e \in Nat /\ n <= e /\ e <= MaxEvents
    BY <1>3, <1>9, SeqParts
  <1>11. overdue' = overdue
    BY DEF Emit
  <1>12. UNCHANGED <<clock, active, generation, open, grants, reads>> /\ Look
    BY DEF Emit
  <1>13. AuditOK'
    <2>1. AuditOK
      BY GrantsFacts DEF EventsInv
    <2>2. full \subseteq Subs /\ IsFiniteSet(Subs)
      BY EventsAssumption DEF Reached
    <2>3. Cardinality(full) \in Nat
      BY <2>2, FS_Subset, FS_CardinalityType
    <2>4. Note(Cardinality(full))
      BY DEF Emit
    <2> QED BY <2>1, <2>3, <2>4, NoteStep
  <1>14. GrantsInv' /\ Fades /\ ReadsAreAuthorized
    <2>1. GrantsInv
      BY DEF EventsInv
    <2>2. Calm
      BY <1>12, <1>13, <2>1, GrantsFacts, LookStep DEF Calm
    <2> QED BY <1>12, <2>1, <2>2, QuietStep
  <1>15. Sourced'
    <2>1. \A k \in DOMAIN events' : events'[k].grant \in DOMAIN grants'
      BY <1>1, <1>2, <1>3, <1>7, <1>9, <1>10, <1>12 DEF EventsInv, Sourced
    <2>2. sequence' = [sequence EXCEPT ![i] = sequence[i] + 1]
      BY DEF Emit
    <2>3. \A y \in Instances : sequence'[y] <= e
      BY <1>3, <1>5, <2>2
    <2> QED BY <1>9, <2>1, <2>3 DEF Sourced
  <1>16. sequence' \in [Instances -> 0 .. MaxEvents]
    <2>1. sequence[i] + 1 \in 0 .. MaxEvents
      BY <1>3, <1>5, EventsAssumption
    <2>2. sequence' = [sequence EXCEPT ![i] = sequence[i] + 1]
      BY DEF Emit
    <2> QED BY <1>5, <2>1, <2>2
  <1>17. ASSUME NEW b \in Subs
         PROVE  /\ subs'[b] \in Subscriptions
                /\ Tidy(subs'[b], e, DOMAIN grants)
                /\ subs'[b].running = subs[b].running
                /\ Prompt(subs[b]) => Prompt(subs'[b])
    <2>1. PICK r \in Subscriptions : r = subs[b]
      BY DEF EventsInv, EventsTypeOK
    <2>2. Tidy(r, n, DOMAIN grants)
      BY <1>2, <2>1 DEF EventsInv
    <2>3. Tidy(r, e, DOMAIN grants)
      BY <1>10, <2>2, TidyGrows
    <2>4. subs'[b] = IF b \in Reached(s) THEN Offered(b, e) ELSE r
      BY <1>2, <1>3, <2>1 DEF Emit
    <2>5. CASE b \notin Reached(s)
      BY <2>1, <2>3, <2>4, <2>5
    <2>6. CASE b \in Reached(s) /\ Full(b)
      <3>1. subs'[b] = Cancelled(r) /\ r.live
        BY <2>1, <2>4, <2>6 DEF Offered, Cancelled, Reached
      <3> QED BY <2>1, <2>3, <3>1, CancelledIsTidy
    <2>7. CASE b \in Reached(s) /\ ~Full(b)
      <3>1. subs'[b] = Queued(r, e) /\ r.live
        BY <2>1, <2>4, <2>7 DEF Offered, Queued, Reached
      <3>2. ~(Len(r.queue) >= EventQueue)
        BY <2>1, <2>7 DEF Full
      <3> QED BY <1>3, <2>1, <2>2, <3>1, <3>2, QueuedIsTidy
    <2> QED BY <2>5, <2>6, <2>7
  <1>18. subs' \in [Subs -> Subscriptions]
    <2>1. subs' = [b \in Subs |-> subs'[b]]
      BY DEF Emit
    <2> QED BY <1>17, <2>1
  <1>19. \A b \in Subs : Len(subs'[b].queue) <= EventQueue
    BY <1>17 DEF Tidy
  <1>20. EventsTypeOK'
    BY <1>9, <1>10, <1>14, <1>16, <1>18, <1>19 DEF EventsTypeOK, GrantsInv
  <1>21. \A b \in Subs : Subscriber(b) \notin overdue' => Prompt(subs'[b])
    BY <1>11, <1>17 DEF EventsInv
  <1>22. \A b \in Subs : Tidy(subs'[b], Len(events'), DOMAIN grants')
    BY <1>9, <1>12, <1>17
  <1>23. EventsInv'
    BY <1>14, <1>15, <1>20, <1>21, <1>22 DEF EventsInv, Subscriber
  <1>24. StartsAreAuthorized
    BY <1>17 DEF StartsAreAuthorized
  <1> QED BY <1>14, <1>23, <1>24

-----------------------------------------------------------------------------
(* The invariant, and what follows from it.                                *)

\* Authority changes, and no subscription does.
LEMMA AuthorityStep ==
  ASSUME EventsInv, GrantsNext, UNCHANGED eventVars
  PROVE  EventsInv' /\ Fades /\ ReadsAreAuthorized /\ StartsAreAuthorized
  <1>1. GrantsInv' /\ Fades /\ ReadsAreAuthorized
    BY GrantsStep DEF EventsInv
  <1>2. UNCHANGED <<subs, events, sequence, overdue>>
    BY DEF eventVars
  <1>3. DOMAIN grants \subseteq DOMAIN grants'
    BY <1>1 DEF Fades
  <1>4. EventsTypeOK'
    BY <1>1, <1>2 DEF EventsInv, EventsTypeOK, GrantsInv
  <1>5. Sourced'
    BY <1>2, <1>3 DEF EventsInv, Sourced
  <1>6. ASSUME NEW b \in Subs
        PROVE  Tidy(subs[b], Len(events), DOMAIN grants')
    <2>1. /\ subs[b] \in Subscriptions /\ Tidy(subs[b], Len(events), DOMAIN grants)
          /\ Len(events) \in Nat /\ Len(events) <= Len(events)
      BY SeqParts DEF EventsInv, EventsTypeOK, Sourced
    <2> QED BY <1>3, <2>1, TidyGrows
  <1>7. EventsInv'
    BY <1>1, <1>2, <1>4, <1>5, <1>6 DEF EventsInv, Subscriber
  <1>8. StartsAreAuthorized
    BY <1>2 DEF StartsAreAuthorized
  <1> QED BY <1>1, <1>7, <1>8

\* Any step.
LEMMA EventsStep ==
  ASSUME EventsInv, EventsNext
  PROVE  EventsInv' /\ Fades /\ ReadsAreAuthorized /\ StartsAreAuthorized
  <1>1. CASE GrantsNext /\ UNCHANGED eventVars
    BY <1>1, AuthorityStep
  <1>2. ASSUME NEW x \in Contexts, Emit(x[1], x[2])
        PROVE  EventsInv' /\ Fades /\ ReadsAreAuthorized /\ StartsAreAuthorized
    <2>1. x[1] \in Instances /\ x[2] \in Scopes
      BY GrantsAssumption
    <2> QED BY <1>2, <2>1, EmitStep
  <1>3. ASSUME NEW b \in Subs,
               \/ Subscribe(b) \/ Unsubscribe(b) \/ PumpTurns(b)
               \/ HandlerStarts(b) \/ HandlerTimesOut(b)
        PROVE  EventsInv' /\ Fades /\ ReadsAreAuthorized /\ StartsAreAuthorized
    BY <1>3, SubscribeStep, UnsubscribeStep, PumpTurnsStep, HandlerStartsStep,
       TimesOutStep
  <1>4. ASSUME NEW b \in Subs, NEW e \in 1 .. MaxEvents,
               NEW outcome \in {"OK", "INTERNAL", "DEADLINE_EXCEEDED"},
               HandlerEnds(b, e, outcome)
        PROVE  EventsInv' /\ Fades /\ ReadsAreAuthorized /\ StartsAreAuthorized
    BY <1>4, HandlerEndsStep
  <1> QED BY <1>1, <1>2, <1>3, <1>4 DEF EventsNext

\* Nothing happens.
LEMMA EventsStutter ==
  ASSUME EventsInv, UNCHANGED allVars
  PROVE  EventsInv' /\ Fades /\ ReadsAreAuthorized /\ StartsAreAuthorized
  <1>1. /\ UNCHANGED <<clock, mark, active, generation, open, grants, audit,
                       unavailable, reads, subs, events, sequence, overdue>>
    BY DEF allVars, grantVars, authority, auditVars, eventVars
  <1>2. EventsInv'
    BY <1>1 DEF EventsInv, GrantsInv, GrantsTypeOK, Derived, Dated, Begun,
                Bound, EventsTypeOK, Sourced, Subscriber
  <1>3. Fades /\ ReadsAreAuthorized /\ StartsAreAuthorized
    BY <1>1 DEF Fades, Stands, GoodAt, IsOpen, ReadsAreAuthorized,
                StartsAreAuthorized
  <1> QED BY <1>2, <1>3

\* Nothing is granted, asked or queued at first.
LEMMA EventsBegin == EventsInit => EventsInv
  <1> SUFFICES ASSUME EventsInit PROVE EventsInv
    OBVIOUS
  <1>1. /\ Len(<<>>) = 0 /\ DOMAIN <<>> = {} /\ \A R : <<>> \in Seq(R)
        /\ Cat(Cat(<<>>, <<>>), <<>>) = <<>>
    BY DEF Cat
  <1>2. GrantsInv
    <2>1. /\ clock = 0 /\ mark = 0 /\ active = Instances /\ open = Scopes /\ audit = 0
          /\ generation = [s \in Scopes |-> 1] /\ grants = <<>>
          /\ reads = <<>> /\ unavailable = FALSE
      BY DEF EventsInit, GrantsInit
    <2>2. /\ 0 \in 0 .. MaxTime /\ 0 \in 0 .. AuditCapacity
          /\ 0 <= MaxGrants /\ 1 \in 1 .. MaxGeneration
      BY GrantsAssumption
    <2>3. generation \in [Scopes -> 1 .. MaxGeneration]
      BY <2>1, <2>2
    <2>4. grants \in Seq(Stored) /\ Len(grants) <= MaxGrants
      BY <1>1, <2>1, <2>2
    <2>5. GrantsTypeOK
      BY <2>1, <2>2, <2>3, <2>4 DEF GrantsTypeOK
    <2>6. Derived /\ Dated /\ Begun /\ Bound
      BY <1>1, <2>1 DEF Derived, Dated, Begun, Bound
    <2> QED BY <2>5, <2>6 DEF GrantsInv
  <1>3. Sourced
    BY <1>1 DEF EventsInit, Sourced
  <1>4. ASSUME NEW b \in Subs
        PROVE  /\ subs[b] \in Subscriptions /\ Tidy(subs[b], 0, DOMAIN grants)
               /\ Prompt(subs[b]) /\ Len(subs[b].queue) <= EventQueue
    <2>1. subs[b] = [made |-> FALSE, live |-> FALSE, generation |-> 0,
                     grant |-> 0, queue |-> <<>>, pump |-> "idle",
                     current |-> <<>>, running |-> {}, admitted |-> <<>>,
                     settled |-> <<>>]
      BY DEF EventsInit
    <2>2. subs[b] \in Subscriptions
      BY <1>1, <2>1 DEF Subscriptions
    <2>3. /\ ~subs[b].made /\ ~subs[b].live /\ subs[b].pump = "idle"
          /\ subs[b].queue = <<>> /\ subs[b].current = <<>>
          /\ subs[b].running = {} /\ subs[b].admitted = <<>>
          /\ subs[b].settled = <<>>
      BY <2>1
    <2>4. 0 <= EventQueue
      BY EventsAssumption
    <2>5. Tidy(subs[b], 0, DOMAIN grants)
      BY <1>1, <2>3, <2>4 DEF Tidy, Blank
    <2>6. Prompt(subs[b])
      BY <2>3 DEF Prompt
    <2> QED BY <1>1, <2>2, <2>3, <2>4, <2>5, <2>6
  <1>5. subs \in [Subs -> Subscriptions]
    BY <1>4 DEF EventsInit
  <1>6. EventsTypeOK
    BY <1>1, <1>2, <1>4, <1>5, EventsAssumption
    DEF EventsInit, EventsTypeOK, GrantsInv
  <1>7. Len(events) = 0
    BY <1>1 DEF EventsInit
  <1> QED BY <1>2, <1>3, <1>4, <1>6, <1>7 DEF EventsInv

\* The invariant of subscriptions and grants holds.
THEOREM EventsInvariance == EventsSpec => []EventsInv
  <1>1. EventsInit => EventsInv
    BY EventsBegin
  <1>2. EventsInv /\ [EventsNext]_allVars => EventsInv'
    BY EventsStep, EventsStutter
  <1> QED BY <1>1, <1>2, PTL DEF EventsSpec

\* Every event queued for a live subscription was handled or refused, is with
\* the pump or is still queued, in order, and the pump sleeps only when nothing
\* is queued: emit() wakes it, and it looks again after each handler
\* (emit, pump).
THEOREM EventsAreKept == EventsSpec => []NothingIsLost
  <1>1. EventsInv => NothingIsLost
    <2> SUFFICES ASSUME EventsInv PROVE NothingIsLost
      OBVIOUS
    <2>1. EventsTypeOK
      BY DEF EventsInv
    <2>2. ASSUME NEW b \in Subs, subs[b].live
          PROVE  /\ subs[b].admitted
                      = Cat(Cat(subs[b].settled, subs[b].current), subs[b].queue)
                 /\ subs[b].queue # <<>> => subs[b].pump # "idle"
      BY <2>2 DEF EventsInv, Tidy
    <2> QED BY <2>1, <2>2 DEF NothingIsLost, Cat
  <1> QED BY <1>1, EventsInvariance, PTL

\* A second handler of a subscription runs beside a first only in an instance
\* marked for restart: otherwise the pump waits for the one it called, and the
\* end of a subscription starts no other (pump, bounded).
THEOREM HandlersStaySerial == EventsSpec => []HandlersAreSerial
  <1>1. EventsInv => HandlersAreSerial
    <2> SUFFICES ASSUME EventsInv, NEW b \in Subs, Subscriber(b) \notin overdue
                 PROVE  ~(Cardinality(subs[b].running) > 1)
      BY DEF HandlersAreSerial
    <2>1. PICK e \in Nat : subs[b].running \subseteq {e}
      BY DEF EventsInv, Prompt
    <2>2. IsFiniteSet({e}) /\ Cardinality({e}) = 1
      BY FS_Singleton
    <2>3. /\ Cardinality(subs[b].running) \in Nat
          /\ Cardinality(subs[b].running) <= 1
      BY <2>1, <2>2, FS_Subset, FS_CardinalityType
    <2> QED BY <2>3
  <1> QED BY <1>1, EventsInvariance, PTL

\* A grant that valid() rejects at the time of the last look is rejected at the
\* time of every later one, also when the clock is set back in between, since
\* fresh() passes at no earlier time, and when its scope is created again under
\* the same name: that one is of a later generation, and grants and the grants
\* they come from are never replaced (valid, fresh, newScope).
THEOREM AuthorityStaysLost == EventsSpec => AuthorityNeverReturns
  <1>1. EventsInv /\ EventsInv' /\ [EventsNext]_allVars
          => [\A k \in DOMAIN grants : ~Holds(k, mark) => ~Holds(k, mark)']_grantVars
    <2> SUFFICES ASSUME EventsInv, EventsInv', [EventsNext]_allVars
                 PROVE  \A k \in DOMAIN grants : ~Holds(k, mark) => ~Holds(k, mark)'
      OBVIOUS
    <2>1. Fades
      BY EventsStep, EventsStutter
    <2>2. \A k \in DOMAIN grants : Holds(k, mark)' => Holds(k, mark)
      BY <2>1, HoldsFades DEF EventsInv, Fades
    <2> QED BY <2>2
  <1> QED BY <1>1, EventsInvariance, PTL DEF EventsSpec, AuthorityNeverReturns

\* A handler starts, and a secret is handed out, only under grants that are
\* unbroken to the root at that moment and between instances that are ACTIVE:
\* what was checked before the queue, the microtask or the await is checked
\* again behind it (pump, secret).
THEOREM AuthorityIsFresh == EventsSpec => UsesAreAuthorized
  <1>1. EventsInv /\ [EventsNext]_allVars
          => [StartsAreAuthorized /\ ReadsAreAuthorized]_allVars
    BY EventsStep
  <1>2. EventsInv /\ [EventsNext]_allVars
          => [/\ \A b \in Subs : \A e \in subs'[b].running \ subs[b].running :
                   /\ subs[b].live
                   /\ Unbroken(subs[b].grant) /\ Unbroken(events[e].grant)
                   /\ {Subscriber(b), events[e].source} \subseteq active
              /\ \A n \in DOMAIN reads :
                   reads[n].at = "asked" /\ reads'[n].at = "given"
                     => Unbroken(reads[n].grant) /\ reads[n].instance \in active
             ]_allVars
    BY <1>1 DEF StartsAreAuthorized, ReadsAreAuthorized
  <1> QED BY <1>2, EventsInvariance, PTL DEF EventsSpec, UsesAreAuthorized

=============================================================================
