----------------------------- MODULE TrustProofs -----------------------------
(***************************************************************************)
(* Proofs about Trust and Packages, for any documents, rotation records,   *)
(* keys, submissions, faults and times.  The inductive invariant says of   *)
(* every mark from which the cell may go on (the one in memory, the one in *)
(* the file, those a loss of power may leave) what NoRollback,             *)
(* RootsAreChained and ClockIsRemembered say of the material in force.     *)
(* Verifying a package is a step of the trust store, so all this holds of  *)
(* Packages; that nothing unsigned gets in is a counting argument about    *)
(* inventories.                                                            *)
(***************************************************************************)
EXTENDS Packages, FiniteSetTheorems, TLAPS

\* The marks from which the cell may go on.
Marks == (durable \union {file}) \ {None}

\* A mark is not older than anything adopted.
Covers(w) ==
  /\ \A p \in adopted : Succeeds(w.policy, p)
  /\ \A r \in lists : Succeeds(w.revocation, r)

\* The root of a policy comes from the founder by rotation.
Chained(p) ==
  \/ p.root = founder.root
  \/ \E x \in Rotations : x[1] \in adopted /\ x[2].root = p.root

Memory ==
  up => /\ water.policy = material.policy
        /\ water.revocation = material.revocation
        /\ material.policy \in adopted /\ material.revocation \in lists
        /\ Covers(water) /\ water.time >= saved

Disk ==
  /\ \A w \in Marks : Covers(w) /\ w.time >= saved
  /\ founder # None => \A w \in Marks : Chained(w.policy)

\* Without a mark nothing has been adopted.
Founded ==
  /\ adopted # {} => founder \in adopted
  /\ adopted # {} => None \notin durable /\ file # None
  /\ adopted = {} => lists = {} /\ founder = None /\ saved = 0 /\ ~up

Inv ==
  TypeOK /\ Memory /\ Disk /\ Founded /\ \A p \in adopted : Chained(p)

\* A step that passes the check of the clock does so at or after a saved time.
PassesLate == passed' # passed => passed' >= saved

-----------------------------------------------------------------------------

\* Succeeds is transitive: a chain of replacements never ends at an older
\* document or at another one of the same version (update, constructor).
LEMMA SucceedsTransitive ==
  ASSUME NEW a, NEW b, NEW c, a.version \in Nat, b.version \in Nat,
         c.version \in Nat, Succeeds(a, b), Succeeds(b, c)
  PROVE  Succeeds(a, c)
  BY DEF Succeeds

\* A mark that supersedes one that covers everything adopted does so too.
LEMMA CoversGrows ==
  ASSUME TypeOK, NEW m \in Material, NEW w \in Water, NEW t \in Times,
         Covers(w), Supersedes(m, w)
  PROVE  Covers(Mark(m, t))
  <1>1. /\ \A p \in Policies : p.version \in Nat
        /\ \A r \in Revocations : r.version \in Nat
    BY TrustAssumption DEF PolicyType, RevocationType
  <1>2. /\ Mark(m, t).policy = m.policy /\ Mark(m, t).revocation = m.revocation
        /\ m.policy \in Policies /\ m.revocation \in Revocations
        /\ w.policy \in Policies /\ w.revocation \in Revocations
        /\ adopted \subseteq Policies /\ lists \subseteq Revocations
    BY DEF Mark, Material, Water, TypeOK
  <1>3. ASSUME NEW p \in adopted
        PROVE  Succeeds(Mark(m, t).policy, p)
    BY <1>1, <1>2, SucceedsTransitive DEF Covers, Supersedes
  <1>4. ASSUME NEW r \in lists
        PROVE  Succeeds(Mark(m, t).revocation, r)
    BY <1>1, <1>2, SucceedsTransitive DEF Covers, Supersedes
  <1> QED BY <1>3, <1>4 DEF Covers

\* A policy that is chained stays so when more is adopted (update).
LEMMA ChainedGrows ==
  ASSUME NEW p, Chained(p), founder' = founder, adopted \subseteq adopted'
  PROVE  Chained(p)'
  BY DEF Chained

-----------------------------------------------------------------------------
(* One lemma for each kind of step.                                        *)

\* Marks and materials are well-formed (constructor, update).
LEMMA MarkType ==
  ASSUME NEW m \in Material, NEW t \in Times
  PROVE  /\ Mark(m, t) \in Water /\ Mark(m, t).policy = m.policy
         /\ Mark(m, t).revocation = m.revocation /\ Mark(m, t).time = t
         /\ Mark(m, t) # None
  BY NoneAssumption DEF Mark, Material, Water

\* What adopting m makes of the ghosts, when its mark covers everything
\* adopted so far and its root is chained (constructor, update).
LEMMA AdoptStep ==
  ASSUME Inv, NEW m \in Material, NEW t \in Times,
         Covers(Mark(m, t)), founder # None => Chained(m.policy), Adopt(m)
  PROVE  /\ Covers(Mark(m, t))'
         /\ Chained(m.policy)'
         /\ \A p \in adopted' : Chained(p)'
         /\ adopted' \subseteq Policies /\ lists' \subseteq Revocations
         /\ m.policy \in adopted' /\ founder' \in adopted'
         /\ m.revocation \in lists'
  <1>1. /\ m.policy \in Policies /\ m.revocation \in Revocations
        /\ m.policy.version \in Nat /\ m.revocation.version \in Nat
    BY TrustAssumption DEF Material, PolicyType, RevocationType
  <1>2. Mark(m, t)' = Mark(m, t)
    BY DEF Mark
  <1>3. Succeeds(m.policy, m.policy) /\ Succeeds(m.revocation, m.revocation)
    BY <1>1 DEF Succeeds
  <1>4. Covers(Mark(m, t))'
    BY <1>1, <1>3, MarkType DEF Covers, Adopt, Succeeds
  <1>5. /\ adopted' \subseteq Policies /\ lists' \subseteq Revocations
        /\ m.policy \in adopted' /\ m.revocation \in lists'
    BY <1>1 DEF Adopt, Inv, TypeOK
  <1>6. CASE founder = None
    <2>1. adopted = {}
      BY <1>6, NoneAssumption DEF Inv, Founded, TypeOK
    <2>2. adopted' = {m.policy} /\ founder' = m.policy
      BY <1>6, <2>1 DEF Adopt
    <2> QED BY <1>4, <1>5, <2>2 DEF Chained
  <1>7. CASE founder # None
    <2>1. founder' = founder /\ adopted \subseteq adopted'
          /\ adopted' = adopted \union {m.policy}
      BY <1>7 DEF Adopt
    <2>2. adopted # {}
      BY <1>7 DEF Inv, Founded
    <2>3. Chained(m.policy)'
      BY <1>7, <2>1, ChainedGrows
    <2>4. \A p \in adopted : Chained(p)'
      BY <2>1, ChainedGrows DEF Inv
    <2> QED BY <1>4, <1>5, <2>1, <2>2, <2>3, <2>4 DEF Inv, Founded
  <1> QED BY <1>6, <1>7

\* The constructor keeps the invariant and passes no earlier than a saved time.
LEMMA BootStep ==
  ASSUME Inv, NEW m \in Material, Boot(m)
  PROVE  Inv' /\ PassesLate
  <1>0. PICK t \in Times : t = clock
    BY DEF Inv, TypeOK
  <1> DEFINE w == Mark(m, t)
  <1>1. t \in Times /\ t >= 0 /\ saved \in Times
    BY <1>0, TrustAssumption DEF Inv, TypeOK, Times
  <1>2. /\ w \in Water /\ w.policy = m.policy /\ w.revocation = m.revocation
        /\ w.time = t /\ w # None
    BY <1>1, MarkType
  <1>3. file # None => file \in Marks /\ file \in Water
    BY DEF Marks, Inv, TypeOK
  <1>4. Covers(w)
    <2>1. CASE file = None
      BY <2>1 DEF Inv, Founded, Covers
    <2>2. CASE file # None
      BY <1>1, <1>3, <2>2, CoversGrows DEF Inv, Disk, Boot, Admits
    <2> QED BY <2>1, <2>2
  <1>5. t >= saved
    <2>1. CASE file = None
      BY <1>1, <2>1 DEF Inv, Founded
    <2>2. CASE file # None
      <3>1. file.time <= t /\ file.time >= saved /\ file.time \in Times
        BY <1>0, <1>3, <2>2 DEF Inv, Disk, Boot, Admits, Water
      <3> QED BY <1>1, <3>1 DEF Times
    <2> QED BY <2>1, <2>2
  <1>6. founder # None => Chained(m.policy)
    <2> SUFFICES ASSUME founder # None
                 PROVE  Chained(m.policy)
      OBVIOUS
    <2>1. file # None
      BY DEF Inv, Founded
    <2>2. Chained(file.policy) /\ m.policy.root = file.policy.root
      BY <1>3, <2>1 DEF Inv, Disk, Boot, Admits
    <2> QED BY <2>2 DEF Chained
  <1>7. CASE UNCHANGED <<memory, ghosts>>
    <2>2. \/ file' = file /\ durable' = durable
          \/ file' = w /\ durable' \subseteq durable \union {w}
      BY <1>0 DEF Boot, Saved, Unsaved
    <2>3. Marks' \subseteq Marks \union {w}
      BY <2>2 DEF Marks
    <2>4. UNCHANGED <<up, material, water, broken, adopted, lists, founder,
                      passed, saved, clock>>
      BY <1>7 DEF memory, ghosts, Boot
    <2>5. TypeOK'
      BY <1>2, <2>2, <2>4 DEF Inv, TypeOK
    <2>6. Memory' /\ \A p \in adopted' : Chained(p)'
      BY <2>4 DEF Inv, Memory, Chained, Boot
    <2>7. ASSUME NEW x \in Marks'
          PROVE  /\ Covers(x)' /\ x.time >= saved'
                 /\ founder' # None => Chained(x.policy)'
      BY <1>2, <1>4, <1>5, <1>6, <2>3, <2>4, <2>7
         DEF Inv, Disk, Covers, Chained
    <2>8. Founded'
      BY <1>2, <2>2, <2>4 DEF Inv, Founded
    <2> QED BY <2>4, <2>5, <2>6, <2>7, <2>8 DEF Inv, Disk, PassesLate
  <1>8. CASE Saved(w) /\ Adopt(m) /\ up' = TRUE /\ broken' = FALSE
             /\ material' = m /\ water' = w /\ passed' = t /\ saved' = t
    <2>1. /\ Covers(w)' /\ Chained(m.policy)' /\ \A p \in adopted' : Chained(p)'
          /\ adopted' \subseteq Policies /\ lists' \subseteq Revocations
          /\ m.policy \in adopted' /\ founder' \in adopted'
          /\ m.revocation \in lists'
      BY <1>1, <1>4, <1>6, <1>8, AdoptStep
    <2>2. Marks' = {w} /\ file' = w /\ durable' = {w}
      BY <1>2, <1>8 DEF Marks, Saved
    <2>3. clock' = clock
      BY DEF Boot
    <2>4. TypeOK'
      BY <1>0, <1>1, <1>2, <1>8, <2>1, <2>2, <2>3 DEF TypeOK
    <2>5. Memory' /\ Disk' /\ Founded'
      BY <1>1, <1>2, <1>8, <2>1, <2>2 DEF Memory, Disk, Founded, Times, Covers
    <2> QED BY <1>5, <1>8, <2>1, <2>4, <2>5 DEF Inv, PassesLate
  <1> QED BY <1>0, <1>7, <1>8 DEF Boot

\* The mark fresh() leaves has the documents in force and the present time.
LEMMA MarkedType ==
  ASSUME Inv, up, clock >= water.time, NEW t \in Times, t = clock
  PROVE  LET x == [water EXCEPT !.time = t]
         IN  /\ x \in Water /\ x # None /\ x.policy = water.policy
             /\ x.revocation = water.revocation /\ x.time = t
             /\ Covers(x) /\ t >= saved /\ Chained(x.policy)
             /\ x = Marked
             /\ water \in Water /\ water.time \in Times /\ saved \in Times
             /\ founder # None
  <1> DEFINE x == [water EXCEPT !.time = t]
  <1>1. water \in Water /\ material \in Material
    BY DEF Inv, TypeOK
  <1>2. /\ x \in Water /\ x.policy = water.policy
        /\ x.revocation = water.revocation /\ x.time = t
        /\ water.time \in Times /\ saved \in Times
    BY <1>1 DEF Water, Inv, TypeOK
  <1>3. Covers(x)
    BY <1>2 DEF Inv, Memory, Covers
  <1>4. t >= saved
    BY <1>2, TrustAssumption DEF Inv, Memory, Times
  <1>5. Chained(x.policy) /\ adopted # {}
    BY <1>2 DEF Inv, Memory
  <1>6. founder # None
    BY <1>5, NoneAssumption DEF Inv, Founded, TypeOK
  <1> QED BY <1>1, <1>2, <1>3, <1>4, <1>5, <1>6, NoneAssumption DEF Marked

\* fresh() keeps the invariant and passes no earlier than a saved time.
LEMMA FreshStep ==
  ASSUME Inv, Fresh
  PROVE  Inv' /\ PassesLate
  <1>0. PICK t \in Times : t = clock
    BY DEF Inv, TypeOK
  <1> DEFINE x == [water EXCEPT !.time = t]
  <1>1. /\ up /\ UNCHANGED <<clock, up, material, adopted, lists, founder>>
        /\ saved \in Times /\ passed \in Times
    BY DEF Fresh, Inv, TypeOK
  <1>2. \A p \in adopted' : Chained(p)'
    BY <1>1 DEF Inv, Chained
  <1>3. CASE ~Passes
    <2>1. UNCHANGED <<water, file, durable, passed, saved>> /\ broken' \in BOOLEAN
      BY <1>3 DEF Fresh, disk, Inv, TypeOK
    <2>2. TypeOK'
      BY <1>1, <2>1 DEF Inv, TypeOK
    <2>3. Memory' /\ Disk' /\ Founded'
      BY <1>1, <2>1 DEF Inv, Memory, Disk, Founded, Marks, Covers, Chained
    <2> QED BY <1>2, <2>1, <2>2, <2>3 DEF Inv, PassesLate
  <1>4. CASE Passes
    <2>1. /\ x \in Water /\ x # None /\ x.policy = water.policy
          /\ x.revocation = water.revocation /\ x.time = t
          /\ Covers(x) /\ t >= saved /\ Chained(x.policy) /\ x = Marked
          /\ water \in Water /\ water.time \in Times
          /\ founder # None
      BY <1>0, <1>1, <1>4, MarkedType DEF Passes
    <2>2. ASSUME NEW z, Covers(z)
          PROVE  Covers(z)'
      BY <1>1, <2>2 DEF Covers
    <2>3. ASSUME NEW p, Chained(p)
          PROVE  Chained(p)'
      BY <1>1, <2>3 DEF Chained
    <2>4. CASE UNCHANGED <<water, broken, disk, saved>> /\ passed' = t
      <3>1. UNCHANGED <<water, broken, file, durable, saved>> /\ Marks' = Marks
        BY <2>4 DEF disk, Marks
      <3>2. TypeOK'
        BY <1>1, <2>4, <3>1 DEF Inv, TypeOK
      <3>3. Memory' /\ Disk' /\ Founded'
        BY <1>1, <2>2, <2>3, <3>1 DEF Inv, Memory, Disk, Founded
      <3> QED BY <1>2, <2>1, <2>4, <3>2, <3>3 DEF Inv, PassesLate
    <2>5. CASE /\ clock > water.time /\ water' = x /\ broken' = broken
               /\ \/ /\ file' = x /\ durable' = {x}
                     /\ passed' = t /\ saved' = t
                  \/ /\ \/ file' = file /\ durable' = durable
                        \/ file' = x /\ durable' = durable \union {x}
                     /\ passed' = passed /\ saved' = saved
      <3>1. saved' \in Times /\ passed' \in Times /\ t >= saved' /\ PassesLate
        BY <1>0, <1>1, <2>1, <2>5 DEF Times, PassesLate
      <3>2. /\ Marks' \subseteq Marks \union {x}
            /\ saved' # saved => Marks' = {x}
        BY <2>1, <2>5 DEF Marks
      <3>3. TypeOK'
        BY <1>1, <2>1, <2>5, <3>1 DEF Inv, TypeOK
      <3>4. ASSUME NEW z \in Marks'
            PROVE  Covers(z)' /\ z.time >= saved' /\ Chained(z.policy)'
        BY <2>1, <2>2, <2>3, <3>1, <3>2, <3>4 DEF Inv, Disk
      <3>5. Memory'
        <4>1. Covers(water)'
          BY <1>1, <2>1, <2>5 DEF Covers
        <4> QED BY <1>1, <2>1, <2>5, <3>1, <4>1 DEF Inv, Memory
      <3>6. Founded'
        BY <1>1, <2>1, <2>5 DEF Inv, Founded
      <3> QED BY <1>2, <3>1, <3>3, <3>4, <3>5, <3>6 DEF Inv, Disk
    <2> QED BY <1>0, <1>4, <2>1, <2>4, <2>5 DEF Fresh, Saved, Unsaved
  <1> QED BY <1>3, <1>4

\* update() keeps the invariant and passes no earlier than a saved time.
LEMMA UpdateStep ==
  ASSUME Inv, NEW m \in Material, Update(m)
  PROVE  Inv' /\ PassesLate
  <1>0. PICK t \in Times : t = clock
    BY DEF Inv, TypeOK
  <1>1. PICK x \in Water : x = [water EXCEPT !.time = t]
    BY <1>0, MarkedType DEF Update, Passes
  <1> DEFINE w == Mark(m, t)
  <1>2. /\ up /\ UNCHANGED <<clock, up, broken>>
        /\ Supersedes(m, water) /\ MayFollow(m) /\ clock >= water.time
    BY DEF Update, Passes
  <1>3. /\ x # None /\ x.policy = water.policy
        /\ x.revocation = water.revocation /\ x.time = t
        /\ Covers(x) /\ t >= saved /\ Chained(x.policy) /\ x = Marked
        /\ water \in Water /\ water.time \in Times /\ saved \in Times
        /\ founder # None
    BY <1>0, <1>1, <1>2, MarkedType
  <1>4. /\ w \in Water /\ w.policy = m.policy /\ w.revocation = m.revocation
        /\ w.time = t /\ w # None
    BY MarkType
  <1>5. Covers(w)
    BY <1>2, <1>3, CoversGrows DEF Inv, Memory
  <1>6. Chained(m.policy)
    <2>1. /\ water.policy = material.policy /\ material.policy \in adopted
          /\ Chained(material.policy)
      BY <1>2 DEF Inv, Memory
    <2>2. CASE m.policy.root = material.policy.root
      BY <2>1, <2>2 DEF Chained
    <2>3. CASE m.policy.root # material.policy.root
      <3>1. <<material.policy, m.policy>> \in Rotations
        BY <1>2, <2>1, <2>3 DEF MayFollow
      <3> QED BY <2>1, <3>1 DEF Chained
    <2> QED BY <2>2, <2>3
  <1>7. t >= t /\ t \in Nat /\ passed' = t
    BY <1>0, TrustAssumption DEF Times, Update
  <1>8. CASE /\ file' = w /\ durable' = {w} /\ water' = w /\ material' = m
             /\ Adopt(m) /\ saved' = t
    <2>1. /\ Covers(w)' /\ Chained(m.policy)' /\ \A p \in adopted' : Chained(p)'
          /\ adopted' \subseteq Policies /\ lists' \subseteq Revocations
          /\ m.policy \in adopted' /\ founder' \in adopted'
          /\ m.revocation \in lists'
      BY <1>5, <1>6, <1>8, AdoptStep
    <2>2. Marks' = {w}
      BY <1>4, <1>8 DEF Marks
    <2>3. TypeOK'
      BY <1>0, <1>2, <1>4, <1>7, <1>8, <2>1 DEF Inv, TypeOK
    <2>4. Memory' /\ Disk' /\ Founded'
      BY <1>4, <1>7, <1>8, <2>1, <2>2 DEF Memory, Disk, Founded, Covers
    <2> QED BY <1>3, <1>7, <2>1, <2>3, <2>4 DEF Inv, PassesLate
  <1>9. CASE /\ water' = x /\ UNCHANGED <<material, adopted, lists, founder>>
             /\ saved' = IF clock > water.time THEN t ELSE saved
             /\ Unsaved(w, IF clock > water.time THEN x ELSE file,
                        IF clock > water.time THEN {x} ELSE durable)
    <2>1. saved' \in Times /\ t >= saved'
      BY <1>3, <1>7, <1>9
    <2>2. Marks' \subseteq Marks \union {x, w}
      BY <1>9 DEF Marks, Unsaved
    <2>3. clock > water.time => Marks' \subseteq {x, w}
      BY <1>9 DEF Marks, Unsaved
    <2>4. ASSUME NEW z, Covers(z)
          PROVE  Covers(z)'
      BY <1>9, <2>4 DEF Covers
    <2>5. ASSUME NEW p, Chained(p)
          PROVE  Chained(p)'
      BY <1>9, <2>5 DEF Chained
    <2>6. \A z \in Marks' : Covers(z)' /\ Chained(z.policy)'
      BY <1>3, <1>4, <1>5, <1>6, <2>2, <2>4, <2>5 DEF Inv, Disk
    <2>8. ASSUME NEW z \in Marks' PROVE z.time >= saved'
      <3>1. CASE clock > water.time
        BY <1>3, <1>4, <2>1, <2>3, <2>8, <3>1
      <3>2. CASE ~(clock > water.time)
        <4>1. saved' = saved
          BY <1>9, <3>2
        <4> QED BY <1>3, <1>4, <2>2, <2>8, <4>1 DEF Inv, Disk
      <3> QED BY <3>1, <3>2
    <2>9. Disk'
      BY <2>6, <2>8 DEF Disk
    <2>10. Memory'
      <3>1. Covers(water)'
        BY <1>3, <1>9 DEF Covers
      <3> QED BY <1>2, <1>3, <1>9, <2>1, <3>1 DEF Inv, Memory
    <2>11. file' \in {file, x, w} /\ durable' \subseteq durable \union {x, w}
      BY <1>9 DEF Unsaved
    <2>12. TypeOK'
      BY <1>0, <1>1, <1>2, <1>4, <1>7, <1>9, <2>1, <2>11 DEF Inv, TypeOK
    <2>13. Founded'
      BY <1>2, <1>3, <1>4, <1>9, <2>11 DEF Inv, Founded
    <2>14. \A p \in adopted' : Chained(p)'
      BY <1>9, <2>5 DEF Inv
    <2> QED BY <1>3, <1>7, <2>9, <2>10, <2>12, <2>13, <2>14 DEF Inv, PassesLate
  <1> QED
    <2>1. Marked = x
      BY <1>3
    <2> QED BY <1>0, <1>8, <1>9, <2>1 DEF Update, Saved

\* The end of the process or of the machine keeps the invariant: what is left
\* of the marks was covered already (persist).
LEMMA StopStep ==
  ASSUME Inv, Exit \/ PowerLoss
  PROVE  Inv' /\ PassesLate
  <1>1. /\ up' = FALSE /\ broken' = FALSE
        /\ UNCHANGED <<clock, adopted, lists, founder, passed, saved>>
    BY DEF Exit, PowerLoss, Gone, ghosts
  <1>2. /\ Marks' \subseteq Marks
        /\ file' \in durable \union {file} /\ durable' \subseteq durable
    BY DEF Exit, PowerLoss, disk, Marks
  <1>3. TypeOK'
    BY <1>1, <1>2 DEF Inv, TypeOK
  <1>4. Disk' /\ \A p \in adopted' : Chained(p)'
    BY <1>1, <1>2 DEF Inv, Disk, Covers, Chained
  <1>5. Memory' /\ Founded'
    BY <1>1, <1>2 DEF Inv, Memory, Founded
  <1> QED BY <1>1, <1>3, <1>4, <1>5 DEF Inv, PassesLate

\* Setting the clock changes nothing that the invariant speaks of (now).
LEMMA ClockStep ==
  ASSUME Inv, SetClock \/ UNCHANGED vars
  PROVE  Inv' /\ PassesLate
  <1>1. /\ UNCHANGED <<up, material, water, broken, file, durable, adopted,
                       lists, founder, passed, saved>>
        /\ clock' \in Times
    BY DEF SetClock, vars, memory, disk, ghosts, Inv, TypeOK
  <1>2. TypeOK'
    BY <1>1 DEF Inv, TypeOK
  <1>3. Memory' /\ Disk' /\ Founded' /\ \A p \in adopted' : Chained(p)'
    BY <1>1 DEF Inv, Memory, Disk, Founded, Marks, Covers, Chained
  <1> QED BY <1>1, <1>2, <1>3 DEF Inv, PassesLate

-----------------------------------------------------------------------------

\* Every step of the specification keeps the invariant, and no check of the
\* clock passes before a saved time (constructor, fresh, update).
LEMMA NextStep ==
  ASSUME Inv, [Next]_vars
  PROVE  Inv' /\ PassesLate
  <1>1. ASSUME NEW m \in Material, Boot(m) PROVE Inv' /\ PassesLate
    BY <1>1, BootStep
  <1>2. ASSUME NEW m \in Material, Update(m) PROVE Inv' /\ PassesLate
    BY <1>2, UpdateStep
  <1>3. CASE Fresh
    BY <1>3, FreshStep
  <1>4. CASE Exit \/ PowerLoss
    BY <1>4, StopStep
  <1>5. CASE SetClock \/ UNCHANGED vars
    BY <1>5, ClockStep
  <1> QED BY <1>1, <1>2, <1>3, <1>4, <1>5 DEF Next

\* The invariant holds before a store was ever opened.
LEMMA InitInv ==
  ASSUME Init
  PROVE  Inv
  <1>0. 0 \in Times
    BY TrustAssumption DEF Times
  <1>1. TypeOK
    BY <1>0, Zenon DEF Init, TypeOK
  <1> QED BY <1>1 DEF Init, Inv, Memory, Disk, Founded, Marks

\* Every reachable state of the trust store satisfies the invariant.
THEOREM Invariance == Spec => []Inv
  <1>1. Inv /\ [Next]_vars => Inv'
    BY NextStep
  <1> QED BY <1>1, InitInv, PTL DEF Spec

\* The variables keep their types.
THEOREM TypeCorrect == Spec => []TypeOK
  <1>1. Inv => TypeOK
    BY DEF Inv
  <1> QED BY <1>1, Invariance, PTL

\* For any documents, faults and crashes: a material older than one adopted
\* before, or another one of its version, is never in force (update,
\* constructor, persist).
THEOREM NeverRolledBack == Spec => []NoRollback
  <1>1. Inv => NoRollback
    BY DEF Inv, Memory, Covers, NoRollback
  <1> QED BY <1>1, Invariance, PTL

\* For any rotation records and crashes: every root key the cell ever trusted
\* comes from the first by rotation (update, constructor).
THEOREM RootsComeByRotation == Spec => []RootsAreChained
  <1>1. Inv => RootsAreChained
    BY DEF Inv, Chained, RootsAreChained
  <1> QED BY <1>1, Invariance, PTL

\* What survives a crash carries every saved time (fresh, persist).
THEOREM TimeIsKept == Spec => []ClockIsRemembered
  <1>1. Inv => ClockIsRemembered
    BY DEF Inv, Memory, Disk, Marks, ClockIsRemembered
  <1> QED BY <1>1, Invariance, PTL

\* Over any number of failed writes, restarts and losses of power, the store
\* never passes its check of the clock before a time it saved (constructor,
\* fresh, update).
THEOREM TimeIsMonotone == Spec => SavedTimesHold
  <1>1. Inv /\ [Next]_vars => [PassesLate]_vars
    BY NextStep
  <1>2. [PassesLate]_vars => [passed' # passed => passed' >= saved]_vars
    BY DEF PassesLate
  <1> QED BY <1>1, <1>2, Invariance, PTL DEF Spec, SavedTimesHold

-----------------------------------------------------------------------------
(* Packages.                                                               *)

\* The paths of an inventory.
Paths(inventory) == {inventory[k].path : k \in DOMAIN inventory}

\* The elements of a sequence are of its type.
LEMMA RangeOfSeq ==
  ASSUME NEW R, NEW q \in Seq(R)
  PROVE  Range(q) \subseteq R
  BY DEF Range

\* An inventory without duplicates has as many paths as entries (unique()).
LEMMA UniqueCounts ==
  ASSUME NEW R, NEW list \in Seq(R), Unique(list)
  PROVE  IsFiniteSet(Paths(list)) /\ Cardinality(Paths(list)) = Len(list)
  <1> DEFINE f == [k \in DOMAIN list |-> list[k].path]
  <1>1. DOMAIN list = 1 .. Len(list) /\ Len(list) \in Nat
    OBVIOUS
  <1>2. f \in Bijection(DOMAIN list, Paths(list))
    BY DEF Bijection, Injection, Surjection, Unique, Paths, IsInjective
  <1>3. ExistsBijection(DOMAIN list, Paths(list))
    BY <1>2 DEF ExistsBijection
  <1>4. IsFiniteSet(DOMAIN list) /\ Cardinality(DOMAIN list) = Len(list)
    BY <1>1, FS_Interval
  <1> QED BY <1>3, <1>4, FS_Bijection

\* Counting is enough: when no path is listed twice and there is one artifact
\* more than files, looking every artifact up in the package accounts for the
\* index and for every file (verifyPackage).
LEMMA NothingIsLeftOut ==
  ASSUME NEW s \in Submissions, Listed(s), Sealed(s)
  PROVE  /\ Index \notin DOMAIN s.files
         /\ Paths(s.bundle.artifacts) = DOMAIN s.files \union {Index}
  <1> DEFINE list == IndexOf[s.index].files
             sealed == s.bundle.artifacts
             files == DOMAIN s.files
  <1>1. /\ list \in Seq([path : STRING, content : STRING])
        /\ sealed \in Seq([path : STRING, content : STRING])
        /\ IsFiniteSet(files)
    BY SubmissionsAssumption, Zenon
  <1>2. Cardinality(files) = Len(list)
    BY Zenon DEF Listed
  <1>3. /\ Unique(sealed) /\ Len(sealed) = Len(list) + 1
        /\ Matched(s)
    BY Zenon DEF Sealed
  <1>4. Cardinality(Paths(sealed)) = Len(list) + 1 /\ Len(list) \in Nat
    BY <1>1, <1>3, UniqueCounts
  <1>5. Paths(sealed) \subseteq files \union {Index}
    BY <1>1, <1>3 DEF Paths, Matched, Range
  <1>6. /\ IsFiniteSet(files \union {Index})
        /\ Cardinality(files \union {Index})
             = IF Index \in files THEN Len(list) ELSE Len(list) + 1
    BY <1>1, <1>2, FS_AddElement
  <1>7. /\ Cardinality(Paths(sealed)) <= Cardinality(files \union {Index})
        /\ Cardinality(files \union {Index}) = Cardinality(Paths(sealed))
             => files \union {Index} = Paths(sealed)
    BY <1>5, <1>6, FS_Subset
  <1> QED BY <1>4, <1>6, <1>7

\* What verifyPackage() accepts is what the bundle names, the text of the index
\* and every file of it.
LEMMA EverythingIsSealed ==
  ASSUME NEW s \in Submissions, Listed(s), Sealed(s)
  PROVE  /\ [path |-> Index, content |-> s.index] \in Range(s.bundle.artifacts)
         /\ \A f \in DOMAIN s.files :
              [path |-> f, content |-> s.files[f]] \in Range(s.bundle.artifacts)
  <1> DEFINE sealed == s.bundle.artifacts
  <1>1. sealed \in Seq([path : STRING, content : STRING]) /\ Matched(s)
    BY SubmissionsAssumption, Zenon DEF Sealed
  <1>2. ASSUME NEW f \in DOMAIN s.files \union {Index}
        PROVE  \E x \in Range(sealed) : x.path = f
    <2>1. f \in Paths(sealed)
      BY NothingIsLeftOut
    <2> QED BY <2>1 DEF Paths, Range
  <1>3. \A x \in Range(sealed) : x = [path |-> x.path, content |-> x.content]
    <2>1. ASSUME NEW x \in [path : STRING, content : STRING]
          PROVE  x = [path |-> x.path, content |-> x.content]
      OBVIOUS
    <2>2. Range(sealed) \subseteq [path : STRING, content : STRING]
      BY <1>1, RangeOfSeq
    <2> QED BY <2>1, <2>2
  <1>4. [path |-> Index, content |-> s.index] \in Range(sealed)
    <2>1. PICK x \in Range(sealed) : x.path = Index
      BY <1>2
    <2>2. x.content = s.index
      BY <1>1, <2>1 DEF Matched
    <2> QED BY <1>3, <2>1, <2>2
  <1>5. ASSUME NEW f \in DOMAIN s.files
        PROVE  [path |-> f, content |-> s.files[f]] \in Range(sealed)
    <2>1. PICK x \in Range(sealed) : x.path = f
      BY <1>2
    <2>2. x.content = s.files[f]
      BY <1>1, <2>1, NothingIsLeftOut DEF Matched
    <2> QED BY <1>3, <2>1, <2>2
  <1> QED BY <1>4, <1>5

\* The list in force is the latest one adopted (update, constructor).
LEMMA LatestIsInForce ==
  ASSUME Inv, up, NEW r \in lists, \A q \in lists : q.version <= r.version
  PROVE  r = material.revocation
  <1>1. /\ material.revocation \in lists /\ Succeeds(material.revocation, r)
        /\ water.revocation = material.revocation
    BY DEF Inv, Memory, Covers
  <1>2. r.version \in Nat /\ material.revocation.version \in Nat
    BY <1>1, TrustAssumption DEF Inv, TypeOK, RevocationType
  <1> QED BY <1>1, <1>2 DEF Succeeds

-----------------------------------------------------------------------------

\* Verifying a package does to the trust store what fresh() does.
THEOREM PackagesImplementTrust == PackagesSpec => Spec
  <1>1. PackagesInit => Init
    BY DEF PackagesInit
  <1>2. [PackagesNext]_packageVars => [Next]_vars
    BY DEF PackagesNext, packageVars, VerifyPackage, Next
  <1> QED BY <1>1, <1>2, PTL DEF PackagesSpec, Spec

\* For any keys, bundles and submissions, over restarts and losses of power:
\* a package that is verified was sealed by its key down to the last file, and
\* that key is not in the latest revocation list adopted (verifyPackage,
\* accepted, signature).
THEOREM OnlySignedPackages == PackagesSpec => VerifiedIsSigned
  <1> DEFINE p == package'
             sealed == Range(p.bundle.artifacts)
             Step ==
               package' # package /\ package' # None =>
                 /\ <<p.signer, p.bundle>> \in Signed
                 /\ [path |-> Index, content |-> p.index] \in sealed
                 /\ \A f \in DOMAIN p.files :
                      [path |-> f, content |-> p.files[f]] \in sealed
                 /\ \A r \in lists :
                      (\A q \in lists : q.version <= r.version)
                        => p.signer \notin Revokes[r].keys
  <1>1. ASSUME Inv, NEW s \in Submissions, VerifyPackage(s)
        PROVE  Step
    <2>1. /\ up /\ Listed(s) /\ Sealed(s)
          /\ Accepted(PackageOf(s)) /\ Verified(s) /\ p = PackageOf(s)
      BY <1>1 DEF VerifyPackage, Fresh
    <2>2. /\ p.signer = s.signer /\ p.bundle = s.bundle /\ p.files = s.files
          /\ p.index = s.index
      BY <2>1 DEF PackageOf
    <2>3. p.signer \notin Revokes[material.revocation].keys
      BY <2>1 DEF Accepted
    <2>4. \A r \in lists : (\A q \in lists : q.version <= r.version)
                             => p.signer \notin Revokes[r].keys
      BY <1>1, <2>1, <2>3, LatestIsInForce
    <2> QED BY <2>1, <2>2, <2>4, EverythingIsSealed DEF Verified
  <1>2. Inv /\ [PackagesNext]_packageVars => [Step]_packageVars
    BY <1>1 DEF PackagesNext, packageVars
  <1>3. PackagesSpec => []Inv
    BY PackagesImplementTrust, Invariance, PTL
  <1> QED BY <1>2, <1>3, PTL DEF PackagesSpec, VerifiedIsSigned

=============================================================================
