----------------------------- MODULE CallsProofs -----------------------------
(***************************************************************************)
(* Safety proofs for Calls: the tables, the cancellation tree, the         *)
(* idempotency ledger and the answers, for any number of sessions, request *)
(* ids, keys and attempts and any limits.  The lemmas are about single     *)
(* operations, so that StreamsProofs can use them for streamed calls.      *)
(***************************************************************************)
EXTENDS Calls, FiniteSetTheorems, TLAPS

-----------------------------------------------------------------------------
(* The inductive invariant.                                                *)

\* The request ids of session s that are taken, and the keys with a record.
Taken(s) == {n \in Ids : pending[<<s, n>>] # 0}
Recorded == {x \in Sessions \X Keys : ledger[x] # NoRecord}

\* The tables name exactly the outstanding attempts.
Tables ==
  /\ done \subseteq Made /\ aborted \subseteq done
  /\ admitted = Made \ done /\ IsFiniteSet(admitted)
  /\ \A s \in Sessions : IsFiniteSet(Taken(s))
  /\ \A a \in Made \ done : pending[<<request[a].session, request[a].id>>] = a
  /\ \A x \in Sessions \X Ids : pending[x] # 0 =>
       /\ pending[x] \in Made \ done
       /\ x = <<request[pending[x]].session, request[pending[x]].id>>

\* Attempts come after their parents, and what was not made has no state.
Attempted ==
  /\ \A a \in Made : request[a].parent \in Made \union {0}
  /\ \A a \in Attempts \ Made : pc[a] = "unused" /\ outcome[a] = -1
  /\ \A a \in Attempts : pc[a] = "racing" => a \notin done
  /\ \A a \in Attempts : pc[a] = "over" => a \in done

\* The call of attempt a is on record under its key, with the state of its
\* handler.
Held(a) ==
  LET r == ledger[<<request[a].session, request[a].key>>]
  IN  /\ r # NoRecord /\ r.by = a
      /\ \/ handler[a] = "running" /\ r.pending
         \/ /\ handler[a] = "ended" /\ ~r.pending
            /\ r.expires = ended[a] + Retention

\* Records belong to calls of their caller, key and payload; while the
\* provider is in place every call with a key is on record until its
\* retention is over.
OwnRecords ==
  /\ ended \in [Attempts -> Nat] /\ IsFiniteSet(Recorded)
  /\ \A a \in Attempts \ Made : handler[a] = "none"
  /\ \A x \in Recorded :
       LET r == ledger[x]
           q == request[r.by]
       IN  /\ r.by \in Made /\ x = <<q.session, q.key>>
           /\ q.body = r.body /\ r.value \in {0, r.by}
  /\ ~withdrawn => \A a \in Made :
       request[a].key # NoKey /\ handler[a] # "none" =>
         \/ handler[a] = "ended" /\ ended[a] + Retention <= clock
         \/ Held(a)

\* A value is the attempt's own, or was computed for a call like it.
Like(a, b) ==
  \/ b = a
  \/ /\ request[a].key # NoKey /\ request[a].session = request[b].session
     /\ request[a].key = request[b].key /\ request[a].body = request[b].body

OwnAnswers ==
  /\ \A a \in aborted : pc[a] = "over" => outcome[a] = 0
  /\ \A a \in Attempts : outcome[a] > 0 =>
       a \in Made /\ outcome[a] \in Made /\ Like(a, outcome[a])

\* The types of the variables of sessions, and of the provider.
SessionTypes ==
  /\ request \in Seq(Requests) /\ Len(request) <= MaxAttempts
  /\ pc \in [Attempts -> {"unused", "racing", "settled", "over",
                          "streaming"}]
  /\ done \subseteq Attempts /\ aborted \subseteq Attempts
  /\ outcome \in [Attempts -> -1 .. MaxAttempts]
  /\ pending \in [Sessions \X Ids -> Attempts \union {0}]
  /\ \A s \in Sessions : Cardinality(Taken(s)) <= MaxPending
  /\ admitted \subseteq Attempts /\ Cardinality(admitted) <= MaxCalls

ProviderTypes ==
  /\ clock \in Times
  /\ handler \in [Attempts -> {"none", "running", "iterating", "ended"}]
  /\ ledger \in [Sessions \X Keys -> Records \union {NoRecord}]
  /\ Cardinality(Recorded) <= MaxRecords
  /\ closed \subseteq Sessions /\ denied \subseteq Sessions
  /\ withdrawn \in BOOLEAN

\* The invariant, in a part about the sessions and one about the provider.
SessionPart == SessionTypes /\ Tables /\ Attempted /\ NoOrphans /\ OwnAnswers
ProviderPart == ProviderTypes /\ OwnRecords
CallsInv == SessionPart /\ ProviderPart

-----------------------------------------------------------------------------
(* Attempts and the cancellation tree.                                     *)

\* The two parts hold all types.
LEMMA TypeParts == TypeOK <=> SessionTypes /\ ProviderTypes
BY DEF TypeOK, SessionTypes, ProviderTypes, Taken, Recorded

\* So they do after a step.
LEMMA TypePartsNext == TypeOK' <=> SessionTypes' /\ ProviderTypes'
BY DEF TypeOK, SessionTypes, ProviderTypes, Taken, Recorded

\* The attempts made are numbered from 1.
LEMMA MadeFacts ==
  ASSUME TypeOK
  PROVE  /\ Made = 1 .. Len(request) /\ Len(request) \in Nat
         /\ Made \subseteq Attempts /\ 0 \notin Made
         /\ \A a \in Made : request[a] \in Requests
BY CallsAssumption DEF TypeOK, Made, Attempts

\* One application of the equation of hit, for the cancelled set S.
Spread(S, C) ==
  {a \in Attempts : /\ a \in Made /\ a \notin done
                    /\ a \in S \/ (request[a].parent # 0 /\ request[a].parent \in C)}

\* The equation has a solution: the intersection of all sets that Spread
\* does not leave (parents are attempts, so the equation stays in Attempts).
LEMMA SpreadFixpoint ==
  ASSUME NEW S
  PROVE  \E C \in SUBSET Attempts : C = Spread(S, C)
<1> DEFINE Closed == {C \in SUBSET Attempts : Spread(S, C) \subseteq C}
           L == {a \in Attempts : \A C \in Closed : a \in C}
<1>1. \A C, D : C \subseteq D => Spread(S, C) \subseteq Spread(S, D)
  BY DEF Spread
<1>2. \A C \in Closed : L \subseteq C
  OBVIOUS
<1>3. \A C : Spread(S, C) \subseteq Attempts
  BY DEF Spread
<1>4. Spread(S, L) \subseteq L
  <2>1. ASSUME NEW C \in Closed
        PROVE  Spread(S, L) \subseteq C
    <3>1. Spread(S, L) \subseteq Spread(S, C)
      BY <1>1, <1>2
    <3> QED  BY <3>1
  <2> QED  BY <1>3, <2>1
<1>5. L \subseteq Spread(S, L)
  <2>1. Spread(S, Spread(S, L)) \subseteq Spread(S, L)
    BY <1>1, <1>4
  <2>2. Spread(S, L) \in Closed
    BY <1>3, <2>1
  <2> QED  BY <1>2, <2>2
<1>6. L \in SUBSET Attempts
  OBVIOUS
<1> HIDE DEF L
<1> QED  BY <1>4, <1>5, <1>6

\* What cancel() reaches: attempts that are outstanding, those it is called
\* for, and with an attempt those below it.
LEMMA ReachedFacts ==
  ASSUME TypeOK, Attempted, NEW S
  PROVE  Reached(S) = Spread(S, Reached(S))
<1> DEFINE Step(f) ==
      [a \in Attempts |->
         /\ a \in Made /\ a \notin done
         /\ a \in S \/ (request[a].parent # 0 /\ f[request[a].parent])]
           hit == CHOOSE f : f = Step(f)
<1>0. \A a \in Made : request[a].parent \in Attempts \union {0}
  BY MadeFacts DEF Attempted
<1>1. \E f : f = Step(f)
  <2>1. PICK C \in SUBSET Attempts : C = Spread(S, C)
    BY SpreadFixpoint
  <2> DEFINE f == [a \in Attempts |-> a \in C]
  <2>2. \A a \in Attempts : f[a] <=> a \in C
    BY Zenon
  <2> HIDE DEF f
  <2>3. \A a \in Attempts :
          (a \in C) <=> (/\ a \in Made /\ a \notin done
                         /\ a \in S \/ (request[a].parent # 0 /\ f[request[a].parent]))
    <3>1. \A a \in Attempts :
            a \in C <=> /\ a \in Made /\ a \notin done
                        /\ a \in S \/ (request[a].parent # 0 /\ request[a].parent \in C)
      BY <2>1 DEF Spread
    <3>2. \A a \in Made : request[a].parent # 0 =>
            (f[request[a].parent] <=> request[a].parent \in C)
      BY <1>0, <2>2
    <3> QED  BY <3>1, <3>2
  <2>6. f = [a \in Attempts |-> a \in C]
    BY DEF f
  <2>4. [a \in Attempts |-> a \in C] = Step(f)
    <3> DEFINE G(a) ==
          /\ a \in Made /\ a \notin done
          /\ a \in S \/ (request[a].parent # 0 /\ f[request[a].parent])
    <3>1. ASSUME NEW a \in Attempts
          PROVE  (a \in C) = G(a)
      <4>1. CASE a \in C
        <5>1. G(a)
          BY <2>3, <4>1
        <5> QED  BY <4>1, <5>1
      <4>2. CASE a \notin C
        <5>1. (a \in C) = FALSE
          BY <4>2
        <5>2. G(a) = FALSE
          BY <2>3, <4>2
        <5> QED  BY <5>1, <5>2
      <4> QED  BY <4>1, <4>2
    <3> QED  BY <3>1, Zenon
  <2> QED  BY <2>4, <2>6, Zenon
<1>2. hit = Step(hit)
  BY <1>1
<1>3. Reached(S) = {a \in Attempts : hit[a]}
  BY DEF Reached
<1> HIDE DEF hit
<1>4. \A a \in Attempts : hit[a] <=>
          /\ a \in Made /\ a \notin done
          /\ a \in S \/ (request[a].parent # 0 /\ hit[request[a].parent])
  BY <1>2
<1> QED  BY <1>0, <1>3, <1>4 DEF Spread

-----------------------------------------------------------------------------
(* The tables of sessions and host.                                        *)

\* stop() of attempts: the places of those that were outstanding are free.
LEMMA TablesLeave ==
  ASSUME TypeOK, Tables, NEW H \in SUBSET Made,
         request' = request, done' = done \union H,
         aborted \subseteq aborted', aborted' \subseteq done', TableWithout(H)
  PROVE  /\ Tables'
         /\ pending' \in [Sessions \X Ids -> Attempts \union {0}]
         /\ \A s \in Sessions : Cardinality(Taken(s)') <= MaxPending
         /\ admitted' \subseteq Attempts /\ Cardinality(admitted') <= MaxCalls
         /\ done' \subseteq Attempts /\ aborted' \subseteq Attempts
<1> USE MadeFacts
<1>1. Made' = Made
  BY DEF Made
<1>2. pending' \in [Sessions \X Ids -> Attempts \union {0}]
  BY DEF TypeOK, TableWithout
<1>3. \A x \in Sessions \X Ids : pending'[x] # 0 =>
        pending'[x] = pending[x] /\ pending[x] \notin H \ done
  BY DEF TableWithout
<1>4. admitted' = Made' \ done' /\ IsFiniteSet(admitted')
      /\ Cardinality(admitted') <= MaxCalls
  <2>1. admitted' = admitted \ (H \ done) /\ admitted' \subseteq admitted
    BY DEF TableWithout
  <2>2. IsFiniteSet(admitted') /\ Cardinality(admitted') <= Cardinality(admitted)
        /\ Cardinality(admitted') \in Nat /\ Cardinality(admitted) \in Nat
    BY <2>1, FS_Subset, FS_CardinalityType DEF Tables
  <2>3. Cardinality(admitted) <= MaxCalls
    BY DEF TypeOK
  <2>4. Cardinality(admitted') <= MaxCalls
    BY <2>2, <2>3, CallsAssumption
  <2> QED  BY <1>1, <2>1, <2>2, <2>4 DEF Tables
<1>5. ASSUME NEW s \in Sessions
      PROVE  IsFiniteSet(Taken(s)') /\ Cardinality(Taken(s)') <= MaxPending
  <2>1. Taken(s)' \subseteq Taken(s)
    BY <1>3 DEF Taken
  <2>2. IsFiniteSet(Taken(s))
    BY DEF Tables
  <2>3. IsFiniteSet(Taken(s)') /\ Cardinality(Taken(s)') <= Cardinality(Taken(s))
        /\ Cardinality(Taken(s)') \in Nat /\ Cardinality(Taken(s)) \in Nat
    BY <2>1, <2>2, FS_Subset, FS_CardinalityType
  <2>4. Cardinality(Taken(s)) <= MaxPending
    BY DEF TypeOK, Taken
  <2> QED  BY <2>3, <2>4, CallsAssumption
<1>6. \A a \in Made' \ done' : pending'[<<request'[a].session, request'[a].id>>] = a
  <2> SUFFICES ASSUME NEW a \in Made, a \notin done, a \notin H
               PROVE  pending'[<<request[a].session, request[a].id>>] = a
    BY <1>1
  <2>1. <<request[a].session, request[a].id>> \in Sessions \X Ids
    BY DEF Requests
  <2>2. pending[<<request[a].session, request[a].id>>] = a
    BY DEF Tables
  <2> QED  BY <2>1, <2>2 DEF TableWithout
<1>7. \A x \in Sessions \X Ids : pending'[x] # 0 =>
        /\ pending'[x] \in Made' \ done'
        /\ x = <<request'[pending'[x]].session, request'[pending'[x]].id>>
  BY <1>1, <1>3 DEF Tables
<1>8. done' \subseteq Made' /\ aborted' \subseteq done'
  BY <1>1 DEF Tables
<1>9. Tables'
  BY <1>4, <1>5, <1>6, <1>7, <1>8 DEF Tables
<1> QED  BY <1>2, <1>4, <1>5, <1>8, <1>9, <1>1

\* prepare() appends an attempt.
LEMMA NewAttempt ==
  ASSUME TypeOK, NEW q \in Requests, Len(request) + 1 \in Attempts,
         request' = Append(request, q)
  PROVE  LET a == Len(request) + 1
         IN  /\ request' \in Seq(Requests) /\ Len(request') <= MaxAttempts
             /\ Made' = Made \union {a} /\ a \notin Made
             /\ request'[a] = q
             /\ \A b \in Made : request'[b] = request[b]
<1> DEFINE a == Len(request) + 1
<1>1. request \in Seq(Requests)
  BY DEF TypeOK
<1>2. request' \in Seq(Requests) /\ Len(request') = a
  BY <1>1
<1>3. a <= MaxAttempts
  BY DEF Attempts
<1>4. Made' = 1 .. a /\ Made = 1 .. Len(request) /\ Len(request) \in Nat
  BY <1>1, <1>2 DEF Made
<1>5. request'[a] = q /\ \A b \in 1 .. Len(request) : request'[b] = request[b]
  BY <1>1
<1> QED  BY <1>2, <1>3, <1>4, <1>5

\* prepare() and admit() of a call that is admissible.
LEMMA TablesJoin ==
  ASSUME TypeOK, Tables, NEW q \in Requests, Len(request) + 1 \in Attempts,
         Admissible(q), request' = Append(request, q),
         pending' = [pending EXCEPT ![<<q.session, q.id>>] = Len(request) + 1],
         admitted' = admitted \union {Len(request) + 1},
         done' = done, aborted' = aborted
  PROVE  /\ Tables'
         /\ pending' \in [Sessions \X Ids -> Attempts \union {0}]
         /\ \A s \in Sessions : Cardinality(Taken(s)') <= MaxPending
         /\ admitted' \subseteq Attempts /\ Cardinality(admitted') <= MaxCalls
<1> DEFINE a == Len(request) + 1
           x == <<q.session, q.id>>
<1> USE MadeFacts
<1>1. /\ Made' = Made \union {a} /\ a \notin Made /\ a \in Attempts
      /\ request'[a] = q
      /\ \A b \in Made : request'[b] = request[b]
  BY NewAttempt
<1>2. x \in Sessions \X Ids /\ q.session \in Sessions /\ q.id \in Ids
  BY DEF Requests
<1>3. pending[x] = 0 /\ pending \in [Sessions \X Ids -> Attempts \union {0}]
  BY DEF Admissible, TypeOK
<1>4. pending'[x] = a /\ \A y \in Sessions \X Ids : y # x => pending'[y] = pending[y]
  BY <1>2, <1>3
<1>5. pending' \in [Sessions \X Ids -> Attempts \union {0}]
  BY <1>1, <1>3
<1>6. a \notin done /\ a \notin admitted /\ a # 0
  BY <1>1 DEF Tables
<1>7. IsFiniteSet(admitted') /\ Cardinality(admitted') <= MaxCalls
  <2>1. IsFiniteSet(admitted)
    BY DEF Tables
  <2>2. IsFiniteSet(admitted') /\ Cardinality(admitted') = Cardinality(admitted) + 1
    BY <1>6, <2>1, FS_AddElement
  <2>3. Cardinality(admitted) < MaxCalls /\ Cardinality(admitted) \in Nat
    BY <2>1, FS_CardinalityType DEF Admissible
  <2> QED  BY <2>2, <2>3, CallsAssumption
<1>8. ASSUME NEW s \in Sessions
      PROVE  IsFiniteSet(Taken(s)') /\ Cardinality(Taken(s)') <= MaxPending
  <2>1. IsFiniteSet(Taken(s)) /\ Cardinality(Taken(s)) <= MaxPending
    BY DEF Tables, TypeOK, Taken
  <2>2. CASE s = q.session
    <3>1. Taken(s)' = Taken(s) \union {q.id} /\ q.id \notin Taken(s)
      <4>1. \A n \in Ids : n # q.id => pending'[<<s, n>>] = pending[<<s, n>>]
        BY <1>4
      <4>2. pending'[<<s, q.id>>] # 0 /\ pending[<<s, q.id>>] = 0
        BY <1>3, <1>4, <1>6, <2>2
      <4> QED  BY <1>2, <4>1, <4>2 DEF Taken
    <3>2. IsFiniteSet(Taken(s)') /\ Cardinality(Taken(s)') = Cardinality(Taken(s)) + 1
      BY <2>1, <3>1, FS_AddElement
    <3>3. Cardinality(Taken(s)) < MaxPending /\ Cardinality(Taken(s)) \in Nat
      BY <2>1, <2>2, FS_CardinalityType DEF Admissible, Taken
    <3> QED  BY <3>2, <3>3, CallsAssumption
  <2>3. CASE s # q.session
    <3>1. Taken(s)' = Taken(s)
      BY <1>4, <2>3 DEF Taken
    <3> QED  BY <2>1, <3>1
  <2> QED  BY <2>2, <2>3
<1>9. ASSUME NEW b \in Made' \ done'
      PROVE  pending'[<<request'[b].session, request'[b].id>>] = b
  <2>1. CASE b = a
    BY <1>1, <1>4, <2>1
  <2>2. CASE b # a
    <3>1. b \in Made /\ b \notin done /\ request'[b] = request[b] /\ b # 0
      BY <1>1, <2>2
    <3>2. pending[<<request[b].session, request[b].id>>] = b
      BY <3>1 DEF Tables
    <3>3. <<request[b].session, request[b].id>> \in Sessions \X Ids
      BY <3>1 DEF Requests
    <3> QED  BY <1>3, <1>4, <3>1, <3>2, <3>3
  <2> QED  BY <2>1, <2>2
<1>10. ASSUME NEW y \in Sessions \X Ids, pending'[y] # 0
       PROVE  /\ pending'[y] \in Made' \ done'
              /\ y = <<request'[pending'[y]].session, request'[pending'[y]].id>>
  <2>1. CASE y = x
    BY <1>1, <1>4, <1>6, <2>1
  <2>2. CASE y # x
    <3>1. pending'[y] = pending[y] /\ pending[y] \in Made \ done
          /\ y = <<request[pending[y]].session, request[pending[y]].id>>
      BY <1>4, <1>10, <2>2 DEF Tables
    <3> QED  BY <1>1, <3>1
  <2> QED  BY <2>1, <2>2
<1>11. admitted' = Made' \ done' /\ done' \subseteq Made' /\ aborted' \subseteq done'
  BY <1>1, <1>6 DEF Tables
<1>12. Tables'
  BY <1>7, <1>8, <1>9, <1>10, <1>11 DEF Tables
<1>13. admitted' \subseteq Attempts
  BY <1>1, <1>11
<1> QED  BY <1>5, <1>7, <1>8, <1>12, <1>13

\* A call that ends before prepare() returns holds no place.
LEMMA TablesPass ==
  ASSUME TypeOK, Tables, NEW q \in Requests, Len(request) + 1 \in Attempts,
         request' = Append(request, q), UNCHANGED table,
         done' = done \union {Len(request) + 1},
         aborted' = aborted \union {Len(request) + 1}
  PROVE  Tables' /\ done' \subseteq Attempts /\ aborted' \subseteq Attempts
<1> DEFINE a == Len(request) + 1
<1> USE MadeFacts
<1>1. /\ Made' = Made \union {a} /\ a \notin Made /\ a \in Attempts
      /\ \A b \in Made : request'[b] = request[b]
  BY NewAttempt
<1>2. pending' = pending /\ admitted' = admitted /\ \A s : Taken(s)' = Taken(s)
  BY DEF table, Taken
<1>3. Made' \ done' = Made \ done
  BY <1>1 DEF Tables
<1>4. done' \subseteq Made' /\ aborted' \subseteq done'
  BY <1>1 DEF Tables
<1>5. \A b \in Made \ done : pending[<<request'[b].session, request'[b].id>>] = b
  BY <1>1 DEF Tables
<1>6. \A x \in Sessions \X Ids : pending[x] # 0 =>
        /\ pending[x] \in Made \ done
        /\ x = <<request'[pending[x]].session, request'[pending[x]].id>>
  BY <1>1 DEF Tables
<1>7. admitted = Made \ done /\ IsFiniteSet(admitted)
      /\ \A s \in Sessions : IsFiniteSet(Taken(s))
  BY DEF Tables
<1>8. Tables'
  BY <1>2, <1>3, <1>4, <1>5, <1>6, <1>7 DEF Tables
<1> QED  BY <1>1, <1>4, <1>8

-----------------------------------------------------------------------------
(* The sessions' part, operation by operation.                             *)

\* A step that leaves the sessions alone.
LEMMA SessionStays ==
  ASSUME SessionPart,
         UNCHANGED <<request, pc, done, aborted, outcome, table>>
  PROVE  SessionPart'
<1>1. pending' = pending /\ admitted' = admitted /\ Made' = Made
      /\ \A s : Taken(s)' = Taken(s)
  BY DEF table, Made, Taken
<1>2. SessionTypes'
  BY <1>1 DEF SessionPart, SessionTypes
<1>3. Tables'
  BY <1>1 DEF SessionPart, Tables
<1>4. Attempted' /\ NoOrphans' /\ OwnAnswers'
  BY <1>1 DEF SessionPart, Attempted, NoOrphans, OwnAnswers, Like
<1> QED  BY <1>2, <1>3, <1>4 DEF SessionPart

\* cancel(): what is below a cancelled attempt is cancelled with it, and an
\* attempt that returned is not touched.
LEMMA SessionCancel ==
  ASSUME CallsInv, NEW S, Cancel(S)
  PROVE  SessionPart' /\ Made' = Made
<1> DEFINE H == Reached(S)
<1>1. TypeOK /\ Tables /\ Attempted /\ NoOrphans /\ OwnAnswers
  BY TypeParts DEF CallsInv, SessionPart, ProviderPart
<1>2. H = Spread(S, H)
  BY <1>1, ReachedFacts
<1>3. H \subseteq Made /\ \A a \in H : a \notin done
  BY <1>2 DEF Spread
<1>4. \A a \in Made : request[a].parent # 0 /\ request[a].parent \in H /\ a \notin done
         => a \in H
  BY <1>1, <1>2, MadeFacts DEF Spread
<1>5. /\ request' = request /\ done' = done \union H
      /\ aborted' = aborted \union H /\ TableWithout(H)
      /\ outcome' = [a \in Attempts |->
           IF a \in H /\ pc[a] = "racing" THEN 0 ELSE outcome[a]]
      /\ pc' = [a \in Attempts |->
           IF a \in H /\ pc[a] = "racing" THEN "settled" ELSE pc[a]]
  BY DEF Cancel
<1> HIDE DEF H
<1>6. Made' = Made
  BY <1>5 DEF Made
<1>7. Tables' /\ SessionTypes'
  <2>1. aborted \subseteq aborted' /\ aborted' \subseteq done'
    BY <1>1, <1>5 DEF Tables
  <2>2. /\ Tables'
        /\ pending' \in [Sessions \X Ids -> Attempts \union {0}]
        /\ \A s \in Sessions : Cardinality(Taken(s)') <= MaxPending
        /\ admitted' \subseteq Attempts /\ Cardinality(admitted') <= MaxCalls
        /\ done' \subseteq Attempts /\ aborted' \subseteq Attempts
    BY <1>1, <1>3, <1>5, <2>1, TablesLeave
  <2>3. outcome' \in [Attempts -> -1 .. MaxAttempts]
    BY <1>1, <1>5, CallsAssumption DEF TypeOK
  <2>4. pc' \in [Attempts -> {"unused", "racing", "settled", "over", "streaming"}]
    BY <1>1, <1>5 DEF TypeOK
  <2>5. request' \in Seq(Requests) /\ Len(request') <= MaxAttempts
    BY <1>1, <1>5 DEF TypeOK
  <2> QED  BY <2>2, <2>3, <2>4, <2>5 DEF SessionTypes
<1>8. Attempted'
  <2>1. \A a \in Attempts : pc'[a] = "racing" => pc[a] = "racing" /\ a \notin H
    BY <1>5
  <2>2. \A a \in Attempts : pc'[a] = "over" => pc[a] = "over"
    BY <1>5
  <2>3. \A a \in Attempts \ Made : pc'[a] = pc[a] /\ outcome'[a] = outcome[a]
    BY <1>3, <1>5
  <2> QED  BY <1>1, <1>5, <1>6, <2>1, <2>2, <2>3 DEF Attempted
<1>9. NoOrphans'
  <2> SUFFICES ASSUME NEW a \in Made, request[a].parent \in aborted'
               PROVE  a \in done'
    BY <1>5, <1>6 DEF NoOrphans
  <2>1. CASE request[a].parent \in aborted
    BY <1>1, <1>5, <2>1 DEF NoOrphans
  <2>2. CASE request[a].parent \in H
    <3>1. request[a].parent # 0
      BY <1>1, <1>3, <2>2, MadeFacts
    <3> QED  BY <1>4, <1>5, <2>2, <3>1
  <2> QED  BY <1>5, <2>1, <2>2
<1>10. OwnAnswers'
  <2>1. ASSUME NEW a \in aborted', pc'[a] = "over"
        PROVE  outcome'[a] = 0
    <3>1. a \in Attempts
      BY <1>1, <1>3, <1>5, MadeFacts DEF TypeOK
    <3>2. pc[a] = "over"
      BY <1>5, <2>1, <3>1
    <3>3. a \in done /\ a \notin H
      BY <1>1, <1>3, <3>1, <3>2 DEF Attempted
    <3> QED  BY <1>1, <1>5, <3>1, <3>2, <3>3 DEF OwnAnswers
  <2>2. \A a \in Attempts : outcome'[a] > 0 => outcome'[a] = outcome[a]
    BY <1>5
  <2>3. \A a, b : Like(a, b)' <=> Like(a, b)
    BY <1>5 DEF Like
  <2> QED  BY <1>1, <1>6, <2>1, <2>2, <2>3 DEF OwnAnswers
<1> QED  BY <1>6, <1>7, <1>8, <1>9, <1>10 DEF SessionPart

\* commit() of a stream, and invoke() after its await: the attempt leaves the
\* tables, and returns a value only when it was not cancelled.
LEMMA SessionLeaves ==
  ASSUME CallsInv, NEW a \in Made, pc[a] # "racing",
         request' = request, aborted' = aborted,
         done' = done \union {a}, TableWithout({a}),
         \/ UNCHANGED <<pc, outcome>>
         \/ /\ pc' = [pc EXCEPT ![a] = "over"]
            /\ outcome' = [outcome EXCEPT ![a] = IF Deliverable(a) THEN @ ELSE 0]
  PROVE  SessionPart' /\ Made' = Made
<1>1. TypeOK /\ Tables /\ Attempted /\ NoOrphans /\ OwnAnswers
  BY TypeParts DEF CallsInv, SessionPart, ProviderPart
<1>2. Made' = Made /\ Made \subseteq Attempts
  BY <1>1, MadeFacts DEF Made
<1>3. Tables' /\ SessionTypes'
  <2>1. aborted \subseteq aborted' /\ aborted' \subseteq done' /\ {a} \subseteq Made
    BY <1>1 DEF Tables
  <2>2. /\ Tables'
        /\ pending' \in [Sessions \X Ids -> Attempts \union {0}]
        /\ \A s \in Sessions : Cardinality(Taken(s)') <= MaxPending
        /\ admitted' \subseteq Attempts /\ Cardinality(admitted') <= MaxCalls
        /\ done' \subseteq Attempts /\ aborted' \subseteq Attempts
    BY <1>1, <2>1, TablesLeave
  <2>3. outcome' \in [Attempts -> -1 .. MaxAttempts]
    <3>1. outcome \in [Attempts -> -1 .. MaxAttempts] /\ 0 \in -1 .. MaxAttempts
      BY <1>1, CallsAssumption DEF TypeOK
    <3>2. CASE outcome' = outcome
      BY <3>1, <3>2
    <3>3. CASE outcome' = [outcome EXCEPT ![a] = IF Deliverable(a) THEN @ ELSE 0]
      BY <3>1, <3>3
    <3> QED  BY <3>2, <3>3
  <2>4. pc' \in [Attempts -> {"unused", "racing", "settled", "over", "streaming"}]
    BY <1>1 DEF TypeOK
  <2>5. request' \in Seq(Requests) /\ Len(request') <= MaxAttempts
    BY <1>1 DEF TypeOK
  <2> QED  BY <2>2, <2>3, <2>4, <2>5 DEF SessionTypes
<1>4. /\ \A b \in Attempts \ {a} : pc'[b] = pc[b] /\ outcome'[b] = outcome[b]
      /\ pc'[a] \in {pc[a], "over"} /\ outcome'[a] \in {outcome[a], 0}
      /\ pc'[a] = "over" /\ a \in aborted => outcome'[a] = 0
  <2>1. a \in aborted => ~Deliverable(a)
    BY <1>1 DEF Tables, Deliverable
  <2>2. a \in aborted /\ pc[a] = "over" => outcome[a] = 0
    BY <1>1 DEF OwnAnswers
  <2> QED  BY <1>1, <1>2, <2>1, <2>2 DEF TypeOK
<1>5. Attempted'
  BY <1>1, <1>2, <1>4 DEF Attempted
<1>6. NoOrphans'
  BY <1>1, <1>2 DEF NoOrphans
<1>7. OwnAnswers'
  <2>1. \A b \in Attempts : outcome'[b] > 0 => outcome'[b] = outcome[b]
    BY <1>4
  <2>2. \A b, c : Like(b, c)' <=> Like(b, c)
    BY DEF Like
  <2>3. \A b \in aborted' : pc'[b] = "over" => outcome'[b] = 0
    <3>1. aborted \subseteq Attempts
      BY <1>1 DEF TypeOK
    <3> QED  BY <1>1, <1>4, <3>1 DEF OwnAnswers
  <2> QED  BY <1>1, <1>2, <2>1, <2>2, <2>3 DEF OwnAnswers
<1> QED  BY <1>2, <1>3, <1>5, <1>6, <1>7 DEF SessionPart

\* The handler of a unary call settles the race it is in.
LEMMA SessionSettles ==
  ASSUME CallsInv, NEW a \in Made, NEW v \in {0, a},
         UNCHANGED <<request, done, aborted, table>>,
         outcome' = [outcome EXCEPT ![a] = IF pc[a] = "racing" THEN v ELSE @],
         pc' = [pc EXCEPT ![a] = IF @ = "racing" THEN "settled" ELSE @]
  PROVE  SessionPart' /\ Made' = Made
<1>1. SessionTypes /\ Tables /\ Attempted /\ NoOrphans /\ OwnAnswers /\ TypeOK
  BY TypeParts DEF CallsInv, SessionPart, ProviderPart
<1>2. Made' = Made /\ a \in Attempts /\ pending' = pending /\ admitted' = admitted
      /\ \A s : Taken(s)' = Taken(s)
  BY <1>1, MadeFacts DEF Made, table, Taken
<1>3. SessionTypes'
  <2>1. outcome' \in [Attempts -> -1 .. MaxAttempts]
    <3>1. outcome \in [Attempts -> -1 .. MaxAttempts] /\ v \in -1 .. MaxAttempts
      BY <1>1, <1>2, CallsAssumption DEF TypeOK, Attempts
    <3> QED  BY <3>1
  <2>2. pc' \in [Attempts -> {"unused", "racing", "settled", "over", "streaming"}]
    BY <1>1 DEF TypeOK
  <2> QED  BY <1>1, <1>2, <2>1, <2>2 DEF SessionTypes
<1>4. Tables'
  BY <1>1, <1>2 DEF Tables
<1>5. /\ \A b \in Attempts \ {a} : pc'[b] = pc[b] /\ outcome'[b] = outcome[b]
      /\ \/ pc'[a] = pc[a] /\ outcome'[a] = outcome[a]
         \/ pc'[a] = "settled" /\ outcome'[a] = v
  BY <1>1, <1>2 DEF TypeOK
<1>6. Attempted'
  BY <1>1, <1>2, <1>5 DEF Attempted
<1>7. NoOrphans'
  BY <1>1, <1>2 DEF NoOrphans
<1>8. OwnAnswers'
  <2>1. \A b \in Attempts : outcome'[b] > 0 => outcome'[b] = outcome[b] \/ outcome'[b] = b
    BY <1>5
  <2>2. \A b, c : Like(b, c)' <=> Like(b, c)
    BY DEF Like
  <2>3. \A b : Like(b, b)
    BY DEF Like
  <2>4. \A b \in aborted' : pc'[b] = "over" => outcome'[b] = 0
    <3>1. aborted \subseteq Attempts
      BY <1>1 DEF TypeOK
    <3> QED  BY <1>1, <1>5, <3>1 DEF OwnAnswers
  <2>5. ASSUME NEW b \in Attempts, outcome'[b] > 0
        PROVE  b \in Made' /\ outcome'[b] \in Made' /\ Like(b, outcome[b])'
    <3>1. CASE outcome'[b] = outcome[b]
      BY <1>1, <1>2, <2>2, <2>5, <3>1 DEF OwnAnswers
    <3>2. CASE outcome'[b] # outcome[b]
      <4>1. b = a /\ outcome'[b] = b
        BY <1>5, <2>1, <2>5, <3>2
      <4> QED  BY <1>2, <2>2, <2>3, <4>1
    <3> QED  BY <3>1, <3>2
  <2> QED  BY <2>4, <2>5 DEF OwnAnswers
<1> QED  BY <1>2, <1>3, <1>4, <1>6, <1>7, <1>8 DEF SessionPart

\* A new attempt is not done, has the state it is given, and an answer it has
\* at once was computed for a call like it.  The parent of q was made before.
LEMMA SessionJoins ==
  ASSUME CallsInv, NEW q \in Requests, q.parent \in Made \union {0},
         Len(request) + 1 \in Attempts, Admissible(q),
         request' = Append(request, q),
         pending' = [pending EXCEPT ![<<q.session, q.id>>] = Len(request) + 1],
         admitted' = admitted \union {Len(request) + 1},
         done' = done, aborted' = aborted,
         NEW p \in {"racing", "settled", "streaming"},
         pc' = [pc EXCEPT ![Len(request) + 1] = p],
         NEW v \in -1 .. MaxAttempts,
         outcome' = [outcome EXCEPT ![Len(request) + 1] = v],
         v > 0 => /\ v \in Made /\ q.key # NoKey
                  /\ q.session = request[v].session
                  /\ q.key = request[v].key /\ q.body = request[v].body
  PROVE  SessionPart'
<1>1. SessionTypes /\ Tables /\ Attempted /\ NoOrphans /\ OwnAnswers /\ TypeOK
  BY TypeParts DEF CallsInv, SessionPart, ProviderPart
<1>2. PICK a \in Attempts : a = Len(request) + 1
  OBVIOUS
<1>3. /\ request' \in Seq(Requests) /\ Len(request') <= MaxAttempts
      /\ Made' = Made \union {a} /\ a \notin Made /\ request'[a] = q
      /\ \A b \in Made : request'[b] = request[b]
  BY <1>1, <1>2, NewAttempt
<1>4. /\ Tables'
      /\ pending' \in [Sessions \X Ids -> Attempts \union {0}]
      /\ \A s \in Sessions : Cardinality(Taken(s)') <= MaxPending
      /\ admitted' \subseteq Attempts /\ Cardinality(admitted') <= MaxCalls
  BY <1>1, TablesJoin
<1>5. /\ pc'[a] = p /\ outcome'[a] = v
      /\ \A b \in Attempts \ {a} : pc'[b] = pc[b] /\ outcome'[b] = outcome[b]
  BY <1>1, <1>2 DEF TypeOK
<1>6. SessionTypes'
  <2>1. outcome' \in [Attempts -> -1 .. MaxAttempts]
    BY <1>1 DEF TypeOK
  <2>2. pc' \in [Attempts -> {"unused", "racing", "settled", "over", "streaming"}]
    BY <1>1 DEF TypeOK
  <2> QED  BY <1>1, <1>3, <1>4, <2>1, <2>2 DEF SessionTypes
<1>7. a \notin done /\ a \notin aborted /\ Made \subseteq Attempts /\ done \subseteq Made
  BY <1>1, <1>3, MadeFacts DEF Tables
<1>8. Attempted'
  <2>1. \A b \in Made' : request'[b].parent \in Made' \union {0}
    BY <1>1, <1>3 DEF Attempted
  <2>2. \A b \in Attempts \ Made' : pc'[b] = "unused" /\ outcome'[b] = -1
    BY <1>1, <1>3, <1>5 DEF Attempted
  <2>3. \A b \in Attempts : pc'[b] = "racing" => b \notin done'
    BY <1>1, <1>5, <1>7 DEF Attempted
  <2>4. \A b \in Attempts : pc'[b] = "over" => b \in done'
    BY <1>1, <1>5 DEF Attempted
  <2> QED  BY <2>1, <2>2, <2>3, <2>4 DEF Attempted
<1>9. NoOrphans'
  BY <1>1, <1>3 DEF NoOrphans, Admissible
<1>10. OwnAnswers'
  <2>1. \A b \in aborted' : pc'[b] = "over" => outcome'[b] = 0
    <3>1. aborted \subseteq Attempts
      BY <1>1 DEF TypeOK
    <3> QED  BY <1>1, <1>5, <1>7, <3>1 DEF OwnAnswers
  <2>2. \A b, c \in Made : Like(b, c)' <=> Like(b, c)
    BY <1>3 DEF Like
  <2>3. \A b \in Attempts : outcome'[b] > 0 =>
          b \in Made' /\ outcome'[b] \in Made' /\ Like(b, outcome[b])'
    <3>1. v > 0 => v \in Made /\ Like(a, v)'
      BY <1>3 DEF Like
    <3> QED  BY <1>1, <1>3, <1>5, <2>2, <3>1 DEF OwnAnswers
  <2> QED  BY <2>1, <2>3 DEF OwnAnswers
<1> QED  BY <1>4, <1>6, <1>8, <1>9, <1>10 DEF SessionPart

\* A stream whose opening fails is cancelled before it was outstanding.
LEMMA SessionPasses ==
  ASSUME CallsInv, NEW q \in Requests, q.parent \in Made \union {0},
         Len(request) + 1 \in Attempts,
         request' = Append(request, q), UNCHANGED <<outcome, table>>,
         pc' = [pc EXCEPT ![Len(request) + 1] = "streaming"],
         done' = done \union {Len(request) + 1},
         aborted' = aborted \union {Len(request) + 1}
  PROVE  SessionPart'
<1>1. SessionTypes /\ Tables /\ Attempted /\ NoOrphans /\ OwnAnswers /\ TypeOK
  BY TypeParts DEF CallsInv, SessionPart, ProviderPart
<1>2. PICK a \in Attempts : a = Len(request) + 1
  OBVIOUS
<1>3. /\ request' \in Seq(Requests) /\ Len(request') <= MaxAttempts
      /\ Made' = Made \union {a} /\ a \notin Made /\ request'[a] = q
      /\ \A b \in Made : request'[b] = request[b]
  BY <1>1, <1>2, NewAttempt
<1>4. Tables' /\ done' \subseteq Attempts /\ aborted' \subseteq Attempts
  BY <1>1, TablesPass DEF table
<1>5. /\ pc'[a] = "streaming" /\ outcome' = outcome
      /\ \A b \in Attempts \ {a} : pc'[b] = pc[b]
  BY <1>1, <1>2 DEF TypeOK
<1>6. SessionTypes'
  <2>1. pc' \in [Attempts -> {"unused", "racing", "settled", "over", "streaming"}]
    BY <1>1 DEF TypeOK
  <2>2. pending' = pending /\ admitted' = admitted /\ \A s : Taken(s)' = Taken(s)
    BY DEF table, Taken
  <2> QED  BY <1>1, <1>3, <1>4, <1>5, <2>1, <2>2 DEF SessionTypes
<1>7. Attempted'
  <2>1. \A b \in Made' : request'[b].parent \in Made' \union {0}
    BY <1>1, <1>3 DEF Attempted
  <2>2. \A b \in Attempts \ Made' : pc'[b] = "unused" /\ outcome'[b] = -1
    BY <1>1, <1>3, <1>5 DEF Attempted
  <2>3. \A b \in Attempts : pc'[b] = "racing" => b \notin done'
    BY <1>1, <1>2, <1>5 DEF Attempted
  <2>4. \A b \in Attempts : pc'[b] = "over" => b \in done'
    BY <1>1, <1>5 DEF Attempted
  <2> QED  BY <2>1, <2>2, <2>3, <2>4 DEF Attempted
<1>8. NoOrphans'
  <2>0. a # 0
    BY DEF Attempts
  <2>1. \A b \in Made : request[b].parent # a
    BY <1>1, <1>3, <2>0 DEF Attempted
  <2> QED  BY <1>1, <1>2, <1>3, <2>1 DEF NoOrphans
<1>9. OwnAnswers'
  <2>1. \A b \in aborted' : pc'[b] = "over" => outcome'[b] = 0
    <3>1. aborted \subseteq Attempts
      BY <1>1 DEF TypeOK
    <3> QED  BY <1>1, <1>2, <1>5, <3>1 DEF OwnAnswers
  <2>2. \A b, c \in Made : Like(b, c)' <=> Like(b, c)
    BY <1>3 DEF Like
  <2>3. \A b \in Attempts : outcome'[b] > 0 =>
          b \in Made' /\ outcome'[b] \in Made' /\ Like(b, outcome[b])'
    BY <1>1, <1>3, <1>5, <2>2 DEF OwnAnswers
  <2> QED  BY <2>1, <2>3 DEF OwnAnswers
<1> QED  BY <1>4, <1>6, <1>7, <1>8, <1>9 DEF SessionPart

-----------------------------------------------------------------------------
(* The provider's part: the ledger and the handlers.                       *)

\* A step that neither runs a handler of a call with a key nor touches the
\* ledger.  Time may pass, and attempts without a handler or key may come.
LEMMA ProviderStays ==
  ASSUME CallsInv, ProviderTypes', clock' >= clock, UNCHANGED <<ledger, ended, withdrawn>>,
         Made \subseteq Made',
         \A a \in Made : request'[a] = request[a],
         \A a \in Made : request[a].key # NoKey => handler'[a] = handler[a],
         \A a \in Made' \ Made : request'[a].key = NoKey \/ handler'[a] = "none",
         \A a \in Attempts \ Made' : handler'[a] = handler[a]
  PROVE  ProviderPart'
<1>1. ProviderTypes /\ OwnRecords /\ TypeOK
  BY TypeParts DEF CallsInv, SessionPart, ProviderPart
<1>2. Recorded' = Recorded
  BY DEF Recorded
<1>3. \A x \in Recorded' :
        LET r == ledger'[x]
            q == request'[r.by]
        IN  /\ r.by \in Made' /\ x = <<q.session, q.key>>
            /\ q.body = r.body /\ r.value \in {0, r.by}
  BY <1>1, <1>2 DEF OwnRecords
<1>4. ASSUME ~withdrawn', NEW a \in Made', request'[a].key # NoKey, handler'[a] # "none"
      PROVE  \/ handler'[a] = "ended" /\ ended'[a] + Retention <= clock'
             \/ Held(a)'
  <2>1. a \in Made /\ request[a].key # NoKey /\ handler'[a] = handler[a]
        /\ request'[a] = request[a]
    BY <1>4
  <2>2. Held(a) => Held(a)'
    BY <2>1 DEF Held
  <2>3. withdrawn \in BOOLEAN /\ clock \in Nat /\ clock' \in Nat /\ ended[a] \in Nat
        /\ Retention \in Nat
    BY <1>1, <2>1, CallsAssumption, MadeFacts DEF ProviderTypes, Times, OwnRecords
  <2>4. (handler[a] = "ended" /\ ended[a] + Retention <= clock) \/ Held(a)
    <3>1. ~withdrawn
      BY <1>4
    <3> QED  BY <1>1, <1>4, <2>1, <3>1 DEF OwnRecords
  <2> QED  BY <2>1, <2>2, <2>3, <2>4
<1>5. \A a \in Attempts \ Made' : handler'[a] = "none"
  BY <1>1 DEF OwnRecords
<1>6. ended' \in [Attempts -> Nat] /\ IsFiniteSet(Recorded')
  BY <1>1, <1>2 DEF OwnRecords
<1>7. OwnRecords'
  BY <1>3, <1>4, <1>5, <1>6 DEF OwnRecords
<1> QED  BY <1>7 DEF ProviderPart

\* close() of the provider forgets every record and ends every promise.
LEMMA ProviderWithdraws ==
  ASSUME CallsInv, withdrawn' = TRUE,
         ledger' = [x \in Sessions \X Keys |-> NoRecord],
         Made' = Made, UNCHANGED <<clock, handler, closed, denied, ended>>
  PROVE  ProviderPart'
<1>1. ProviderTypes /\ OwnRecords
  BY DEF CallsInv, ProviderPart
<1>2. Recorded' = {} /\ IsFiniteSet({}) /\ Cardinality({}) = 0
  BY FS_EmptySet DEF Recorded
<1>3. ProviderTypes'
  BY <1>1, <1>2, CallsAssumption DEF ProviderTypes
<1>4. OwnRecords'
  BY <1>1, <1>2 DEF OwnRecords
<1> QED  BY <1>3, <1>4 DEF ProviderPart

\* A handler ends and its record, if there is one, gets its outcome.
LEMMA ProviderEnds ==
  ASSUME CallsInv, NEW a \in Attempts, NEW v \in {0, a}, HandlerEnds(a, v)
  PROVE  ProviderPart' /\ a \in Made
<1> DEFINE x == <<request[a].session, request[a].key>>
           recorded == request[a].key # NoKey /\ ledger[x] # NoRecord
                         /\ ledger[x].by = a
           new == [ledger[x] EXCEPT !.pending = FALSE, !.value = v,
                                    !.expires = clock + Retention]
<1>1. ProviderTypes /\ OwnRecords /\ TypeOK
  BY TypeParts DEF CallsInv, SessionPart, ProviderPart
<1>2. /\ handler[a] = "running" /\ handler' = [handler EXCEPT ![a] = "ended"]
      /\ ended' = [ended EXCEPT ![a] = clock]
      /\ ledger' = IF ~recorded THEN ledger ELSE [ledger EXCEPT ![x] = new]
      /\ clock' = clock /\ request' = request /\ closed' = closed
      /\ withdrawn' = withdrawn /\ denied' = denied
  BY DEF HandlerEnds, outside
<1>3. a \in Made
  BY <1>1, <1>2 DEF OwnRecords
<1>4. Made' = Made /\ clock \in Nat /\ Retention \in Nat /\ clock + Retention \in Nat
  BY <1>1, <1>2, CallsAssumption DEF Made, ProviderTypes, Times
<1>5. recorded => x \in Sessions \X Keys
  BY <1>1, <1>3, MadeFacts DEF Requests
<1>6. /\ \A y \in Sessions \X Keys : y # x => ledger'[y] = ledger[y]
      /\ recorded => ledger'[x] = new
      /\ ~recorded => ledger' = ledger
  <2> HIDE DEF recorded, new
  <2> QED  BY <1>1, <1>2, <1>5 DEF ProviderTypes
<1>7. recorded =>
        /\ new \in Records /\ new # NoRecord /\ new.by = a /\ ~new.pending
        /\ new.body = ledger[x].body /\ new.value = v
        /\ new.expires = clock + Retention
  <2> SUFFICES ASSUME recorded
               PROVE  /\ new \in Records /\ new # NoRecord /\ new.by = a
                      /\ ~new.pending /\ new.body = ledger[x].body
                      /\ new.value = v /\ new.expires = clock + Retention
    OBVIOUS
  <2>1. ledger[x] \in Records /\ ledger[x].by = a
    BY <1>1, <1>5 DEF ProviderTypes
  <2>2. new \in Records /\ new.by = a /\ ~new.pending
        /\ new.body = ledger[x].body /\ new.value = v
        /\ new.expires = clock + Retention
    BY <1>4, <2>1 DEF Records
  <2>3. a # 0 /\ NoRecord.by = 0
    BY DEF NoRecord, Attempts
  <2> QED  BY <2>2, <2>3
<1> HIDE DEF new, recorded
<1>8. Recorded' = Recorded
  <2>1. recorded => ledger[x] # NoRecord
    BY DEF recorded
  <2> QED  BY <1>5, <1>6, <1>7, <2>1 DEF Recorded
<1>9. ProviderTypes'
  <2>1. ledger' \in [Sessions \X Keys -> Records \union {NoRecord}]
    BY <1>1, <1>2, <1>7 DEF ProviderTypes
  <2>2. handler' \in [Attempts -> {"none", "running", "iterating", "ended"}]
    BY <1>1, <1>2 DEF ProviderTypes
  <2> QED  BY <1>1, <1>2, <1>8, <2>1, <2>2 DEF ProviderTypes
<1>10. ASSUME NEW y \in Recorded'
       PROVE  LET r == ledger'[y]
                  q == request'[r.by]
              IN  /\ r.by \in Made' /\ y = <<q.session, q.key>>
                  /\ q.body = r.body /\ r.value \in {0, r.by}
  <2>1. CASE recorded /\ y = x
    <3>1. ledger[x].by = a
      BY <2>1 DEF recorded
    <3>2. request[a].body = ledger[x].body
      BY <1>1, <1>8, <1>10, <2>1, <3>1 DEF OwnRecords
    <3> QED  BY <1>2, <1>3, <1>4, <1>6, <1>7, <2>1, <3>2
  <2>2. CASE ~(recorded /\ y = x)
    <3>1. ledger'[y] = ledger[y]
      BY <1>6, <1>8, <2>2 DEF Recorded
    <3> QED  BY <1>1, <1>2, <1>4, <1>8, <3>1 DEF OwnRecords
  <2> QED  BY <2>1, <2>2
<1>11. ASSUME ~withdrawn', NEW b \in Made', request'[b].key # NoKey, handler'[b] # "none"
       PROVE  \/ handler'[b] = "ended" /\ ended'[b] + Retention <= clock'
              \/ Held(b)'
  <2> DEFINE y == <<request[b].session, request[b].key>>
  <2>0. b \in Attempts /\ b \in Made /\ y \in Sessions \X Keys
        /\ ended[b] \in Nat
    BY <1>1, <1>2, <1>4, <1>11, MadeFacts DEF Requests, OwnRecords
  <2>1. CASE b = a
    <3>1. Held(a)
      BY <1>1, <1>2, <1>3, <1>4, <1>11, <2>1 DEF OwnRecords
    <3>2. recorded
      BY <1>2, <1>11, <2>1, <3>1 DEF Held, recorded
    <3>3. handler'[a] = "ended" /\ ended'[a] = clock
      BY <1>1, <1>2 DEF ProviderTypes, OwnRecords
    <3>4. ledger'[x] = new
      BY <1>6, <3>2
    <3> QED  BY <1>2, <1>7, <2>1, <3>2, <3>3, <3>4 DEF Held
  <2>2. CASE b # a
    <3>1. handler'[b] = handler[b] /\ ended'[b] = ended[b]
      BY <1>1, <1>2, <2>0, <2>2 DEF ProviderTypes, OwnRecords
    <3>2. (handler[b] = "ended" /\ ended[b] + Retention <= clock) \/ Held(b)
      BY <1>1, <1>2, <1>11, <2>0, <3>1 DEF OwnRecords
    <3>3. Held(b) => ledger'[y] = ledger[y]
      <4>1. Held(b) => ledger[y].by = b
        BY DEF Held
      <4>2. recorded => ledger[x].by = a
        BY DEF recorded
      <4> QED  BY <1>6, <2>0, <2>2, <4>1, <4>2
    <3>4. Held(b) => Held(b)'
      BY <1>2, <3>1, <3>3 DEF Held
    <3> QED  BY <1>2, <3>1, <3>2, <3>4
  <2> QED  BY <2>1, <2>2
<1>12. /\ ended' \in [Attempts -> Nat] /\ IsFiniteSet(Recorded')
       /\ \A b \in Attempts \ Made' : handler'[b] = "none"
  BY <1>1, <1>2, <1>3, <1>4, <1>8 DEF OwnRecords, ProviderTypes
<1>13. OwnRecords'
  BY <1>10, <1>11, <1>12 DEF OwnRecords
<1> QED  BY <1>3, <1>9, <1>13 DEF ProviderPart

\* The ledger after purging holds some of the records it held, and whatever
\* is gone was settled and past its retention.
LEMMA PurgedFacts ==
  ASSUME CallsInv
  PROVE  /\ Purged \in [Sessions \X Keys -> Records \union {NoRecord}]
         /\ \A x \in Sessions \X Keys : Purged[x] \in {ledger[x], NoRecord}
         /\ \A x \in Sessions \X Keys :
              ledger[x] # NoRecord /\ Purged[x] = NoRecord =>
                ~ledger[x].pending /\ ledger[x].expires <= clock
         /\ LET kept == {x \in Sessions \X Keys : Purged[x] # NoRecord}
            IN  /\ kept \subseteq Recorded /\ IsFiniteSet(kept)
                /\ Cardinality(kept) \in Nat /\ Cardinality(kept) <= MaxRecords
<1> DEFINE kept == {x \in Sessions \X Keys : Purged[x] # NoRecord}
<1>1. ProviderTypes /\ OwnRecords
  BY DEF CallsInv, ProviderPart
<1>2. Purged \in [Sessions \X Keys -> Records \union {NoRecord}]
  BY <1>1 DEF Purged, ProviderTypes
<1>3. \A x \in Sessions \X Keys : Purged[x] \in {ledger[x], NoRecord}
  BY DEF Purged
<1>4. \A x \in Sessions \X Keys :
        ledger[x] # NoRecord /\ Purged[x] = NoRecord =>
          ~ledger[x].pending /\ ledger[x].expires <= clock
  BY DEF Purged
<1>5. kept \subseteq Recorded
  BY <1>3 DEF Recorded
<1>6. IsFiniteSet(Recorded) /\ Cardinality(Recorded) <= MaxRecords
  BY <1>1 DEF OwnRecords, ProviderTypes
<1>7. /\ IsFiniteSet(kept) /\ Cardinality(kept) <= Cardinality(Recorded)
      /\ Cardinality(kept) \in Nat /\ Cardinality(Recorded) \in Nat
  BY <1>5, <1>6, FS_Subset, FS_CardinalityType
<1>8. Cardinality(kept) <= MaxRecords
  BY <1>6, <1>7, CallsAssumption
<1> QED  BY <1>2, <1>3, <1>4, <1>5, <1>7, <1>8

\* unary() of a new attempt: the ledger is purged and, when the handler is
\* started, the call is put on record, which it was not before.
LEMMA ProviderDispatches ==
  ASSUME CallsInv, NEW q \in Requests, Len(request) + 1 \in Attempts,
         request' = Append(request, q), Dispatch(Len(request) + 1, q),
         UNCHANGED <<clock, outside, ended>>
  PROVE  ProviderPart'
<1> DEFINE x == <<q.session, q.key>>
           full == Cardinality({y \in Sessions \X Keys : Purged[y] # NoRecord})
                     >= MaxRecords
           kept == {y \in Sessions \X Keys : Purged[y] # NoRecord}
<1>1. ProviderTypes /\ OwnRecords /\ TypeOK
  BY TypeParts DEF CallsInv, SessionPart, ProviderPart
<1>2. PICK a \in Attempts : a = Len(request) + 1
  OBVIOUS
<1>3. /\ Made' = Made \union {a} /\ a \notin Made /\ request'[a] = q
      /\ \A b \in Made : request'[b] = request[b]
  BY <1>1, <1>2, NewAttempt
<1>4. /\ clock' = clock /\ ended' = ended /\ closed' = closed
      /\ denied' = denied /\ withdrawn' = withdrawn
  BY DEF outside
<1>5. /\ Purged \in [Sessions \X Keys -> Records \union {NoRecord}]
      /\ \A y \in Sessions \X Keys : Purged[y] \in {ledger[y], NoRecord}
      /\ \A y \in Sessions \X Keys :
           ledger[y] # NoRecord /\ Purged[y] = NoRecord =>
             ~ledger[y].pending /\ ledger[y].expires <= clock
      /\ kept \subseteq Recorded /\ IsFiniteSet(kept)
      /\ Cardinality(kept) \in Nat /\ Cardinality(kept) <= MaxRecords
  BY PurgedFacts
<1>6. Made \subseteq Attempts /\ a # 0
  BY <1>1, MadeFacts DEF Attempts
<1>7. CASE q.key = NoKey \/ Purged[x] # NoRecord \/ full
  <2>1. /\ ledger' = ledger \/ (ledger' = Purged /\ handler' = handler)
        /\ handler' = handler \/
             (q.key = NoKey /\ handler' = [handler EXCEPT ![a] = "running"])
    <3>1. CASE q.key = NoKey
      BY <1>2, <3>1 DEF Dispatch
    <3>2. CASE q.key # NoKey
      <4>1. ledger' = Purged /\ handler' = [handler EXCEPT ![a] = @]
        BY <1>2, <1>7, <3>2 DEF Dispatch
      <4> QED  BY <1>1, <4>1 DEF ProviderTypes
    <3> QED  BY <3>1, <3>2
  <2>2. ProviderTypes'
    <3>1. handler' \in [Attempts -> {"none", "running", "iterating", "ended"}]
      BY <1>1, <2>1 DEF ProviderTypes
    <3>2. ledger' \in [Sessions \X Keys -> Records \union {NoRecord}]
          /\ Cardinality(Recorded') <= MaxRecords
      BY <1>1, <1>5, <2>1 DEF ProviderTypes, Recorded
    <3> QED  BY <1>1, <1>4, <3>1, <3>2 DEF ProviderTypes
  <2>3. IsFiniteSet(Recorded') /\ Recorded' \subseteq Recorded
    BY <1>1, <1>5, <2>1 DEF OwnRecords, Recorded
  <2>4. \A y \in Recorded' : ledger'[y] = ledger[y]
    BY <1>5, <2>1 DEF Recorded
  <2>5. \A y \in Recorded' :
          LET r == ledger'[y]
              o == request'[r.by]
          IN  /\ r.by \in Made' /\ y = <<o.session, o.key>>
              /\ o.body = r.body /\ r.value \in {0, r.by}
    <3> SUFFICES ASSUME NEW y \in Recorded'
                 PROVE  LET r == ledger'[y]
                            o == request'[r.by]
                        IN  /\ r.by \in Made' /\ y = <<o.session, o.key>>
                            /\ o.body = r.body /\ r.value \in {0, r.by}
      OBVIOUS
    <3>1. y \in Recorded /\ ledger'[y] = ledger[y]
      BY <2>3, <2>4
    <3>2. /\ ledger[y].by \in Made /\ ledger[y].value \in {0, ledger[y].by}
          /\ y = <<request[ledger[y].by].session, request[ledger[y].by].key>>
          /\ request[ledger[y].by].body = ledger[y].body
      BY <1>1, <3>1 DEF OwnRecords
    <3> QED  BY <1>3, <3>1, <3>2
  <2>6. ASSUME ~withdrawn', NEW b \in Made', request'[b].key # NoKey, handler'[b] # "none"
        PROVE  \/ handler'[b] = "ended" /\ ended'[b] + Retention <= clock'
               \/ Held(b)'
    <3>1. b \in Made /\ handler'[b] = handler[b] /\ request'[b] = request[b]
      <4>1. handler[a] = "none"
        BY <1>1, <1>3 DEF OwnRecords
      <4>2. b # a
        BY <1>3, <2>1, <2>6, <4>1
      <4> QED  BY <1>1, <1>3, <1>6, <2>1, <2>6, <4>2 DEF ProviderTypes
    <3> DEFINE y == <<request[b].session, request[b].key>>
    <3>2. y \in Sessions \X Keys
      BY <1>1, <2>6, <3>1, MadeFacts DEF Requests
    <3>3. (handler[b] = "ended" /\ ended[b] + Retention <= clock) \/ Held(b)
      BY <1>1, <1>4, <2>6, <3>1 DEF OwnRecords
    <3>4. CASE ledger'[y] = ledger[y]
      <4>1. Held(b) => Held(b)'
        BY <1>4, <3>1, <3>4 DEF Held
      <4> QED  BY <1>4, <3>1, <3>3, <4>1
    <3>5. CASE ledger'[y] # ledger[y]
      <4>1. ledger[y] # NoRecord /\ Purged[y] = NoRecord
        BY <1>5, <2>1, <3>2, <3>5
      <4>2. ~ledger[y].pending /\ ledger[y].expires <= clock
        BY <1>5, <3>2, <4>1
      <4>3. Held(b) => handler[b] = "ended" /\ ended[b] + Retention <= clock
        BY <4>2 DEF Held
      <4> QED  BY <1>4, <3>1, <3>3, <4>3
    <3> QED  BY <3>4, <3>5
  <2>7. ended' \in [Attempts -> Nat] /\ \A b \in Attempts \ Made' : handler'[b] = "none"
    BY <1>1, <1>2, <1>3, <1>4, <2>1 DEF OwnRecords, ProviderTypes
  <2>8. OwnRecords'
    BY <2>3, <2>5, <2>6, <2>7 DEF OwnRecords
  <2> QED  BY <2>2, <2>8 DEF ProviderPart
<1>8. CASE q.key # NoKey /\ Purged[x] = NoRecord /\ ~full
  <2> DEFINE new == [by |-> a, body |-> q.body, pending |-> TRUE,
                     expires |-> 0, value |-> 0]
  <2>1. /\ ledger' = [Purged EXCEPT ![x] = new]
        /\ handler' = [handler EXCEPT ![a] = "running"]
    BY <1>2, <1>8 DEF Dispatch
  <2>2. x \in Sessions \X Keys
    BY <1>8 DEF Requests
  <2>3. /\ new \in Records /\ new # NoRecord /\ new.by = a /\ new.pending
        /\ new.body = q.body /\ new.value = 0
    <3>1. new \in Records /\ new.by = a
      BY DEF Records, Requests
    <3>2. NoRecord.by = 0
      BY DEF NoRecord
    <3> QED  BY <1>6, <3>1, <3>2
  <2> HIDE DEF new
  <2>4. /\ ledger'[x] = new
        /\ \A y \in Sessions \X Keys : y # x => ledger'[y] = Purged[y]
        /\ ledger' \in [Sessions \X Keys -> Records \union {NoRecord}]
    BY <1>5, <2>1, <2>2, <2>3
  <2>5. Recorded' = kept \union {x} /\ x \notin kept
    BY <1>8, <2>2, <2>3, <2>4 DEF Recorded
  <2>6. IsFiniteSet(Recorded') /\ Cardinality(Recorded') <= MaxRecords
    <3>1. IsFiniteSet(Recorded') /\ Cardinality(Recorded') = Cardinality(kept) + 1
      BY <1>5, <2>5, FS_AddElement
    <3>2. Cardinality(kept) < MaxRecords
      BY <1>5, <1>8, CallsAssumption
    <3> QED  BY <1>5, <3>1, <3>2, CallsAssumption
  <2>7. handler'[a] = "running" /\ \A b \in Attempts \ {a} : handler'[b] = handler[b]
    BY <1>1, <2>1 DEF ProviderTypes
  <2>8. ProviderTypes'
    <3>1. handler' \in [Attempts -> {"none", "running", "iterating", "ended"}]
      BY <1>1, <2>1 DEF ProviderTypes
    <3> QED  BY <1>1, <1>4, <2>4, <2>6, <3>1 DEF ProviderTypes
  <2>9. ASSUME NEW y \in Recorded'
        PROVE  LET r == ledger'[y]
                   o == request'[r.by]
               IN  /\ r.by \in Made' /\ y = <<o.session, o.key>>
                   /\ o.body = r.body /\ r.value \in {0, r.by}
    <3>1. CASE y = x
      BY <1>3, <2>3, <2>4, <3>1
    <3>2. CASE y # x
      <4>1. y \in Recorded /\ ledger'[y] = ledger[y]
        BY <1>5, <2>4, <2>5, <2>9, <3>2 DEF Recorded
      <4>2. /\ ledger[y].by \in Made /\ ledger[y].value \in {0, ledger[y].by}
            /\ y = <<request[ledger[y].by].session, request[ledger[y].by].key>>
            /\ request[ledger[y].by].body = ledger[y].body
        BY <1>1, <4>1 DEF OwnRecords
      <4> QED  BY <1>3, <4>1, <4>2
    <3> QED  BY <3>1, <3>2
  <2>10. ASSUME ~withdrawn', NEW b \in Made', request'[b].key # NoKey, handler'[b] # "none"
         PROVE  \/ handler'[b] = "ended" /\ ended'[b] + Retention <= clock'
                \/ Held(b)'
    <3>1. CASE b = a
      <4>1. Held(a)'
        BY <1>3, <2>3, <2>4, <2>7 DEF Held
      <4> QED  BY <3>1, <4>1
    <3>2. CASE b # a
      <4>1. b \in Made /\ handler'[b] = handler[b] /\ request'[b] = request[b]
        BY <1>3, <1>6, <2>7, <2>10, <3>2
      <4> DEFINE y == <<request[b].session, request[b].key>>
      <4>2. y \in Sessions \X Keys
        BY <1>1, <2>10, <4>1, MadeFacts DEF Requests
      <4>3. (handler[b] = "ended" /\ ended[b] + Retention <= clock) \/ Held(b)
        BY <1>1, <1>4, <2>10, <4>1 DEF OwnRecords
      <4>4. CASE Purged[y] = ledger[y] /\ y # x
        <5>1. ledger'[y] = ledger[y]
          BY <2>4, <4>2, <4>4
        <5>2. Held(b) => Held(b)'
          BY <1>4, <4>1, <5>1 DEF Held
        <5> QED  BY <1>4, <4>1, <4>3, <5>2
      <4>5. CASE Purged[y] # ledger[y] \/ y = x
        <5>1. Held(b) => ledger[y] # NoRecord
          BY DEF Held
        <5>2. ledger[y] # NoRecord => Purged[y] = NoRecord
          BY <1>5, <1>8, <4>2, <4>5
        <5>3. ledger[y] # NoRecord => ~ledger[y].pending /\ ledger[y].expires <= clock
          BY <1>5, <4>2, <5>2
        <5>4. Held(b) => handler[b] = "ended" /\ ended[b] + Retention <= clock
          BY <5>1, <5>3 DEF Held
        <5> QED  BY <1>4, <4>1, <4>3, <5>4
      <4> QED  BY <4>4, <4>5
    <3> QED  BY <3>1, <3>2
  <2>11. ended' \in [Attempts -> Nat] /\ \A b \in Attempts \ Made' : handler'[b] = "none"
    BY <1>1, <1>3, <1>4, <2>7 DEF OwnRecords
  <2>12. OwnRecords'
    BY <2>6, <2>9, <2>10, <2>11 DEF OwnRecords
  <2> QED  BY <2>8, <2>12 DEF ProviderPart
<1> QED  BY <1>7, <1>8

-----------------------------------------------------------------------------
(* Every step of Calls.                                                    *)

\* What callers ask for is a request, with a deadline that is a time.
LEMMA AskedFacts ==
  ASSUME TypeOK, NEW s \in Sessions, NEW n \in Ids, NEW i \in Inputs,
         NEW d \in Deadlines, NEW p \in Made \union {0}
  PROVE  [session |-> s, id |-> n, key |-> i[1], body |-> i[2],
          deadline |-> Deadline(d, p), parent |-> p] \in Requests
<1>1. i[1] \in Keys \union {NoKey} /\ i[2] \in Bodies
  BY CallsAssumption
<1>2. d \in Nat /\ clock \in Nat /\ MaxCall \in Nat
  BY CallsAssumption DEF TypeOK, Times
<1>3. Least(d, clock + MaxCall) \in Nat
  BY <1>2 DEF Least
<1>4. p # 0 => request[p].deadline \in Nat
  BY MadeFacts DEF Requests
<1>5. Deadline(d, p) \in Nat
  BY <1>3, <1>4 DEF Deadline, Least
<1>6. p \in Attempts \union {0}
  BY MadeFacts
<1> QED  BY <1>1, <1>5, <1>6 DEF Requests

\* A step of cancel() that leaves handlers and ledger alone.
LEMMA CancelKeeps ==
  ASSUME CallsInv, NEW S, Cancel(S), UNCHANGED <<handler, ledger, withdrawn>>,
         closed' \subseteq Sessions, denied' \subseteq Sessions
  PROVE  CallsInv'
<1>1. SessionPart' /\ Made' = Made
  BY SessionCancel
<1>2. clock' = clock /\ ended' = ended /\ request' = request
  BY DEF Cancel
<1>3. ProviderTypes /\ clock \in Nat
  BY DEF CallsInv, ProviderPart, ProviderTypes, Times
<1>4. ProviderTypes'
  BY <1>2, <1>3 DEF ProviderTypes, Recorded
<1>5. ProviderPart'
  BY <1>1, <1>2, <1>3, <1>4, ProviderStays
<1> QED  BY <1>1, <1>5 DEF CallsInv

\* invoke() up to its await.
LEMMA InvokeKeeps ==
  ASSUME CallsInv, NEW q \in Requests, q.parent \in Made \union {0}, Invoke(q)
  PROVE  CallsInv'
<1> DEFINE x == <<q.session, q.key>>
<1>1. TypeOK /\ ProviderTypes /\ OwnRecords /\ SessionTypes /\ Attempted
  BY TypeParts DEF CallsInv, SessionPart, ProviderPart
<1>2. /\ Len(request) + 1 \in Attempts /\ Admissible(q)
      /\ request' = Append(request, q)
      /\ pending' = [pending EXCEPT ![<<q.session, q.id>>] = Len(request) + 1]
      /\ admitted' = admitted \union {Len(request) + 1}
      /\ Dispatch(Len(request) + 1, q)
      /\ UNCHANGED <<clock, outside, ended>>
      /\ done' = done /\ aborted' = aborted
  BY DEF Invoke
<1>3. ProviderPart'
  BY <1>2, ProviderDispatches
<1>4. PICK a \in Attempts : a = Len(request) + 1
  BY <1>2
<1>5. \E p \in {"racing", "settled", "streaming"} : pc' = [pc EXCEPT ![a] = p]
  BY <1>2, <1>4 DEF Dispatch
<1>6. \E v \in -1 .. MaxAttempts :
        /\ outcome' = [outcome EXCEPT ![a] = v]
        /\ v > 0 => /\ v \in Made /\ q.key # NoKey
                    /\ q.session = request[v].session
                    /\ q.key = request[v].key /\ q.body = request[v].body
  <2>0. outcome[a] = -1 /\ 0 \in -1 .. MaxAttempts /\ -1 \in -1 .. MaxAttempts
        /\ Made \subseteq -1 .. MaxAttempts
    <3>1. a \notin Made
      BY <1>1, <1>2, <1>4, NewAttempt
    <3> QED  BY <1>1, <3>1, CallsAssumption, MadeFacts DEF Attempted, Attempts
  <2>1. CASE q.key # NoKey /\ Purged[x] # NoRecord
    <3> DEFINE r == Purged[x]
    <3>1. outcome' = [outcome EXCEPT ![a] = Replay(r, q)]
      BY <1>2, <1>4, <2>1 DEF Dispatch
    <3>2. x \in Sessions \X Keys
      BY <2>1 DEF Requests
    <3>3. r = ledger[x] /\ x \in Recorded
      BY <2>1, <3>2, PurgedFacts DEF Recorded
    <3> HIDE DEF r
    <3>4. /\ r.by \in Made /\ x = <<request[r.by].session, request[r.by].key>>
          /\ request[r.by].body = r.body /\ r.value \in {0, r.by}
      BY <1>1, <3>3 DEF OwnRecords
    <3>5. Replay(r, q) = 0 \/ (Replay(r, q) = r.by /\ r.body = q.body)
      BY <3>4 DEF Replay
    <3>6. CASE Replay(r, q) = 0
      <4>1. outcome' = [outcome EXCEPT ![a] = 0] /\ ~(0 > 0)
        BY <3>1, <3>6
      <4> QED  BY <2>0, <4>1
    <3>7. CASE Replay(r, q) = r.by /\ r.body = q.body
      BY <2>0, <2>1, <3>1, <3>4, <3>7
    <3> QED  BY <3>5, <3>6, <3>7
  <2>2. CASE ~(q.key # NoKey /\ Purged[x] # NoRecord)
    <3>1. \/ outcome' = [outcome EXCEPT ![a] = 0]
          \/ outcome' = [outcome EXCEPT ![a] = @]
      BY <1>2, <1>4, <2>2 DEF Dispatch
    <3>2. \/ outcome' = [outcome EXCEPT ![a] = 0]
          \/ outcome' = [outcome EXCEPT ![a] = -1]
      BY <2>0, <3>1
    <3> QED  BY <2>0, <3>2
  <2> QED  BY <2>1, <2>2
<1>7. SessionPart'
  <2>1. PICK p \in {"racing", "settled", "streaming"} : pc' = [pc EXCEPT ![a] = p]
    BY <1>5
  <2>2. PICK v \in -1 .. MaxAttempts :
          /\ outcome' = [outcome EXCEPT ![a] = v]
          /\ v > 0 => /\ v \in Made /\ q.key # NoKey
                      /\ q.session = request[v].session
                      /\ q.key = request[v].key /\ q.body = request[v].body
    BY <1>6
  <2> QED  BY <1>2, <1>4, <2>1, <2>2, SessionJoins
<1> QED  BY <1>3, <1>7 DEF CallsInv

\* Every step of Calls keeps the invariant.
LEMMA NextKeeps ==
  ASSUME CallsInv, Next
  PROVE  CallsInv'
<1>1. TypeOK /\ ProviderTypes /\ OwnRecords /\ SessionTypes /\ Attempted /\ Tables
  BY TypeParts DEF CallsInv, SessionPart, ProviderPart
<1>2. closed \subseteq Sessions /\ denied \subseteq Sessions
  BY <1>1 DEF TypeOK
<1>3. ASSUME NEW s \in Sessions, NEW n \in Ids, NEW i \in Inputs,
             NEW d \in Deadlines, NEW p \in Made \union {0},
             Invoke([session |-> s, id |-> n, key |-> i[1], body |-> i[2],
                     deadline |-> Deadline(d, p), parent |-> p])
      PROVE  CallsInv'
  <2> DEFINE q == [session |-> s, id |-> n, key |-> i[1], body |-> i[2],
                   deadline |-> Deadline(d, p), parent |-> p]
  <2>1. q \in Requests /\ q.parent \in Made \union {0} /\ Invoke(q)
    BY <1>1, <1>3, AskedFacts
  <2> HIDE DEF q
  <2> QED  BY <2>1, InvokeKeeps
<1>4. ASSUME NEW a \in Attempts, NEW v \in {0, a}, HandlerEnds(a, v)
      PROVE  CallsInv'
  <2>1. ProviderPart' /\ a \in Made
    BY <1>4, ProviderEnds
  <2>2. /\ UNCHANGED <<request, done, aborted, table>>
        /\ outcome' = [outcome EXCEPT ![a] = IF pc[a] = "racing" THEN v ELSE @]
        /\ pc' = [pc EXCEPT ![a] = IF @ = "racing" THEN "settled" ELSE @]
    BY <1>4 DEF HandlerEnds
  <2>3. SessionPart'
    BY <2>1, <2>2, SessionSettles
  <2> QED  BY <2>1, <2>3 DEF CallsInv
<1>5. ASSUME NEW a \in Attempts, Deliver(a)
      PROVE  CallsInv'
  <2>1. a \in Made /\ pc[a] # "racing"
    BY <1>1, <1>5 DEF Deliver, Attempted
  <2>2. /\ request' = request /\ aborted' = aborted
        /\ done' = done \union {a} /\ TableWithout({a})
        /\ pc' = [pc EXCEPT ![a] = "over"]
        /\ outcome' = [outcome EXCEPT ![a] = IF Deliverable(a) THEN @ ELSE 0]
        /\ UNCHANGED <<clock, handler, ledger, closed, withdrawn, denied, ended>>
    BY <1>5 DEF Deliver, outside
  <2>3. SessionPart' /\ Made' = Made
    BY <2>1, <2>2, SessionLeaves
  <2>4. ProviderTypes'
    BY <1>1, <2>2 DEF ProviderTypes, Recorded
  <2>5. clock \in Nat
    BY <1>1 DEF ProviderTypes, Times
  <2>6. ProviderPart'
    BY <2>2, <2>3, <2>4, <2>5, ProviderStays
  <2> QED  BY <2>3, <2>6 DEF CallsInv
<1>6. ASSUME NEW a \in Attempts, CallerCancels(a) \/ DeadlineTimer(a)
      PROVE  CallsInv'
  <2>1. Cancel({a}) /\ UNCHANGED <<handler, ledger, closed, withdrawn, denied>>
    BY <1>6 DEF CallerCancels, DeadlineTimer, outside
  <2> QED  BY <1>2, <2>1, CancelKeeps
<1>7. ASSUME NEW s \in Sessions, CloseSession(s)
      PROVE  CallsInv'
  <2>1. /\ Cancel({a \in Made : request[a].session = s})
        /\ UNCHANGED <<handler, ledger, withdrawn, denied>>
        /\ closed' = closed \union {s}
    BY <1>7 DEF CloseSession
  <2> QED  BY <1>2, <2>1, CancelKeeps
<1>8. ASSUME NEW s \in Sessions, Deny(s)
      PROVE  CallsInv'
  <2>1. /\ denied' = denied \union {s}
        /\ UNCHANGED <<request, pc, done, aborted, outcome, table>>
        /\ UNCHANGED <<clock, handler, ledger, closed, withdrawn, ended>>
    BY <1>8 DEF Deny
  <2>2. SessionPart' /\ Made' = Made
    BY <2>1, SessionStays DEF CallsInv, Made
  <2>3. ProviderTypes'
    BY <1>1, <2>1 DEF ProviderTypes, Recorded
  <2>4. clock \in Nat
    BY <1>1 DEF ProviderTypes, Times
  <2>5. ProviderPart'
    BY <2>1, <2>2, <2>3, <2>4, ProviderStays
  <2> QED  BY <2>2, <2>5 DEF CallsInv
<1>9. ASSUME Withdraw
      PROVE  CallsInv'
  <2>1. /\ withdrawn' = TRUE /\ Cancel(Made)
        /\ ledger' = [x \in Sessions \X Keys |-> NoRecord]
        /\ UNCHANGED <<clock, handler, closed, denied, ended>>
    BY <1>9 DEF Withdraw, Cancel
  <2>2. SessionPart' /\ Made' = Made
    BY <2>1, SessionCancel
  <2>3. ProviderPart'
    BY <2>1, <2>2, ProviderWithdraws
  <2> QED  BY <2>2, <2>3 DEF CallsInv
<1>10. ASSUME Tick
       PROVE  CallsInv'
  <2>1. /\ clock' = clock + 1 /\ clock < MaxTime
        /\ UNCHANGED <<request, pc, done, aborted, outcome, table>>
        /\ UNCHANGED <<handler, ledger, closed, withdrawn, denied, ended>>
    BY <1>10 DEF Tick, outside
  <2>2. SessionPart' /\ Made' = Made
    BY <2>1, SessionStays DEF CallsInv, Made
  <2>3. clock \in Nat /\ clock' \in Times /\ clock' >= clock
    BY <1>1, <2>1, CallsAssumption DEF ProviderTypes, Times
  <2>4. ProviderTypes'
    BY <1>1, <2>1, <2>3 DEF ProviderTypes, Recorded
  <2>5. ProviderPart'
    BY <2>1, <2>2, <2>3, <2>4, ProviderStays
  <2> QED  BY <2>2, <2>5 DEF CallsInv
<1> QED  BY <1>3, <1>4, <1>5, <1>6, <1>7, <1>8, <1>9, <1>10 DEF Next

\* The initial state has the invariant.
LEMMA InitHolds == Init => CallsInv
<1> SUFFICES ASSUME Init
             PROVE  CallsInv
  OBVIOUS
<1>1. Made = {} /\ request \in Seq(Requests) /\ Len(request) = 0
  BY DEF Init, Made
<1>2. Recorded = {} /\ \A s \in Sessions : Taken(s) = {}
  BY DEF Init, Recorded, Taken
<1>3. IsFiniteSet({}) /\ Cardinality({}) = 0
  BY FS_EmptySet
<1>4. SessionTypes
  <2>1. -1 \in -1 .. MaxAttempts 
        /\ 0 <= MaxAttempts /\ 0 <= MaxPending /\ 0 <= MaxCalls
    BY CallsAssumption
  <2>2. outcome \in [Attempts -> -1 .. MaxAttempts]
    BY <2>1 DEF Init
  <2>3. pc \in [Attempts -> {"unused", "racing", "settled", "over", "streaming"}]
    BY DEF Init
  <2>4. pending \in [Sessions \X Ids -> Attempts \union {0}]
    BY DEF Init
  <2> QED  BY <1>1, <1>2, <1>3, <2>1, <2>2, <2>3, <2>4 DEF Init, SessionTypes
<1>7. ProviderTypes
  <2>1. 0 \in 0 .. MaxTime /\ 0 <= MaxRecords
    BY CallsAssumption
  <2>2. ledger \in [Sessions \X Keys -> Records \union {NoRecord}]
    BY DEF Init
  <2>3. handler \in [Attempts -> {"none", "running", "iterating", "ended"}]
    BY DEF Init
  <2> QED  BY <1>2, <1>3, <2>1, <2>2, <2>3 DEF Init, ProviderTypes, Times
<1>5. Tables /\ Attempted /\ NoOrphans /\ OwnAnswers
  <2>1. Tables
    BY <1>1, <1>2, <1>3 DEF Init, Tables
  <2>2. Attempted /\ NoOrphans
    BY <1>1 DEF Init, Attempted, NoOrphans
  <2>3. OwnAnswers
    BY <1>1 DEF Init, OwnAnswers
  <2> QED  BY <2>1, <2>2, <2>3
<1>6. OwnRecords
  BY <1>1, <1>2, <1>3 DEF Init, OwnRecords
<1> QED  BY <1>4, <1>5, <1>6, <1>7 DEF CallsInv, SessionPart, ProviderPart

-----------------------------------------------------------------------------
(* What a step may start.                                                  *)

\* What NoSecondEffect says of a step.
OneEffect ==
  \A b \in Attempts : handler[b] = "none" /\ handler'[b] = "running" =>
    \A a \in Made :
      /\ request[a].session = request'[b].session
      /\ request[a].key = request'[b].key /\ request[a].key # NoKey
      /\ handler[a] # "none"
      => handler[a] = "ended" /\ ended[a] + Retention <= clock

\* A handler that unary() starts finds no live record of its key, so earlier
\* handlers for the key have ended and are past their retention.
LEMMA InvokeEffects ==
  ASSUME CallsInv, NEW q \in Requests, Invoke(q)
  PROVE  OneEffect
<1> SUFFICES ASSUME NEW b \in Attempts, handler[b] = "none", handler'[b] = "running",
                    NEW a \in Made, request[a].session = request'[b].session,
                    request[a].key = request'[b].key, request[a].key # NoKey,
                    handler[a] # "none"
             PROVE  handler[a] = "ended" /\ ended[a] + Retention <= clock
  BY DEF OneEffect
<1> DEFINE x == <<q.session, q.key>>
<1>1. TypeOK /\ ProviderTypes /\ OwnRecords
  BY TypeParts DEF CallsInv, SessionPart, ProviderPart
<1>2. /\ Len(request) + 1 \in Attempts /\ Admissible(q)
      /\ request' = Append(request, q) /\ Dispatch(Len(request) + 1, q)
  BY DEF Invoke
<1>3. b = Len(request) + 1 /\ request'[b] = q
  <2>1. b = Len(request) + 1
    BY <1>1, <1>2 DEF Dispatch, ProviderTypes
  <2> QED  BY <1>1, <1>2, <2>1, NewAttempt
<1>4. x = <<request[a].session, request[a].key>> /\ x \in Sessions \X Keys
  BY <1>1, <1>3, MadeFacts DEF Requests
<1>5. q.key # NoKey => Purged[x] = NoRecord
  BY <1>1, <1>2, <1>3 DEF Dispatch, ProviderTypes
<1>6. (handler[a] = "ended" /\ ended[a] + Retention <= clock) \/ Held(a)
  BY <1>1, <1>2 DEF OwnRecords, Admissible
<1>7. ASSUME Held(a)
      PROVE  handler[a] = "ended" /\ ended[a] + Retention <= clock
  <2>1. ledger[x] # NoRecord /\ Purged[x] = NoRecord
    BY <1>3, <1>4, <1>5, <1>7 DEF Held
  <2>2. ~ledger[x].pending /\ ledger[x].expires <= clock
    BY <1>4, <2>1, PurgedFacts
  <2> QED  BY <1>4, <1>7, <2>2 DEF Held
<1> QED  BY <1>6, <1>7

\* Only unary() starts a handler.
LEMMA NextEffects ==
  ASSUME CallsInv, Next
  PROVE  OneEffect
<1>1. TypeOK
  BY TypeParts DEF CallsInv, SessionPart, ProviderPart
<1>2. ASSUME NEW s \in Sessions, NEW n \in Ids, NEW i \in Inputs,
             NEW d \in Deadlines, NEW p \in Made \union {0},
             Invoke([session |-> s, id |-> n, key |-> i[1], body |-> i[2],
                     deadline |-> Deadline(d, p), parent |-> p])
      PROVE  OneEffect
  BY <1>1, <1>2, AskedFacts, InvokeEffects
<1>3. ASSUME NEW a \in Attempts, NEW v, HandlerEnds(a, v)
      PROVE  OneEffect
  <2>1. \A b \in Attempts : handler'[b] \in {handler[b], "ended"}
    BY <1>1, <1>3 DEF HandlerEnds, TypeOK
  <2> QED  BY <2>1 DEF OneEffect
<1>4. ASSUME handler' = handler
      PROVE  OneEffect
  BY <1>4 DEF OneEffect
<1>5. ASSUME NEW a \in Attempts, Deliver(a) \/ CallerCancels(a) \/ DeadlineTimer(a)
      PROVE  handler' = handler
  BY <1>5 DEF Deliver, CallerCancels, DeadlineTimer
<1>6. ASSUME NEW s \in Sessions, CloseSession(s) \/ Deny(s)
      PROVE  handler' = handler
  BY <1>6 DEF CloseSession, Deny
<1>7. ASSUME Withdraw \/ Tick
      PROVE  handler' = handler
  BY <1>7 DEF Withdraw, Tick
<1> QED  BY <1>2, <1>3, <1>4, <1>5, <1>6, <1>7 DEF Next

\* The invariant holds what the runs check of calls.
LEMMA CallsInvHolds ==
  ASSUME CallsInv
  PROVE  TablesAreExact /\ AnswersAreOwn /\ NoOrphans
<1>1. TypeOK /\ Tables /\ OwnAnswers /\ NoOrphans
  BY TypeParts DEF CallsInv, SessionPart, ProviderPart
<1>2. TablesAreExact
  <2>1. ASSUME NEW a \in Made
        PROVE  /\ (pending[<<request[a].session, request[a].id>>] = a) <=> a \notin done
               /\ a \in admitted <=> a \notin done
    <3>1. <<request[a].session, request[a].id>> \in Sessions \X Ids /\ a # 0
      BY <1>1, MadeFacts DEF Requests
    <3> QED  BY <1>1, <3>1 DEF Tables
  <2> QED  BY <1>1, <2>1 DEF TablesAreExact
<1>3. AnswersAreOwn
  BY <1>1 DEF OwnAnswers, AnswersAreOwn, Like
<1> QED  BY <1>1, <1>2, <1>3

\* A step that leaves calls alone.
LEMMA StutterKeeps ==
  ASSUME CallsInv, UNCHANGED vars
  PROVE  CallsInv'
<1>1. /\ UNCHANGED <<request, pc, done, aborted, outcome, table>>
      /\ UNCHANGED <<clock, handler, ledger, closed, withdrawn, denied, ended>>
  BY DEF vars, outside
<1>2. SessionPart' /\ Made' = Made
  BY <1>1, SessionStays DEF CallsInv, Made
<1>3. ProviderTypes /\ clock \in Nat
  BY DEF CallsInv, ProviderPart, ProviderTypes, Times
<1>4. ProviderTypes'
  BY <1>1, <1>3 DEF ProviderTypes, Recorded
<1>5. ProviderPart'
  BY <1>1, <1>2, <1>3, <1>4, ProviderStays
<1> QED  BY <1>2, <1>5 DEF CallsInv

\* Unary calls keep the invariant.
THEOREM CallsInvariance == Spec => []CallsInv
<1>1. Init => CallsInv
  BY InitHolds
<1>2. CallsInv /\ [Next]_vars => CallsInv'
  <2> SUFFICES ASSUME CallsInv, [Next]_vars
               PROVE  CallsInv'
    OBVIOUS
  <2>1. CASE Next
    BY <2>1, NextKeeps
  <2>2. CASE UNCHANGED vars
    BY <2>2, StutterKeeps
  <2> QED  BY <2>1, <2>2
<1> QED  BY <1>1, <1>2, PTL DEF Spec

=============================================================================
