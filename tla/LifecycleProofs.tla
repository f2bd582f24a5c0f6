--------------------------- MODULE LifecycleProofs ---------------------------
(***************************************************************************)
(* Proofs about Lifecycle and Profiles, for any instances, requirements,   *)
(* scopes and faults, and with ids of scopes used any number of times.     *)
(***************************************************************************)
EXTENDS Profiles, FiniteSetTheorems, SequenceTheorems, TLAPS

-----------------------------------------------------------------------------
(* Sequences.                                                              *)

\* The places and elements of a sequence.
LEMMA SeqParts ==
  ASSUME NEW R, NEW q \in Seq(R)
  PROVE  /\ Len(q) \in Nat /\ DOMAIN q = 1 .. Len(q)
         /\ \A k \in DOMAIN q : q[k] \in R
         /\ q = <<>> <=> Len(q) = 0
  BY EmptySeq

\* A part of a finite set of numbers, and a smaller part of it.
LEMMA PartsOf ==
  ASSUME NEW S, IsFiniteSet(S), NEW T, T \subseteq S
  PROVE  /\ IsFiniteSet(T) /\ Cardinality(T) \in Nat /\ Cardinality(S) \in Nat
         /\ T # S => Cardinality(T) < Cardinality(S)
  <1>1. T \in SUBSET S
    OBVIOUS
  <1>2. /\ IsFiniteSet(T) /\ Cardinality(T) <= Cardinality(S)
        /\ Cardinality(S) = Cardinality(T) => S = T
    BY <1>1, FS_Subset
  <1>3. Cardinality(T) \in Nat /\ Cardinality(S) \in Nat
    BY <1>2, FS_CardinalityType
  <1> QED BY <1>2, <1>3

\* Every one of the numbers P has its rank, and every rank its number.
LEMMA Ranks ==
  ASSUME NEW P, NEW m \in Nat, P \subseteq 1 .. m
  PROVE  /\ Cardinality(P) \in Nat
         /\ \A k \in 1 .. Cardinality(P) :
              \E n \in P : Cardinality({j \in P : j < n}) = k - 1
         /\ \A n \in P :
              /\ Cardinality({j \in P : j < n}) \in Nat
              /\ Cardinality({j \in P : j < n}) + 1 \in 1 .. Cardinality(P)
         /\ \A n, i \in P :
              Cardinality({j \in P : j < n}) = Cardinality({j \in P : j < i})
                => n = i
  <1>1. PICK C : C = Cardinality(P)
    OBVIOUS
  <1>2. PICK below : below = [n \in P |-> Cardinality({j \in P : j < n})]
    OBVIOUS
  <1>3. IsFiniteSet(P)
    <2>1. IsFiniteSet(1 .. m)
      BY FS_Interval
    <2> QED BY <2>1, PartsOf
  <1>4. C \in Nat
    BY <1>1, <1>3, FS_CardinalityType
  <1>5. ASSUME NEW n \in P
        PROVE  below[n] \in Nat /\ below[n] < C
    <2>1. {j \in P : j < n} \subseteq P /\ {j \in P : j < n} # P
      OBVIOUS
    <2> QED BY <1>1, <1>2, <1>3, <2>1, PartsOf
  <1>6. ASSUME NEW n \in P, NEW i \in P, n < i
        PROVE  below[n] < below[i]
    <2>1. {j \in P : j < i} \subseteq P
      OBVIOUS
    <2>2. /\ {j \in P : j < n} \subseteq {j \in P : j < i}
          /\ {j \in P : j < n} # {j \in P : j < i}
      <3>1. n \in {j \in P : j < i} /\ n \notin {j \in P : j < n}
        BY <1>6
      <3>2. \A j \in P : j < n => j < i
        BY <1>6
      <3> QED BY <3>1, <3>2
    <2>3. IsFiniteSet({j \in P : j < i})
      BY <1>3, <2>1, PartsOf
    <2> QED BY <1>2, <2>2, <2>3, PartsOf
  <1>7. ASSUME NEW n \in P, NEW i \in P, below[n] = below[i]
        PROVE  n = i
    <2>1. n \in Int /\ i \in Int
      OBVIOUS
    <2> QED BY <1>5, <1>6, <1>7, <2>1
  <1>8. PICK rank : rank = [n \in P |-> below[n] + 1]
    OBVIOUS
  <1>9. rank \in [P -> 1 .. C]
    BY <1>4, <1>5, <1>8
  <1>10. rank \in Injection(P, 1 .. C)
    BY <1>5, <1>7, <1>8, <1>9 DEF Injection, IsInjective
  <1>11. IsFiniteSet(1 .. C) /\ Cardinality(1 .. C) = C
    BY <1>4, FS_Interval
  <1>12. rank \in Surjection(P, 1 .. C)
    BY <1>1, <1>10, <1>11, FS_Injection
  <1>13. ASSUME NEW k \in 1 .. C
         PROVE  \E n \in P : below[n] = k - 1
    <2>1. PICK n \in P : rank[n] = k
      BY <1>12 DEF Surjection
    <2>2. below[n] = k - 1
      BY <1>4, <1>5, <1>8, <2>1
    <2> QED BY <2>2
  <1>14. \A n \in P : below[n] \in Nat /\ below[n] + 1 \in 1 .. C
    BY <1>4, <1>5
  <1> QED BY <1>1, <1>2, <1>4, <1>7, <1>13, <1>14

\* What Only keeps: the elements that are in S, and nothing else (filter).
LEMMA OnlyKeeps ==
  ASSUME NEW R, NEW q \in Seq(R), NEW S
  PROVE  /\ Only(q, S) \in Seq(R)
         /\ ToSet(Only(q, S)) = {x \in ToSet(q) : x \in S}
  <1>1. PICK P : P = {n \in DOMAIN q : q[n] \in S}
    OBVIOUS
  <1>2. /\ DOMAIN q = 1 .. Len(q) /\ Len(q) \in Nat
        /\ \A n \in DOMAIN q : q[n] \in R
    BY SeqParts
  <1>3. P \subseteq 1 .. Len(q) /\ \A n \in P : q[n] \in R /\ q[n] \in S
    BY <1>1, <1>2
  <1>4. PICK C : C = Cardinality(P)
    OBVIOUS
  <1>5. PICK below : below = [n \in P |-> Cardinality({j \in P : j < n})]
    OBVIOUS
  <1>6. /\ C \in Nat
        /\ \A k \in 1 .. C : \E n \in P : below[n] = k - 1
        /\ \A n \in P : below[n] \in Nat /\ below[n] + 1 \in 1 .. C
        /\ \A n, i \in P : below[n] = below[i] => n = i
    <2>1. /\ Cardinality(P) \in Nat
          /\ \A k \in 1 .. Cardinality(P) :
               \E n \in P : Cardinality({j \in P : j < n}) = k - 1
          /\ \A n \in P :
               /\ Cardinality({j \in P : j < n}) \in Nat
               /\ Cardinality({j \in P : j < n}) + 1 \in 1 .. Cardinality(P)
          /\ \A n, i \in P :
               Cardinality({j \in P : j < n}) = Cardinality({j \in P : j < i})
                 => n = i
      BY <1>2, <1>3, Ranks
    <2> QED BY <1>4, <1>5, <2>1
  <1>7. PICK place :
          place = [k \in 1 .. C |-> CHOOSE n \in P :
                                      Cardinality({j \in P : j < n}) = k - 1]
    OBVIOUS
  <1>8. \A k \in 1 .. C : place[k] \in P /\ below[place[k]] = k - 1
    BY <1>5, <1>6, <1>7
  <1>9. Only(q, S) = [k \in 1 .. C |-> q[place[k]]]
    BY <1>1, <1>4, <1>7 DEF Only
  <1>10. Only(q, S) \in Seq(R) /\ DOMAIN Only(q, S) = 1 .. C
    <2>1. Only(q, S) \in [1 .. C -> R]
      BY <1>3, <1>8, <1>9
    <2> QED BY <1>6, <2>1, SeqDef
  <1>11. ASSUME NEW n \in P
         PROVE  \E k \in 1 .. C : place[k] = n
    <2>1. PICK k \in 1 .. C : k = below[n] + 1
      BY <1>6
    <2>2. below[place[k]] = below[n]
      BY <1>6, <1>8, <2>1
    <2> QED BY <1>6, <1>8, <2>2
  <1>12. ASSUME NEW x \in ToSet(Only(q, S))
         PROVE  x \in ToSet(q) /\ x \in S
    <2>1. PICK k \in 1 .. C : x = Only(q, S)[k]
      BY <1>10 DEF ToSet
    <2>2. x = q[place[k]] /\ place[k] \in P
      BY <1>8, <1>9, <2>1
    <2> QED BY <1>2, <1>3, <2>2 DEF ToSet
  <1>13. ASSUME NEW x \in ToSet(q), x \in S
         PROVE  x \in ToSet(Only(q, S))
    <2>1. PICK n \in DOMAIN q : x = q[n]
      BY DEF ToSet
    <2>2. n \in P
      BY <1>1, <1>13, <2>1
    <2>3. PICK k \in 1 .. C : place[k] = n
      BY <1>11, <2>2
    <2> QED BY <1>9, <1>10, <2>1, <2>3 DEF ToSet
  <1> QED BY <1>10, <1>12, <1>13

\* The elements of a reversed sequence.
LEMMA ReverseKeeps ==
  ASSUME NEW R, NEW q \in Seq(R)
  PROVE  Reverse(q) \in Seq(R) /\ ToSet(Reverse(q)) = ToSet(q)
  <1>1. Len(q) \in Nat /\ DOMAIN q = 1 .. Len(q) /\ \A k \in DOMAIN q : q[k] \in R
    BY SeqParts
  <1>2. Reverse(q) = [i \in 1 .. Len(q) |-> q[(Len(q) - i) + 1]]
    BY DEF Reverse
  <1>3. Reverse(q) \in Seq(R) /\ DOMAIN Reverse(q) = 1 .. Len(q)
    BY <1>1, <1>2
  <1>4. ASSUME NEW k \in 1 .. Len(q)
        PROVE  Reverse(q)[k] \in ToSet(q) /\ q[k] \in ToSet(Reverse(q))
    <2>1. PICK m \in 1 .. Len(q) : m = (Len(q) - k) + 1
      BY <1>1
    <2>2. (Len(q) - m) + 1 = k
      BY <1>1, <2>1
    <2>3. Reverse(q)[k] = q[m] /\ Reverse(q)[m] = q[k]
      BY <1>2, <2>1, <2>2
    <2> QED BY <1>1, <1>3, <2>3 DEF ToSet
  <1> QED BY <1>1, <1>3, <1>4 DEF ToSet

\* The elements of a sequence without its first.
LEMMA TailKeeps ==
  ASSUME NEW R, NEW q \in Seq(R), q # <<>>
  PROVE  /\ Head(q) \in ToSet(q) /\ Head(q) \in R /\ Tail(q) \in Seq(R)
         /\ ToSet(Tail(q)) \subseteq ToSet(q)
         /\ ToSet(q) \subseteq ToSet(Tail(q)) \union {Head(q)}
  <1>1. /\ Len(q) \in Nat /\ Len(q) # 0 /\ DOMAIN q = 1 .. Len(q)
        /\ \A k \in DOMAIN q : q[k] \in R
    BY SeqParts
  <1>2. /\ Head(q) = q[1] /\ Tail(q) \in Seq(R) /\ DOMAIN Tail(q) = 1 .. Len(q) - 1
        /\ \A k \in 1 .. Len(q) - 1 : Tail(q)[k] = q[k + 1]
    BY <1>1
  <1>3. ASSUME NEW k \in 2 .. Len(q)
        PROVE  q[k] \in ToSet(Tail(q))
    <2>1. k - 1 \in 1 .. Len(q) - 1 /\ (k - 1) + 1 = k
      BY <1>1
    <2> QED BY <1>2, <2>1 DEF ToSet
  <1>4. \A k \in 1 .. Len(q) - 1 : k + 1 \in 1 .. Len(q)
    BY <1>1
  <1>5. \A k \in 1 .. Len(q) : k = 1 \/ k \in 2 .. Len(q)
    BY <1>1
  <1> QED BY <1>1, <1>2, <1>3, <1>4, <1>5 DEF ToSet

-----------------------------------------------------------------------------
(* Least and greatest numbers.                                             *)

\* A nonempty set of natural numbers has a least element.
LEMMA LeastNumber ==
  ASSUME NEW T \in SUBSET Nat, T # {}
  PROVE  \E x \in T : \A y \in T : x <= y
  <1> DEFINE R == OpToRel(<, Nat)
  <1>1. IsWellFoundedOn(R, Nat)
    BY NatLessThanWellFounded
  <1>2. \E x \in T : \A y \in T : <<y, x>> \notin R
    BY <1>1, WFMin
  <1>3. \A x, y \in Nat : x < y => <<x, y>> \in R
    BY DEF OpToRel
  <1> HIDE DEF R
  <1>4. PICK x \in T : \A y \in T : <<y, x>> \notin R
    BY <1>2
  <1>5. \A y \in T : y \in Nat /\ x \in Nat /\ ~(y < x)
    BY <1>3, <1>4, Zenon
  <1> QED BY <1>4, <1>5

\* Min is it.
LEMMA MinOfNumbers ==
  ASSUME NEW T \in SUBSET Nat, T # {}
  PROVE  Min(T) \in T /\ \A y \in T : Min(T) <= y
  BY LeastNumber DEF Min

\* Max is the greatest of numbers that have a bound.
LEMMA MaxOfNumbers ==
  ASSUME NEW m \in Nat, NEW T \in SUBSET (1 .. m), T # {}
  PROVE  Max(T) \in T /\ \A y \in T : y <= Max(T)
  <1>1. PICK U : U = {m - x : x \in T}
    OBVIOUS
  <1>2. U \in SUBSET Nat /\ U # {}
    <2>1. \A x \in T : x \in 1 .. m
      OBVIOUS
    <2>2. \A x \in 1 .. m : m - x \in Nat
      OBVIOUS
    <2> QED BY <1>1, <2>1, <2>2
  <1>3. PICK u \in U : \A y \in U : u <= y
    BY <1>2, LeastNumber
  <1>4. PICK x \in T : u = m - x
    BY <1>1, <1>3
  <1>5. ASSUME NEW y \in T
        PROVE  x >= y
    <2>1. u <= m - y
      BY <1>1, <1>3
    <2>2. x \in Int /\ y \in Int
      OBVIOUS
    <2> QED BY <1>4, <2>1, <2>2
  <1>6. Max(T) \in T /\ \A y \in T : Max(T) >= y
    BY <1>5 DEF Max
  <1>7. \A y \in T : y \in Int
    OBVIOUS
  <1> QED BY <1>6, <1>7

-----------------------------------------------------------------------------
(* Stacks of activateTree frames.                                          *)

\* What a frame has behind it: the providers before the one it is at are
\* among the dependencies b.
Bound(f, b) ==
  /\ f.at >= 1
  /\ \A j \in DOMAIN Requires[f.i] : j < f.at => Requires[f.i][j] \in b[f.i]

\* A frame that waits for the activation of g's instance.
Waits(f, g) ==
  /\ f.pc = "deps" /\ f.at \in DOMAIN Requires[f.i]
  /\ Requires[f.i][f.at] = g.i

IsStack(q, b) ==
  /\ q \in Seq(Frames)
  /\ \A k \in DOMAIN q : Bound(q[k], b)
  /\ \A k \in DOMAIN q : k < Len(q) => Waits(q[k], q[k + 1])

\* Dependencies that are added do no harm.
LEMMA StackGrows ==
  ASSUME NEW b, NEW c, \A i \in Instances : b[i] \subseteq c[i],
         NEW q, IsStack(q, b)
  PROVE  IsStack(q, c)
  <1>1. \A k \in DOMAIN q : q[k] \in Frames
    BY SeqParts DEF IsStack
  <1>2. ASSUME NEW k \in DOMAIN q
        PROVE  Bound(q[k], c)
    <2>1. Bound(q[k], b) /\ q[k].i \in Instances
      BY <1>1 DEF IsStack, Frames
    <2> QED BY <2>1 DEF Bound
  <1> QED BY <1>2 DEF IsStack

\* A stack of one frame.
LEMMA StackStarts ==
  ASSUME NEW b, NEW f \in Frames, Bound(f, b)
  PROVE  IsStack(<<f>>, b)
  <1>1. <<f>> \in Seq(Frames) /\ Len(<<f>>) = 1 /\ DOMAIN <<f>> = 1 .. 1
        /\ <<f>>[1] = f
    OBVIOUS
  <1>2. \A k \in 1 .. 1 : k = 1
    OBVIOUS
  <1> QED BY <1>1, <1>2 DEF IsStack

\* The empty stack.
LEMMA StackIsOver ==
  ASSUME NEW b
  PROVE  IsStack(<<>>, b)
  BY DEF IsStack

\* A call is pushed.
LEMMA StackPush ==
  ASSUME NEW b, NEW q, IsStack(q, b), q # <<>>,
         NEW g \in Frames, Bound(g, b), Waits(Last(q), g)
  PROVE  IsStack(Append(q, g), b) /\ Last(Append(q, g)) = g
         /\ Append(q, g) # <<>>
  <1>1. q \in Seq(Frames) /\ Len(q) \in Nat /\ DOMAIN q = 1 .. Len(q) /\ Len(q) # 0
    BY SeqParts DEF IsStack
  <1>2. /\ Append(q, g) \in Seq(Frames) /\ Len(Append(q, g)) = Len(q) + 1
        /\ DOMAIN Append(q, g) = 1 .. Len(q) + 1
        /\ \A k \in 1 .. Len(q) : Append(q, g)[k] = q[k]
        /\ Append(q, g)[Len(q) + 1] = g
    BY <1>1
  <1>3. \A k \in 1 .. Len(q) + 1 : k \in 1 .. Len(q) \/ k = Len(q) + 1
    BY <1>1
  <1>4. \A k \in 1 .. Len(q) + 1 : Bound(Append(q, g)[k], b)
    BY <1>1, <1>2, <1>3 DEF IsStack
  <1>5. ASSUME NEW k \in 1 .. Len(q) + 1, k < Len(q) + 1
        PROVE  Waits(Append(q, g)[k], Append(q, g)[k + 1])
    <2>1. k \in 1 .. Len(q) /\ Append(q, g)[k] = q[k]
      BY <1>1, <1>2, <1>5
    <2>2. CASE k = Len(q)
      BY <1>2, <2>1, <2>2 DEF Last
    <2>3. CASE k # Len(q)
      <3>1. k < Len(q) /\ k + 1 \in 1 .. Len(q)
        <4>1. Len(q) \in Nat /\ k \in 1 .. Len(q)
          BY <1>1, <2>1
        <4> QED BY ONLY <2>3, <4>1
      <3>2. Append(q, g)[k + 1] = q[k + 1] /\ Waits(q[k], q[k + 1])
        BY <1>1, <1>2, <2>1, <3>1 DEF IsStack
      <3> QED BY <2>1, <3>2
    <2> QED BY <2>2, <2>3
  <1>6. Append(q, g) # <<>> /\ Last(Append(q, g)) = g
    BY <1>1, <1>2, SeqParts DEF Last
  <1> QED BY <1>2, <1>4, <1>5, <1>6 DEF IsStack

\* The frame on top.
LEMMA TopFrame ==
  ASSUME NEW q \in Seq(Frames), q # <<>>
  PROVE  Len(q) \in DOMAIN q /\ Last(q) = q[Len(q)] /\ Last(q) \in Frames
  <1>1. Len(q) \in Nat /\ DOMAIN q = 1 .. Len(q) /\ Len(q) # 0
    BY SeqParts
  <1>2. Len(q) \in DOMAIN q
    BY <1>1
  <1> QED BY <1>2, SeqParts DEF Last

\* The stack with another frame on top.
LEMMA TopIs ==
  ASSUME NEW q \in Seq(Frames), q # <<>>, NEW f \in Frames
  PROVE  /\ WithTop(q, f) \in Seq(Frames) /\ Len(WithTop(q, f)) = Len(q)
         /\ DOMAIN WithTop(q, f) = 1 .. Len(q) /\ Len(q) \in 1 .. Len(q)
         /\ \A k \in 1 .. Len(q) : k # Len(q) => WithTop(q, f)[k] = q[k]
         /\ WithTop(q, f)[Len(q)] = f
  <1>1. Len(q) \in Nat /\ DOMAIN q = 1 .. Len(q) /\ Len(q) # 0
    BY SeqParts
  <1>2. PICK n \in Nat : n = Len(q)
    BY <1>1
  <1>3. q \in [1 .. n -> Frames] /\ n \in 1 .. n
    BY <1>1, <1>2, SeqParts
  <1>4. WithTop(q, f) = [q EXCEPT ![n] = f]
    BY <1>2 DEF WithTop
  <1>5. /\ WithTop(q, f) \in [1 .. n -> Frames] /\ WithTop(q, f)[n] = f
        /\ \A k \in 1 .. n : k # n => WithTop(q, f)[k] = q[k]
    BY <1>3, <1>4
  <1>6. WithTop(q, f) \in Seq(Frames)
    BY <1>2, <1>5, SeqDef
  <1>7. Len(WithTop(q, f)) = n
    BY <1>2, <1>5, <1>6, LenProperties
  <1> QED BY <1>2, <1>3, <1>5, <1>6, <1>7

\* The frame on top goes on.
LEMMA StackTop ==
  ASSUME NEW b, NEW q, IsStack(q, b), q # <<>>,
         NEW f \in Frames, f.i = Last(q).i, Bound(f, b)
  PROVE  /\ IsStack(WithTop(q, f), b) /\ Last(WithTop(q, f)) = f
         /\ WithTop(q, f) # <<>> /\ Len(WithTop(q, f)) = Len(q)
  <1>1. q \in Seq(Frames) /\ Len(q) \in Nat /\ DOMAIN q = 1 .. Len(q) /\ Len(q) # 0
    BY SeqParts DEF IsStack
  <1>2. /\ WithTop(q, f) \in Seq(Frames) /\ Len(WithTop(q, f)) = Len(q)
        /\ DOMAIN WithTop(q, f) = 1 .. Len(q)
        /\ \A k \in 1 .. Len(q) : k # Len(q) => WithTop(q, f)[k] = q[k]
        /\ WithTop(q, f)[Len(q)] = f
    BY <1>1, TopIs
  <1>3. \A k \in 1 .. Len(q) : Bound(WithTop(q, f)[k], b)
    BY <1>1, <1>2 DEF IsStack
  <1>4. ASSUME NEW k \in 1 .. Len(q), k < Len(q)
        PROVE  Waits(WithTop(q, f)[k], WithTop(q, f)[k + 1])
    <2>1. k + 1 \in 1 .. Len(q) /\ k # Len(q)
      <3>1. Len(q) \in Nat /\ k \in 1 .. Len(q)
        BY <1>1
      <3> QED BY ONLY <1>4, <3>1
    <2>2. Waits(q[k], q[k + 1]) /\ WithTop(q, f)[k] = q[k]
      BY <1>1, <1>2, <1>4, <2>1 DEF IsStack
    <2>3. WithTop(q, f)[k + 1].i = q[k + 1].i
      BY <1>2, <2>1 DEF Last
    <2> QED BY <2>2, <2>3 DEF Waits
  <1>5. WithTop(q, f) # <<>> /\ Last(WithTop(q, f)) = f
    BY <1>1, <1>2, SeqParts DEF Last
  <1> QED BY <1>2, <1>3, <1>4, <1>5 DEF IsStack

\* The frame on top returns: the one below waits for its instance.
LEMMA StackFront ==
  ASSUME NEW b, NEW q, IsStack(q, b), Len(q) > 1
  PROVE  /\ IsStack(Front(q), b) /\ Front(q) # <<>>
         /\ Waits(Last(Front(q)), Last(q))
  <1>1. q \in Seq(Frames) /\ Len(q) \in Nat /\ DOMAIN q = 1 .. Len(q)
    BY SeqParts DEF IsStack
  <1>2. PICK n \in Nat : n = Len(q) - 1 /\ n >= 1 /\ Len(q) = n + 1
    <2>1. Len(q) \in Nat /\ Len(q) > 1
      BY <1>1
    <2>2. Len(q) - 1 \in Nat /\ Len(q) - 1 >= 1 /\ Len(q) = (Len(q) - 1) + 1
      BY ONLY <2>1
    <2> QED BY <2>2
  <1>3. /\ Front(q) \in Seq(Frames) /\ Len(Front(q)) = n
        /\ DOMAIN Front(q) = 1 .. n
        /\ \A k \in 1 .. n : Front(q)[k] = q[k]
    BY <1>1, <1>2 DEF Front
  <1>4. \A k \in 1 .. n : k \in DOMAIN q /\ k < Len(q)
    BY <1>1, <1>2
  <1>5. \A k \in 1 .. n : Bound(Front(q)[k], b) /\ Waits(Front(q)[k], q[k + 1])
    BY <1>3, <1>4 DEF IsStack
  <1>6. \A k \in 1 .. n : k < n => k + 1 \in 1 .. n
    BY <1>2
  <1>7. IsStack(Front(q), b)
    BY <1>3, <1>5, <1>6 DEF IsStack
  <1>8. Front(q) # <<>>
    BY <1>2, <1>3, SeqParts
  <1>9. Waits(Last(Front(q)), Last(q))
    <2>1. n \in 1 .. n
      BY <1>2
    <2> QED BY <1>2, <1>3, <1>5, <2>1 DEF Last
  <1> QED BY <1>7, <1>8, <1>9

\* The frame on top, and a frame that has only moved on.
LEMMA StackParts ==
  ASSUME NEW b, NEW q, IsStack(q, b), q # <<>>
  PROVE  Last(q) \in Frames /\ Bound(Last(q), b)
  <1>1. q \in Seq(Frames) /\ Len(q) \in Nat /\ DOMAIN q = 1 .. Len(q) /\ Len(q) # 0
    BY SeqParts DEF IsStack
  <1>2. Len(q) \in DOMAIN q
    BY <1>1
  <1> QED BY <1>1, <1>2 DEF IsStack, Last

-----------------------------------------------------------------------------
(* The inductive invariant.                                                *)

Early ==
  {"absent", "DISCOVERED", "VERIFIED", "RESOLVED", "ACTIVATING", "ACTIVE"}

Shut(s) == scope[s] \in {"CLOSING", "CLOSED"}

\* A registered id stands for one object; below a scope that is closing there
\* is no OPEN one; what is left to tear down is not OPEN.
Tree ==
  /\ \A s, o \in Registered : s[1] = o[1] => s = o
  /\ \A s \in Registered : scope[s] \in {"OPEN", "CLOSING"}
  /\ \A s \in Scopes : scope[s] # "none" => s[2] <= generation[s[1]]
  /\ \A s, o \in Registered :
       scope[s] = "OPEN" /\ o[1] = parent[s] => scope[o] = "OPEN"
  /\ \A t \in Tears : \A s \in ToSet(tear[t].todo) : Shut(s)

\* The state of an instance and the place of its disposal agree.
Phases ==
  \A i \in Instances :
    /\ disp[i].pc = "none" <=> state[i] \in Early
    /\ disp[i].pc = "done" => state[i] \in {"DISPOSED", "FAILED"}
    /\ state[i] = "DISPOSED" => disp[i].pc = "done"
    /\ state[i] = "absent" => effects[i] = <<>>

Stacks == \A r \in Instances : IsStack(act[r], deps)

\* The code of an instance is started by one activation only, and never after
\* a disposal that ended well.
Launched(r) == act[r] # <<>> /\ Last(act[r]).pc \in {"link", "code"}

Starts ==
  /\ \A r \in Instances :
       Launched(r) => state[Last(act[r]).i] \in {"ACTIVATING", "FAILED"}
  /\ \A r, q \in Instances :
       Launched(r) /\ Launched(q) /\ Last(act[r]).i = Last(act[q]).i => r = q
  /\ \A i \in Instances : state[i] = "DISPOSED" => i \notin work

\* Once an instance activates it is bound to all its providers; a disposal
\* leaves no ACTIVE dependent behind the place it has come to.
Bindings ==
  \A i \in Instances :
    /\ deps[i] \subseteq ToSet(Requires[i])
    /\ state[i] \in {"ACTIVATING", "ACTIVE"} => ToSet(Requires[i]) \subseteq deps[i]
    /\ disp[i].pc = "dependents" =>
         \A k \in Instances : i \in deps[k] /\ state[k] = "ACTIVE" => k > disp[i].at
    /\ disp[i].pc \notin {"none", "dependents"} =>
         \A k \in Instances : i \in deps[k] => state[k] # "ACTIVE"

\* The scopes an instance owns are on the list of its disposal.
OwnedLeft ==
  \A i \in Instances : \A s \in Registered : owner[s] = i =>
    /\ disp[i].pc \in {"none", "dependents", "scopes"}
    /\ disp[i].pc = "scopes" =>
         s \in ToSet(disp[i].list) \union ToSet(tear[i].todo)

\* A registration has its effect; a disposal that is over has left none, and
\* one that ended well has cleaned all; the host cleans for a reason.
Cleanups ==
  \A i \in Instances :
    /\ reg[i] # "none" => \E e \in Left(i) : effects[i][e].kind = "provide"
    /\ disp[i].pc \in {"work", "done"} => Left(i) = {}
    /\ state[i] = "DISPOSED" =>
         \A e \in DOMAIN effects[i] : effects[i][e].task = "cleaned"
    /\ \A e \in DOMAIN effects[i] :
         effects[i][e].task = "cleaning" /\ effects[i][e].by = "host"
           => disp[i].pc # "none" \/ Shut(effects[i][e].scope)

\* destroyScope leaves nothing before the place it has come to.
TearLoop ==
  \A t \in Tears : tear[t].todo # <<>> =>
    LET s == Head(tear[t].todo)
        n == tear[t].at
    IN  /\ n > 0 => Present(n) /\ home[n] = s
        /\ \A k \in Instances : k < n =>
             /\ Present(k) /\ home[k] = s => disp[k].pc = "done"
             /\ Unfinished(k, s) = {}

\* No call is pending once its caller, its provider or one of their scopes is
\* being taken down.
CallsAreLive ==
  \A p \in calls : \A i \in {p[1], p[2]} :
    state[i] = "ACTIVE" /\ scope[home[i]] = "OPEN"

LifecycleInv ==
  /\ TypeOK /\ Tree /\ Phases /\ Stacks /\ Starts /\ Bindings /\ OwnedLeft
  /\ Cleanups /\ TearLoop
  /\ DependentsFollow /\ CallsAreLive /\ CleanedInReverse /\ ClosedIsEmpty

-----------------------------------------------------------------------------
(* The steps, without the event loop and the state of startProfile().      *)

\* What a step of startProfile() does to the variables of Lifecycle.
ProfileStep ==
  /\ UNCHANGED waiting
  /\ \/ /\ UNCHANGED tree \/ \E n \in 0 .. Len(ProfileScopes) : ScopesCreated(n)
        /\ UNCHANGED tear
        /\ \/ UNCHANGED <<instances, act, outcome>>
           \/ \E i \in Instances : Activated(i) /\ UNCHANGED instances
           \/ \E i \in Instances : Dispose({i}) /\ UNCHANGED <<act, outcome>>
     \/ /\ \E t \in Tears \ Instances, id \in ScopeIds : BeginTear(t, id, disp)
        /\ UNCHANGED <<act, outcome>>

ActStep(r) ==
  \/ Start(r) \/ Continue(r) \/ Linked(r) \/ Returned(r) \/ Threw(r)
  \/ Disposed(r) \/ Settle(r)

Step ==
  \/ \E i \in Instances, s \in Scopes : Discover(i, s)
  \/ \E i \in Instances : Activate(i) \/ Unload(i) \/ Revoke(i)
  \/ \E id \in ScopeIds, s \in Scopes, o \in Instances \union {0} :
       CreateScope(id, s, o)
  \/ \E t \in Tears, id \in ScopeIds : DestroyScope(t, id)
  \/ Shutdown \/ TrustLapses \/ TrustTimer
  \/ \E i \in Instances, s \in Scopes, kind \in {"provide", "plain"} :
       Acquire(i, s, kind)
  \/ \E i \in Instances : \E e \in DOMAIN effects[i] : Release(i, e) \/ Cleaned(i, e)
  \/ \E c, p \in Instances : Call(c, p) \/ Answered(c, p)
  \/ \E i \in Instances : WorkSettles(i)
  \/ \E r \in Instances : ActStep(r)
  \/ \E i \in Instances :
       DisposeDependents(i) \/ DestroyOwned(i) \/ CleanEffects(i) \/ Finish(i)
  \/ \E t \in Tears : Tear(t)
  \/ ProfileStep

\* A disposal begins for the members of S that can be disposed.
Ends(S) ==
  /\ state' = [i \in Instances |->
                 IF ~(i \in S /\ Disposable(i)) THEN state[i]
                 ELSE IF state[i] = "ACTIVE" THEN "QUIESCING" ELSE "FAILED"]
  /\ disp' = [i \in Instances |->
                IF i \in S /\ Disposable(i) THEN Begun ELSE disp[i]]
  /\ calls' \subseteq calls
  /\ \A p \in calls', i \in S : Disposable(i) => i \notin {p[1], p[2]}
  /\ \A i \in Instances : reg'[i] # "none" => reg[i] # "none"

\* The flat part of TypeOK.
FlatTypes ==
  /\ reg \in [Instances -> {"none", "staged", "live", "dead"}]
  /\ work \subseteq Instances /\ revoked \subseteq Instances
  /\ calls \subseteq Instances \X Instances
  /\ outcome \in [Instances -> {"none", "pending", "ok", "failed"}]
  /\ trusted \in BOOLEAN /\ distrusted \subseteq Instances
  /\ closed \in BOOLEAN

InstanceTypes ==
  /\ state \in [Instances -> States \union {"absent"}]
  /\ disp \in [Instances -> Disposals]

\* The synchronous part of dispose().
LEMMA DisposeEnds ==
  ASSUME TypeOK, NEW S, S \subseteq Instances, NEW r, NEW c,
         r \in [Instances -> {"none", "staged", "live", "dead"}],
         \A i \in Instances : r[i] # "none" => reg[i] # "none",
         c \subseteq calls, BeginDispose(S, disp, r, c)
  PROVE  /\ Ends(S)
         /\ reg' \in [Instances -> {"none", "staged", "live", "dead"}]
         /\ calls' \subseteq Instances \X Instances /\ revoked' \subseteq Instances
  <1>1. /\ reg' \in [Instances -> {"none", "staged", "live", "dead"}]
        /\ \A i \in Instances : reg'[i] # "none" => reg[i] # "none"
    BY DEF BeginDispose
  <1>2. calls' \subseteq c /\ calls' \subseteq Instances \X Instances
    BY DEF BeginDispose, TypeOK
  <1>3. \A p \in calls', i \in S : Disposable(i) => i \notin {p[1], p[2]}
    <2>1. ASSUME NEW p \in calls', NEW i \in S, Disposable(i),
                 i \in {p[1], p[2]}
          PROVE  FALSE
      <3>1. p[1] \in Instances /\ p[2] \in Instances
        BY <1>2
      <3> QED BY <2>1, <3>1 DEF BeginDispose
    <2> QED BY <2>1
  <1>4. revoked' \subseteq Instances
    BY DEF BeginDispose, TypeOK
  <1>5. /\ state' = [i \in Instances |->
                 IF ~(i \in S /\ Disposable(i)) THEN state[i]
                 ELSE IF state[i] = "ACTIVE" THEN "QUIESCING" ELSE "FAILED"]
        /\ disp' = [i \in Instances |->
                IF i \in S /\ Disposable(i) THEN Begun ELSE disp[i]]
    BY DEF BeginDispose
  <1> QED BY <1>1, <1>2, <1>3, <1>4, <1>5 DEF Ends

\* dispose() of all members of S at once.
LEMMA DisposeAll ==
  ASSUME TypeOK, NEW S, S \subseteq Instances, Dispose(S)
  PROVE  /\ Ends(S)
         /\ reg' \in [Instances -> {"none", "staged", "live", "dead"}]
         /\ calls' \subseteq Instances \X Instances /\ revoked' \subseteq Instances
  <1>1. reg \in [Instances -> {"none", "staged", "live", "dead"}]
    BY DEF TypeOK
  <1>2. BeginDispose(S, disp, reg, calls)
    BY DEF Dispose
  <1> QED BY <1>1, <1>2, DisposeEnds

-----------------------------------------------------------------------------
(* What the steps of an activation do.                                     *)

\* Dependencies are added, and only those that are required.
Grown ==
  /\ deps' \in [Instances -> SUBSET Instances]
  /\ \A i \in Instances :
       deps[i] \subseteq deps'[i] /\ deps'[i] \subseteq ToSet(Requires[i])

\* No activation starts or goes on in the code of a plugin with this stack.
Calm(a) == a # <<>> => Last(a).pc \notin {"link", "code"}

\* The stack of r becomes a, and the code of no plugin is started: a result,
\* a call, or a failure that disposes the members of S.
Turns(r, a) ==
  /\ Calm(a)
  /\ \A i \in work' : i \in work
  /\ UNCHANGED <<state, disp, reg, calls, revoked>>

Fails(r, a, S) ==
  /\ Calm(a)
  /\ \A i \in work' : i \in work
  /\ S \subseteq Instances /\ Dispose(S)

\* VERIFIED -> ACTIVATING, with all providers bound.
Launches(r, a) ==
  /\ a # <<>> /\ Last(a).pc = "link"
  /\ Last(a).i \in Instances /\ state[Last(a).i] = "VERIFIED"
  /\ state' = [state EXCEPT ![Last(a).i] = "ACTIVATING"]
  /\ ToSet(Requires[Last(a).i]) \subseteq deps'[Last(a).i]
  /\ UNCHANGED <<disp, reg, calls, revoked, work>>

\* The code is started.
Codes(r, a) ==
  /\ a # <<>> /\ Last(a).pc = "code"
  /\ Running(r, "link") /\ Last(a).i = Last(act[r]).i
  /\ work' = work \union {Last(a).i}
  /\ UNCHANGED <<state, disp, reg, calls, revoked>>

\* ACTIVATING -> ACTIVE, with all providers ACTIVE.
Publishes(r, a) ==
  /\ Calm(a)
  /\ Running(r, "code") /\ Publishable(Last(act[r]).i)
  /\ state' = [state EXCEPT ![Last(act[r]).i] = "ACTIVE"]
  /\ reg' = [reg EXCEPT ![Last(act[r]).i] = "live"]
  /\ \A i \in work' : i \in work
  /\ UNCHANGED <<disp, calls, revoked, deps>>

\* Every step of the activation r.
Leads(r) ==
  \E a : /\ act' = [act EXCEPT ![r] = a] /\ IsStack(a, deps')
         /\ \/ Turns(r, a) \/ Launches(r, a) \/ Codes(r, a) \/ Publishes(r, a)
            \/ \E S : Fails(r, a, S)

Activates(r) == Grown /\ Leads(r) /\ UNCHANGED activation

\* The entry of activateTree is a frame at its first requirement.
LEMMA EnterFrame ==
  ASSUME NEW i \in Instances, NEW b
  PROVE  /\ Enter(i) \in Frames /\ Bound(Enter(i), b) /\ Enter(i).i = i
         /\ Enter(i).pc \notin {"link", "code"}
  <1>1. Enter(i) = Frame(i, "ok") \/ Enter(i) = Frame(i, "deps")
        \/ Enter(i) = Frame(i, "error")
    BY DEF Enter
  <1>2. \A pc \in {"ok", "deps", "error"} :
          Frame(i, pc) \in Frames /\ Frame(i, pc).i = i /\ Frame(i, pc).at = 1
          /\ Frame(i, pc).pc = pc
    BY DEF Frame, Frames
  <1>3. /\ Enter(i) \in Frames /\ Enter(i).i = i /\ Enter(i).at = 1
        /\ Enter(i).pc \in {"ok", "deps", "error"}
    BY <1>1, <1>2
  <1>4. \A j \in DOMAIN Requires[i] : ~(j < 1)
    BY SeqParts, LifecycleAssumption
  <1> QED BY <1>3, <1>4 DEF Bound

\* The catch block of activateTree.
LEMMA FailTopSteps ==
  ASSUME TypeOK, NEW r \in Instances, NEW q, NEW stale,
         IsStack(q, deps'), q # <<>>, FailTop(r, q, stale)
  PROVE  \E a, S : /\ act' = [act EXCEPT ![r] = a] /\ IsStack(a, deps')
                   /\ Fails(r, a, S)
  <1>1. PICK f : f = [Last(q) EXCEPT !.pc = "failing"]
    OBVIOUS
  <1>2. Last(q) \in Frames /\ Bound(Last(q), deps')
    BY StackParts
  <1>3. f \in Frames /\ f.i = Last(q).i /\ f.at = Last(q).at /\ f.pc = "failing"
    BY <1>1, <1>2 DEF Frames
  <1>4. Bound(f, deps')
    BY <1>2, <1>3 DEF Bound
  <1>5. IsStack(WithTop(q, f), deps') /\ Last(WithTop(q, f)) = f
    BY <1>3, <1>4, StackTop
  <1>6. PICK S : S = (IF stale THEN Instances ELSE {Last(q).i})
    OBVIOUS
  <1>7. S \subseteq Instances
    BY <1>2, <1>6 DEF Frames
  <1>8. /\ act' = [act EXCEPT ![r] = WithTop(q, f)] /\ Dispose(S)
        /\ work' = work
    BY <1>1, <1>6 DEF FailTop
  <1>9. Fails(r, WithTop(q, f), S)
    BY <1>3, <1>5, <1>7, <1>8 DEF Fails, Calm
  <1> QED BY <1>5, <1>8, <1>9

\* The loop over the requirements.
LEMMA AdvanceSteps ==
  ASSUME TypeOK, NEW r \in Instances, NEW q,
         IsStack(q, deps'), q # <<>>, Last(q).pc = "deps", Advance(r, q)
  PROVE  Leads(r)
  <1>1. PICK f : f = Last(q)
    OBVIOUS
  <1>2. /\ f \in Frames /\ Bound(f, deps') /\ f.i \in Instances /\ f.at \in Nat
        /\ f.at >= 1
    BY <1>1, StackParts DEF Frames, Bound
  <1>3. PICK n : n = Len(Requires[f.i])
    OBVIOUS
  <1>4. /\ n \in Nat /\ DOMAIN Requires[f.i] = 1 .. n
        /\ \A k \in 1 .. n : Requires[f.i][k] \in Instances
    <2>1. Requires[f.i] \in Seq(Instances)
      BY <1>2, LifecycleAssumption
    <2> QED BY <1>3, <2>1, SeqParts
  <1>5. PICK d : d = Requires[f.i][f.at]
    OBVIOUS
  <1>6. CASE /\ f.at <= n /\ Selects(f.i, d)
             /\ act' = [act EXCEPT ![r] = Append(q, Enter(d))]
             /\ UNCHANGED <<instances, work>>
    <2>1. f.at \in 1 .. n /\ d \in Instances
      BY <1>2, <1>4, <1>5, <1>6
    <2>2. /\ Enter(d) \in Frames /\ Bound(Enter(d), deps') /\ Enter(d).i = d
          /\ Enter(d).pc \notin {"link", "code"}
      BY <2>1, EnterFrame
    <2>3. Waits(Last(q), Enter(d))
      BY <1>1, <1>4, <1>5, <2>1, <2>2 DEF Waits
    <2>4. /\ IsStack(Append(q, Enter(d)), deps')
          /\ Last(Append(q, Enter(d))) = Enter(d)
      BY <2>2, <2>3, StackPush
    <2>5. Turns(r, Append(q, Enter(d)))
      BY <1>6, <2>2, <2>4 DEF Turns, Calm, instances
    <2> QED BY <1>6, <2>4, <2>5 DEF Leads
  <1>7. CASE \E stale : FailTop(r, q, stale)
    BY <1>7, FailTopSteps DEF Leads
  <1>8. CASE /\ f.at > n /\ state[f.i] = "VERIFIED"
             /\ state' = [state EXCEPT ![f.i] = "ACTIVATING"]
             /\ act' = [act EXCEPT ![r] = WithTop(q, [f EXCEPT !.pc = "link"])]
             /\ UNCHANGED <<disp, reg, calls, revoked, work>>
    <2>1. PICK g : g = [f EXCEPT !.pc = "link"]
      OBVIOUS
    <2>2. g \in Frames /\ g.i = f.i /\ g.at = f.at /\ g.pc = "link"
      BY <1>2, <2>1 DEF Frames
    <2>3. Bound(g, deps')
      BY <1>2, <2>2 DEF Bound
    <2>4. /\ IsStack(WithTop(q, g), deps') /\ Last(WithTop(q, g)) = g
          /\ WithTop(q, g) # <<>>
      BY <1>1, <2>2, <2>3, StackTop
    <2>5. \A k \in 1 .. n : k < f.at
      BY <1>2, <1>4, <1>8
    <2>6. \A k \in DOMAIN Requires[f.i] : Requires[f.i][k] \in deps'[f.i]
      BY <1>2, <1>4, <2>5 DEF Bound
    <2>7. ToSet(Requires[f.i]) \subseteq deps'[f.i]
      BY <2>6 DEF ToSet
    <2>8. Launches(r, WithTop(q, g))
      BY <1>2, <1>8, <2>2, <2>4, <2>7 DEF Launches
    <2> QED BY <1>8, <2>1, <2>4, <2>8 DEF Leads
  <1> QED BY <1>1, <1>3, <1>5, <1>6, <1>7, <1>8 DEF Advance

\* Dependencies that do not change are grown.
LEMMA GrownStill ==
  ASSUME TypeOK, Bindings, UNCHANGED deps
  PROVE  Grown
  BY DEF TypeOK, Bindings, Grown

\* A failed frame, also with the stack that remains when a provider failed.
LEMMA StacksStill ==
  ASSUME Stacks, UNCHANGED deps, NEW r \in Instances
  PROVE  IsStack(act[r], deps')
  BY DEF Stacks

\* The first segment of a frame.
LEMMA StartSteps ==
  ASSUME TypeOK, Stacks, Bindings, NEW r \in Instances, Start(r)
  PROVE  Activates(r)
  <1>1. /\ act[r] # <<>> /\ Last(act[r]).pc = "deps" /\ Advance(r, act[r])
        /\ UNCHANGED <<deps, activation>>
    BY DEF Start, Running
  <1>2. IsStack(act[r], deps')
    BY <1>1, StacksStill
  <1>3. Leads(r)
    BY <1>1, <1>2, AdvanceSteps
  <1> QED BY <1>1, <1>3, GrownStill DEF Activates

\* A result reaches the calling frame.
LEMMA ContinueSteps ==
  ASSUME TypeOK, Stacks, Bindings, NEW r \in Instances, Continue(r)
  PROVE  Activates(r)
  <1>1. PICK q : q = Front(act[r])
    OBVIOUS
  <1>2. UNCHANGED activation /\ Len(act[r]) > 1
    BY DEF Continue
  <1>3. /\ IsStack(q, deps) /\ q # <<>> /\ Waits(Last(q), Last(act[r]))
        /\ Last(q) \in Frames /\ Bound(Last(q), deps)
    <2>1. IsStack(act[r], deps)
      BY DEF Stacks
    <2> QED BY <1>1, <1>2, <2>1, StackFront, StackParts
  <1>4. CASE FailTop(r, q, FALSE) /\ UNCHANGED deps
    <2>1. IsStack(q, deps')
      BY <1>3, <1>4
    <2>2. Leads(r)
      BY <1>3, <1>4, <2>1, FailTopSteps DEF Leads
    <2> QED BY <1>2, <1>4, <2>2, GrownStill DEF Activates
  <1>5. ASSUME NEW f, f = [Last(q) EXCEPT !.at = @ + 1],
               deps' = [deps EXCEPT ![f.i] = @ \union {Last(act[r]).i}],
               Advance(r, WithTop(q, f))
        PROVE  Activates(r)
    <2>1. /\ f \in Frames /\ f.i = Last(q).i /\ f.at = Last(q).at + 1
          /\ f.pc = Last(q).pc /\ f.i \in Instances /\ Last(q).at \in Nat
      BY <1>3, <1>5 DEF Frames
    <2>2. /\ f.pc = "deps" /\ Last(q).at \in DOMAIN Requires[f.i]
          /\ Requires[f.i][Last(q).at] = Last(act[r]).i
      BY <1>3, <2>1 DEF Waits
    <2>3. Requires[f.i] \in Seq(Instances)
      BY <2>1, LifecycleAssumption
    <2>4. Last(act[r]).i \in Instances /\ Last(act[r]).i \in ToSet(Requires[f.i])
      BY <2>2, <2>3, SeqParts DEF ToSet
    <2>5. deps \in [Instances -> SUBSET Instances]
      BY DEF TypeOK
    <2>6. /\ deps' \in [Instances -> SUBSET Instances]
          /\ \A i \in Instances : deps[i] \subseteq deps'[i]
          /\ Last(act[r]).i \in deps'[f.i]
          /\ \A i \in Instances : i # f.i => deps'[i] = deps[i]
          /\ deps'[f.i] = deps[f.i] \union {Last(act[r]).i}
      BY <1>5, <2>1, <2>4, <2>5
    <2>7. Grown
      <3>1. \A i \in Instances : deps[i] \subseteq ToSet(Requires[i])
        BY DEF Bindings
      <3> QED BY <2>4, <2>6, <3>1 DEF Grown
    <2>8. IsStack(q, deps')
      BY <1>3, <2>6, StackGrows
    <2>9. Bound(f, deps')
      <3>1. Bound(Last(q), deps')
        BY <1>3, <2>8, StackParts
      <3>2. f.at >= 1
        BY <2>1
      <3>3. ASSUME NEW j \in DOMAIN Requires[f.i], j < f.at
            PROVE  Requires[f.i][j] \in deps'[f.i]
        <4>1. j \in Nat
          BY <2>3, SeqParts
        <4>2. j < Last(q).at \/ j = Last(q).at
          BY <2>1, <3>3, <4>1
        <4> QED BY <2>1, <2>2, <2>6, <3>1, <4>2 DEF Bound
      <3> QED BY <3>2, <3>3 DEF Bound
    <2>10. /\ IsStack(WithTop(q, f), deps') /\ Last(WithTop(q, f)) = f
           /\ WithTop(q, f) # <<>>
      BY <1>3, <2>1, <2>8, <2>9, StackTop
    <2>11. Leads(r)
      BY <1>5, <2>2, <2>10, AdvanceSteps
    <2> QED BY <1>2, <2>7, <2>11 DEF Activates
  <1> QED BY <1>1, <1>4, <1>5 DEF Continue

\* The stack q with its top frame moved to pc.
Moved(q, pc) == WithTop(q, [Last(q) EXCEPT !.pc = pc])

\* The stack a of r, whose top frame moved to pc in this step.
MovedSafely(r, a, pc) ==
  /\ IsStack(a, deps') /\ a # <<>> /\ Last(a).pc = pc
  /\ Last(a).i = Last(act[r]).i /\ Last(a).i \in Instances

\* The top frame moves to another place, or fails there.
LEMMA TopMoves ==
  ASSUME TypeOK, Stacks, NEW r \in Instances, act[r] # <<>>,
         NEW pc \in {"code", "failing", "ok", "error"}, UNCHANGED deps,
         NEW a, a = Moved(act[r], pc)
  PROVE  MovedSafely(r, a, pc)
  <1>1. IsStack(act[r], deps')
    BY StacksStill
  <1>2. Last(act[r]) \in Frames /\ Bound(Last(act[r]), deps')
    BY <1>1, StackParts
  <1>3. PICK f : f = [Last(act[r]) EXCEPT !.pc = pc]
    OBVIOUS
  <1>4. /\ f \in Frames /\ f.i = Last(act[r]).i /\ f.at = Last(act[r]).at
        /\ f.pc = pc /\ f.i \in Instances
    BY <1>2, <1>3 DEF Frames
  <1>5. Bound(f, deps')
    BY <1>2, <1>4 DEF Bound
  <1>6. a = WithTop(act[r], f)
    BY <1>3 DEF Moved
  <1>7. /\ IsStack(WithTop(act[r], f), deps') /\ Last(WithTop(act[r], f)) = f
        /\ WithTop(act[r], f) # <<>>
    BY <1>1, <1>4, <1>5, StackTop
  <1> QED BY <1>4, <1>6, <1>7 DEF MovedSafely

\* await module.link().
LEMMA LinkedSteps ==
  ASSUME TypeOK, Stacks, Bindings, NEW r \in Instances, Linked(r)
  PROVE  Activates(r)
  <1>1. /\ act[r] # <<>> /\ Last(act[r]).pc = "link"
        /\ UNCHANGED <<deps, activation>>
    BY DEF Linked, Running
  <1>2. PICK a : a = Moved(act[r], "code")
    OBVIOUS
  <1>3. /\ IsStack(a, deps') /\ a # <<>> /\ Last(a).pc = "code"
        /\ Last(a).i = Last(act[r]).i /\ Last(a).i \in Instances
    <2>1. MovedSafely(r, a, "code")
      BY <1>1, <1>2, TopMoves
    <2> QED BY <2>1 DEF MovedSafely
  <1>4. CASE /\ act' = [act EXCEPT ![r] = a]
             /\ work' = work \union {Last(act[r]).i} /\ UNCHANGED instances
    <2>1. Codes(r, a)
      BY <1>1, <1>3, <1>4 DEF Codes, Running, instances
    <2>2. Leads(r)
      BY <1>3, <1>4, <2>1 DEF Leads
    <2> QED BY <1>1, <2>2, GrownStill DEF Activates
  <1>5. CASE \E stale : FailTop(r, act[r], stale)
    <2>1. Leads(r)
      <3>1. IsStack(act[r], deps')
        BY <1>1, StacksStill
      <3> QED BY <1>1, <1>5, <3>1, FailTopSteps DEF Leads
    <2> QED BY <1>1, <2>1, GrownStill DEF Activates
  <1>6. /\ act' = [act EXCEPT ![r] = WithTop(@, [Last(@) EXCEPT !.pc = "code"])]
             => act' = [act EXCEPT ![r] = a]
    <2>1. act \in [Instances -> Seq(Frames)]
      BY DEF TypeOK
    <2> QED BY <1>2, <2>1 DEF Moved
  <1> QED BY <1>4, <1>5, <1>6 DEF Linked

\* The plugin's activate() returned.
LEMMA ReturnedSteps ==
  ASSUME TypeOK, Stacks, Bindings, NEW r \in Instances, Returned(r)
  PROVE  Activates(r)
  <1>1. /\ act[r] # <<>> /\ Last(act[r]).pc = "code" /\ Running(r, "code")
        /\ UNCHANGED <<deps, activation>> /\ act \in [Instances -> Seq(Frames)]
        /\ \A i \in work' : i \in work
    BY DEF Returned, Running, TypeOK
  <1>2. CASE /\ Publishable(Last(act[r]).i)
             /\ state' = [state EXCEPT ![Last(act[r]).i] = "ACTIVE"]
             /\ reg' = [reg EXCEPT ![Last(act[r]).i] = "live"]
             /\ act' = [act EXCEPT ![r] =
                          WithTop(@, [Last(@) EXCEPT !.pc = "ok"])]
             /\ UNCHANGED <<disp, calls, revoked>>
    <2>1. PICK a : a = Moved(act[r], "ok")
      OBVIOUS
    <2>2. IsStack(a, deps') /\ a # <<>> /\ Last(a).pc = "ok"
      <3>1. MovedSafely(r, a, "ok")
        BY <1>1, <2>1, TopMoves
      <3> QED BY <3>1 DEF MovedSafely
    <2>3. act' = [act EXCEPT ![r] = a]
      BY <1>1, <1>2, <2>1 DEF Moved
    <2>4. Publishes(r, a)
      BY <1>1, <1>2, <2>2 DEF Publishes, Calm
    <2>5. Leads(r)
      BY <2>2, <2>3, <2>4 DEF Leads
    <2> QED BY <1>1, <2>5, GrownStill DEF Activates
  <1>3. ASSUME NEW S, S = (IF /\ Open(home[Last(act[r]).i])
                              /\ disp[Last(act[r]).i].pc = "none"
                              /\ Stale(Last(act[r]).i)
                           THEN Instances ELSE {Last(act[r]).i}),
               Dispose(S),
               act' = [act EXCEPT ![r] =
                         WithTop(@, [Last(@) EXCEPT !.pc = "failing"])]
        PROVE  Activates(r)
    <2>1. PICK a : a = Moved(act[r], "failing")
      OBVIOUS
    <2>2. /\ IsStack(a, deps') /\ a # <<>> /\ Last(a).pc = "failing"
          /\ Last(a).i = Last(act[r]).i /\ Last(a).i \in Instances
      <3>1. MovedSafely(r, a, "failing")
        BY <1>1, <2>1, TopMoves
      <3> QED BY <3>1 DEF MovedSafely
    <2>3. act' = [act EXCEPT ![r] = a]
      BY <1>1, <1>3, <2>1 DEF Moved
    <2>4. Fails(r, a, S)
      BY <1>1, <1>3, <2>2 DEF Fails, Calm
    <2>5. Leads(r)
      BY <2>2, <2>3, <2>4 DEF Leads
    <2> QED BY <1>1, <2>5, GrownStill DEF Activates
  <1> QED BY <1>2, <1>3 DEF Returned

\* It threw, or did not return in time.
LEMMA ThrewSteps ==
  ASSUME TypeOK, Stacks, Bindings, NEW r \in Instances, Threw(r)
  PROVE  Activates(r)
  <1>1. /\ act[r] # <<>> /\ UNCHANGED <<deps, activation>>
        /\ act \in [Instances -> Seq(Frames)]
        /\ \A i \in work' : i \in work
        /\ Dispose({Last(act[r]).i})
    BY DEF Threw, Running, TypeOK
  <1>2. PICK a : a = Moved(act[r], "failing")
    OBVIOUS
  <1>3. /\ IsStack(a, deps') /\ a # <<>> /\ Last(a).pc = "failing"
        /\ Last(a).i = Last(act[r]).i /\ Last(a).i \in Instances
    <2>1. MovedSafely(r, a, "failing")
      BY <1>1, <1>2, TopMoves
    <2> QED BY <2>1 DEF MovedSafely
  <1>4. act' = [act EXCEPT ![r] = a]
    BY <1>1, <1>2 DEF Threw, Moved
  <1>5. Fails(r, a, {Last(act[r]).i})
    BY <1>1, <1>3 DEF Fails, Calm
  <1>6. Leads(r)
    BY <1>3, <1>4, <1>5 DEF Leads
  <1> QED BY <1>1, <1>6, GrownStill DEF Activates

\* The failure goes on to the caller.
LEMMA DisposedSteps ==
  ASSUME TypeOK, Stacks, Bindings, NEW r \in Instances, Disposed(r)
  PROVE  Activates(r)
  <1>1. /\ act[r] # <<>> /\ UNCHANGED <<deps, activation, instances, work>>
        /\ act \in [Instances -> Seq(Frames)]
    BY DEF Disposed, Running, TypeOK
  <1>2. PICK a : a = Moved(act[r], "error")
    OBVIOUS
  <1>3. IsStack(a, deps') /\ a # <<>> /\ Last(a).pc = "error"
    <2>1. MovedSafely(r, a, "error")
      BY <1>1, <1>2, TopMoves
    <2> QED BY <2>1 DEF MovedSafely
  <1>4. act' = [act EXCEPT ![r] = a]
    BY <1>1, <1>2 DEF Disposed, Moved
  <1>5. Turns(r, a)
    BY <1>1, <1>3 DEF Turns, Calm, instances
  <1>6. Leads(r)
    BY <1>3, <1>4, <1>5 DEF Leads
  <1> QED BY <1>1, <1>6, GrownStill DEF Activates

\* The promise of activate() settles.
LEMMA SettleSteps ==
  ASSUME TypeOK, Stacks, Bindings, NEW r \in Instances, Settle(r)
  PROVE  Activates(r)
  <1>1. /\ UNCHANGED <<deps, activation, instances, work>>
        /\ act' = [act EXCEPT ![r] = <<>>]
    BY DEF Settle
  <1>2. Turns(r, <<>>)
    BY <1>1 DEF Turns, Calm, instances
  <1>3. Leads(r)
    BY <1>1, <1>2, StackIsOver DEF Leads
  <1> QED BY <1>1, <1>3, GrownStill DEF Activates

\* An activation starts.
LEMMA EnterSteps ==
  ASSUME TypeOK, Stacks, Bindings, NEW r \in Instances,
         UNCHANGED <<deps, instances, work>>, act' = [act EXCEPT ![r] = <<Enter(r)>>]
  PROVE  Grown /\ Leads(r)
  <1>1. /\ Enter(r) \in Frames /\ Bound(Enter(r), deps')
        /\ Enter(r).pc \notin {"link", "code"}
    BY EnterFrame
  <1>2. IsStack(<<Enter(r)>>, deps')
    BY <1>1, StackStarts
  <1>3. Last(<<Enter(r)>>) = Enter(r)
    BY DEF Last
  <1>4. Turns(r, <<Enter(r)>>)
    BY <1>1, <1>3 DEF Turns, Calm, instances
  <1>5. Leads(r)
    BY <1>2, <1>4 DEF Leads
  <1> QED BY <1>5, GrownStill

-----------------------------------------------------------------------------
(* What a step may do to each group of variables.                          *)

\* States, disposals and homes.
LifeMoves ==
  \/ UNCHANGED <<state, disp, home>>
  \/ \E i \in Instances, s \in Scopes : Discover(i, s)
  \/ \E r \in Instances : \E a : Launches(r, a) /\ UNCHANGED home
  \/ \E r \in Instances : \E a : /\ Publishes(r, a) /\ UNCHANGED home
                                 /\ act' = [act EXCEPT ![r] = a]
  \/ \E S \in SUBSET Instances : Ends(S) /\ UNCHANGED home
  \/ \E i \in Instances : \/ DisposeDependents(i) \/ DestroyOwned(i)
                          \/ CleanEffects(i) \/ Finish(i)

\* Scopes and the loops of destroyScope.
TreeMoves ==
  \/ UNCHANGED <<tree, tear>>
  \/ \E id \in ScopeIds, s \in Scopes, o \in Instances \union {0} :
       CreateScope(id, s, o)
  \/ \E n \in 0 .. Len(ProfileScopes) : ScopesCreated(n) /\ UNCHANGED tear
  \/ \E t \in Tears : Tear(t)
  \/ \E t \in Tears \ Instances, id \in ScopeIds :
       BeginTear(t, id, disp) /\ UNCHANGED <<home, effects>>
  \/ \E i \in Instances : DestroyOwned(i)

\* Effects and registrations.
EffectMoves ==
  \/ UNCHANGED effects /\ \A i \in Instances : reg'[i] # "none" => reg[i] # "none"
  \/ \E i \in Instances, s \in Scopes, kind \in {"provide", "plain"} :
       Acquire(i, s, kind)
  \/ \E i \in Instances : \E e \in DOMAIN effects[i] : Release(i, e) \/ Cleaned(i, e)
  \/ \E t \in Tears : Tear(t)
  \/ \E i \in Instances : CleanEffects(i)

\* Tracked work, calls and activations.
WorkMoves ==
  \A i \in Instances : i \in work' =>
    \/ i \in work
    \/ state[i] = "ACTIVE" /\ UNCHANGED state
    \/ /\ UNCHANGED state
       /\ \E r \in Instances : Running(r, "link") /\ Last(act[r]).i = i

CallMoves ==
  \A p \in calls' : p \in calls \/ Call(p[1], p[2])

ActMoves == UNCHANGED act \/ \E r \in Instances : Leads(r) /\ UNCHANGED home

Moves ==
  /\ LifeMoves /\ Grown /\ TreeMoves /\ EffectMoves /\ WorkMoves /\ CallMoves
  /\ ActMoves

\* An activation is such a step.
LEMMA ActivatesMoves ==
  ASSUME TypeOK, Bindings, NEW r \in Instances, Grown, Leads(r),
         UNCHANGED <<home, effects>>
  PROVE  LifeMoves /\ EffectMoves /\ WorkMoves /\ CallMoves /\ ActMoves
  <1>1. PICK a : /\ act' = [act EXCEPT ![r] = a] /\ IsStack(a, deps')
                 /\ \/ Turns(r, a) \/ Launches(r, a) \/ Codes(r, a)
                    \/ Publishes(r, a)
                    \/ \E S : Fails(r, a, S)
    BY DEF Leads
  <1>2. ActMoves
    BY DEF ActMoves
  <1>3. CASE Turns(r, a)
    BY <1>2, <1>3 DEF Turns, LifeMoves, EffectMoves, WorkMoves, CallMoves
  <1>4. CASE Launches(r, a)
    <2>1. UNCHANGED <<reg, calls, work>>
      BY <1>4 DEF Launches
    <2>2. LifeMoves
      BY <1>4 DEF LifeMoves
    <2> QED BY <1>2, <2>1, <2>2 DEF EffectMoves, WorkMoves, CallMoves
  <1>5. CASE Codes(r, a)
    BY <1>2, <1>5 DEF Codes, LifeMoves, EffectMoves, WorkMoves, CallMoves
  <1>6. CASE Publishes(r, a)
    <2>1. UNCHANGED calls /\ \A i \in work' : i \in work
      BY <1>6 DEF Publishes
    <2>2. \A i \in Instances : reg'[i] # "none" => reg[i] # "none"
      BY <1>6 DEF Publishes, Publishable, TypeOK
    <2>3. LifeMoves
      BY <1>1, <1>6 DEF LifeMoves
    <2> QED BY <1>2, <2>1, <2>2, <2>3 DEF EffectMoves, WorkMoves, CallMoves
  <1>7. CASE \E S : Fails(r, a, S)
    <2>1. PICK S : Fails(r, a, S)
      BY <1>7
    <2>2. S \in SUBSET Instances /\ Dispose(S) /\ \A i \in work' : i \in work
      BY <2>1 DEF Fails
    <2>3. Ends(S)
      BY <2>2, DisposeAll
    <2>4. LifeMoves
      BY <2>2, <2>3 DEF LifeMoves
    <2> QED BY <1>2, <2>2, <2>3, <2>4 DEF Ends, EffectMoves, WorkMoves, CallMoves
  <1> QED BY <1>1, <1>3, <1>4, <1>5, <1>6, <1>7

\* The disposal of the members of S, which does nothing else.
LEMMA EndsMoves ==
  ASSUME TypeOK, Bindings, NEW S \in SUBSET Instances, Dispose(S),
         UNCHANGED <<home, deps, effects, work, act>>
  PROVE  LifeMoves /\ Grown /\ EffectMoves /\ WorkMoves /\ CallMoves /\ ActMoves
  <1>1. Ends(S)
    BY DisposeAll
  <1>2. LifeMoves
    BY <1>1 DEF LifeMoves
  <1> QED BY <1>1, <1>2, GrownStill
        DEF Ends, EffectMoves, WorkMoves, CallMoves, ActMoves

\* A step that leaves the instances and their activations alone.
LEMMA StillMoves ==
  ASSUME TypeOK, Bindings, UNCHANGED <<state, disp, home, deps, act>>
  PROVE  LifeMoves /\ Grown /\ ActMoves
  BY GrownStill DEF LifeMoves, ActMoves

\* A step that leaves effects, work and calls alone.
LEMMA QuietMoves ==
  ASSUME UNCHANGED <<effects, reg, work, calls>>
  PROVE  EffectMoves /\ WorkMoves /\ CallMoves
  BY DEF EffectMoves, WorkMoves, CallMoves

\* Every step moves each group in one of these ways.
LEMMA StepMoves ==
  ASSUME TypeOK, Stacks, Bindings, Step
  PROVE  Moves
  <1>1. ASSUME NEW i \in Instances, NEW s \in Scopes, Discover(i, s)
        PROVE  Moves
    <2>1. UNCHANGED <<disp, reg, calls, deps, effects, work, tree, tear, act>>
      BY <1>1 DEF Discover
    <2>2. LifeMoves
      BY <1>1 DEF LifeMoves
    <2> QED BY <2>1, <2>2, GrownStill, QuietMoves DEF Moves, TreeMoves, ActMoves
  <1>2. ASSUME NEW i \in Instances, Unload(i) \/ Revoke(i)
        PROVE  Moves
    <2>1. /\ Dispose({i}) /\ {i} \in SUBSET Instances
          /\ UNCHANGED <<home, deps, effects, work, tree, tear, act>>
      BY <1>2 DEF Unload, Revoke
    <2> QED BY <2>1, EndsMoves DEF Moves, TreeMoves
  <1>3. ASSUME NEW r \in Instances, Activate(r)
        PROVE  Moves
    <2>1. /\ UNCHANGED <<deps, instances, work, home, effects, tree, tear>>
          /\ act' = [act EXCEPT ![r] = <<Enter(r)>>]
      BY <1>3 DEF Activate, activation
    <2>2. Grown /\ Leads(r)
      BY <2>1, EnterSteps
    <2> QED BY <2>1, <2>2, ActivatesMoves DEF Moves, TreeMoves
  <1>4. ASSUME NEW id \in ScopeIds, NEW s \in Scopes, NEW o \in Instances \union {0},
               CreateScope(id, s, o)
        PROVE  Moves
    <2>1. UNCHANGED <<instances, home, deps, effects, work, act>>
      BY <1>4 DEF CreateScope
    <2>2. TreeMoves
      BY <1>4 DEF TreeMoves
    <2> QED BY <2>1, <2>2, StillMoves, QuietMoves DEF Moves, instances
  <1>5. ASSUME NEW t \in Tears, NEW id \in ScopeIds, t \notin Instances,
               BeginTear(t, id, disp), UNCHANGED <<home, deps, effects, work, act>>
        PROVE  Moves
    <2>1. UNCHANGED <<state, disp, reg>> /\ \A p \in calls' : p \in calls
      BY <1>5 DEF BeginTear
    <2>2. TreeMoves
      BY <1>5 DEF TreeMoves
    <2>3. EffectMoves /\ WorkMoves /\ CallMoves
      BY <1>5, <2>1 DEF EffectMoves, WorkMoves, CallMoves
    <2> QED BY <1>5, <2>1, <2>2, <2>3, StillMoves DEF Moves
  <1>6. ASSUME NEW t \in Tears, NEW id \in ScopeIds, DestroyScope(t, id)
        PROVE  Moves
    <2>1. /\ BeginTear(t, id, disp) /\ UNCHANGED <<home, deps, effects, work, act>>
          /\ t > MaxInstances
      BY <1>6 DEF DestroyScope
    <2>2. t \notin Instances
      BY <2>1, LifecycleAssumption DEF Instances
    <2> QED BY <1>5, <2>1, <2>2
  <1>7. CASE Shutdown
    <2>1. BeginTear(0, Root, disp) /\ UNCHANGED <<home, deps, effects, work, act>>
      BY <1>7 DEF Shutdown
    <2>2. 0 \in Tears /\ 0 \notin Instances /\ Root \in ScopeIds
      BY LifecycleAssumption DEF Instances, Tears
    <2> QED BY <1>5, <2>1, <2>2
  <1>8. CASE TrustLapses
    <2>1. UNCHANGED <<instances, home, deps, effects, work, act, tree, tear>>
      BY <1>8 DEF TrustLapses
    <2> QED BY <2>1, StillMoves, QuietMoves DEF Moves, TreeMoves, instances
  <1>9. CASE TrustTimer
    <2>1. /\ Dispose(Instances)
          /\ UNCHANGED <<home, deps, effects, work, tree, tear, act>>
      BY <1>9 DEF TrustTimer
    <2> QED BY <2>1, EndsMoves DEF Moves, TreeMoves
  <1>10. ASSUME NEW i \in Instances, NEW s \in Scopes,
                NEW kind \in {"provide", "plain"}, Acquire(i, s, kind)
         PROVE  Moves
    <2>1. UNCHANGED <<state, disp, calls, work, home, deps, tree, tear, act>>
      BY <1>10 DEF Acquire, quiet
    <2>2. EffectMoves
      BY <1>10 DEF EffectMoves
    <2> QED BY <2>1, <2>2, StillMoves DEF Moves, TreeMoves, WorkMoves, CallMoves
  <1>11. ASSUME NEW i \in Instances, NEW e \in DOMAIN effects[i], Release(i, e)
         PROVE  Moves
    <2>1. UNCHANGED <<instances, work, home, deps, tree, tear, act>>
      BY <1>11 DEF Release, quiet
    <2>2. EffectMoves
      BY <1>11 DEF EffectMoves
    <2> QED BY <2>1, <2>2, StillMoves
          DEF Moves, TreeMoves, WorkMoves, CallMoves, instances
  <1>12. ASSUME NEW i \in Instances, NEW e \in DOMAIN effects[i], Cleaned(i, e)
         PROVE  Moves
    <2>1. UNCHANGED <<work, home, deps, tree, tear, act>>
      BY <1>12 DEF Cleaned, quiet
    <2>2. EffectMoves
      BY <1>12 DEF EffectMoves
    <2>3. CASE UNCHANGED instances
      BY <2>1, <2>2, <2>3, StillMoves
        DEF Moves, TreeMoves, WorkMoves, CallMoves, instances
    <2>4. CASE BeginDispose(Dependents(i), disp, [reg EXCEPT ![i] = "none"],
                            {p \in calls : p[2] # i})
      <3>1. PICK c : c = {p \in calls : p[2] # i}
        OBVIOUS
      <3>2. PICK d : d = [reg EXCEPT ![i] = "none"]
        OBVIOUS
      <3>3. PICK S : S = Dependents(i)
        OBVIOUS
      <3>4. /\ d \in [Instances -> {"none", "staged", "live", "dead"}]
            /\ \A k \in Instances : d[k] # "none" => reg[k] # "none"
        BY <3>2 DEF TypeOK
      <3>5. S \subseteq Instances /\ c \subseteq calls
        BY <3>1, <3>3 DEF Dependents
      <3>6. BeginDispose(S, disp, d, c)
        BY <2>4, <3>1, <3>2, <3>3
      <3>7. Ends(S)
        BY <3>4, <3>5, <3>6, DisposeEnds
      <3>8. LifeMoves
        BY <2>1, <3>5, <3>7 DEF LifeMoves
      <3>9. \A p \in calls' : p \in calls
        BY <3>7 DEF Ends
      <3> QED BY <2>1, <2>2, <3>8, <3>9, GrownStill
            DEF Moves, TreeMoves, WorkMoves, CallMoves, ActMoves
    <2> QED BY <1>12, <2>3, <2>4 DEF Cleaned
  <1>13. ASSUME NEW c \in Instances, NEW p \in Instances, Call(c, p)
         PROVE  Moves
    <2>1. UNCHANGED <<state, disp, reg, home, deps, effects, tree, tear, act>>
      BY <1>13 DEF Call, quiet
    <2>2. state[p] = "ACTIVE" /\ \A i \in work' : i \in work \/ i = p
      BY <1>13 DEF Call
    <2>3. CallMoves
      <3>1. calls' = calls \union {<<c, p>>}
        BY <1>13 DEF Call
      <3> QED BY <1>13, <3>1 DEF CallMoves
    <2> QED BY <2>1, <2>2, <2>3, StillMoves
          DEF Moves, TreeMoves, EffectMoves, WorkMoves
  <1>14. ASSUME NEW c \in Instances, NEW p \in Instances, Answered(c, p)
         PROVE  Moves
    <2>1. UNCHANGED <<state, disp, reg, home, deps, effects, work, tree, tear, act>>
      BY <1>14 DEF Answered, quiet
    <2>2. \A x \in calls' : x \in calls
      BY <1>14 DEF Answered
    <2> QED BY <2>1, <2>2, StillMoves
          DEF Moves, TreeMoves, EffectMoves, WorkMoves, CallMoves
  <1>15. ASSUME NEW i \in Instances, WorkSettles(i)
         PROVE  Moves
    <2>1. UNCHANGED <<instances, home, deps, effects, tree, tear, act>>
      BY <1>15 DEF WorkSettles, quiet
    <2>2. \A x \in work' : x \in work
      BY <1>15 DEF WorkSettles
    <2> QED BY <2>1, <2>2, StillMoves
          DEF Moves, TreeMoves, EffectMoves, WorkMoves, CallMoves, instances
  <1>16. ASSUME NEW r \in Instances, ActStep(r)
         PROVE  Moves
    <2>1. Activates(r)
      BY <1>16, StartSteps, ContinueSteps, LinkedSteps, ReturnedSteps,
         ThrewSteps, DisposedSteps, SettleSteps DEF ActStep
    <2>2. Grown /\ Leads(r) /\ UNCHANGED <<home, effects, tree, tear>>
      BY <2>1 DEF Activates, activation
    <2> QED BY <2>2, ActivatesMoves DEF Moves, TreeMoves
  <1>17. ASSUME NEW i \in Instances, DisposeDependents(i)
         PROVE  Moves
    <2>1. UNCHANGED <<effects, work, tree, tear, home, deps, act>>
      BY <1>17 DEF DisposeDependents, bystanders
    <2>2. LifeMoves
      BY <1>17 DEF LifeMoves
    <2>3. /\ \A p \in calls' : p \in calls
          /\ \A k \in Instances : reg'[k] # "none" => reg[k] # "none"
      BY <1>17 DEF DisposeDependents, BeginDispose
    <2> QED BY <2>1, <2>2, <2>3, GrownStill
          DEF Moves, TreeMoves, EffectMoves, WorkMoves, CallMoves, ActMoves
  <1>18. ASSUME NEW i \in Instances, DestroyOwned(i)
         PROVE  Moves
    <2>1. UNCHANGED <<effects, work, home, deps, act>>
      BY <1>18 DEF DestroyOwned, bystanders
    <2>2. LifeMoves /\ TreeMoves
      BY <1>18 DEF LifeMoves, TreeMoves
    <2>3. UNCHANGED <<state, reg>> /\ \A p \in calls' : p \in calls
      BY <1>18 DEF DestroyOwned, BeginTear
    <2> QED BY <2>1, <2>2, <2>3, GrownStill
          DEF Moves, EffectMoves, WorkMoves, CallMoves, ActMoves
  <1>19. ASSUME NEW i \in Instances, CleanEffects(i)
         PROVE  Moves
    <2>1. UNCHANGED <<state, reg, calls, work, tree, tear, home, deps, act>>
      BY <1>19 DEF CleanEffects, bystanders
    <2>2. LifeMoves /\ EffectMoves
      BY <1>19 DEF LifeMoves, EffectMoves
    <2> QED BY <2>1, <2>2, GrownStill DEF Moves, TreeMoves, WorkMoves, CallMoves, ActMoves
  <1>20. ASSUME NEW i \in Instances, Finish(i)
         PROVE  Moves
    <2>1. UNCHANGED <<reg, calls, effects, work, tree, tear, home, deps, act>>
      BY <1>20 DEF Finish, bystanders
    <2>2. LifeMoves
      BY <1>20 DEF LifeMoves
    <2> QED BY <2>1, <2>2, GrownStill, QuietMoves DEF Moves, TreeMoves, ActMoves
  <1>21. ASSUME NEW t \in Tears, Tear(t)
         PROVE  Moves
    <2>1. UNCHANGED <<home, deps, work, act>>
      BY <1>21 DEF Tear
    <2>2. TreeMoves /\ EffectMoves
      BY <1>21 DEF TreeMoves, EffectMoves
    <2>3. CASE UNCHANGED instances
      BY <2>1, <2>2, <2>3, StillMoves DEF Moves, WorkMoves, CallMoves, instances
    <2>4. ASSUME NEW k, k = Min(Concerned(tear[t].at, Head(tear[t].todo))),
                 Concerned(tear[t].at, Head(tear[t].todo)) # {}, Dispose({k})
          PROVE  Moves
      <3>1. PICK C : C = Concerned(tear[t].at, Head(tear[t].todo))
        OBVIOUS
      <3>2. C \in SUBSET Nat /\ C \subseteq Instances
        BY <3>1 DEF Concerned, Instances
      <3>3. k \in C
        BY <2>4, <3>1, <3>2, MinOfNumbers
      <3>4. {k} \in SUBSET Instances
        BY <3>2, <3>3
      <3>5. Ends({k})
        BY <2>4, <3>4, DisposeAll
      <3>6. LifeMoves
        BY <2>1, <3>4, <3>5 DEF LifeMoves
      <3>7. \A p \in calls' : p \in calls
        BY <3>5 DEF Ends
      <3> QED BY <2>1, <2>2, <3>6, <3>7, GrownStill DEF Moves, WorkMoves, CallMoves, ActMoves
    <2> QED BY <1>21, <2>3, <2>4 DEF Tear
  <1>22. CASE ProfileStep
    <2>1. UNCHANGED <<home, deps, effects, work>>
      BY <1>22 DEF ProfileStep, waiting
    <2>2. ASSUME NEW t \in Tears \ Instances, NEW id \in ScopeIds,
                 BeginTear(t, id, disp), UNCHANGED <<act, outcome>>
          PROVE  Moves
      BY <1>5, <2>1, <2>2
    <2>3. CASE UNCHANGED tree \/ \E n \in 0 .. Len(ProfileScopes) : ScopesCreated(n)
      <3> SUFFICES ASSUME UNCHANGED tear,
                   \/ UNCHANGED <<instances, act, outcome>>
                   \/ \E i \in Instances : Activated(i) /\ UNCHANGED instances
                   \/ \E i \in Instances : Dispose({i}) /\ UNCHANGED <<act, outcome>>
                   PROVE  Moves
        BY <1>22, <2>2 DEF ProfileStep
      <3>1. TreeMoves
        BY <2>3 DEF TreeMoves
      <3>2. CASE UNCHANGED <<instances, act>>
        BY <2>1, <3>1, <3>2, StillMoves, QuietMoves DEF Moves, instances
      <3>3. ASSUME NEW i \in Instances, Activated(i), UNCHANGED instances
            PROVE  Moves
        <4>1. CASE act' = [act EXCEPT ![i] = <<Enter(i)>>]
          <5>1. Grown /\ Leads(i)
            BY <2>1, <3>3, <4>1, EnterSteps
          <5> QED BY <2>1, <3>1, <5>1, ActivatesMoves DEF Moves
        <4>2. CASE UNCHANGED act
          BY <3>2, <3>3, <4>2
        <4> QED BY <3>3, <4>1, <4>2 DEF Activated
      <3>4. ASSUME NEW i \in Instances, Dispose({i}), UNCHANGED <<act, outcome>>
            PROVE  Moves
        <4>1. {i} \in SUBSET Instances
          OBVIOUS
        <4> QED BY <2>1, <3>1, <3>4, <4>1, EndsMoves DEF Moves
      <3> QED BY <3>2, <3>3, <3>4
    <2> QED BY <1>22, <2>2, <2>3 DEF ProfileStep
  <1> QED BY <1>1, <1>2, <1>3, <1>4, <1>6, <1>7, <1>8, <1>9, <1>10, <1>11,
             <1>12, <1>13, <1>14, <1>15, <1>16, <1>17, <1>18, <1>19, <1>20,
             <1>21, <1>22 DEF Step

-----------------------------------------------------------------------------
(* One instance in a step.                                                 *)

Stays(i) == state'[i] = state[i] /\ disp'[i] = disp[i] /\ home'[i] = home[i]

Appears(i) ==
  /\ state[i] = "absent" /\ state'[i] \in {"DISCOVERED", "VERIFIED"}
  /\ disp'[i] = disp[i] /\ Open(home'[i])

Rises(i) ==
  /\ \/ /\ state[i] = "VERIFIED" /\ state'[i] = "ACTIVATING"
        /\ ToSet(Requires[i]) \subseteq deps'[i]
     \/ state[i] = "ACTIVATING" /\ state'[i] = "ACTIVE"
  /\ disp'[i] = disp[i] /\ home'[i] = home[i]

IsEnded(i) ==
  /\ Disposable(i) /\ disp'[i] = Begun /\ home'[i] = home[i]
  /\ state'[i] = IF state[i] = "ACTIVE" THEN "QUIESCING" ELSE "FAILED"

\* From one part of its disposal to the next, or within one.
Proceeds(i) ==
  /\ state'[i] = state[i] /\ home'[i] = home[i]
  /\ disp[i].pc \in {"dependents", "scopes", "effects"}
  /\ <<disp[i].pc, disp'[i].pc>> \in
       {<<"dependents", "dependents">>, <<"dependents", "scopes">>,
        <<"scopes", "scopes">>, <<"scopes", "effects">>, <<"effects", "work">>}
  /\ disp[i].pc = "effects" => Left(i) = {}

Finishes(i) ==
  /\ disp[i].pc = "work" /\ disp'[i].pc = "done" /\ home'[i] = home[i]
  /\ \/ state[i] # "QUIESCING" /\ state'[i] = state[i]
     \/ state[i] = "QUIESCING" /\ state'[i] = "FAILED"
     \/ /\ state[i] = "QUIESCING" /\ state'[i] = "DISPOSED"
        /\ i \notin work /\ UNCHANGED work
        /\ \A e \in DOMAIN effects[i] : effects[i][e].task # "failed"
        /\ UNCHANGED effects

OneMoves(i) ==
  \/ Stays(i) \/ Appears(i) \/ Rises(i) \/ IsEnded(i) \/ Proceeds(i)
  \/ Finishes(i)

\* The scopes an instance owns.
LEMMA OwnedKeeps ==
  ASSUME TypeOK, NEW i
  PROVE  /\ Owned(i) \in Seq(Scopes)
         /\ \A s \in Registered : owner[s] = i => s \in ToSet(Owned(i))
  <1>1. PICK S : S = {s \in Registered : owner[s] = i}
    OBVIOUS
  <1>2. table \in Seq(Scopes)
    BY DEF TypeOK
  <1>3. Registered = ToSet(table)
    BY DEF Registered, ToSet
  <1>4. /\ Only(table, S) \in Seq(Scopes)
        /\ ToSet(Only(table, S)) = {x \in ToSet(table) : x \in S}
    BY <1>2, OnlyKeeps
  <1>5. /\ Reverse(Only(table, S)) \in Seq(Scopes)
        /\ ToSet(Reverse(Only(table, S))) = ToSet(Only(table, S))
    BY <1>4, ReverseKeeps
  <1>6. Owned(i) = Reverse(Only(table, S))
    BY <1>1 DEF Owned
  <1> QED BY <1>1, <1>3, <1>4, <1>5, <1>6

\* The next dependent.
LEMMA NextDependent ==
  ASSUME TypeOK, NEW i \in Instances, NEW rest,
         rest = {k \in Dependents(i) : k > disp[i].at /\ Present(k)}, rest # {}
  PROVE  /\ Min(rest) \in Instances /\ Min(rest) \in Dependents(i)
         /\ Present(Min(rest)) /\ Min(rest) > disp[i].at
         /\ \A k \in rest : Min(rest) <= k
         /\ \A k \in rest : k \in Instances
  <1>1. rest \in SUBSET Nat /\ rest \subseteq Instances
    BY DEF Dependents, Instances
  <1>2. Min(rest) \in rest /\ \A k \in rest : Min(rest) <= k
    BY <1>1, MinOfNumbers
  <1> QED BY <1>1, <1>2

\* What dispose() does for the next dependent, for each instance.
LEMMA DependentsPoint ==
  ASSUME TypeOK, NEW i \in Instances, DisposeDependents(i)
  PROVE  /\ \A k \in Instances : OneMoves(k)
         /\ InstanceTypes'
         /\ disp'[i].pc = "dependents" =>
              /\ disp'[i].at \in Instances
              /\ \A k \in Instances :
                   i \in deps[k] /\ Present(k) /\ k > disp[i].at
                     => k >= disp'[i].at
              /\ state[disp'[i].at] = "ACTIVE" /\ disp[disp'[i].at].pc = "none"
                   => state'[disp'[i].at] = "QUIESCING"
         /\ \A k \in Instances : k # i /\ disp'[k].pc # "none" =>
              disp'[k] = disp[k] \/ (Disposable(k) /\ disp'[k] = Begun)
         /\ disp'[i].pc # "dependents" =>
              /\ disp'[i] = [pc |-> "scopes", at |-> 0, list |-> Owned(i)]
              /\ UNCHANGED state
              /\ \A k \in Instances :
                   i \in deps[k] /\ Present(k) => k <= disp[i].at
  <1>1. PICK rest : rest = {k \in Dependents(i) : k > disp[i].at /\ Present(k)}
    OBVIOUS
  <1>2. /\ disp \in [Instances -> Disposals] /\ disp[i].pc = "dependents"
        /\ state \in [Instances -> States \union {"absent"}]
        /\ UNCHANGED <<home, deps>> /\ disp[i].at \in Nat
    BY DEF TypeOK, DisposeDependents, bystanders, Disposals
  <1>3. \A k \in Instances : k \in rest <=>
          i \in deps[k] /\ k > disp[i].at /\ Present(k)
    BY <1>1 DEF Dependents
  <1>4. CASE rest # {}
    <2>1. PICK m : m = Min(rest)
      OBVIOUS
    <2>2. /\ m \in Instances /\ m \in Dependents(i) /\ Present(m)
          /\ m > disp[i].at /\ \A k \in rest : m <= k
      BY <1>1, <1>4, <2>1, NextDependent
    <2>3. BeginDispose({m}, [disp EXCEPT ![i].at = m], reg, calls)
      BY <1>1, <1>4, <2>1 DEF DisposeDependents
    <2>4. ~Disposable(i)
      BY <1>2 DEF Disposable
    <2>5. /\ disp'[i] = [disp[i] EXCEPT !.at = m] /\ state'[i] = state[i]
          /\ \A k \in Instances : k # m => state'[k] = state[k]
          /\ \A k \in Instances : k # m /\ k # i => disp'[k] = disp[k]
          /\ m # i => IF Disposable(m)
                      THEN /\ disp'[m] = Begun
                           /\ state'[m] = IF state[m] = "ACTIVE"
                                          THEN "QUIESCING" ELSE "FAILED"
                      ELSE disp'[m] = disp[m] /\ state'[m] = state[m]
      BY <1>2, <2>2, <2>3, <2>4 DEF BeginDispose
    <2>6. disp'[i].pc = "dependents" /\ disp'[i].at = m /\ disp'[i] \in Disposals
      BY <1>2, <2>2, <2>5 DEF Disposals, Instances
    <2>7. Begun \in Disposals
      BY LifecycleAssumption, EmptySeq DEF Begun, Disposals
    <2>8. InstanceTypes'
      <3>1. /\ state' = [k \in Instances |-> state'[k]]
            /\ disp' = [k \in Instances |-> disp'[k]]
        BY <2>3 DEF BeginDispose
      <3>2. \A k \in Instances :
              state'[k] \in States \union {"absent"} /\ disp'[k] \in Disposals
        BY <1>2, <2>2, <2>5, <2>6, <2>7 DEF States
      <3> QED BY <3>1, <3>2 DEF InstanceTypes
    <2>9. ASSUME NEW k \in Instances
          PROVE  OneMoves(k)
      <3>1. CASE k = i
        BY <1>2, <2>5, <2>6, <3>1 DEF OneMoves, Proceeds
      <3>2. CASE k # i
        BY <1>2, <2>5, <3>2 DEF OneMoves, Stays, IsEnded
      <3> QED BY <3>1, <3>2
    <2>10. ASSUME NEW k \in Instances, i \in deps[k], Present(k), k > disp[i].at
           PROVE  k >= m
      <3>1. m <= k /\ m \in Nat /\ k \in Nat
        BY <1>3, <2>2, <2>10 DEF Instances
      <3> QED BY <3>1
    <2>11. state[m] = "ACTIVE" /\ disp[m].pc = "none" => state'[m] = "QUIESCING"
      BY <1>2, <2>5 DEF Disposable
    <2> QED BY <2>2, <2>5, <2>6, <2>8, <2>9, <2>10, <2>11
  <1>5. CASE rest = {}
    <2>1. /\ disp' = [disp EXCEPT ![i] =
                        [pc |-> "scopes", at |-> 0, list |-> Owned(i)]]
          /\ UNCHANGED state
      BY <1>1, <1>5 DEF DisposeDependents
    <2>2. [pc |-> "scopes", at |-> 0, list |-> Owned(i)] \in Disposals
      BY LifecycleAssumption, OwnedKeeps DEF Disposals
    <2>3. InstanceTypes'
      BY <1>2, <2>1, <2>2 DEF InstanceTypes
    <2>4. ASSUME NEW k \in Instances
          PROVE  OneMoves(k)
      BY <1>2, <2>1 DEF OneMoves, Stays, Proceeds
    <2>5. ASSUME NEW k \in Instances, i \in deps[k], Present(k)
          PROVE  k <= disp[i].at
      <3>1. ~(k > disp[i].at) /\ k \in Nat
        BY <1>3, <1>5, <2>5 DEF Instances
      <3> QED BY <1>2, <3>1
    <2> QED BY <1>2, <2>1, <2>3, <2>4, <2>5
  <1> QED BY <1>4, <1>5

\* The places of a disposal that nothing else touches.
LEMMA DisposalGoesOn ==
  ASSUME TypeOK, NEW i \in Instances, NEW d \in Disposals,
         disp' = [disp EXCEPT ![i] = d], UNCHANGED <<state, home>>,
         disp[i].pc \in {"scopes", "effects"},
         <<disp[i].pc, d.pc>> \in
           {<<"scopes", "scopes">>, <<"scopes", "effects">>, <<"effects", "work">>},
         disp[i].pc = "effects" => Left(i) = {}
  PROVE  InstanceTypes' /\ \A k \in Instances : OneMoves(k)
  <1>1. /\ disp \in [Instances -> Disposals]
        /\ state \in [Instances -> States \union {"absent"}]
    BY DEF TypeOK
  <1>2. InstanceTypes'
    BY <1>1 DEF InstanceTypes
  <1>3. ASSUME NEW k \in Instances
        PROVE  OneMoves(k)
    <2>1. CASE k = i
      BY <1>1, <2>1 DEF OneMoves, Proceeds
    <2>2. CASE k # i
      BY <1>1, <2>2 DEF OneMoves, Stays
    <2> QED BY <2>1, <2>2
  <1> QED BY <1>2, <1>3

\* Each instance makes one of these moves.
LEMMA InstancesMove ==
  ASSUME TypeOK, LifeMoves
  PROVE  /\ InstanceTypes' /\ home' \in [Instances -> Scopes]
         /\ \A k \in Instances : OneMoves(k)
  <1>1. /\ disp \in [Instances -> Disposals]
        /\ state \in [Instances -> States \union {"absent"}]
        /\ home \in [Instances -> Scopes]
    BY DEF TypeOK
  <1>2. CASE UNCHANGED <<state, disp, home>>
    BY <1>1, <1>2 DEF InstanceTypes, OneMoves, Stays
  <1>3. ASSUME NEW i \in Instances, NEW s \in Scopes, Discover(i, s)
        PROVE  /\ InstanceTypes' /\ home' \in [Instances -> Scopes]
               /\ \A k \in Instances : OneMoves(k)
    <2>1. /\ state[i] = "absent" /\ disp' = disp /\ Open(s)
          /\ home' = [home EXCEPT ![i] = s]
          /\ \/ state' = [state EXCEPT ![i] = "VERIFIED"]
             \/ state' = [state EXCEPT ![i] = "DISCOVERED"]
      BY <1>3 DEF Discover
    <2>2. InstanceTypes' /\ home' \in [Instances -> Scopes]
      BY <1>1, <2>1 DEF InstanceTypes, States
    <2>3. \A k \in Instances : OneMoves(k)
      BY <1>1, <2>1 DEF OneMoves, Stays, Appears
    <2> QED BY <2>2, <2>3
  <1>4. ASSUME NEW r \in Instances, NEW a, Launches(r, a), UNCHANGED home
        PROVE  InstanceTypes' /\ \A k \in Instances : OneMoves(k)
    <2>1. PICK i \in Instances : i = Last(a).i
      BY <1>4 DEF Launches
    <2>2. /\ state[i] = "VERIFIED" /\ state' = [state EXCEPT ![i] = "ACTIVATING"]
          /\ ToSet(Requires[i]) \subseteq deps'[i] /\ disp' = disp
      BY <1>4, <2>1 DEF Launches
    <2>3. InstanceTypes'
      BY <1>1, <2>2 DEF InstanceTypes, States
    <2>4. \A k \in Instances : OneMoves(k)
      BY <1>1, <1>4, <2>2 DEF OneMoves, Stays, Rises
    <2> QED BY <2>3, <2>4
  <1>5. ASSUME NEW r \in Instances, NEW a, Publishes(r, a), UNCHANGED home
        PROVE  InstanceTypes' /\ \A k \in Instances : OneMoves(k)
    <2>1. PICK i : i = Last(act[r]).i
      OBVIOUS
    <2>2. /\ state[i] = "ACTIVATING" /\ state' = [state EXCEPT ![i] = "ACTIVE"]
          /\ disp' = disp
      BY <1>5, <2>1 DEF Publishes, Publishable
    <2>3. InstanceTypes'
      BY <1>1, <2>2 DEF InstanceTypes, States
    <2>4. \A k \in Instances : OneMoves(k)
      BY <1>1, <1>5, <2>2 DEF OneMoves, Stays, Rises
    <2> QED BY <2>3, <2>4
  <1>6. ASSUME NEW S \in SUBSET Instances, Ends(S), UNCHANGED home
        PROVE  InstanceTypes' /\ \A k \in Instances : OneMoves(k)
    <2>1. Begun \in Disposals
      BY LifecycleAssumption, EmptySeq DEF Begun, Disposals
    <2>2. InstanceTypes'
      BY <1>1, <1>6, <2>1 DEF InstanceTypes, States, Ends
    <2>3. \A k \in Instances : OneMoves(k)
      BY <1>1, <1>6 DEF OneMoves, Stays, IsEnded, Ends
    <2> QED BY <2>2, <2>3
  <1>7. ASSUME NEW i \in Instances, DisposeDependents(i)
        PROVE  InstanceTypes' /\ \A k \in Instances : OneMoves(k)
    BY <1>7, DependentsPoint
  <1>8. ASSUME NEW i \in Instances, DestroyOwned(i)
        PROVE  InstanceTypes' /\ \A k \in Instances : OneMoves(k)
    <2>1. disp[i].pc = "scopes" /\ UNCHANGED <<state, home>>
      BY <1>8 DEF DestroyOwned, BeginTear, bystanders
    <2>2. CASE /\ disp[i].list # <<>>
               /\ disp' = [disp EXCEPT ![i].list = Tail(@)]
      <3>1. PICK d : d = [disp[i] EXCEPT !.list = Tail(@)]
        OBVIOUS
      <3>2. Tail(disp[i].list) \in Seq(Scopes)
        BY <1>1, <2>2, TailKeeps DEF Disposals
      <3>3. d \in Disposals /\ d.pc = "scopes"
        BY <1>1, <2>1, <3>1, <3>2 DEF Disposals
      <3>4. disp' = [disp EXCEPT ![i] = d]
        BY <1>1, <2>2, <3>1
      <3> QED BY <2>1, <3>3, <3>4, DisposalGoesOn
    <2>3. CASE disp' = [disp EXCEPT ![i].pc = "effects"]
      <3>1. PICK d : d = [disp[i] EXCEPT !.pc = "effects"]
        OBVIOUS
      <3>2. d \in Disposals /\ d.pc = "effects"
        BY <1>1, <3>1 DEF Disposals
      <3>3. disp' = [disp EXCEPT ![i] = d]
        BY <1>1, <2>3, <3>1
      <3> QED BY <2>1, <3>2, <3>3, DisposalGoesOn
    <2> QED BY <1>8, <2>2, <2>3 DEF DestroyOwned, BeginTear
  <1>9. ASSUME NEW i \in Instances, CleanEffects(i)
        PROVE  InstanceTypes' /\ \A k \in Instances : OneMoves(k)
    <2>1. disp[i].pc = "effects" /\ UNCHANGED <<state, home>>
      BY <1>9 DEF CleanEffects, bystanders
    <2>2. CASE UNCHANGED disp
      BY <1>1, <2>1, <2>2 DEF InstanceTypes, OneMoves, Stays
    <2>3. CASE Left(i) = {} /\ disp' = [disp EXCEPT ![i].pc = "work"]
      <3>1. PICK d : d = [disp[i] EXCEPT !.pc = "work"]
        OBVIOUS
      <3>2. d \in Disposals /\ d.pc = "work"
        BY <1>1, <3>1 DEF Disposals
      <3>3. disp' = [disp EXCEPT ![i] = d]
        BY <1>1, <2>3, <3>1
      <3> QED BY <2>1, <2>3, <3>2, <3>3, DisposalGoesOn
    <2> QED BY <1>9, <2>2, <2>3 DEF CleanEffects
  <1>10. ASSUME NEW i \in Instances, Finish(i)
         PROVE  InstanceTypes' /\ \A k \in Instances : OneMoves(k)
    <2>1. /\ disp[i].pc = "work" /\ UNCHANGED <<home, work, effects>>
          /\ disp' = [disp EXCEPT ![i].pc = "done"]
          /\ state' = [state EXCEPT ![i] =
               IF @ # "QUIESCING" THEN @
               ELSE IF i \in work \/ \E e \in DOMAIN effects[i] :
                                       effects[i][e].task = "failed"
                    THEN "FAILED" ELSE "DISPOSED"]
      BY <1>10 DEF Finish, bystanders
    <2>2. InstanceTypes'
      BY <1>1, <2>1 DEF InstanceTypes, States, Disposals
    <2>3. Finishes(i)
      BY <1>1, <2>1 DEF Finishes, Disposals
    <2>4. \A k \in Instances : k # i => Stays(k)
      BY <1>1, <2>1 DEF Stays
    <2> QED BY <2>2, <2>3, <2>4 DEF OneMoves
  <1>11. UNCHANGED home => home' \in [Instances -> Scopes]
    BY <1>1
  <1>12. \A i \in Instances :
           DisposeDependents(i) \/ DestroyOwned(i) \/ CleanEffects(i) \/ Finish(i)
             => UNCHANGED home
    BY DEF DisposeDependents, DestroyOwned, CleanEffects, Finish, bystanders
  <1> QED BY <1>2, <1>3, <1>4, <1>5, <1>6, <1>7, <1>8, <1>9, <1>10, <1>11, <1>12
        DEF LifeMoves

-----------------------------------------------------------------------------
(* The effects of one instance in a step.                                  *)

\* The host may clean e: what was acquired later in its scope is over, and the
\* instance or the scope is being taken down.
HostMay(i, e) ==
  /\ \A later \in DOMAIN effects[i] :
       later > e /\ effects[i][later].scope = effects[i][e].scope
         => effects[i][later].task \in {"cleaned", "failed"}
  /\ disp[i].pc # "none" \/ Shut(effects[i][e].scope)

Gains(i, x) ==
  /\ x \in Effects /\ x.task = "held" /\ Live(i, x.scope)
  /\ Len(effects[i]) < MaxEffects
  /\ effects' = [effects EXCEPT ![i] = Append(@, x)]
  /\ \A k \in Instances : reg'[k] # "none" =>
       reg[k] # "none" \/ (k = i /\ x.kind = "provide")

Cleans(i, e, x) ==
  /\ e \in DOMAIN effects[i] /\ x \in Effects
  /\ x.scope = effects[i][e].scope /\ x.kind = effects[i][e].kind
  /\ effects' = [effects EXCEPT ![i] = [@ EXCEPT ![e] = x]]
  /\ \/ /\ effects[i][e].task = "held" /\ x.task = "cleaning"
        /\ x.by = "host" => HostMay(i, e)
     \/ /\ effects[i][e].task = "cleaning" /\ x.task \in {"cleaned", "failed"}
        /\ x.kind = "provide" => reg'[i] = "none"
  /\ \A k \in Instances : reg'[k] # "none" => reg[k] # "none"

EffectsMove ==
  \/ UNCHANGED effects /\ \A i \in Instances : reg'[i] # "none" => reg[i] # "none"
  \/ \E i \in Instances, x \in Effects : Gains(i, x)
  \/ \E i \in Instances : \E e \in DOMAIN effects[i], x \in Effects : Cleans(i, e, x)

\* The greatest effect of a part of those that are left.
LEMMA GreatestLeft ==
  ASSUME TypeOK, NEW i \in Instances, NEW T \in SUBSET Left(i), T # {}
  PROVE  /\ Max(T) \in T /\ Max(T) \in DOMAIN effects[i]
         /\ \A e \in DOMAIN effects[i] : e > Max(T) => e \notin T
  <1>1. effects[i] \in Seq(Effects)
    BY DEF TypeOK
  <1>2. Len(effects[i]) \in Nat /\ DOMAIN effects[i] = 1 .. Len(effects[i])
    BY <1>1, SeqParts
  <1>3. T \in SUBSET (1 .. Len(effects[i]))
    BY <1>2 DEF Left
  <1>4. Max(T) \in T /\ \A e \in T : e <= Max(T)
    BY <1>2, <1>3, MaxOfNumbers
  <1>5. Max(T) \in DOMAIN effects[i]
    BY <1>2, <1>3, <1>4
  <1>6. \A e \in DOMAIN effects[i] : e \in Int /\ Max(T) \in Int
    BY <1>2, <1>5
  <1> QED BY <1>4, <1>5, <1>6

\* The cleanup of an effect starts.
LEMMA CleaningStarts ==
  ASSUME TypeOK, NEW i \in Instances, NEW e \in DOMAIN effects[i],
         NEW who \in {"host", "plugin"}, StartCleaning(i, e, who),
         effects[i][e].task = "held", who = "host" => HostMay(i, e),
         \A k \in Instances : reg'[k] # "none" => reg[k] # "none"
  PROVE  \E x \in Effects : Cleans(i, e, x)
  <1>1. PICK x : x = [effects[i][e] EXCEPT !.task = "cleaning", !.by = who]
    OBVIOUS
  <1>2. effects \in [Instances -> Seq(Effects)] /\ effects[i] \in Seq(Effects)
    BY DEF TypeOK
  <1>3. effects[i][e] \in Effects
    BY <1>2, SeqParts
  <1>4. /\ x \in Effects /\ x.task = "cleaning" /\ x.by = who
        /\ x.scope = effects[i][e].scope /\ x.kind = effects[i][e].kind
    BY <1>1, <1>3 DEF Effects
  <1>5. effects' = [effects EXCEPT ![i] = [@ EXCEPT ![e] = x]]
    BY <1>1, <1>2, <1>3 DEF StartCleaning
  <1>6. Cleans(i, e, x)
    BY <1>4, <1>5 DEF Cleans
  <1> QED BY <1>4, <1>6

\* What destroyScope stops at.
LEMMA TearStopsAt ==
  ASSUME TypeOK, NEW n, NEW s, Concerned(n, s) # {}, NEW k,
         k = Min(Concerned(n, s))
  PROVE  /\ k \in Instances /\ k \in Concerned(n, s)
         /\ \A j \in Instances : j \in Concerned(n, s) => k <= j
  <1>1. PICK C : C = Concerned(n, s)
    OBVIOUS
  <1>2. C \subseteq Instances /\ C \in SUBSET Nat
    BY <1>1 DEF Concerned, Instances
  <1> QED BY <1>1, <1>2, MinOfNumbers

\* Effects come and go in one of these ways.
LEMMA EffectsDo ==
  ASSUME TypeOK, Tree, EffectMoves
  PROVE  EffectsMove
  <1>1. /\ effects \in [Instances -> Seq(Effects)]
        /\ reg \in [Instances -> {"none", "staged", "live", "dead"}]
        /\ \A i \in Instances : effects[i] \in Seq(Effects)
    BY DEF TypeOK
  <1>2. ASSUME NEW i \in Instances, NEW s \in Scopes,
               NEW kind \in {"provide", "plain"}, Acquire(i, s, kind)
        PROVE  EffectsMove
    <2>1. PICK x : x = [scope |-> s, kind |-> kind, task |-> "held", by |-> "nobody"]
      OBVIOUS
    <2>2. x \in Effects /\ x.task = "held" /\ x.scope = s /\ x.kind = kind
      BY <2>1 DEF Effects
    <2>3. /\ Live(i, s) /\ Len(effects[i]) < MaxEffects
          /\ effects' = [effects EXCEPT ![i] = Append(@, x)]
          /\ \A k \in Instances : reg'[k] # "none" =>
               reg[k] # "none" \/ (k = i /\ kind = "provide")
      BY <1>1, <1>2, <2>1 DEF Acquire
    <2>4. Gains(i, x)
      BY <2>2, <2>3 DEF Gains
    <2> QED BY <2>2, <2>4 DEF EffectsMove
  <1>3. ASSUME NEW i \in Instances, NEW e \in DOMAIN effects[i], Release(i, e)
        PROVE  EffectsMove
    <2>1. StartCleaning(i, e, "plugin") /\ effects[i][e].task = "held"
          /\ UNCHANGED reg
      BY <1>3 DEF Release, instances
    <2>2. \E x \in Effects : Cleans(i, e, x)
      BY <2>1, CleaningStarts
    <2> QED BY <2>2 DEF EffectsMove
  <1>4. ASSUME NEW i \in Instances, NEW e \in DOMAIN effects[i], Cleaned(i, e)
        PROVE  EffectsMove
    <2>1. effects[i][e] \in Effects
      BY <1>1, SeqParts
    <2>2. ASSUME NEW task \in {"cleaned", "failed"},
                 effects' = [effects EXCEPT ![i][e].task = task],
                 effects[i][e].kind = "provide" => reg'[i] = "none",
                 \A k \in Instances : reg'[k] # "none" => reg[k] # "none"
          PROVE  EffectsMove
      <3>1. PICK x : x = [effects[i][e] EXCEPT !.task = task]
        OBVIOUS
      <3>2. /\ x \in Effects /\ x.task = task
            /\ x.scope = effects[i][e].scope /\ x.kind = effects[i][e].kind
        BY <2>1, <3>1 DEF Effects
      <3>3. effects' = [effects EXCEPT ![i] = [@ EXCEPT ![e] = x]]
        BY <1>1, <2>1, <2>2, <3>1
      <3>4. effects[i][e].task = "cleaning"
        BY <1>4 DEF Cleaned
      <3>5. Cleans(i, e, x)
        BY <2>2, <3>2, <3>3, <3>4 DEF Cleans
      <3> QED BY <3>2, <3>5 DEF EffectsMove
    <2>3. CASE effects[i][e].kind = "plain"
      <3>1. UNCHANGED reg
        BY <1>4, <2>3 DEF Cleaned, instances
      <3> QED BY <1>4, <2>2, <2>3, <3>1 DEF Cleaned
    <2>4. CASE effects[i][e].kind # "plain"
      <3>1. /\ effects' = [effects EXCEPT ![i][e].task = "cleaned"]
            /\ BeginDispose(Dependents(i), disp, [reg EXCEPT ![i] = "none"],
                            {p \in calls : p[2] # i})
        BY <1>4, <2>4 DEF Cleaned
      <3>2. reg'[i] = "none" /\ \A k \in Instances : reg'[k] # "none" => reg[k] # "none"
        BY <1>1, <3>1 DEF BeginDispose
      <3> QED BY <2>2, <3>1, <3>2
    <2> QED BY <2>3, <2>4
  <1>5. ASSUME NEW t \in Tears, Tear(t), NEW s, s = Head(tear[t].todo),
               NEW k, k = Min(Concerned(tear[t].at, s)),
               NEW e, e = Max(Unfinished(k, s)),
               Concerned(tear[t].at, s) # {}, home[k] # s,
               effects[k][e].task = "held", StartCleaning(k, e, "host"),
               UNCHANGED instances
        PROVE  EffectsMove
    <2>1. k \in Instances /\ k \in Concerned(tear[t].at, s)
      BY <1>5, TearStopsAt
    <2>2. Unfinished(k, s) # {}
      BY <1>5, <2>1 DEF Concerned
    <2>3. PICK T : T = Unfinished(k, s)
      OBVIOUS
    <2>4. T \in SUBSET Left(k)
      BY <2>3 DEF Unfinished
    <2>5. /\ e \in T /\ e \in DOMAIN effects[k]
          /\ \A j \in DOMAIN effects[k] : j > e => j \notin T
      BY <1>5, <2>1, <2>2, <2>3, <2>4, GreatestLeft
    <2>6. effects[k][e].scope = s
      BY <2>3, <2>5 DEF Unfinished
    <2>7. Shut(s)
      <3>1. tear[t].todo # <<>> /\ tear[t].todo \in Seq(Scopes)
        BY <1>5 DEF Tear, TypeOK, Teardowns
      <3>2. s \in ToSet(tear[t].todo)
        BY <1>5, <3>1, TailKeeps
      <3> QED BY <3>2 DEF Tree
    <2>8. \A j \in DOMAIN effects[k] : effects[k][j] \in Effects
      BY <1>1, <2>1, SeqParts
    <2>9. \A j \in DOMAIN effects[k] : j > e /\ effects[k][j].scope = s
            => effects[k][j].task \in {"cleaned", "failed"}
      BY <2>3, <2>5, <2>8 DEF Unfinished, Left, Effects
    <2>10. HostMay(k, e)
      BY <2>6, <2>7, <2>9 DEF HostMay
    <2>11. \A j \in Instances : reg'[j] # "none" => reg[j] # "none"
      BY <1>5 DEF instances
    <2>12. \E x \in Effects : Cleans(k, e, x)
      BY <1>5, <2>1, <2>5, <2>10, <2>11, CleaningStarts
    <2> QED BY <2>1, <2>5, <2>12 DEF EffectsMove
  <1>6. ASSUME NEW t \in Tears, Tear(t)
        PROVE  EffectsMove
    <2>1. CASE UNCHANGED effects
      <3>1. \A i \in Instances : reg'[i] # "none" => reg[i] # "none"
        <4>1. UNCHANGED reg \/ \E S : Dispose(S)
          BY <1>6 DEF Tear, instances
        <4>2. ASSUME NEW S, Dispose(S), NEW i \in Instances, reg'[i] # "none"
              PROVE  reg[i] # "none"
          BY <4>2 DEF Dispose, BeginDispose
        <4> QED BY <4>1, <4>2
      <3> QED BY <2>1, <3>1 DEF EffectsMove
    <2>2. CASE ~UNCHANGED effects
      BY <1>5, <1>6, <2>2 DEF Tear
    <2> QED BY <2>1, <2>2
  <1>7. ASSUME NEW i \in Instances, CleanEffects(i)
        PROVE  EffectsMove
    <2>1. UNCHANGED reg /\ disp[i].pc = "effects"
      BY <1>7 DEF CleanEffects
    <2>2. CASE UNCHANGED effects
      BY <2>1, <2>2 DEF EffectsMove
    <2>3. ASSUME NEW e, e = Max(Left(i)), Left(i) # {},
                 effects[i][e].task = "held", StartCleaning(i, e, "host")
          PROVE  EffectsMove
      <3>1. PICK T : T = Left(i)
        OBVIOUS
      <3>2. T \in SUBSET Left(i) /\ T # {} /\ e = Max(T)
        BY <2>3, <3>1
      <3>3. /\ e \in DOMAIN effects[i]
            /\ \A j \in DOMAIN effects[i] : j > e => j \notin T
        BY <3>2, GreatestLeft
      <3>4. \A j \in DOMAIN effects[i] : effects[i][j] \in Effects
        BY <1>1, SeqParts
      <3>5. HostMay(i, e)
        BY <2>1, <3>1, <3>3, <3>4 DEF HostMay, Left, Effects
      <3>6. \E x \in Effects : Cleans(i, e, x)
        BY <2>1, <2>3, <3>3, <3>5, CleaningStarts
      <3> QED BY <3>3, <3>6 DEF EffectsMove
    <2> QED BY <1>7, <2>2, <2>3 DEF CleanEffects
  <1>8. UNCHANGED effects /\ (\A i \in Instances : reg'[i] # "none" => reg[i] # "none")
          => EffectsMove
    BY DEF EffectsMove
  <1> QED BY <1>2, <1>3, <1>4, <1>6, <1>7, <1>8 DEF EffectMoves

\* What becomes of one effect: nothing, its cleanup starts, or it ends.
EffectGoesOn(i, e) ==
  LET x == effects[i][e]
      y == effects'[i][e]
  IN  /\ e \in DOMAIN effects'[i] /\ y.scope = x.scope /\ y.kind = x.kind
      /\ \/ y = x
         \/ x.task = "held" /\ y.task = "cleaning" /\ (y.by = "host" => HostMay(i, e))
         \/ /\ x.task = "cleaning" /\ y.task \in {"cleaned", "failed"}
            /\ x.kind = "provide" => reg'[i] = "none"

\* The effects of each instance go on, and new ones are at the end.
LEMMA EffectsPoint ==
  ASSUME TypeOK, EffectsMove
  PROVE  /\ effects' \in [Instances -> Seq(Effects)]
         /\ \A i \in Instances :
              /\ Len(effects'[i]) <= MaxEffects
              /\ \A e \in DOMAIN effects[i] : EffectGoesOn(i, e)
              /\ \A e \in DOMAIN effects'[i] : e \notin DOMAIN effects[i] =>
                   /\ effects'[i][e].task = "held"
                   /\ Live(i, effects'[i][e].scope)
              /\ reg'[i] # "none" =>
                   \/ reg[i] # "none"
                   \/ \E e \in DOMAIN effects'[i] :
                        effects'[i][e].task = "held" /\ effects'[i][e].kind = "provide"
  <1>1. /\ effects \in [Instances -> Seq(Effects)]
        /\ \A i \in Instances :
             /\ effects[i] \in Seq(Effects) /\ Len(effects[i]) <= MaxEffects
             /\ Len(effects[i]) \in Nat /\ DOMAIN effects[i] = 1 .. Len(effects[i])
    BY SeqParts DEF TypeOK
  <1>2. CASE UNCHANGED effects /\ \A i \in Instances : reg'[i] # "none" => reg[i] # "none"
    BY <1>1, <1>2 DEF EffectGoesOn
  <1>3. ASSUME NEW i \in Instances, NEW x \in Effects, Gains(i, x)
        PROVE  /\ effects' \in [Instances -> Seq(Effects)]
               /\ \A k \in Instances :
                    /\ Len(effects'[k]) <= MaxEffects
                    /\ \A e \in DOMAIN effects[k] : EffectGoesOn(k, e)
                    /\ \A e \in DOMAIN effects'[k] : e \notin DOMAIN effects[k] =>
                         /\ effects'[k][e].task = "held"
                         /\ Live(k, effects'[k][e].scope)
                    /\ reg'[k] # "none" =>
                         \/ reg[k] # "none"
                         \/ \E e \in DOMAIN effects'[k] :
                              /\ effects'[k][e].task = "held"
                              /\ effects'[k][e].kind = "provide"
    <2>1. PICK n \in Nat : n = Len(effects[i])
      BY <1>1
    <2>2. PICK q : q = Append(effects[i], x)
      OBVIOUS
    <2>3. effects[i] \in Seq(Effects) /\ DOMAIN effects[i] = 1 .. n /\ n < MaxEffects
      BY <1>1, <1>3, <2>1 DEF Gains
    <2>4. /\ q \in Seq(Effects) /\ Len(q) = n + 1 /\ DOMAIN q = 1 .. n + 1
          /\ \A e \in 1 .. n : q[e] = effects[i][e]
          /\ q[n + 1] = x
      BY <2>1, <2>2, <2>3
    <2>5. effects' = [effects EXCEPT ![i] = q]
      BY <1>1, <1>3, <2>2 DEF Gains
    <2>6. /\ effects' \in [Instances -> Seq(Effects)] /\ effects'[i] = q
          /\ \A k \in Instances : k # i => effects'[k] = effects[k]
      BY <1>1, <2>4, <2>5
    <2>7. n + 1 <= MaxEffects
      BY <2>3, LifecycleAssumption
    <2>8. /\ \A e \in 1 .. n : e \in 1 .. n + 1
          /\ \A e \in 1 .. n + 1 : e \notin 1 .. n => e = n + 1
          /\ n + 1 \in 1 .. n + 1
      OBVIOUS
    <2>9. /\ x.task = "held" /\ Live(i, x.scope)
          /\ \A k \in Instances : reg'[k] # "none" =>
               reg[k] # "none" \/ (k = i /\ x.kind = "provide")
      BY <1>3 DEF Gains
    <2>10. ASSUME NEW k \in Instances, k # i
           PROVE  /\ Len(effects'[k]) <= MaxEffects
                  /\ \A e \in DOMAIN effects[k] : EffectGoesOn(k, e)
                  /\ \A e \in DOMAIN effects'[k] : e \in DOMAIN effects[k]
                  /\ reg'[k] # "none" => reg[k] # "none"
      BY <1>1, <2>6, <2>9, <2>10 DEF EffectGoesOn
    <2>11. /\ Len(effects'[i]) <= MaxEffects
           /\ \A e \in DOMAIN effects[i] : EffectGoesOn(i, e)
           /\ \A e \in DOMAIN effects'[i] : e \notin DOMAIN effects[i] =>
                effects'[i][e].task = "held" /\ Live(i, effects'[i][e].scope)
           /\ reg'[i] # "none" =>
                \/ reg[i] # "none"
                \/ /\ effects'[i][n + 1].task = "held"
                   /\ effects'[i][n + 1].kind = "provide"
      BY <2>3, <2>4, <2>6, <2>7, <2>8, <2>9 DEF EffectGoesOn
    <2>12. n + 1 \in DOMAIN effects'[i]
      BY <2>4, <2>6, <2>8
    <2> QED BY <2>6, <2>10, <2>11, <2>12
  <1>4. ASSUME NEW i \in Instances, NEW c \in DOMAIN effects[i], NEW x \in Effects,
               Cleans(i, c, x)
        PROVE  /\ effects' \in [Instances -> Seq(Effects)]
               /\ \A k \in Instances :
                    /\ Len(effects'[k]) <= MaxEffects
                    /\ \A e \in DOMAIN effects[k] : EffectGoesOn(k, e)
                    /\ \A e \in DOMAIN effects'[k] : e \in DOMAIN effects[k]
                    /\ reg'[k] # "none" => reg[k] # "none"
    <2>1. PICK n \in Nat : n = Len(effects[i])
      BY <1>1
    <2>2. PICK q : q = [effects[i] EXCEPT ![c] = x]
      OBVIOUS
    <2>3. effects[i] \in Seq(Effects) /\ DOMAIN effects[i] = 1 .. n /\ n <= MaxEffects
      BY <1>1, <2>1
    <2>4. /\ q \in Seq(Effects) /\ Len(q) = n /\ DOMAIN q = 1 .. n
          /\ \A e \in 1 .. n : e # c => q[e] = effects[i][e]
          /\ q[c] = x
      BY <2>1, <2>2, <2>3
    <2>5. effects' = [effects EXCEPT ![i] = q]
      BY <1>1, <1>4, <2>2 DEF Cleans
    <2>6. /\ effects' \in [Instances -> Seq(Effects)] /\ effects'[i] = q
          /\ \A k \in Instances : k # i => effects'[k] = effects[k]
      BY <1>1, <2>4, <2>5
    <2>7. /\ x.scope = effects[i][c].scope /\ x.kind = effects[i][c].kind
          /\ \/ /\ effects[i][c].task = "held" /\ x.task = "cleaning"
                /\ x.by = "host" => HostMay(i, c)
             \/ /\ effects[i][c].task = "cleaning" /\ x.task \in {"cleaned", "failed"}
                /\ x.kind = "provide" => reg'[i] = "none"
          /\ \A k \in Instances : reg'[k] # "none" => reg[k] # "none"
      BY <1>4 DEF Cleans
    <2>8. ASSUME NEW k \in Instances, k # i
          PROVE  /\ Len(effects'[k]) <= MaxEffects
                 /\ \A e \in DOMAIN effects[k] : EffectGoesOn(k, e)
                 /\ \A e \in DOMAIN effects'[k] : e \in DOMAIN effects[k]
      BY <1>1, <2>6, <2>8 DEF EffectGoesOn
    <2>9. /\ Len(effects'[i]) <= MaxEffects
          /\ \A e \in DOMAIN effects[i] : EffectGoesOn(i, e)
          /\ \A e \in DOMAIN effects'[i] : e \in DOMAIN effects[i]
      BY <2>3, <2>4, <2>6, <2>7 DEF EffectGoesOn
    <2> QED BY <2>6, <2>7, <2>8, <2>9
  <1> QED BY <1>2, <1>3, <1>4 DEF EffectsMove

-----------------------------------------------------------------------------
(* The parts of the invariant, one by one.                                 *)

\* A step keeps states and disposals together.
LEMMA PhasesStep ==
  ASSUME TypeOK, Tree, Phases, Moves
  PROVE  Phases'
  <1>1. \A i \in Instances : OneMoves(i)
    BY InstancesMove DEF Moves
  <1>2. /\ effects' \in [Instances -> Seq(Effects)]
        /\ \A i \in Instances : \A e \in DOMAIN effects'[i] :
             e \notin DOMAIN effects[i] => Live(i, effects'[i][e].scope)
    BY EffectsDo, EffectsPoint DEF Moves
  <1>3. state \in [Instances -> States \union {"absent"}]
    BY DEF TypeOK
  <1>4. ASSUME NEW i \in Instances
        PROVE  /\ disp'[i].pc = "none" <=> state'[i] \in Early
               /\ disp'[i].pc = "done" => state'[i] \in {"DISPOSED", "FAILED"}
               /\ state'[i] = "DISPOSED" => disp'[i].pc = "done"
    <2>1. /\ disp[i].pc = "none" <=> state[i] \in Early
          /\ disp[i].pc = "done" => state[i] \in {"DISPOSED", "FAILED"}
          /\ state[i] = "DISPOSED" => disp[i].pc = "done"
          /\ state[i] \in States \union {"absent"}
      BY <1>3 DEF Phases
    <2>2. CASE Stays(i) \/ Appears(i) \/ Rises(i)
      BY <2>1, <2>2 DEF Stays, Appears, Rises, Early
    <2>3. CASE IsEnded(i)
      BY <2>1, <2>3 DEF IsEnded, Begun, Early
    <2>4. CASE Proceeds(i)
      BY <2>1, <2>4 DEF Proceeds
    <2>5. CASE Finishes(i)
      BY <2>1, <2>5 DEF Finishes, Early, States
    <2> QED BY <1>1, <2>2, <2>3, <2>4, <2>5 DEF OneMoves
  <1>5. ASSUME NEW i \in Instances, state'[i] = "absent"
        PROVE  effects'[i] = <<>>
    <2>1. state[i] = "absent" /\ effects[i] = <<>>
      <3>1. state[i] = "absent"
        BY <1>1, <1>5 DEF OneMoves, Stays, Appears, Rises, IsEnded, Proceeds,
           Finishes, Disposable
      <3> QED BY <3>1 DEF Phases
    <2>2. \A e \in DOMAIN effects'[i] : FALSE
      <3>1. DOMAIN effects[i] = {}
        BY <2>1
      <3> QED BY <1>2, <2>1, <3>1 DEF Live
    <2>3. Len(effects'[i]) = 0
      <3>1. /\ Len(effects'[i]) \in Nat /\ DOMAIN effects'[i] = 1 .. Len(effects'[i])
        BY <1>2, SeqParts
      <3>2. Len(effects'[i]) # 0 => 1 \in 1 .. Len(effects'[i])
        BY <3>1
      <3> QED BY <2>2, <3>1, <3>2
    <2> QED BY <1>2, <2>3, SeqParts
  <1> QED BY <1>4, <1>5 DEF Phases

\* The stacks stay stacks.
LEMMA StacksStep ==
  ASSUME TypeOK, Stacks, Grown, ActMoves
  PROVE  Stacks' /\ act' \in [Instances -> Seq(Frames)]
  <1>1. act \in [Instances -> Seq(Frames)]
    BY DEF TypeOK
  <1>2. ASSUME NEW r \in Instances
        PROVE  IsStack(act[r], deps')
    <2>1. IsStack(act[r], deps) /\ \A i \in Instances : deps[i] \subseteq deps'[i]
      BY DEF Stacks, Grown
    <2> QED BY <2>1, StackGrows
  <1>3. CASE UNCHANGED act
    BY <1>1, <1>2, <1>3 DEF Stacks
  <1>4. ASSUME NEW r \in Instances, Leads(r)
        PROVE  Stacks' /\ act' \in [Instances -> Seq(Frames)]
    <2>1. PICK a : act' = [act EXCEPT ![r] = a] /\ IsStack(a, deps')
      BY <1>4 DEF Leads
    <2>2. a \in Seq(Frames)
      BY <2>1 DEF IsStack
    <2>3. act' \in [Instances -> Seq(Frames)]
      BY <1>1, <2>1, <2>2
    <2>4. \A q \in Instances : act'[q] = a \/ act'[q] = act[q]
      BY <1>1, <2>1
    <2>5. \A q \in Instances : IsStack(act'[q], deps')
      BY <1>2, <2>1, <2>4
    <2> QED BY <2>3, <2>5 DEF Stacks
  <1> QED BY <1>3, <1>4 DEF ActMoves

\* An instance whose code may be running keeps its state or FAILED.
LEMMA LaunchedState ==
  ASSUME TypeOK, Phases, Moves, NEW i \in Instances,
         state[i] \in {"ACTIVATING", "FAILED"}
  PROVE  state'[i] \in {"ACTIVATING", "FAILED"} \/ state'[i] = "ACTIVE"
  <1>1. OneMoves(i)
    BY InstancesMove DEF Moves
  <1> QED BY <1>1 DEF OneMoves, Stays, Appears, Rises, IsEnded, Proceeds,
       Finishes, Disposable

\* Only a publication makes an instance ACTIVE.
LEMMA BecomesActive ==
  ASSUME TypeOK, LifeMoves, NEW i \in Instances,
         state[i] # "ACTIVE", state'[i] = "ACTIVE"
  PROVE  \E r \in Instances : \E a :
           /\ Publishes(r, a) /\ i = Last(act[r]).i
           /\ act' = [act EXCEPT ![r] = a]
  <1>1. state \in [Instances -> States \union {"absent"}]
    BY DEF TypeOK
  <1>2. ~UNCHANGED state
    OBVIOUS
  <1>3. \A k \in Instances, s \in Scopes : ~Discover(k, s)
    BY <1>1 DEF Discover
  <1>4. \A r \in Instances : \A a : ~Launches(r, a)
    BY <1>1 DEF Launches
  <1>5. \A S \in SUBSET Instances : ~Ends(S)
    BY DEF Ends
  <1>6. \A k \in Instances : ~DisposeDependents(k)
    BY <1>1 DEF DisposeDependents, BeginDispose
  <1>7. \A k \in Instances : ~DestroyOwned(k) /\ ~CleanEffects(k)
    BY <1>2 DEF DestroyOwned, BeginTear, CleanEffects
  <1>8. \A k \in Instances : ~Finish(k)
    BY <1>1 DEF Finish
  <1>9. PICK r \in Instances : \E a : Publishes(r, a) /\ act' = [act EXCEPT ![r] = a]
    BY <1>2, <1>3, <1>4, <1>5, <1>6, <1>7, <1>8 DEF LifeMoves
  <1>10. PICK a : Publishes(r, a) /\ act' = [act EXCEPT ![r] = a]
    BY <1>9
  <1>11. i = Last(act[r]).i
    BY <1>1, <1>10 DEF Publishes
  <1> QED BY <1>10, <1>11

\* The code of an instance is still started by one activation only.
LEMMA StartsStep ==
  ASSUME TypeOK, Phases, Starts, Moves
  PROVE  Starts'
  <1>1. act \in [Instances -> Seq(Frames)] /\ state \in [Instances -> States \union {"absent"}]
    BY DEF TypeOK
  <1>2. ASSUME NEW i \in Instances, NEW r \in Instances, Launched(r),
               Last(act[r]).i = i, act'[r] = act[r]
        PROVE  state'[i] \in {"ACTIVATING", "FAILED"}
    <2>1. state[i] \in {"ACTIVATING", "FAILED"}
      BY <1>2 DEF Starts
    <2>2. CASE state'[i] = "ACTIVE"
      <3>1. PICK q \in Instances : \E a :
              Publishes(q, a) /\ i = Last(act[q]).i /\ act' = [act EXCEPT ![q] = a]
        BY <2>1, <2>2, BecomesActive DEF Moves
      <3>2. PICK a : Publishes(q, a) /\ i = Last(act[q]).i /\ act' = [act EXCEPT ![q] = a]
        BY <3>1
      <3>3. Launched(q)
        BY <3>2 DEF Publishes, Running, Launched
      <3>4. q = r
        BY <1>2, <3>2, <3>3 DEF Starts
      <3>5. act'[r] = a /\ Calm(a)
        BY <1>1, <3>2, <3>4 DEF Publishes
      <3> QED BY <1>2, <3>5 DEF Calm, Launched
    <2> QED BY <2>1, <2>2, LaunchedState
  <1>3. \A r \in Instances : Launched(r) => Last(act[r]).i \in Instances
    <2>1. ASSUME NEW r \in Instances, act[r] # <<>>
          PROVE  Last(act[r]).i \in Instances
      <3>1. /\ Len(act[r]) \in Nat /\ Len(act[r]) # 0
            /\ DOMAIN act[r] = 1 .. Len(act[r])
            /\ \A k \in DOMAIN act[r] : act[r][k] \in Frames
        BY <1>1, <2>1, SeqParts
      <3>2. Len(act[r]) \in DOMAIN act[r]
        BY <3>1
      <3> QED BY <3>1, <3>2 DEF Last, Frames
    <2> QED BY <2>1 DEF Launched
  <1>4. ASSUME NEW i \in Instances, state'[i] = "DISPOSED"
        PROVE  i \notin work'
    <2>1. OneMoves(i)
      BY InstancesMove DEF Moves
    <2>2. i \notin work
      BY <1>4, <2>1 DEF OneMoves, Stays, Appears, Rises, IsEnded, Proceeds,
         Finishes, Starts
    <2>3. state[i] = "DISPOSED" \/ i \notin work'
      BY <1>4, <2>1, <2>2 DEF OneMoves, Stays, Appears, Rises, IsEnded, Proceeds, Finishes
    <2>4. CASE state[i] = "DISPOSED" /\ i \in work' /\ i \notin work
      <3>1. PICK r \in Instances : Running(r, "link") /\ Last(act[r]).i = i
        BY <2>2, <2>4 DEF Moves, WorkMoves
      <3>2. Launched(r)
        BY <3>1 DEF Running, Launched
      <3> QED BY <2>4, <3>1, <3>2 DEF Starts
    <2> QED BY <2>2, <2>3, <2>4
  <1>5. CASE UNCHANGED act
    <2>1. \A r \in Instances : Launched(r)' => state'[Last(act'[r]).i] \in {"ACTIVATING", "FAILED"}
      BY <1>2, <1>3, <1>5 DEF Launched
    <2> QED BY <1>4, <1>5, <2>1 DEF Starts, Launched
  <1>6. ASSUME NEW r \in Instances, Leads(r)
        PROVE  Starts'
    <2>1. PICK a : /\ act' = [act EXCEPT ![r] = a]
                   /\ \/ Turns(r, a) \/ Launches(r, a) \/ Codes(r, a)
                      \/ Publishes(r, a) \/ \E S : Fails(r, a, S)
      BY <1>6 DEF Leads
    <2>2. act'[r] = a /\ \A q \in Instances : q # r => act'[q] = act[q]
      BY <1>1, <2>1
    <2>3. ASSUME NEW q \in Instances, q # r, Launched(q)'
          PROVE  /\ Launched(q) /\ Last(act'[q]).i = Last(act[q]).i
                 /\ Last(act[q]).i \in Instances
                 /\ state'[Last(act'[q]).i] \in {"ACTIVATING", "FAILED"}
      BY <1>2, <1>3, <2>2, <2>3 DEF Launched
    <2>4. CASE Calm(a)
      <3>1. ~Launched(r)'
        BY <2>2, <2>4 DEF Launched, Calm
      <3> QED BY <1>4, <2>3, <3>1 DEF Starts
    <2>5. CASE Launches(r, a)
      <3>1. PICK i \in Instances : i = Last(a).i
        BY <2>5 DEF Launches
      <3>2. state[i] = "VERIFIED" /\ state'[i] = "ACTIVATING"
        BY <1>1, <2>5, <3>1 DEF Launches
      <3>3. \A q \in Instances : Launched(q) => Last(act[q]).i # i
        BY <3>2 DEF Starts
      <3> QED BY <1>4, <2>2, <2>3, <3>1, <3>2, <3>3 DEF Starts
    <2>6. CASE Codes(r, a)
      <3>1. Launched(r) /\ Last(a).i = Last(act[r]).i /\ UNCHANGED state
        BY <2>6 DEF Codes, Running, Launched
      <3> QED BY <1>4, <2>2, <2>3, <3>1 DEF Starts
    <2>7. Turns(r, a) \/ Publishes(r, a) \/ (\E S : Fails(r, a, S)) => Calm(a)
      BY DEF Turns, Publishes, Fails
    <2> QED BY <2>1, <2>4, <2>5, <2>6, <2>7
  <1> QED BY <1>5, <1>6 DEF Moves, ActMoves

\* A dependent that is ACTIVE after a step was ACTIVE and bound before it, or
\* has just been published, and then its provider is ACTIVE and stays so.
LEMMA ActiveDependent ==
  ASSUME TypeOK, Phases, Bindings, Moves, NEW k \in Instances, NEW i \in Instances,
         i \in deps'[k], state'[k] = "ACTIVE"
  PROVE  \/ state[k] = "ACTIVE" /\ i \in deps[k]
         \/ /\ state[i] = "ACTIVE" /\ state'[i] = "ACTIVE"
            /\ disp[i].pc = "none" /\ disp'[i].pc = "none"
  <1>1. CASE state[k] = "ACTIVE"
    BY <1>1 DEF Bindings, Moves, Grown
  <1>2. CASE state[k] # "ACTIVE"
    <2>1. PICK r \in Instances : \E a : Publishes(r, a) /\ k = Last(act[r]).i
      BY <1>2, BecomesActive DEF Moves
    <2>2. /\ deps' = deps /\ disp' = disp /\ state[k] = "ACTIVATING"
          /\ \A d \in deps[k] : state[d] = "ACTIVE"
          /\ state' = [state EXCEPT ![k] = "ACTIVE"]
      BY <2>1 DEF Publishes, Publishable
    <2>3. state[i] = "ACTIVE" /\ state'[i] = "ACTIVE"
      BY <2>2 DEF TypeOK
    <2>4. disp[i].pc = "none"
      BY <2>3 DEF Phases, Early
    <2> QED BY <2>2, <2>3, <2>4
  <1> QED BY <1>1, <1>2

\* How a disposal comes to look for dependents, and how it leaves them.
LEMMA DisposalPoint ==
  ASSUME TypeOK, LifeMoves, NEW i \in Instances
  PROVE  /\ disp'[i].pc = "dependents" =>
              disp'[i] = disp[i] \/ disp'[i] = Begun \/ DisposeDependents(i)
         /\ disp[i].pc = "dependents" /\ disp'[i].pc # "dependents" =>
              DisposeDependents(i)
  <1>1. disp \in [Instances -> Disposals]
    BY DEF TypeOK
  <1>2. CASE disp'[i] = disp[i]
    BY <1>2
  <1>3. CASE \E S \in SUBSET Instances : Ends(S)
    BY <1>3 DEF Ends, Begun, Disposable
  <1>4. ASSUME NEW k \in Instances, DisposeDependents(k), k # i
        PROVE  disp'[i] = disp[i] \/ (Disposable(i) /\ disp'[i] = Begun)
    BY <1>1, <1>4 DEF DisposeDependents, BeginDispose
  <1>5. ASSUME NEW k \in Instances, DestroyOwned(k)
        PROVE  disp'[i] = disp[i] \/ (disp[i].pc = "scopes" /\ disp'[i].pc # "dependents")
    BY <1>1, <1>5 DEF DestroyOwned, BeginTear, Disposals
  <1>6. ASSUME NEW k \in Instances, CleanEffects(k)
        PROVE  disp'[i] = disp[i] \/ (disp[i].pc = "effects" /\ disp'[i].pc # "dependents")
    BY <1>1, <1>6 DEF CleanEffects, Disposals
  <1>7. ASSUME NEW k \in Instances, Finish(k)
        PROVE  disp'[i] = disp[i] \/ (disp[i].pc = "work" /\ disp'[i].pc # "dependents")
    BY <1>1, <1>7 DEF Finish, Disposals
  <1>8. \A k \in Instances, s \in Scopes : Discover(k, s) => disp' = disp
    BY DEF Discover
  <1>9. \A r \in Instances : \A a : Launches(r, a) \/ Publishes(r, a) => disp' = disp
    BY DEF Launches, Publishes
  <1>10. Disposable(i) => disp[i].pc = "none"
    BY DEF Disposable
  <1>11. CASE UNCHANGED disp
    BY <1>2, <1>11
  <1> QED BY <1>2, <1>3, <1>4, <1>5, <1>6, <1>7, <1>8, <1>9, <1>10, <1>11 DEF LifeMoves

\* Consumers stay bound, and are disposed before what they are bound to.
LEMMA BindingsStep ==
  ASSUME TypeOK, Phases, Bindings, Moves
  PROVE  Bindings'
  <1>1. /\ Grown
        /\ \A i \in Instances :
             deps[i] \subseteq deps'[i] /\ deps'[i] \subseteq ToSet(Requires[i])
    BY DEF Moves, Grown
  <1>2. disp \in [Instances -> Disposals]
    BY DEF TypeOK
  <1>3. ASSUME NEW i \in Instances, state'[i] \in {"ACTIVATING", "ACTIVE"}
        PROVE  ToSet(Requires[i]) \subseteq deps'[i]
    <2>1. OneMoves(i)
      BY InstancesMove DEF Moves
    <2>2. state[i] \in {"ACTIVATING", "ACTIVE"} \/ ToSet(Requires[i]) \subseteq deps'[i]
      BY <1>3, <2>1 DEF OneMoves, Stays, Appears, Rises, IsEnded, Proceeds, Finishes
    <2> QED BY <1>1, <2>2 DEF Bindings
  <1>4. ASSUME NEW i \in Instances, NEW k \in Instances,
               i \in deps'[k], state'[k] = "ACTIVE", disp'[i].pc = "dependents"
        PROVE  k > disp'[i].at
    <2>1. state[k] = "ACTIVE" /\ i \in deps[k] /\ Present(k)
      BY <1>4, ActiveDependent DEF Present
    <2>2. CASE disp'[i] = disp[i]
      BY <1>4, <2>1, <2>2 DEF Bindings
    <2>3. CASE disp'[i] = Begun
      BY <2>3 DEF Begun, Instances
    <2>4. CASE DisposeDependents(i)
      <3>1. k > disp[i].at
        BY <2>1, <2>4 DEF DisposeDependents, Bindings
      <3>2. /\ disp'[i].at \in Instances /\ k >= disp'[i].at
            /\ state[disp'[i].at] = "ACTIVE" /\ disp[disp'[i].at].pc = "none"
                 => state'[disp'[i].at] = "QUIESCING"
        BY <1>4, <2>1, <2>4, <3>1, DependentsPoint
      <3>3. disp[k].pc = "none"
        BY <2>1 DEF Phases, Early
      <3>4. k # disp'[i].at
        BY <1>4, <2>1, <3>2, <3>3
      <3> QED BY <3>2, <3>4 DEF Instances
    <2> QED BY <1>4, <2>2, <2>3, <2>4, DisposalPoint DEF Moves
  <1>5. ASSUME NEW i \in Instances, NEW k \in Instances, i \in deps'[k],
               disp'[i].pc \notin {"none", "dependents"}, state'[k] = "ACTIVE"
        PROVE  FALSE
    <2>1. state[k] = "ACTIVE" /\ i \in deps[k] /\ Present(k)
      BY <1>5, ActiveDependent DEF Present
    <2>2. disp[i].pc \in {"none", "dependents"}
      BY <2>1 DEF Bindings
    <2>3. CASE disp[i].pc = "none"
      <3>1. OneMoves(i)
        BY InstancesMove DEF Moves
      <3> QED BY <1>5, <2>3, <3>1 DEF OneMoves, Stays, Appears, Rises, IsEnded,
           Proceeds, Finishes, Begun
    <2>4. CASE disp[i].pc = "dependents"
      <3>1. DisposeDependents(i)
        BY <1>5, <2>4, DisposalPoint DEF Moves
      <3>2. k > disp[i].at /\ k <= disp[i].at
        BY <1>5, <2>1, <2>4, <3>1, DependentsPoint DEF Bindings
      <3>3. disp[i].at \in Nat /\ k \in Nat
        BY <1>2 DEF Disposals, Instances
      <3> QED BY <3>2, <3>3
    <2> QED BY <2>2, <2>3, <2>4
  <1> QED BY <1>1, <1>3, <1>4, <1>5 DEF Bindings

\* No ACTIVE instance is left with a provider that is gone.
LEMMA DependentsFollowStep ==
  ASSUME TypeOK, Phases, Bindings, DependentsFollow, Moves
  PROVE  DependentsFollow'
  <1>1. ASSUME NEW k \in Instances, NEW i \in deps'[k], state'[k] = "ACTIVE"
        PROVE  state'[i] \in {"ACTIVE", "QUIESCING"}
    <2>1. i \in Instances
      BY DEF Moves, Grown
    <2>2. CASE state'[i] = "ACTIVE"
      BY <2>2
    <2>3. CASE state'[i] # "ACTIVE"
      <3>1. state[k] = "ACTIVE" /\ i \in deps[k]
        BY <1>1, <2>1, <2>3, ActiveDependent
      <3>2. state[i] \in {"ACTIVE", "QUIESCING"} /\ disp[i].pc \in {"none", "dependents"}
        BY <2>1, <3>1 DEF DependentsFollow, Bindings
      <3>3. OneMoves(i)
        BY <2>1, InstancesMove DEF Moves
      <3>4. state[i] = "QUIESCING" => disp[i].pc = "dependents"
        BY <2>1, <3>2 DEF Phases, Early
      <3> QED BY <2>3, <3>2, <3>3, <3>4 DEF OneMoves, Stays, Appears, Rises,
           IsEnded, Proceeds, Finishes, Disposable
    <2> QED BY <2>2, <2>3
  <1> QED BY <1>1 DEF DependentsFollow

-----------------------------------------------------------------------------
(* The tree of scopes in a step.                                           *)

TreeTypes ==
  /\ table \in Seq(Scopes)
  /\ scope \in [Scopes -> {"none", "OPEN", "CLOSING", "CLOSED"}]
  /\ parent \in [Scopes -> ScopeIds \union {"none"}]
  /\ owner \in [Scopes -> Instances \union {0}]
  /\ generation \in [ScopeIds -> 0 .. MaxGeneration]
  /\ tear \in [Tears -> Teardowns]

\* The elements of two sequences in a row.
LEMMA ConcatKeeps ==
  ASSUME NEW R, NEW p \in Seq(R), NEW q \in Seq(R)
  PROVE  p \o q \in Seq(R) /\ ToSet(p \o q) = ToSet(p) \union ToSet(q)
  <1>1. PICK m \in Nat, n \in Nat : m = Len(p) /\ n = Len(q)
    OBVIOUS
  <1>2. DOMAIN p = 1 .. m /\ DOMAIN q = 1 .. n
    BY <1>1, SeqParts
  <1>3. /\ p \o q \in Seq(R) /\ DOMAIN (p \o q) = 1 .. m + n
        /\ \A k \in 1 .. m : (p \o q)[k] = p[k]
        /\ \A k \in 1 .. n : (p \o q)[m + k] = q[k]
    BY <1>1
  <1>4. /\ \A k \in 1 .. m : k \in 1 .. m + n
        /\ \A k \in 1 .. n : m + k \in 1 .. m + n
        /\ \A k \in 1 .. m + n : k \in 1 .. m \/ \E j \in 1 .. n : k = m + j
    <2>1. ASSUME NEW k \in 1 .. m + n, k \notin 1 .. m
          PROVE  \E j \in 1 .. n : k = m + j
      <3>1. k - m \in 1 .. n /\ k = m + (k - m)
        BY <2>1
      <3> QED BY <3>1
    <2> QED BY <2>1
  <1>5. ASSUME NEW x \in ToSet(p \o q)
        PROVE  x \in ToSet(p) \union ToSet(q)
    <2>1. PICK k \in 1 .. m + n : x = (p \o q)[k]
      BY <1>3 DEF ToSet
    <2> QED BY <1>2, <1>3, <1>4, <2>1 DEF ToSet
  <1>6. ToSet(p) \subseteq ToSet(p \o q) /\ ToSet(q) \subseteq ToSet(p \o q)
    BY <1>2, <1>3, <1>4 DEF ToSet
  <1> QED BY <1>3, <1>5, <1>6

\* The elements of a sequence with one more.
LEMMA AppendKeeps ==
  ASSUME NEW R, NEW q \in Seq(R), NEW x \in R
  PROVE  Append(q, x) \in Seq(R) /\ ToSet(Append(q, x)) = ToSet(q) \union {x}
  <1>1. PICK n \in Nat : n = Len(q) /\ DOMAIN q = 1 .. n
    BY SeqParts
  <1>2. /\ Append(q, x) \in Seq(R) /\ DOMAIN Append(q, x) = 1 .. n + 1
        /\ \A k \in 1 .. n : Append(q, x)[k] = q[k]
        /\ Append(q, x)[n + 1] = x
    BY <1>1
  <1>3. /\ \A k \in 1 .. n : k \in 1 .. n + 1
        /\ \A k \in 1 .. n + 1 : k \in 1 .. n \/ k = n + 1
        /\ n + 1 \in 1 .. n + 1
    OBVIOUS
  <1> QED BY <1>1, <1>2, <1>3 DEF ToSet

\* The registered scopes are scopes.
LEMMA RegisteredAre ==
  ASSUME TypeOK
  PROVE  /\ Registered = ToSet(table) /\ Registered \subseteq Scopes
         /\ table \in Seq(Scopes)
         /\ \A s \in Scopes : s[1] \in ScopeIds /\ s[2] \in Nat
         /\ \A s \in Scopes : s = <<s[1], s[2]>>
  <1>1. table \in Seq(Scopes)
    BY DEF TypeOK
  <1>2. \A n \in DOMAIN table : table[n] \in Scopes
    BY <1>1, SeqParts
  <1>3. \A s \in Scopes : s[1] \in ScopeIds /\ s[2] \in Nat /\ s = <<s[1], s[2]>>
    BY DEF Scopes
  <1> QED BY <1>1, <1>2, <1>3 DEF Registered, ToSet

\* The scopes of N are added below the scope p, for the owner o.
Adds(N, p, o) ==
  /\ N \subseteq Scopes /\ p \in ScopeIds
  /\ \A s, x \in N : s[1] = x[1] => s = x
  /\ \A s \in N : Lookup(s[1]) = {} /\ s[2] = generation[s[1]] + 1
  /\ N # {} => \E above \in Registered : above[1] = p /\ scope[above] = "OPEN"
  /\ o = 0 \/ (o \in Instances /\ disp[o].pc = "none")
  /\ table' \in Seq(Scopes) /\ Registered' = Registered \union N
  /\ scope' = [s \in Scopes |-> IF s \in N THEN "OPEN" ELSE scope[s]]
  /\ parent' = [s \in Scopes |-> IF s \in N THEN p ELSE parent[s]]
  /\ owner' = [s \in Scopes |-> IF s \in N THEN o ELSE owner[s]]
  /\ generation' = [id \in ScopeIds |->
       IF \E s \in N : s[1] = id THEN generation[id] + 1 ELSE generation[id]]
  /\ UNCHANGED tear

\* destroyScope begins at the scope with this id.
Closes(t, id) ==
  /\ table' = table /\ parent' = parent /\ owner' = owner
  /\ generation' = generation
  /\ scope' = [s \in Scopes |-> IF s \in Subtree(id) THEN "CLOSING" ELSE scope[s]]
  /\ tear' = [tear EXCEPT ![t] = [todo |-> Reverse(Only(table, Subtree(id))),
                                  at |-> 0]]
  /\ UNCHANGED <<home, effects>>
  /\ \A p \in calls' : home[p[1]] \notin Subtree(id) /\ home[p[2]] \notin Subtree(id)

\* destroyScope stops at the instance k.
StopsAt(t, k) ==
  /\ tear[t].todo # <<>> /\ Passed(tear[t].at, Head(tear[t].todo))
  /\ Concerned(tear[t].at, Head(tear[t].todo)) # {}
  /\ k = Min(Concerned(tear[t].at, Head(tear[t].todo)))
  /\ home[k] = Head(tear[t].todo)
  /\ tear' = [tear EXCEPT ![t].at = k] /\ UNCHANGED tree

\* destroyScope removes the scope it is at.
Removes(t) ==
  /\ tear[t].todo # <<>> /\ Passed(tear[t].at, Head(tear[t].todo))
  /\ Concerned(tear[t].at, Head(tear[t].todo)) = {}
  /\ scope' = [scope EXCEPT ![Head(tear[t].todo)] = "CLOSED"]
  /\ table' = Only(table, {o \in Registered : o[1] # Head(tear[t].todo)[1]})
  /\ tear' = [tear EXCEPT ![t] = [todo |-> Tail(@.todo), at |-> 0]]
  /\ UNCHANGED <<instances, effects, home, parent, owner, generation>>

TreeMove ==
  \/ UNCHANGED <<tree, tear>>
  \/ \E N, p, o : Adds(N, p, o)
  \/ \E t \in Tears, id \in ScopeIds :
       Closes(t, id) /\ (t \in Instances => DestroyOwned(t))
  \/ \E t \in Tears : \E k : StopsAt(t, k)
  \/ \E t \in Tears : Removes(t)

\* createScope() adds one scope.
LEMMA CreateAdds ==
  ASSUME TypeOK, NEW id \in ScopeIds, NEW above \in Scopes,
         NEW o \in Instances \union {0}, CreateScope(id, above, o)
  PROVE  Adds({<<id, generation[id] + 1>>}, above[1], o)
  <1>1. PICK s : s = <<id, generation[id] + 1>>
    OBVIOUS
  <1>2. PICK N : N = {s}
    OBVIOUS
  <1>3. /\ generation \in [ScopeIds -> 0 .. MaxGeneration] /\ MaxGeneration \in Nat
        /\ generation[id] < MaxGeneration
        /\ Lookup(id) = {} /\ Open(above) /\ (o # 0 => Live(o, above))
    BY LifecycleAssumption DEF TypeOK, CreateScope
  <1>4. s \in Scopes /\ s[1] = id /\ s[2] = generation[id] + 1
    <2>1. generation[id] + 1 \in 1 .. MaxGeneration
      BY <1>3
    <2> QED BY <1>1, <2>1 DEF Scopes
  <1>5. /\ table' = Append(table, s)
        /\ scope' = [scope EXCEPT ![s] = "OPEN"]
        /\ parent' = [parent EXCEPT ![s] = above[1]]
        /\ owner' = [owner EXCEPT ![s] = o]
        /\ generation' = [generation EXCEPT ![id] = @ + 1]
        /\ UNCHANGED tear
    BY <1>1 DEF CreateScope
  <1>6. table' \in Seq(Scopes) /\ Registered' = Registered \union N
    <2>1. table \in Seq(Scopes) /\ Registered = ToSet(table)
      BY RegisteredAre
    <2>2. /\ Append(table, s) \in Seq(Scopes)
          /\ ToSet(Append(table, s)) = ToSet(table) \union {s}
      BY <1>4, <2>1, AppendKeeps
    <2>3. Registered' = ToSet(table')
      BY DEF Registered, ToSet
    <2> QED BY <1>2, <1>5, <2>1, <2>2, <2>3
  <1>7. /\ scope \in [Scopes -> {"none", "OPEN", "CLOSING", "CLOSED"}]
        /\ parent \in [Scopes -> ScopeIds \union {"none"}]
        /\ owner \in [Scopes -> Instances \union {0}]
    BY DEF TypeOK
  <1>8. /\ scope' = [x \in Scopes |-> IF x \in N THEN "OPEN" ELSE scope[x]]
        /\ parent' = [x \in Scopes |-> IF x \in N THEN above[1] ELSE parent[x]]
        /\ owner' = [x \in Scopes |-> IF x \in N THEN o ELSE owner[x]]
    BY <1>2, <1>4, <1>5, <1>7
  <1>9. generation' = [d \in ScopeIds |->
          IF \E x \in N : x[1] = d THEN generation[d] + 1 ELSE generation[d]]
    BY <1>2, <1>3, <1>4, <1>5
  <1>10. above \in Registered /\ scope[above] = "OPEN" /\ above[1] \in ScopeIds
    BY <1>3, RegisteredAre DEF Open
  <1>11. o = 0 \/ (o \in Instances /\ disp[o].pc = "none")
    BY <1>3 DEF Live
  <1>12. Adds(N, above[1], o)
    BY <1>2, <1>3, <1>4, <1>5, <1>6, <1>8, <1>9, <1>10, <1>11 DEF Adds
  <1> QED BY <1>1, <1>2, <1>12

\* startProfile() adds its scopes below the root.
LEMMA ProfileAdds ==
  ASSUME TypeOK, NEW n \in 0 .. Len(ProfileScopes), ScopesCreated(n), UNCHANGED tear
  PROVE  \E N : Adds(N, Root, 0)
  <1>1. PICK new : new = [k \in 1 .. n |->
                            <<ProfileScopes[k], generation[ProfileScopes[k]] + 1>>]
    OBVIOUS
  <1>2. PICK N : N = ToSet(new)
    OBVIOUS
  <1>3. /\ generation \in [ScopeIds -> 0 .. MaxGeneration] /\ MaxGeneration \in Nat
        /\ ProfileScopes \in Seq(ScopeIds \ {Root}) /\ n \in Nat
        /\ \A k \in 1 .. n : k \in DOMAIN ProfileScopes
    BY LifecycleAssumption, ProfilesAssumption DEF TypeOK
  <1>4. /\ n > 0 => RootOpen
        /\ \A k \in 1 .. n : Lookup(ProfileScopes[k]) = {} /\ new[k][2] <= MaxGeneration
        /\ table' = table \o new
        /\ scope' = [s \in Scopes |-> IF s \in N THEN "OPEN" ELSE scope[s]]
        /\ parent' = [s \in Scopes |-> IF s \in N THEN Root ELSE parent[s]]
        /\ owner' = [s \in Scopes |-> IF s \in N THEN 0 ELSE owner[s]]
        /\ generation' = [id \in ScopeIds |->
             IF \E s \in N : s[1] = id THEN generation[id] + 1 ELSE generation[id]]
    BY <1>1, <1>2 DEF ScopesCreated
  <1>5. ASSUME NEW k \in 1 .. n
        PROVE  /\ new[k] \in Scopes /\ new[k][1] = ProfileScopes[k]
               /\ new[k][2] = generation[ProfileScopes[k]] + 1
    <2>1. ProfileScopes[k] \in ScopeIds
      BY <1>3, SeqParts
    <2>2. PICK g : g = generation[ProfileScopes[k]]
      OBVIOUS
    <2>3. new[k] = <<ProfileScopes[k], g + 1>>
      BY <1>1, <2>2
    <2>4. g \in 0 .. MaxGeneration
      BY <1>3, <2>1, <2>2
    <2>5. g + 1 <= MaxGeneration
      BY <1>4, <2>3
    <2>6. g + 1 \in 1 .. MaxGeneration
      BY ONLY <1>3, <2>4, <2>5
    <2> QED BY <2>1, <2>2, <2>3, <2>6 DEF Scopes
  <1>6. new \in Seq(Scopes) /\ DOMAIN new = 1 .. n
    <2>1. new \in [1 .. n -> Scopes]
      BY <1>1, <1>5
    <2> QED BY <1>3, <2>1, SeqDef
  <1>7. \A s \in N : \E k \in 1 .. n : s = new[k]
    BY <1>2, <1>6 DEF ToSet
  <1>8. N \subseteq Scopes
    BY <1>5, <1>7
  <1>9. \A s, x \in N : s[1] = x[1] => s = x
    <2>1. ASSUME NEW s \in N, NEW x \in N, s[1] = x[1]
          PROVE  s = x
      <3>1. PICK j \in 1 .. n, k \in 1 .. n : s = new[j] /\ x = new[k]
        BY <1>7
      <3>2. ProfileScopes[j] = ProfileScopes[k]
        BY <1>5, <2>1, <3>1
      <3>3. j = k
        BY <1>3, <3>2, ProfilesAssumption
      <3> QED BY <3>1, <3>3
    <2> QED BY <2>1
  <1>10. ASSUME NEW s \in N
         PROVE  Lookup(s[1]) = {} /\ s[2] = generation[s[1]] + 1
    <2>1. PICK k \in 1 .. n : s = new[k]
      BY <1>7
    <2>2. Lookup(ProfileScopes[k]) = {}
      BY <1>4
    <2> QED BY <1>5, <2>1, <2>2
  <1>11. N # {} => \E above \in Registered : above[1] = Root /\ scope[above] = "OPEN"
    <2>1. N # {} => n > 0
      BY <1>3, <1>7
    <2> QED BY <1>4, <2>1 DEF RootOpen, Lookup, Open
  <1>12. table' \in Seq(Scopes) /\ Registered' = Registered \union N
    <2>1. table \in Seq(Scopes) /\ Registered = ToSet(table)
      BY RegisteredAre
    <2>2. Registered' = ToSet(table')
      BY DEF Registered, ToSet
    <2> QED BY <1>2, <1>4, <1>6, <2>1, <2>2, ConcatKeeps
  <1>13. Root \in ScopeIds
    BY LifecycleAssumption
  <1>14. Adds(N, Root, 0)
    BY <1>4, <1>8, <1>9, <1>10, <1>11, <1>12, <1>13 DEF Adds
  <1> QED BY <1>14

\* The tree of scopes and the loops of destroyScope move in one of these ways.
LEMMA TreeDoes ==
  ASSUME TypeOK, TreeMoves
  PROVE  TreeMove
  <1>1. tear \in [Tears -> Teardowns]
    BY DEF TypeOK
  <1>2. ASSUME NEW id \in ScopeIds, NEW s \in Scopes, NEW o \in Instances \union {0},
               CreateScope(id, s, o)
        PROVE  TreeMove
    BY <1>2, CreateAdds DEF TreeMove
  <1>3. ASSUME NEW n \in 0 .. Len(ProfileScopes), ScopesCreated(n), UNCHANGED tear
        PROVE  TreeMove
    BY <1>3, ProfileAdds DEF TreeMove
  <1>4. ASSUME NEW t \in Tears, Tear(t)
        PROVE  TreeMove
    <2>1. PICK s : s = Head(tear[t].todo)
      OBVIOUS
    <2>2. tear[t].todo # <<>> /\ Passed(tear[t].at, s) /\ UNCHANGED home
      BY <1>4, <2>1 DEF Tear
    <2>3. ASSUME NEW k, k = Min(Concerned(tear[t].at, s)),
                 Concerned(tear[t].at, s) # {}, home[k] = s,
                 tear' = [tear EXCEPT ![t].at = k], UNCHANGED tree
          PROVE  TreeMove
      <3>1. StopsAt(t, k)
        BY <2>1, <2>2, <2>3 DEF StopsAt
      <3> QED BY <3>1 DEF TreeMove
    <2>4. CASE UNCHANGED <<tree, tear>>
      BY <2>4 DEF TreeMove
    <2>5. CASE /\ Concerned(tear[t].at, s) = {}
               /\ scope' = [scope EXCEPT ![s] = "CLOSED"]
               /\ table' = Only(table, {o \in Registered : o[1] # s[1]})
               /\ tear' = [tear EXCEPT ![t] = [todo |-> Tail(@.todo), at |-> 0]]
               /\ UNCHANGED <<instances, effects, parent, owner, generation>>
      <3>1. Removes(t)
        BY <2>1, <2>2, <2>5 DEF Removes
      <3> QED BY <3>1 DEF TreeMove
    <2> QED BY <1>4, <2>1, <2>3, <2>4, <2>5 DEF Tear
  <1>5. ASSUME NEW t \in Tears, NEW id \in ScopeIds, NEW d, BeginTear(t, id, d),
               UNCHANGED <<home, effects>>
        PROVE  Closes(t, id)
    <2>1. \A p \in calls' : home[p[1]] \notin Subtree(id) /\ home[p[2]] \notin Subtree(id)
      BY <1>5 DEF BeginTear
    <2> QED BY <1>5, <2>1 DEF BeginTear, Closes
  <1>6. ASSUME NEW i \in Instances, DestroyOwned(i)
        PROVE  TreeMove
    <2>1. CASE UNCHANGED <<tree, tear>>
      BY <2>1 DEF TreeMove
    <2>2. ASSUME disp[i].list # <<>>,
                 BeginTear(i, Head(disp[i].list)[1], [disp EXCEPT ![i].list = Tail(@)])
          PROVE  TreeMove
      <3>1. UNCHANGED <<home, effects>>
        BY <1>6 DEF DestroyOwned, bystanders
      <3>2. disp[i].list \in Seq(Scopes)
        BY DEF TypeOK, Disposals
      <3>3. Head(disp[i].list)[1] \in ScopeIds
        BY <2>2, <3>2, TailKeeps, RegisteredAre
      <3>4. i \in Tears
        BY LifecycleAssumption DEF Instances, Tears
      <3>5. Closes(i, Head(disp[i].list)[1])
        BY <1>5, <2>2, <3>1, <3>3, <3>4
      <3> QED BY <1>6, <3>3, <3>4, <3>5 DEF TreeMove
    <2> QED BY <1>6, <2>1, <2>2 DEF DestroyOwned
  <1>7. ASSUME NEW t \in Tears \ Instances, NEW id \in ScopeIds,
               BeginTear(t, id, disp), UNCHANGED <<home, effects>>
        PROVE  TreeMove
    <2>1. Closes(t, id)
      BY <1>5, <1>7
    <2> QED BY <2>1 DEF TreeMove
  <1>8. UNCHANGED <<tree, tear>> => TreeMove
    BY DEF TreeMove
  <1> QED BY <1>2, <1>3, <1>4, <1>6, <1>7, <1>8 DEF TreeMoves

\* The scopes below an id, and the list that destroyScope makes of them.
LEMMA SubtreeIs ==
  ASSUME TypeOK, NEW id
  PROVE  /\ Subtree(id) \subseteq Registered /\ Lookup(id) \subseteq Subtree(id)
         /\ Reverse(Only(table, Subtree(id))) \in Seq(Scopes)
         /\ ToSet(Reverse(Only(table, Subtree(id)))) = Subtree(id)
  <1>1. Registered = ToSet(table) /\ table \in Seq(Scopes)
    BY RegisteredAre
  <1>2. Subtree(id) \subseteq Registered
    BY DEF Subtree
  <1>3. \A s \in Scopes : Visible(s, s)
    BY DEF Visible
  <1>4. Lookup(id) \subseteq Subtree(id)
    BY <1>3, RegisteredAre DEF Lookup, Subtree
  <1>5. PICK C : C = Subtree(id)
    OBVIOUS
  <1>6. /\ Only(table, C) \in Seq(Scopes)
        /\ ToSet(Only(table, C)) = {x \in ToSet(table) : x \in C}
    BY <1>1, OnlyKeeps
  <1>7. /\ Reverse(Only(table, C)) \in Seq(Scopes)
        /\ ToSet(Reverse(Only(table, C))) = ToSet(Only(table, C))
    BY <1>6, ReverseKeeps
  <1> QED BY <1>1, <1>2, <1>4, <1>5, <1>6, <1>7

\* What is left of the table when a scope is removed.
LEMMA RemovesLeaves ==
  ASSUME TypeOK, NEW t \in Tears, Removes(t)
  PROVE  /\ table' \in Seq(Scopes) /\ Head(tear[t].todo) \in Scopes
         /\ Head(tear[t].todo) \in ToSet(tear[t].todo)
         /\ Registered' = {o \in Registered : o[1] # Head(tear[t].todo)[1]}
         /\ Tail(tear[t].todo) \in Seq(Scopes)
         /\ ToSet(Tail(tear[t].todo)) \subseteq ToSet(tear[t].todo)
         /\ ToSet(tear[t].todo) \subseteq
              ToSet(Tail(tear[t].todo)) \union {Head(tear[t].todo)}
         /\ tear'[t] = [todo |-> Tail(tear[t].todo), at |-> 0]
         /\ \A u \in Tears : u # t => tear'[u] = tear[u]
  <1>1. tear \in [Tears -> Teardowns] /\ tear[t].todo \in Seq(Scopes)
    BY DEF TypeOK, Teardowns
  <1>2. PICK S : S = {o \in Registered : o[1] # Head(tear[t].todo)[1]}
    OBVIOUS
  <1>3. table \in Seq(Scopes) /\ Registered = ToSet(table)
    BY RegisteredAre
  <1>4. /\ Only(table, S) \in Seq(Scopes)
        /\ ToSet(Only(table, S)) = {x \in ToSet(table) : x \in S}
    BY <1>3, OnlyKeeps
  <1>5. table' = Only(table, S) /\ tear[t].todo # <<>>
        /\ tear' = [tear EXCEPT ![t] = [todo |-> Tail(@.todo), at |-> 0]]
    BY <1>2 DEF Removes
  <1>6. Registered' = ToSet(table')
    BY DEF Registered, ToSet
  <1>7. Registered' = S
    BY <1>2, <1>3, <1>4, <1>5, <1>6
  <1> QED BY <1>1, <1>2, <1>4, <1>5, <1>7, TailKeeps

\* The types of the tree.
LEMMA TreeTypesStep ==
  ASSUME TypeOK, TreeMove
  PROVE  TreeTypes'
  <1>1. /\ table \in Seq(Scopes)
        /\ scope \in [Scopes -> {"none", "OPEN", "CLOSING", "CLOSED"}]
        /\ parent \in [Scopes -> ScopeIds \union {"none"}]
        /\ owner \in [Scopes -> Instances \union {0}]
        /\ generation \in [ScopeIds -> 0 .. MaxGeneration]
        /\ tear \in [Tears -> Teardowns] /\ MaxInstances \in Nat /\ MaxGeneration \in Nat
    BY LifecycleAssumption DEF TypeOK
  <1>2. CASE UNCHANGED <<tree, tear>>
    BY <1>1, <1>2 DEF tree, TreeTypes
  <1>3. ASSUME NEW N, NEW p, NEW o, Adds(N, p, o)
        PROVE  TreeTypes'
    <2>1. ASSUME NEW s \in N
          PROVE  generation[s[1]] + 1 \in 0 .. MaxGeneration
      <3>1. s[2] \in 1 .. MaxGeneration /\ s[2] = generation[s[1]] + 1
        BY <1>3 DEF Adds, Scopes
      <3> QED BY <1>1, <3>1
    <2> QED BY <1>1, <1>3, <2>1 DEF Adds, TreeTypes
  <1>4. ASSUME NEW t \in Tears, NEW id \in ScopeIds, Closes(t, id)
        PROVE  TreeTypes'
    <2>1. [todo |-> Reverse(Only(table, Subtree(id))), at |-> 0] \in Teardowns
      BY <1>1, SubtreeIs DEF Teardowns
    <2>2. tear' \in [Tears -> Teardowns]
      BY <1>1, <1>4, <2>1 DEF Closes
    <2> QED BY <1>1, <1>4, <2>2 DEF Closes, TreeTypes
  <1>5. ASSUME NEW t \in Tears, NEW k, StopsAt(t, k)
        PROVE  TreeTypes'
    <2>1. k \in Instances
      BY <1>5, TearStopsAt DEF StopsAt
    <2>2. [tear[t] EXCEPT !.at = k] \in Teardowns
      BY <1>1, <2>1 DEF Teardowns, Instances
    <2>3. tear' = [tear EXCEPT ![t] = [tear[t] EXCEPT !.at = k]]
      BY <1>1, <1>5 DEF StopsAt
    <2>4. tear' \in [Tears -> Teardowns]
      BY <1>1, <2>2, <2>3
    <2> QED BY <1>1, <1>5, <2>4 DEF StopsAt, tree, TreeTypes
  <1>6. ASSUME NEW t \in Tears, Removes(t)
        PROVE  TreeTypes'
    <2>1. table' \in Seq(Scopes) /\ Tail(tear[t].todo) \in Seq(Scopes)
      BY <1>6, RemovesLeaves
    <2>2. [todo |-> Tail(tear[t].todo), at |-> 0] \in Teardowns
      BY <1>1, <2>1 DEF Teardowns
    <2>3. tear' \in [Tears -> Teardowns]
      BY <1>1, <1>6, <2>2 DEF Removes
    <2> QED BY <1>1, <1>6, <2>1, <2>3 DEF Removes, TreeTypes
  <1> QED BY <1>2, <1>3, <1>4, <1>5, <1>6 DEF TreeMove

\* What a step may do to one scope.
ScopeGoesOn(s) ==
  \/ scope'[s] = scope[s]
  \/ scope[s] = "none" /\ scope'[s] = "OPEN" /\ Lookup(s[1]) = {}
  \/ s \in Registered /\ scope'[s] = "CLOSING"
       /\ \A p \in calls' : home[p[1]] # s /\ home[p[2]] # s
  \/ /\ Shut(s) /\ scope'[s] = "CLOSED"
     /\ \E t \in Tears : Removes(t) /\ s = Head(tear[t].todo)

\* Every scope goes on in one of these ways.
LEMMA ScopePoint ==
  ASSUME TypeOK, Tree, TreeMove
  PROVE  \A s \in Scopes : ScopeGoesOn(s)
  <1>1. /\ scope \in [Scopes -> {"none", "OPEN", "CLOSING", "CLOSED"}]
        /\ generation \in [ScopeIds -> 0 .. MaxGeneration]
    BY DEF TypeOK
  <1>2. ASSUME NEW N, NEW p, NEW o, Adds(N, p, o), NEW s \in Scopes
        PROVE  ScopeGoesOn(s)
    <2>1. CASE s \in N
      <3>1. /\ scope'[s] = "OPEN" /\ Lookup(s[1]) = {}
            /\ s[2] = generation[s[1]] + 1
        BY <1>2, <2>1 DEF Adds
      <3>2. generation[s[1]] \in Nat
        BY <1>1, RegisteredAre, LifecycleAssumption
      <3>3. ~(s[2] <= generation[s[1]])
        BY <3>1, <3>2
      <3>4. scope[s] = "none"
        BY <3>3 DEF Tree
      <3> QED BY <3>1, <3>4 DEF ScopeGoesOn
    <2>2. CASE s \notin N
      BY <1>2, <2>2 DEF Adds, ScopeGoesOn
    <2> QED BY <2>1, <2>2
  <1>3. ASSUME NEW t \in Tears, NEW id \in ScopeIds, Closes(t, id), NEW s \in Scopes
        PROVE  ScopeGoesOn(s)
    <2>1. Subtree(id) \subseteq Registered
      BY SubtreeIs
    <2> QED BY <1>3, <2>1 DEF Closes, ScopeGoesOn
  <1>4. ASSUME NEW t \in Tears, Removes(t), NEW s \in Scopes
        PROVE  ScopeGoesOn(s)
    <2>1. CASE s = Head(tear[t].todo)
      <3>1. s \in ToSet(tear[t].todo)
        BY <1>4, <2>1, RemovesLeaves
      <3>2. Shut(s)
        BY <3>1 DEF Tree
      <3> QED BY <1>1, <1>4, <2>1, <3>2 DEF Removes, ScopeGoesOn
    <2>2. CASE s # Head(tear[t].todo)
      BY <1>1, <1>4, <2>2 DEF Removes, ScopeGoesOn
    <2> QED BY <2>1, <2>2
  <1>5. (UNCHANGED tree) => \A s \in Scopes : ScopeGoesOn(s)
    BY DEF tree, ScopeGoesOn
  <1>6. \A t \in Tears : \A k : StopsAt(t, k) => UNCHANGED tree
    BY DEF StopsAt
  <1> QED BY <1>2, <1>3, <1>4, <1>5, <1>6 DEF TreeMove

\* A scope that is being destroyed stays so.
LEMMA ShutStays ==
  ASSUME TypeOK, Tree, TreeMove, NEW s \in Scopes, Shut(s)
  PROVE  Shut(s)'
  <1>1. ScopeGoesOn(s)
    BY ScopePoint
  <1> QED BY <1>1 DEF ScopeGoesOn, Shut

\* New scopes keep the tree.
LEMMA TreeAdds ==
  ASSUME TypeOK, Tree, NEW N, NEW p, NEW o, Adds(N, p, o)
  PROVE  Tree'
  <1>1. /\ scope \in [Scopes -> {"none", "OPEN", "CLOSING", "CLOSED"}]
        /\ \A s \in Scopes : s[1] \in ScopeIds
        /\ Registered \subseteq Scopes /\ tear \in [Tears -> Teardowns]
    BY RegisteredAre DEF TypeOK
  <1>2. \A id \in ScopeIds : generation[id] \in Nat
    BY LifecycleAssumption DEF TypeOK
  <1>3. ASSUME NEW s \in N
        PROVE  /\ s \in Scopes /\ scope[s] = "none" /\ scope'[s] = "OPEN"
               /\ parent'[s] = p /\ Lookup(s[1]) = {}
               /\ s[2] <= generation'[s[1]]
    <2>1. /\ s \in Scopes /\ s[1] \in ScopeIds /\ Lookup(s[1]) = {}
          /\ s[2] = generation[s[1]] + 1
      BY <1>1 DEF Adds
    <2>2. generation'[s[1]] = generation[s[1]] + 1
      BY <2>1 DEF Adds
    <2>3. ~(s[2] <= generation[s[1]]) /\ s[2] <= generation'[s[1]]
      BY <1>2, <2>1, <2>2
    <2>4. scope[s] = "none"
      BY <2>1, <2>3 DEF Tree
    <2> QED BY <2>1, <2>3, <2>4 DEF Adds
  <1>4. ASSUME NEW s \in Scopes, s \notin N
        PROVE  /\ scope'[s] = scope[s] /\ parent'[s] = parent[s]
               /\ scope'[s] # "none" => s[2] <= generation'[s[1]]
    <2>1. scope'[s] = scope[s] /\ parent'[s] = parent[s]
      BY <1>4 DEF Adds
    <2>2. generation'[s[1]] \in {generation[s[1]], generation[s[1]] + 1}
      BY <1>1 DEF Adds
    <2>3. scope[s] # "none" => s[2] <= generation[s[1]]
      BY DEF Tree
    <2>4. s[2] \in Nat /\ generation[s[1]] \in Nat
      BY <1>1, <1>2, RegisteredAre
    <2> QED BY <2>1, <2>2, <2>3, <2>4
  <1>5. Registered' = Registered \union N /\ N \subseteq Scopes
    BY DEF Adds
  <1>6. \A s \in Registered : s \notin N
    BY <1>3 DEF Lookup
  <1>7. ASSUME NEW s \in Registered', NEW x \in Registered', s[1] = x[1]
        PROVE  s = x
    <2>1. CASE s \in N /\ x \in N
      BY <1>7, <2>1 DEF Adds
    <2>2. CASE s \in Registered /\ x \in Registered
      BY <1>7, <2>2 DEF Tree
    <2>3. CASE s \in N /\ x \in Registered
      BY <1>3, <1>7, <2>3 DEF Lookup
    <2>4. CASE s \in Registered /\ x \in N
      BY <1>3, <1>7, <2>4 DEF Lookup
    <2> QED BY <1>5, <2>1, <2>2, <2>3, <2>4
  <1>8. \A s \in Registered' : scope'[s] \in {"OPEN", "CLOSING"}
    BY <1>1, <1>3, <1>4, <1>5, <1>6 DEF Tree
  <1>9. ASSUME NEW s \in Registered', NEW x \in Registered',
               scope'[s] = "OPEN", x[1] = parent'[s]
        PROVE  scope'[x] = "OPEN"
    <2>1. CASE x \in N
      BY <1>3, <2>1
    <2>2. CASE x \in Registered /\ s \in N
      <3>1. PICK above \in Registered : above[1] = p /\ scope[above] = "OPEN"
        BY <2>2 DEF Adds
      <3>2. x = above
        BY <1>3, <1>9, <2>2, <3>1 DEF Tree
      <3> QED BY <1>1, <1>4, <1>6, <2>2, <3>1, <3>2
    <2>3. CASE x \in Registered /\ s \in Registered
      <3>1. scope[s] = "OPEN" /\ parent[s] = x[1]
        BY <1>1, <1>4, <1>6, <1>9, <2>3
      <3>2. scope[x] = "OPEN"
        BY <2>3, <3>1 DEF Tree
      <3> QED BY <1>1, <1>4, <1>6, <2>3, <3>2
    <2> QED BY <1>5, <2>1, <2>2, <2>3
  <1>10. \A s \in Scopes : Shut(s) => Shut(s)'
    BY <1>3, <1>4 DEF Shut
  <1>11. ASSUME NEW t \in Tears, NEW s \in ToSet(tear'[t].todo)
         PROVE  Shut(s)'
    <2>1. tear'[t] = tear[t] /\ tear[t].todo \in Seq(Scopes)
      BY <1>1 DEF Adds, Teardowns
    <2>2. s \in Scopes /\ Shut(s)
      BY <2>1, SeqParts DEF Tree, ToSet
    <2> QED BY <1>10, <2>2
  <1>12. \A s \in Scopes : scope'[s] # "none" => s[2] <= generation'[s[1]]
    BY <1>3, <1>4
  <1> QED BY <1>7, <1>8, <1>9, <1>11, <1>12 DEF Tree

\* So does the closing of a subtree.
LEMMA TreeCloses ==
  ASSUME TypeOK, Tree, NEW t \in Tears, NEW id \in ScopeIds, Closes(t, id)
  PROVE  Tree'
  <1>1. /\ scope \in [Scopes -> {"none", "OPEN", "CLOSING", "CLOSED"}]
        /\ Registered \subseteq Scopes /\ tear \in [Tears -> Teardowns]
    BY RegisteredAre DEF TypeOK
  <1>2. Registered' = Registered /\ parent' = parent /\ generation' = generation
    BY DEF Closes, Registered
  <1>3. PICK C : C = Subtree(id)
    OBVIOUS
  <1>4. C \subseteq Registered /\ ToSet(Reverse(Only(table, C))) = C
    BY <1>3, SubtreeIs
  <1>5. \A s \in Scopes : scope'[s] = IF s \in C THEN "CLOSING" ELSE scope[s]
    BY <1>3 DEF Closes
  <1>6. ASSUME NEW s \in Registered, NEW x \in Registered,
               scope'[s] = "OPEN", x[1] = parent[s]
        PROVE  scope'[x] = "OPEN"
    <2>1. s \notin C /\ scope[s] = "OPEN"
      BY <1>1, <1>5, <1>6
    <2>2. scope[x] = "OPEN"
      BY <1>6, <2>1 DEF Tree
    <2>3. ASSUME x \in C
          PROVE  s \in C
      <3>1. PICK y \in Lookup(id) : Visible(y, x)
        BY <1>3, <2>3 DEF Subtree
      <3>2. ASSUME NEW way \in SUBSET Scopes, s \in way,
                   \A z \in way : Lookup(parent[z]) \subseteq way
            PROVE  y \in way
        <4>1. x \in way
          BY <1>6, <3>2 DEF Lookup
        <4> QED BY <3>1, <3>2, <4>1 DEF Visible
      <3>3. Visible(y, s)
        BY <3>2 DEF Visible
      <3> QED BY <1>3, <3>1, <3>3 DEF Subtree
    <2> QED BY <1>1, <1>5, <2>1, <2>2, <2>3
  <1>7. ASSUME NEW u \in Tears, NEW s \in ToSet(tear'[u].todo)
        PROVE  Shut(s)'
    <2>1. CASE u = t
      <3>1. tear'[u].todo = Reverse(Only(table, C))
        BY <1>1, <1>3, <2>1 DEF Closes
      <3> QED BY <1>1, <1>4, <1>5, <1>7, <3>1 DEF Shut
    <2>2. CASE u # t
      <3>1. tear'[u] = tear[u] /\ tear[u].todo \in Seq(Scopes)
        BY <1>1, <2>2 DEF Closes, Teardowns
      <3>2. s \in Scopes /\ Shut(s)
        BY <3>1, SeqParts DEF Tree, ToSet
      <3> QED BY <1>5, <3>2 DEF Shut
    <2> QED BY <2>1, <2>2
  <1>8. \A s \in Registered : scope'[s] \in {"OPEN", "CLOSING"}
    BY <1>1, <1>5 DEF Tree
  <1>9. \A s \in Scopes : scope'[s] # "none" => s[2] <= generation[s[1]]
    <2>1. \A s \in C : scope[s] # "none"
      BY <1>4 DEF Tree
    <2> QED BY <1>5, <2>1 DEF Tree
  <1>10. \A s, x \in Registered : s[1] = x[1] => s = x
    BY DEF Tree
  <1> QED BY <1>2, <1>6, <1>7, <1>8, <1>9, <1>10 DEF Tree

\* So does the removal of a scope.
LEMMA TreeRemoves ==
  ASSUME TypeOK, Tree, NEW t \in Tears, Removes(t)
  PROVE  Tree'
  <1>1. /\ scope \in [Scopes -> {"none", "OPEN", "CLOSING", "CLOSED"}]
        /\ Registered \subseteq Scopes /\ tear \in [Tears -> Teardowns]
    BY RegisteredAre DEF TypeOK
  <1>2. PICK h : h = Head(tear[t].todo)
    OBVIOUS
  <1>3. /\ Registered' = {o \in Registered : o[1] # h[1]} /\ h \in Scopes
        /\ h \in ToSet(tear[t].todo)
        /\ \A u \in Tears : ToSet(tear'[u].todo) \subseteq ToSet(tear[u].todo)
    <2>1. /\ tear'[t].todo = Tail(tear[t].todo)
          /\ ToSet(Tail(tear[t].todo)) \subseteq ToSet(tear[t].todo)
      <3>1. /\ tear'[t] = [todo |-> Tail(tear[t].todo), at |-> 0]
            /\ ToSet(Tail(tear[t].todo)) \subseteq ToSet(tear[t].todo)
        BY RemovesLeaves
      <3> QED BY ONLY <3>1
    <2>2. \A u \in Tears : u # t => tear'[u] = tear[u]
      BY RemovesLeaves
    <2>3. \A u \in Tears : ToSet(tear'[u].todo) \subseteq ToSet(tear[u].todo)
      BY <2>1, <2>2
    <2> QED BY <1>2, <2>3, RemovesLeaves
  <1>4. /\ \A s \in Scopes : s # h => scope'[s] = scope[s]
        /\ scope'[h] = "CLOSED" /\ parent' = parent /\ generation' = generation
    BY <1>1, <1>2, <1>3 DEF Removes
  <1>5. \A s \in Registered' : s \in Registered /\ s \in Scopes /\ scope'[s] = scope[s]
    BY <1>1, <1>3, <1>4
  <1>6. Shut(h)
    BY <1>3 DEF Tree
  <1>7. ASSUME NEW u \in Tears, NEW s \in ToSet(tear'[u].todo)
        PROVE  Shut(s)'
    <2>1. s \in ToSet(tear[u].todo) /\ tear[u].todo \in Seq(Scopes)
      BY <1>1, <1>3 DEF Teardowns
    <2>2. s \in Scopes /\ Shut(s)
      BY <2>1, SeqParts DEF Tree, ToSet
    <2>3. s = h \/ scope'[s] = scope[s]
      BY <1>4, <2>2
    <2> QED BY <1>4, <2>2, <2>3 DEF Shut
  <1>8. \A s \in Scopes : scope'[s] # "none" => s[2] <= generation'[s[1]]
    BY <1>4, <1>6 DEF Tree, Shut
  <1>9. \A s \in Registered' : scope'[s] \in {"OPEN", "CLOSING"}
    BY <1>5 DEF Tree
  <1>10. /\ \A s, x \in Registered' : s[1] = x[1] => s = x
         /\ \A s, x \in Registered' :
              scope'[s] = "OPEN" /\ x[1] = parent'[s] => scope'[x] = "OPEN"
    BY <1>4, <1>5 DEF Tree
  <1> QED BY <1>7, <1>8, <1>9, <1>10 DEF Tree

\* The tree is kept.
LEMMA TreeStep ==
  ASSUME TypeOK, Tree, TreeMove
  PROVE  Tree'
  <1>1. tear \in [Tears -> Teardowns]
    BY DEF TypeOK
  <1>2. ASSUME UNCHANGED tree, \A u \in Tears : tear'[u].todo = tear[u].todo
        PROVE  Tree'
    <2>1. \A u \in Tears : ToSet(tear'[u].todo) = ToSet(tear[u].todo)
      BY <1>2
    <2>2. /\ Registered' = Registered /\ scope' = scope
          /\ parent' = parent /\ generation' = generation
      BY <1>2 DEF tree, Registered
    <2> QED BY <2>1, <2>2 DEF Tree, Shut
  <1>3. CASE UNCHANGED <<tree, tear>>
    BY <1>2, <1>3
  <1>4. ASSUME NEW t \in Tears, NEW k, StopsAt(t, k)
        PROVE  Tree'
    <2>1. \A u \in Tears : tear'[u].todo = tear[u].todo
      BY <1>1, <1>4 DEF StopsAt, Teardowns
    <2> QED BY <1>2, <1>4, <2>1 DEF StopsAt
  <1> QED BY <1>3, <1>4, TreeAdds, TreeCloses, TreeRemoves DEF TreeMove

-----------------------------------------------------------------------------
(* The scopes that a disposal has to destroy.                              *)

\* A disposal that has begun and is not yet at the effects changes by its own
\* steps only.
LEMMA OwnedPoint ==
  ASSUME TypeOK, LifeMoves, NEW i \in Instances,
         disp[i].pc \in {"dependents", "scopes"}
  PROVE  disp'[i] = disp[i] \/ DestroyOwned(i) \/ DisposeDependents(i)
  <1>1. disp \in [Instances -> Disposals]
    BY DEF TypeOK
  <1>2. CASE disp'[i] = disp[i]
    BY <1>2
  <1>3. CASE \E S \in SUBSET Instances : Ends(S)
    BY <1>3 DEF Ends, Disposable
  <1>5. ASSUME NEW k \in Instances, DisposeDependents(k), k # i
        PROVE  disp'[i] = disp[i]
    BY <1>1, <1>5 DEF DisposeDependents, BeginDispose, Disposable
  <1>6. ASSUME NEW k \in Instances, DestroyOwned(k), k # i
        PROVE  disp'[i] = disp[i]
    BY <1>1, <1>6 DEF DestroyOwned, BeginTear, Disposals
  <1>7. ASSUME NEW k \in Instances, CleanEffects(k)
        PROVE  disp'[i] = disp[i]
    BY <1>1, <1>7 DEF CleanEffects, Disposals
  <1>8. ASSUME NEW k \in Instances, Finish(k)
        PROVE  disp'[i] = disp[i]
    BY <1>1, <1>8 DEF Finish, Disposals
  <1>9. \A k \in Instances, s \in Scopes : Discover(k, s) => disp' = disp
    BY DEF Discover
  <1>10. \A r \in Instances : \A a : Launches(r, a) \/ Publishes(r, a) => disp' = disp
    BY DEF Launches, Publishes
  <1>11. CASE UNCHANGED disp
    BY <1>2, <1>11
  <1> QED BY <1>2, <1>3, <1>5, <1>6, <1>7, <1>8, <1>9, <1>10, <1>11 DEF LifeMoves

\* A scope that is registered was so before, or its owner is not going away.
LEMMA RegisteredPoint ==
  ASSUME TypeOK, TreeMove, NEW s \in Registered'
  PROVE  \/ /\ s \in Registered /\ owner'[s] = owner[s] /\ parent'[s] = parent[s]
         \/ /\ owner'[s] = 0 \/ disp[owner'[s]].pc = "none"
            /\ s \in Scopes
  <1>1. Registered \subseteq Scopes /\ owner \in [Scopes -> Instances \union {0}]
        /\ parent \in [Scopes -> ScopeIds \union {"none"}]
    BY RegisteredAre DEF TypeOK
  <1>2. ASSUME NEW N, NEW p, NEW o, Adds(N, p, o)
        PROVE  \/ s \in Registered /\ owner'[s] = owner[s] /\ parent'[s] = parent[s]
               \/ /\ owner'[s] = 0 \/ disp[owner'[s]].pc = "none"
                  /\ s \in Scopes
    BY <1>1, <1>2 DEF Adds
  <1>3. CASE UNCHANGED tree
    BY <1>3 DEF tree, Registered
  <1>4. \A t \in Tears : \A k : StopsAt(t, k) => UNCHANGED tree
    BY DEF StopsAt
  <1>5. ASSUME NEW t \in Tears, Removes(t)
        PROVE  s \in Registered /\ owner'[s] = owner[s] /\ parent'[s] = parent[s]
    <2>1. s \in Registered
      BY <1>5, RemovesLeaves
    <2> QED BY <1>5, <2>1 DEF Removes
  <1>6. ASSUME NEW t \in Tears, NEW id \in ScopeIds, Closes(t, id)
        PROVE  s \in Registered /\ owner'[s] = owner[s] /\ parent'[s] = parent[s]
    BY <1>6 DEF Closes, Registered
  <1> QED BY <1>2, <1>3, <1>4, <1>5, <1>6 DEF TreeMove

\* What is left to tear down is given up only when it is removed.
LEMMA TodoPoint ==
  ASSUME TypeOK, TreeMove, NEW i \in Instances, NEW s \in ToSet(tear[i].todo),
         s \in Registered'
  PROVE  s \in ToSet(tear'[i].todo)
  <1>1. tear \in [Tears -> Teardowns] /\ i \in Tears
    BY LifecycleAssumption DEF TypeOK, Instances, Tears
  <1>2. CASE tear'[i].todo = tear[i].todo
    BY <1>2
  <1>3. \A N : \A p, o : Adds(N, p, o) => tear' = tear
    BY DEF Adds
  <1>4. ASSUME NEW t \in Tears, NEW k, StopsAt(t, k)
        PROVE  tear'[i].todo = tear[i].todo
    BY <1>1, <1>4 DEF StopsAt, Teardowns
  <1>5. ASSUME NEW t \in Tears, Removes(t)
        PROVE  s \in ToSet(tear'[i].todo)
    <2>1. CASE t = i
      <3>1. PICK h : h = Head(tear[i].todo)
        OBVIOUS
      <3>2. /\ Registered' = {o \in Registered : o[1] # h[1]}
            /\ ToSet(tear[i].todo) \subseteq ToSet(Tail(tear[i].todo)) \union {h}
            /\ tear'[i] = [todo |-> Tail(tear[i].todo), at |-> 0]
        BY <1>5, <2>1, <3>1, RemovesLeaves
      <3> QED BY <3>2
    <2>2. CASE t # i
      BY <1>1, <1>2, <1>5, <2>2, RemovesLeaves
    <2> QED BY <2>1, <2>2
  <1>6. ASSUME NEW t \in Tears, NEW id \in ScopeIds, Closes(t, id),
               t \in Instances => DestroyOwned(t)
        PROVE  tear'[i].todo = tear[i].todo
    <2>1. CASE t = i
      <3>1. tear[i].todo = <<>>
        BY <1>6, <2>1 DEF DestroyOwned
      <3> QED BY <3>1 DEF ToSet
    <2>2. CASE t # i
      BY <1>1, <1>6, <2>2 DEF Closes
    <2> QED BY <2>1, <2>2
  <1> QED BY <1>2, <1>3, <1>4, <1>5, <1>6 DEF TreeMove

\* A disposal that destroys an owned scope still has it before it.
LEMMA DestroyOwnedPoint ==
  ASSUME TypeOK, OwnedLeft, NEW i \in Instances, DestroyOwned(i),
         NEW s \in Registered, owner[s] = i
  PROVE  /\ disp'[i].pc = "scopes"
         /\ s \in ToSet(disp'[i].list) \union ToSet(tear'[i].todo)
  <1>1. /\ disp \in [Instances -> Disposals] /\ tear \in [Tears -> Teardowns]
        /\ i \in Tears
    BY LifecycleAssumption DEF TypeOK, Instances, Tears
  <1>2. disp[i].pc = "scopes" /\ tear[i].todo = <<>>
    BY DEF DestroyOwned
  <1>3. s \in ToSet(disp[i].list) \union ToSet(tear[i].todo)
    BY <1>2 DEF OwnedLeft
  <1>4. ToSet(tear[i].todo) = {}
    BY <1>2 DEF ToSet
  <1>5. s \in ToSet(disp[i].list) /\ disp[i].list \in Seq(Scopes)
    BY <1>1, <1>3, <1>4 DEF Disposals
  <1>6. disp[i].list # <<>>
    BY <1>5 DEF ToSet
  <1>7. PICK id : id = Head(disp[i].list)[1]
    OBVIOUS
  <1>8. BeginTear(i, id, [disp EXCEPT ![i].list = Tail(@)])
    BY <1>6, <1>7 DEF DestroyOwned
  <1>9. /\ disp'[i].list = Tail(disp[i].list) /\ disp'[i].pc = "scopes"
        /\ tear'[i].todo = Reverse(Only(table, Subtree(id)))
    BY <1>1, <1>2, <1>8 DEF BeginTear, Disposals
  <1>10. ToSet(tear'[i].todo) = Subtree(id) /\ Lookup(id) \subseteq Subtree(id)
    BY <1>9, SubtreeIs
  <1>11. s \in ToSet(Tail(disp[i].list)) \/ s = Head(disp[i].list)
    BY <1>5, <1>6, TailKeeps
  <1>12. s = Head(disp[i].list) => s \in Lookup(id)
    BY <1>7 DEF Lookup
  <1> QED BY <1>9, <1>10, <1>11, <1>12

\* A disposal knows the scopes it still has to destroy.
LEMMA OwnedLeftStep ==
  ASSUME TypeOK, Tree, Phases, OwnedLeft, Moves, TreeMove
  PROVE  OwnedLeft'
  <1>1. SUFFICES ASSUME NEW i \in Instances, NEW s \in Registered', owner'[s] = i
                 PROVE  /\ disp'[i].pc \in {"none", "dependents", "scopes"}
                        /\ disp'[i].pc = "scopes" =>
                             s \in ToSet(disp'[i].list) \union ToSet(tear'[i].todo)
    BY DEF OwnedLeft
  <1>2. OneMoves(i)
    BY InstancesMove DEF Moves
  <1>3. i # 0
    BY DEF Instances
  <1>4. CASE disp[i].pc = "none"
    <2>1. disp'[i].pc \in {"none", "dependents"}
      BY <1>2, <1>4 DEF OneMoves, Stays, Appears, Rises, IsEnded, Begun, Proceeds,
                        Finishes
    <2> QED BY <2>1
  <1>5. CASE disp[i].pc # "none"
    <2>1. s \in Registered /\ owner[s] = i
      BY <1>1, <1>3, <1>5, RegisteredPoint
    <2>2. /\ disp[i].pc \in {"dependents", "scopes"}
          /\ disp[i].pc = "scopes" =>
               s \in ToSet(disp[i].list) \union ToSet(tear[i].todo)
      BY <1>5, <2>1 DEF OwnedLeft
    <2>3. CASE DestroyOwned(i)
      BY <2>1, <2>3, DestroyOwnedPoint
    <2>4. CASE disp'[i] = disp[i]
      BY <1>1, <2>2, <2>4, TodoPoint
    <2>5. CASE DisposeDependents(i)
      <3>0. disp'[i].pc # "dependents" =>
              disp'[i] = [pc |-> "scopes", at |-> 0, list |-> Owned(i)]
        BY <2>5, DependentsPoint
      <3>1. disp'[i].pc = "dependents" \/ disp'[i].list = Owned(i)
        BY ONLY <3>0
      <3>2. disp'[i].pc \in {"dependents", "scopes"}
        BY ONLY <3>0
      <3>3. s \in ToSet(Owned(i))
        BY <2>1, OwnedKeeps
      <3> QED BY <3>1, <3>2, <3>3
    <2> QED BY <2>2, <2>3, <2>4, <2>5, OwnedPoint DEF Moves
  <1> QED BY <1>4, <1>5

-----------------------------------------------------------------------------
(* Effects and what is left of them.                                       *)

\* A disposal that has begun is never undone, and one that is over stays so;
\* an instance that was discovered stays so, in its scope.
LEMMA DisposalStays ==
  ASSUME TypeOK, LifeMoves, NEW i \in Instances
  PROVE  /\ disp[i].pc # "none" => disp'[i].pc # "none"
         /\ disp[i].pc = "done" => disp'[i].pc = "done"
         /\ Present(i) => Present(i)' /\ home'[i] = home[i]
         /\ ~Present(i) /\ Present(i)' => Open(home'[i])
  <1>1. OneMoves(i)
    BY InstancesMove
  <1>2. CASE Stays(i)
    BY <1>2 DEF Stays, Present
  <1>3. CASE Appears(i)
    BY <1>3 DEF Appears, Present
  <1>4. CASE Rises(i)
    BY <1>4 DEF Rises, Present
  <1>5. CASE IsEnded(i)
    BY <1>5 DEF IsEnded, Present, Begun, Disposable
  <1>6. CASE Proceeds(i)
    BY <1>6 DEF Proceeds, Present
  <1>7. CASE Finishes(i)
    BY <1>7 DEF Finishes, Present
  <1> QED BY <1>1, <1>2, <1>3, <1>4, <1>5, <1>6, <1>7 DEF OneMoves

\* The effects of one instance in a step, with the facts the proofs use.
LEMMA EffectsStep ==
  ASSUME TypeOK, Tree, Moves, NEW i \in Instances
  PROVE  /\ effects[i] \in Seq(Effects) /\ effects'[i] \in Seq(Effects)
         /\ \A e \in DOMAIN effects[i] : EffectGoesOn(i, e)
         /\ \A e \in DOMAIN effects'[i] : e \notin DOMAIN effects[i] =>
              effects'[i][e].task = "held" /\ Live(i, effects'[i][e].scope)
         /\ reg'[i] # "none" =>
              \/ reg[i] # "none"
              \/ \E e \in DOMAIN effects'[i] :
                   effects'[i][e].task = "held" /\ effects'[i][e].kind = "provide"
  <1>1. EffectsMove
    BY EffectsDo DEF Moves
  <1>2. effects \in [Instances -> Seq(Effects)]
    BY DEF TypeOK
  <1> QED BY <1>1, <1>2, EffectsPoint

\* An effect that is over stays as it is.
LEMMA OverStays ==
  ASSUME TypeOK, Tree, Moves, NEW i \in Instances, NEW e \in DOMAIN effects[i],
         effects[i][e].task \in {"cleaned", "failed"}
  PROVE  effects'[i][e] = effects[i][e]
  <1>1. EffectGoesOn(i, e)
    BY EffectsStep
  <1> QED BY <1>1 DEF EffectGoesOn

\* What is unfinished after a step was so before, or is new.
LEMMA LeftPoint ==
  ASSUME TypeOK, Tree, Moves, NEW i \in Instances, NEW e \in Left(i)'
  PROVE  \/ e \in Left(i) /\ effects'[i][e].scope = effects[i][e].scope
         \/ Live(i, effects'[i][e].scope)
  <1>1. e \in DOMAIN effects'[i] /\ effects'[i][e].task \in {"held", "cleaning"}
    BY DEF Left
  <1>2. CASE e \in DOMAIN effects[i]
    <2>1. EffectGoesOn(i, e)
      BY <1>2, EffectsStep
    <2> QED BY <1>1, <1>2, <2>1 DEF EffectGoesOn, Left
  <1>3. CASE e \notin DOMAIN effects[i]
    BY <1>1, <1>3, EffectsStep
  <1> QED BY <1>2, <1>3

\* Once a disposal has cleaned all effects there are none any more.
LEMMA LeftStays ==
  ASSUME TypeOK, Tree, Moves, NEW i \in Instances, Left(i) = {}, disp[i].pc # "none"
  PROVE  Left(i)' = {}
  <1>1. ASSUME NEW e \in Left(i)'
        PROVE  FALSE
    BY <1>1, LeftPoint DEF Live
  <1> QED BY <1>1

\* Registrations and effects go together, and a disposal cleans all effects.
LEMMA CleanupsStep ==
  ASSUME TypeOK, Tree, TreeMove, Phases, Cleanups, Moves
  PROVE  Cleanups'
  <1>1. ASSUME NEW i \in Instances, reg'[i] # "none"
        PROVE  \E e \in Left(i)' : effects'[i][e].kind = "provide"
    <2>1. CASE reg[i] # "none"
      <3>1. PICK e \in Left(i) : effects[i][e].kind = "provide"
        BY <2>1 DEF Cleanups
      <3>2. e \in DOMAIN effects[i] /\ effects[i][e].task \in {"held", "cleaning"}
        BY <3>1 DEF Left
      <3>3. EffectGoesOn(i, e)
        BY <3>2, EffectsStep
      <3>4. /\ e \in DOMAIN effects'[i] /\ effects'[i][e].kind = "provide"
            /\ effects'[i][e].task \in {"held", "cleaning"}
        BY <1>1, <3>1, <3>2, <3>3 DEF EffectGoesOn
      <3> QED BY <3>4 DEF Left
    <2>2. CASE reg[i] = "none"
      <3>1. PICK e \in DOMAIN effects'[i] :
              effects'[i][e].task = "held" /\ effects'[i][e].kind = "provide"
        BY <1>1, <2>2, EffectsStep
      <3> QED BY <3>1 DEF Left
    <2> QED BY <2>1, <2>2
  <1>2. ASSUME NEW i \in Instances, disp'[i].pc \in {"work", "done"}
        PROVE  Left(i)' = {}
    <2>1. OneMoves(i)
      BY InstancesMove DEF Moves
    <2>2. /\ disp[i].pc # "none"
          /\ disp[i].pc \in {"work", "done"} \/ (disp[i].pc = "effects" /\ Left(i) = {})
      <3>1. CASE Stays(i) \/ Appears(i) \/ Rises(i)
        BY <1>2, <3>1 DEF Stays, Appears, Rises
      <3>2. CASE IsEnded(i)
        BY <1>2, <3>2 DEF IsEnded, Begun
      <3>3. CASE Proceeds(i)
        BY <1>2, <3>3 DEF Proceeds
      <3>4. CASE Finishes(i)
        BY <3>4 DEF Finishes
      <3> QED BY <2>1, <3>1, <3>2, <3>3, <3>4 DEF OneMoves
    <2>3. Left(i) = {}
      BY <2>2 DEF Cleanups
    <2> QED BY <2>2, <2>3, LeftStays
  <1>3. ASSUME NEW i \in Instances, state'[i] = "DISPOSED", NEW e \in DOMAIN effects'[i]
        PROVE  effects'[i][e].task = "cleaned"
    <2>1. OneMoves(i)
      BY InstancesMove DEF Moves
    <2>2. CASE state[i] = "DISPOSED"
      <3>1. disp[i].pc = "done"
        BY <2>2 DEF Phases
      <3>2. e \in DOMAIN effects[i]
        BY <1>3, <3>1, EffectsStep DEF Live
      <3>3. effects[i][e].task = "cleaned"
        BY <2>2, <3>2 DEF Cleanups
      <3> QED BY <3>2, <3>3, OverStays
    <2>3. CASE state[i] # "DISPOSED"
      <3>1. /\ disp[i].pc = "work" /\ UNCHANGED effects
            /\ \A x \in DOMAIN effects[i] : effects[i][x].task # "failed"
        BY <1>3, <2>1, <2>3
           DEF OneMoves, Stays, Appears, Rises, IsEnded, Proceeds, Finishes
      <3>2. Left(i) = {}
        BY <3>1 DEF Cleanups
      <3>3. e \in DOMAIN effects[i] /\ effects'[i] = effects[i]
        BY <1>3, <3>1
      <3>4. effects[i][e] \in Effects
        BY <3>3, EffectsStep, SeqParts
      <3>5. effects[i][e].task \in {"held", "cleaning", "cleaned", "failed"}
        BY <3>4 DEF Effects
      <3> QED BY <3>1, <3>2, <3>3, <3>5 DEF Left
    <2> QED BY <2>2, <2>3
  <1>4. ASSUME NEW i \in Instances, NEW e \in DOMAIN effects'[i],
               effects'[i][e].task = "cleaning", effects'[i][e].by = "host"
        PROVE  disp'[i].pc # "none" \/ Shut(effects[i][e].scope)'
    <2>1. e \in DOMAIN effects[i]
      BY <1>4, EffectsStep
    <2>2. EffectGoesOn(i, e) /\ effects[i][e] \in Effects
      BY <2>1, EffectsStep, SeqParts
    <2>3. PICK s \in Scopes : s = effects[i][e].scope /\ s = effects'[i][e].scope
      BY <2>2 DEF EffectGoesOn, Effects
    <2>4. disp[i].pc # "none" \/ Shut(s)
      <3>1. CASE effects'[i][e] = effects[i][e]
        BY <1>4, <2>1, <2>3, <3>1 DEF Cleanups
      <3>2. CASE HostMay(i, e)
        BY <2>3, <3>2 DEF HostMay
      <3> QED BY <1>4, <2>2, <3>1, <3>2 DEF EffectGoesOn
    <2>5. CASE disp[i].pc # "none"
      BY <2>5, DisposalStays DEF Moves
    <2>6. CASE Shut(s)
      <3>1. Shut(s)'
        BY <2>6, ShutStays
      <3> QED BY <2>3, <3>1 DEF Shut
    <2> QED BY <2>4, <2>5, <2>6
  <1> QED BY <1>1, <1>2, <1>3, <1>4 DEF Cleanups

\* The host starts a cleanup only when the later ones of the scope are over.
LEMMA CleanedInReverseStep ==
  ASSUME TypeOK, Tree, Cleanups, CleanedInReverse, Moves
  PROVE  CleanedInReverse'
  <1>1. SUFFICES ASSUME NEW i \in Instances, NEW e \in DOMAIN effects'[i],
                        NEW later \in DOMAIN effects'[i], e < later,
                        effects'[i][e].scope = effects'[i][later].scope,
                        effects'[i][e].task = "cleaning", effects'[i][e].by = "host"
                 PROVE  effects'[i][later].task \in {"cleaned", "failed"}
    BY DEF CleanedInReverse
  <1>2. e \in DOMAIN effects[i]
    BY <1>1, EffectsStep
  <1>3. EffectGoesOn(i, e)
    BY <1>2, EffectsStep
  <1>4. PICK s : s = effects[i][e].scope /\ s = effects'[i][e].scope
    BY <1>3 DEF EffectGoesOn
  <1>5. later \in Int /\ e \in Int
    BY <1>1, EffectsStep, SeqParts
  <1>6. \A x \in DOMAIN effects[i] :
          x > e /\ effects[i][x].scope = s => effects[i][x].task \in {"cleaned", "failed"}
    <2>1. CASE effects'[i][e] = effects[i][e]
      <3>1. ASSUME NEW x \in DOMAIN effects[i], x > e, effects[i][x].scope = s
            PROVE  effects[i][x].task \in {"cleaned", "failed"}
        <4>1. x \in Int /\ e < x
          BY <1>5, <3>1, EffectsStep, SeqParts
        <4> QED BY <1>1, <1>2, <1>4, <2>1, <3>1, <4>1 DEF CleanedInReverse
      <3> QED BY <3>1
    <2>2. CASE HostMay(i, e)
      BY <1>4, <2>2 DEF HostMay
    <2> QED BY <1>1, <1>3, <2>1, <2>2 DEF EffectGoesOn
  <1>7. disp[i].pc # "none" \/ Shut(s)
    <2>1. CASE effects'[i][e] = effects[i][e]
      BY <1>1, <1>2, <1>4, <2>1 DEF Cleanups
    <2>2. CASE HostMay(i, e)
      BY <1>4, <2>2 DEF HostMay
    <2> QED BY <1>1, <1>3, <2>1, <2>2 DEF EffectGoesOn
  <1>8. later \in DOMAIN effects[i]
    <2>1. later \notin DOMAIN effects[i] => Live(i, s)
      BY <1>1, <1>4, EffectsStep
    <2>2. ~Live(i, s)
      BY <1>7 DEF Live, Open, Shut
    <2> QED BY <2>1, <2>2
  <1>9. EffectGoesOn(i, later)
    BY <1>8, EffectsStep
  <1>10. effects[i][later].scope = s
    BY <1>1, <1>4, <1>9 DEF EffectGoesOn
  <1>11. effects[i][later].task \in {"cleaned", "failed"}
    BY <1>1, <1>5, <1>6, <1>8, <1>10
  <1> QED BY <1>8, <1>11, OverStays

-----------------------------------------------------------------------------
(* The loop of destroyScope, and the scopes it leaves behind.              *)

\* destroyScope is over with the instances before position m, in scope s.
Behind(m, s) ==
  \A k \in Instances : k < m =>
    /\ Present(k) /\ home[k] = s => disp[k].pc = "done"
    /\ Unfinished(k, s) = {}

\* Where the loop of t has come to.
LoopAt(t) ==
  /\ tear[t].at > 0 => Present(tear[t].at) /\ home[tear[t].at] = Head(tear[t].todo)
  /\ Behind(tear[t].at, Head(tear[t].todo))

\* It stays so: nothing comes into a scope that is not OPEN.
LEMMA BehindStays ==
  ASSUME TypeOK, Tree, TreeMove, Moves, NEW s \in Scopes, Shut(s),
         NEW m, Behind(m, s), NEW k \in Instances, k < m
  PROVE  /\ Present(k)' /\ home'[k] = s => disp'[k].pc = "done"
         /\ Unfinished(k, s)' = {}
  <1>1. Present(k)' /\ home'[k] = s => disp'[k].pc = "done"
    <2>1. CASE Present(k)
      BY <2>1, DisposalStays DEF Behind, Moves
    <2>2. CASE ~Present(k)
      <3>1. Present(k)' => Open(home'[k])
        BY <2>2, DisposalStays DEF Moves
      <3> QED BY <3>1 DEF Open, Shut
    <2> QED BY <2>1, <2>2
  <1>2. ASSUME NEW e \in Unfinished(k, s)'
        PROVE  FALSE
    <2>1. e \in Left(k)' /\ effects'[k][e].scope = s
      BY <1>2 DEF Unfinished
    <2>2. e \in Left(k) /\ effects[k][e].scope = s
      BY <2>1, LeftPoint DEF Live, Open, Shut
    <2> QED BY <2>2 DEF Behind, Unfinished
  <1> QED BY <1>1, <1>2

\* The position after the one at which destroyScope has waited, and any up to
\* the next one that concerns it.
LEMMA BehindGrows ==
  ASSUME TypeOK, Phases, Cleanups, NEW s \in Scopes, NEW n \in 0 .. MaxInstances,
         n > 0 => Present(n) /\ home[n] = s, Behind(n, s), Passed(n, s),
         NEW m \in Int, \A k \in Concerned(n, s) : m <= k
  PROVE  Behind(m, s)
  <1>1. ASSUME NEW k \in Instances, k < m
        PROVE  /\ Present(k) /\ home[k] = s => disp[k].pc = "done"
               /\ Unfinished(k, s) = {}
    <2>1. k \in Int /\ n \in Int /\ MaxInstances \in Int
      BY LifecycleAssumption DEF Instances
    <2>2. CASE k < n
      BY <2>2 DEF Behind
    <2>3. CASE k = n
      <3>1. n > 0
        BY <2>3 DEF Instances
      <3>2. disp[k].pc = "done"
        BY <2>3, <3>1 DEF Passed
      <3>3. Left(k) = {}
        BY <3>2 DEF Cleanups
      <3> QED BY <3>2, <3>3 DEF Unfinished
    <2>4. CASE k > n
      <3>1. k \notin Concerned(n, s)
        BY <1>1, <2>1
      <3>2. CASE Present(k)
        BY <2>4, <3>1, <3>2 DEF Concerned
      <3>3. CASE ~Present(k)
        <4>1. effects[k] = <<>>
          BY <3>3 DEF Phases, Present
        <4> QED BY <3>3, <4>1 DEF Unfinished, Left
      <3> QED BY <3>2, <3>3
    <2> QED BY <2>1, <2>2, <2>3, <2>4
  <1> QED BY <1>1 DEF Behind

\* What is known of a teardown: its scope is shut, the position is in range.
LEMMA TearIs ==
  ASSUME TypeOK, Tree, NEW t \in Tears, tear[t].todo # <<>>
  PROVE  /\ Head(tear[t].todo) \in Scopes /\ Shut(Head(tear[t].todo))
         /\ tear[t].at \in 0 .. MaxInstances
  <1>1. tear[t].todo \in Seq(Scopes) /\ tear[t].at \in 0 .. MaxInstances
    BY DEF TypeOK, Teardowns
  <1>2. Head(tear[t].todo) \in ToSet(tear[t].todo) /\ Head(tear[t].todo) \in Scopes
    BY <1>1, TailKeeps
  <1> QED BY <1>1, <1>2 DEF Tree

\* A loop that has not moved, and one that stops at the next instance.
LEMMA TearLoopStep ==
  ASSUME TypeOK, Tree, TreeMove, Phases, Cleanups, TearLoop, Moves
  PROVE  TearLoop'
  <1>1. tear \in [Tears -> Teardowns]
    BY DEF TypeOK
  <1>2. SUFFICES ASSUME NEW t \in Tears, tear'[t].todo # <<>>
                 PROVE  LoopAt(t)'
    BY DEF TearLoop, LoopAt, Behind
  <1>3. CASE tear'[t].at = 0
    <2>1. \A k \in Instances : ~(k < 0)
      BY DEF Instances
    <2> QED BY <1>3, <2>1 DEF LoopAt, Behind
  <1>4. ASSUME NEW s, s = Head(tear[t].todo), NEW n \in 0 .. MaxInstances,
               tear'[t].todo = tear[t].todo, tear'[t].at = n,
               n > 0 => Present(n) /\ home[n] = s, Behind(n, s)
        PROVE  LoopAt(t)'
    <2>3. s \in Scopes /\ Shut(s)
      BY <1>2, <1>4, TearIs
    <2>4. n > 0 => n \in Instances
      BY LifecycleAssumption DEF Instances
    <2>5. n > 0 => Present(n)' /\ home'[n] = s
      BY <1>4, <2>4, DisposalStays DEF Moves
    <2>6. \A k \in Instances : k < n =>
            /\ Present(k)' /\ home'[k] = s => disp'[k].pc = "done"
            /\ Unfinished(k, s)' = {}
      BY <1>4, <2>3, BehindStays
    <2> QED BY <1>4, <2>5, <2>6 DEF LoopAt, Behind
  <1>5. CASE tear'[t] = tear[t]
    <2>1. tear[t].todo # <<>>
      BY <1>2, <1>5
    <2>2. LoopAt(t)
      BY <2>1 DEF TearLoop, LoopAt, Behind
    <2>3. tear[t].at \in 0 .. MaxInstances
      BY <2>1, TearIs
    <2> QED BY <1>4, <1>5, <2>2, <2>3 DEF LoopAt
  <1>6. ASSUME NEW k, StopsAt(t, k)
        PROVE  LoopAt(t)'
    <2>1. /\ tear'[t].todo = tear[t].todo /\ tear'[t].at = k /\ tear[t].todo # <<>>
      BY <1>1, <1>6 DEF StopsAt, Teardowns
    <2>2. PICK s : s = Head(tear[t].todo)
      OBVIOUS
    <2>3. PICK n : n = tear[t].at
      OBVIOUS
    <2>4. /\ Passed(n, s) /\ Concerned(n, s) # {} /\ k = Min(Concerned(n, s))
          /\ home[k] = s
      BY <1>6, <2>2, <2>3 DEF StopsAt
    <2>5. /\ k \in Instances /\ k \in Concerned(n, s)
          /\ \A j \in Concerned(n, s) : k <= j
      BY <2>4, TearStopsAt DEF Concerned
    <2>6. s \in Scopes /\ n \in 0 .. MaxInstances
      BY <2>1, <2>2, <2>3, TearIs
    <2>7. (n > 0 => Present(n) /\ home[n] = s) /\ Behind(n, s)
      BY <2>1, <2>2, <2>3 DEF TearLoop, Behind
    <2>8. k \in Int /\ k \in 0 .. MaxInstances
      BY <2>5, LifecycleAssumption DEF Instances
    <2>9. Behind(k, s)
      BY <2>4, <2>5, <2>6, <2>7, <2>8, BehindGrows
    <2>10. Present(k)
      BY <2>5 DEF Concerned
    <2> QED BY <1>4, <2>1, <2>2, <2>4, <2>8, <2>9, <2>10
  <1>7. \A N : \A p, o : Adds(N, p, o) => tear' = tear
    BY DEF Adds
  <1>8. ASSUME NEW u \in Tears, NEW id \in ScopeIds, Closes(u, id)
        PROVE  tear'[t] = tear[t] \/ tear'[t].at = 0
    BY <1>1, <1>8 DEF Closes
  <1>9. ASSUME NEW u \in Tears, Removes(u)
        PROVE  tear'[t] = tear[t] \/ tear'[t].at = 0
    BY <1>1, <1>9 DEF Removes
  <1>10. ASSUME NEW u \in Tears, NEW k, StopsAt(u, k), u # t
         PROVE  tear'[t] = tear[t]
    BY <1>1, <1>10 DEF StopsAt
  <1> QED BY <1>3, <1>5, <1>6, <1>7, <1>8, <1>9, <1>10 DEF TreeMove

\* A scope is CLOSED when everything in it is over, and nothing comes after.
LEMMA ClosedIsEmptyStep ==
  ASSUME TypeOK, Tree, TreeMove, Phases, Phases', Cleanups, TearLoop, ClosedIsEmpty,
         Moves
  PROVE  ClosedIsEmpty'
  <1>1. SUFFICES ASSUME NEW s \in Scopes, scope'[s] = "CLOSED", NEW i \in Instances
                 PROVE  /\ Present(i)' /\ home'[i] = s => Stopped(i)'
                        /\ Unfinished(i, s)' = {}
    BY DEF ClosedIsEmpty
  <1>2. PICK m \in Int : m = MaxInstances + 1 /\ \A k \in Instances : k < m
    BY LifecycleAssumption DEF Instances
  <1>3. ScopeGoesOn(s)
    BY ScopePoint
  <1>4. Shut(s)
    BY <1>1, <1>3 DEF ScopeGoesOn, Shut
  <1>5. Behind(m, s)
    <2>1. CASE scope[s] = "CLOSED"
      BY <2>1 DEF ClosedIsEmpty, Behind, Stopped
    <2>2. ASSUME NEW t \in Tears, Removes(t), s = Head(tear[t].todo)
          PROVE  Behind(m, s)
      <3>1. PICK n : n = tear[t].at
        OBVIOUS
      <3>2. tear[t].todo # <<>> /\ Passed(n, s) /\ Concerned(n, s) = {}
        BY <2>2, <3>1 DEF Removes
      <3>3. n \in 0 .. MaxInstances
        BY <3>1, <3>2, TearIs
      <3>4. (n > 0 => Present(n) /\ home[n] = s) /\ Behind(n, s)
        BY <2>2, <3>1, <3>2 DEF TearLoop, Behind
      <3> QED BY <1>2, <3>2, <3>3, <3>4, BehindGrows
    <2> QED BY <1>1, <1>3, <2>1, <2>2 DEF ScopeGoesOn
  <1>6. /\ Present(i)' /\ home'[i] = s => disp'[i].pc = "done"
        /\ Unfinished(i, s)' = {}
    BY <1>2, <1>4, <1>5, BehindStays
  <1>7. disp'[i].pc = "done" => state'[i] \in {"DISPOSED", "FAILED"}
    BY DEF Phases
  <1> QED BY <1>6, <1>7 DEF Stopped

-----------------------------------------------------------------------------
(* Pending calls.                                                          *)

\* An instance that leaves ACTIVE leaves no call behind.
LEMMA CallsDropped ==
  ASSUME TypeOK, LifeMoves, NEW i \in Instances, state[i] = "ACTIVE",
         NEW p \in calls', i \in {p[1], p[2]}
  PROVE  state'[i] = "ACTIVE"
  <1>1. state \in [Instances -> States \union {"absent"}]
        /\ disp \in [Instances -> Disposals]
    BY DEF TypeOK
  <1>2. ASSUME NEW S \in SUBSET Instances, Ends(S)
        PROVE  state'[i] = "ACTIVE"
    <2>1. i \in S => ~Disposable(i)
      BY <1>2 DEF Ends
    <2>2. state'[i] = IF ~(i \in S /\ Disposable(i)) THEN state[i]
                      ELSE IF state[i] = "ACTIVE" THEN "QUIESCING" ELSE "FAILED"
      BY <1>2 DEF Ends
    <2> QED BY <2>1, <2>2
  <1>3. ASSUME NEW k \in Instances, DisposeDependents(k)
        PROVE  state'[i] = "ACTIVE"
    <2>1. CASE UNCHANGED state
      BY <2>1
    <2>2. ASSUME NEW S, NEW d, BeginDispose(S, d, reg, calls)
          PROVE  state'[i] = "ACTIVE"
      <3>1. PICK new : new = {j \in S : Disposable(j)}
        OBVIOUS
      <3>2. /\ i \notin new => state'[i] = state[i]
            /\ calls' = {c \in calls : c[1] \notin new /\ c[2] \notin new}
        BY <2>2, <3>1 DEF BeginDispose
      <3>3. i \notin new
        BY <3>2
      <3> QED BY <3>2, <3>3
    <2> QED BY <1>3, <2>1, <2>2 DEF DisposeDependents
  <1>4. ASSUME NEW k \in Instances, DestroyOwned(k) \/ CleanEffects(k)
        PROVE  state'[i] = "ACTIVE"
    BY <1>4 DEF DestroyOwned, CleanEffects, BeginTear
  <1>5. ASSUME NEW k \in Instances, Finish(k)
        PROVE  state'[i] = "ACTIVE"
    BY <1>1, <1>5 DEF Finish
  <1>6. ASSUME NEW k \in Instances, NEW s \in Scopes, Discover(k, s)
        PROVE  state'[i] = "ACTIVE"
    BY <1>1, <1>6 DEF Discover
  <1>7. ASSUME NEW r \in Instances, NEW a, Launches(r, a) \/ Publishes(r, a)
        PROVE  state'[i] = "ACTIVE"
    BY <1>1, <1>7 DEF Launches, Publishes, Publishable
  <1> QED BY <1>2, <1>3, <1>4, <1>5, <1>6, <1>7 DEF LifeMoves

\* What can be seen from an OPEN scope is OPEN.
LEMMA SeenIsOpen ==
  ASSUME TypeOK, Tree, NEW s, NEW o, Open(s), Visible(o, s)
  PROVE  scope[o] = "OPEN"
  <1>1. PICK way : way = {x \in Registered : scope[x] = "OPEN"}
    OBVIOUS
  <1>2. way \in SUBSET Scopes /\ s \in way
    BY <1>1, RegisteredAre DEF Open
  <1>3. \A x \in way : Lookup(parent[x]) \subseteq way
    BY <1>1 DEF Tree, Lookup
  <1>4. o \in way
    BY <1>2, <1>3 DEF Visible
  <1> QED BY <1>1, <1>4

\* Calls end with their caller, their provider and the scopes of both.
LEMMA CallsAreLiveStep ==
  ASSUME TypeOK, Tree, TreeMove, Phases, CallsAreLive, Moves
  PROVE  CallsAreLive'
  <1>1. SUFFICES ASSUME NEW p \in calls', NEW i \in {p[1], p[2]}
                 PROVE  state'[i] = "ACTIVE" /\ scope'[home'[i]] = "OPEN"
    BY DEF CallsAreLive
  <1>2. CASE p \in calls
    <2>1. i \in Instances /\ home[i] \in Scopes
      BY <1>2 DEF TypeOK
    <2>2. state[i] = "ACTIVE" /\ scope[home[i]] = "OPEN"
      BY <1>2 DEF CallsAreLive
    <2>3. state'[i] = "ACTIVE"
      BY <2>1, <2>2, CallsDropped DEF Moves
    <2>4. home'[i] = home[i]
      BY <2>1, <2>2, DisposalStays DEF Moves, Present
    <2>5. ScopeGoesOn(home[i])
      BY <2>1, ScopePoint
    <2>6. scope'[home[i]] = "OPEN"
      BY <2>2, <2>5 DEF ScopeGoesOn, Shut
    <2> QED BY <2>3, <2>4, <2>6
  <1>3. CASE Call(p[1], p[2])
    <2>1. /\ state[p[1]] = "ACTIVE" /\ state[p[2]] = "ACTIVE" /\ Open(home[p[1]])
          /\ Visible(home[p[2]], home[p[1]]) /\ UNCHANGED <<state, home, scope>>
      BY <1>3 DEF Call, Live, quiet, tree
    <2>2. scope[home[p[1]]] = "OPEN"
      BY <2>1 DEF Open
    <2>3. scope[home[p[2]]] = "OPEN"
      BY <2>1, SeenIsOpen
    <2> QED BY <2>1, <2>2, <2>3
  <1> QED BY <1>2, <1>3 DEF Moves, CallMoves

-----------------------------------------------------------------------------
(* The types of what is left: one step per action.                         *)

\* The flat variables that are not changed.
LEMMA FlatStill ==
  ASSUME FlatTypes, UNCHANGED <<reg, work, revoked, calls, outcome, trusted,
                                distrusted, closed>>
  PROVE  FlatTypes'
  BY DEF FlatTypes

\* A disposal of the members of S.
LEMMA FlatDispose ==
  ASSUME TypeOK, FlatTypes, NEW S \in SUBSET Instances, Dispose(S),
         work' \subseteq Instances,
         outcome' \in [Instances -> {"none", "pending", "ok", "failed"}],
         trusted' \in BOOLEAN, distrusted' \subseteq Instances, closed' \in BOOLEAN
  PROVE  FlatTypes'
  <1>1. /\ reg' \in [Instances -> {"none", "staged", "live", "dead"}]
        /\ calls' \subseteq Instances \X Instances /\ revoked' \subseteq Instances
    BY DisposeAll
  <1> QED BY <1>1 DEF FlatTypes

\* The beginning of a teardown.
LEMMA FlatTear ==
  ASSUME FlatTypes, NEW t, NEW id, NEW d, BeginTear(t, id, d),
         UNCHANGED <<work, outcome, trusted, distrusted>>, closed' \in BOOLEAN
  PROVE  FlatTypes'
  <1>1. revoked' \subseteq Instances
    BY DEF BeginTear, FlatTypes
  <1>2. calls' \subseteq calls /\ reg' = reg
    BY DEF BeginTear
  <1> QED BY <1>1, <1>2 DEF FlatTypes

\* A step of an activation.
LEMMA FlatActs ==
  ASSUME TypeOK, FlatTypes, Stacks, Bindings, NEW r \in Instances, ActStep(r)
  PROVE  FlatTypes'
  <1>1. Activates(r)
    BY StartSteps, ContinueSteps, LinkedSteps, ReturnedSteps, ThrewSteps,
       DisposedSteps, SettleSteps DEF ActStep
  <1>2. Leads(r) /\ UNCHANGED <<trusted, distrusted, closed>>
    BY <1>1 DEF Activates, activation
  <1>3. outcome' \in [Instances -> {"none", "pending", "ok", "failed"}]
    <2>1. CASE UNCHANGED outcome
      BY <2>1 DEF FlatTypes
    <2>2. CASE Settle(r)
      BY <2>2 DEF Settle, FlatTypes
    <2> QED BY <2>1, <2>2 DEF ActStep, Start, Continue, Linked, Returned, Threw, Disposed
  <1>4. PICK a : /\ act' = [act EXCEPT ![r] = a] /\ IsStack(a, deps')
                 /\ \/ Turns(r, a) \/ Launches(r, a) \/ Codes(r, a) \/ Publishes(r, a)
                    \/ \E S : Fails(r, a, S)
    BY <1>2 DEF Leads
  <1>5. ASSUME work' \subseteq Instances, UNCHANGED <<revoked, calls>>,
               reg' \in [Instances -> {"none", "staged", "live", "dead"}]
        PROVE  FlatTypes'
    BY <1>2, <1>3, <1>5 DEF FlatTypes
  <1>6. CASE Turns(r, a)
    <2>1. work' \subseteq Instances /\ UNCHANGED <<reg, revoked, calls>>
      <3>1. (\A i \in work' : i \in work) /\ work \subseteq Instances
        BY <1>6 DEF Turns, FlatTypes
      <3> QED BY <1>6, <3>1 DEF Turns
    <2> QED BY <1>5, <2>1 DEF FlatTypes
  <1>7. CASE Launches(r, a)
    BY <1>5, <1>7 DEF Launches, FlatTypes
  <1>8. CASE Codes(r, a)
    <2>1. Last(a) \in Frames
      BY <1>4, <1>8, StackParts DEF Codes
    <2> QED BY <1>5, <1>8, <2>1 DEF Codes, FlatTypes, Frames
  <1>9. CASE Publishes(r, a)
    <2>1. reg' \in [Instances -> {"none", "staged", "live", "dead"}]
      BY <1>9 DEF Publishes, FlatTypes
    <2>2. work' \subseteq Instances /\ UNCHANGED <<revoked, calls>>
      <3>1. (\A i \in work' : i \in work) /\ work \subseteq Instances
        BY <1>9 DEF Publishes, FlatTypes
      <3> QED BY <1>9, <3>1 DEF Publishes
    <2> QED BY <1>5, <2>1, <2>2
  <1>10. ASSUME NEW S, Fails(r, a, S)
         PROVE  FlatTypes'
    <2>1. S \in SUBSET Instances /\ Dispose(S) /\ work' \subseteq Instances
      <3>1. (\A i \in work' : i \in work) /\ work \subseteq Instances
        BY <1>10 DEF Fails, FlatTypes
      <3> QED BY <1>10, <3>1 DEF Fails
    <2>2. trusted' \in BOOLEAN /\ distrusted' \subseteq Instances /\ closed' \in BOOLEAN
      BY <1>2 DEF FlatTypes
    <2> QED BY <1>3, <2>1, <2>2, FlatDispose
  <1> QED BY <1>4, <1>6, <1>7, <1>8, <1>9, <1>10

\* The flat variables keep their types.
LEMMA FlatStep ==
  ASSUME TypeOK, Stacks, Bindings, Step
  PROVE  FlatTypes'
  <1>0. /\ FlatTypes
        /\ work \subseteq Instances /\ trusted \in BOOLEAN /\ closed \in BOOLEAN
        /\ distrusted \subseteq Instances /\ calls \subseteq Instances \X Instances
        /\ outcome \in [Instances -> {"none", "pending", "ok", "failed"}]
        /\ reg \in [Instances -> {"none", "staged", "live", "dead"}]
    BY DEF TypeOK, FlatTypes
  <1>1. ASSUME NEW i \in Instances, NEW s \in Scopes, Discover(i, s)
        PROVE  FlatTypes'
    BY <1>0, <1>1, FlatStill DEF Discover
  <1>2. ASSUME NEW i \in Instances, Unload(i) \/ Revoke(i)
        PROVE  FlatTypes'
    <2>1. /\ Dispose({i}) /\ UNCHANGED <<work, outcome, trusted, closed>>
          /\ distrusted' \subseteq Instances /\ {i} \in SUBSET Instances
      BY <1>0, <1>2 DEF Unload, Revoke
    <2> QED BY <1>0, <2>1, FlatDispose
  <1>3. ASSUME NEW r \in Instances, Activate(r)
        PROVE  FlatTypes'
    BY <1>0, <1>3 DEF Activate, activation, instances, FlatTypes
  <1>4. ASSUME NEW id \in ScopeIds, NEW s \in Scopes, NEW o \in Instances \union {0},
               CreateScope(id, s, o)
        PROVE  FlatTypes'
    BY <1>0, <1>4, FlatStill DEF CreateScope, instances
  <1>5. ASSUME NEW t \in Tears, NEW id \in ScopeIds, DestroyScope(t, id)
        PROVE  FlatTypes'
    BY <1>0, <1>5, FlatTear DEF DestroyScope
  <1>6. CASE Shutdown
    BY <1>0, <1>6, FlatTear DEF Shutdown
  <1>7. CASE TrustLapses
    BY <1>0, <1>7 DEF TrustLapses, instances, FlatTypes
  <1>8. CASE TrustTimer
    BY <1>0, <1>8, FlatDispose DEF TrustTimer
  <1>9. ASSUME NEW i \in Instances, NEW s \in Scopes,
               NEW kind \in {"provide", "plain"}, Acquire(i, s, kind)
        PROVE  FlatTypes'
    <2>1. /\ UNCHANGED <<calls, revoked, work, outcome, trusted, distrusted, closed>>
          /\ reg' = [reg EXCEPT ![i] =
               IF kind = "plain" THEN @
               ELSE IF state[i] = "ACTIVATING" THEN "staged" ELSE "live"]
      BY <1>9 DEF Acquire, quiet
    <2> QED BY <1>0, <2>1 DEF FlatTypes
  <1>10. ASSUME NEW i \in Instances, NEW e \in DOMAIN effects[i], Release(i, e)
         PROVE  FlatTypes'
    BY <1>0, <1>10, FlatStill DEF Release, quiet, instances
  <1>11. ASSUME NEW i \in Instances, NEW e \in DOMAIN effects[i], Cleaned(i, e)
         PROVE  FlatTypes'
    <2>1. UNCHANGED <<work, outcome, trusted, distrusted, closed>>
      BY <1>11 DEF Cleaned, quiet
    <2>2. CASE UNCHANGED instances
      BY <1>0, <2>1, <2>2, FlatStill DEF instances
    <2>3. CASE BeginDispose(Dependents(i), disp, [reg EXCEPT ![i] = "none"],
                            {p \in calls : p[2] # i})
      <3>1. PICK c : c = {p \in calls : p[2] # i}
        OBVIOUS
      <3>2. PICK d : d = [reg EXCEPT ![i] = "none"]
        OBVIOUS
      <3>3. PICK S : S = Dependents(i)
        OBVIOUS
      <3>4. /\ d \in [Instances -> {"none", "staged", "live", "dead"}]
            /\ \A k \in Instances : d[k] # "none" => reg[k] # "none"
        BY <1>0, <3>2
      <3>5. S \subseteq Instances /\ c \subseteq calls
        BY <3>1, <3>3 DEF Dependents
      <3>6. BeginDispose(S, disp, d, c)
        BY <2>3, <3>1, <3>2, <3>3
      <3>7. /\ reg' \in [Instances -> {"none", "staged", "live", "dead"}]
            /\ calls' \subseteq Instances \X Instances /\ revoked' \subseteq Instances
        BY <3>4, <3>5, <3>6, DisposeEnds
      <3> QED BY <1>0, <2>1, <3>7 DEF FlatTypes
    <2> QED BY <1>11, <2>2, <2>3 DEF Cleaned
  <1>12. ASSUME NEW c \in Instances, NEW p \in Instances, Call(c, p) \/ Answered(c, p)
         PROVE  FlatTypes'
    <2>1. /\ UNCHANGED <<reg, revoked, outcome, trusted, distrusted, closed>>
          /\ calls' \subseteq calls \union {<<c, p>>} /\ work' \subseteq work \union {p}
      BY <1>12 DEF Call, Answered, quiet
    <2> QED BY <1>0, <2>1 DEF FlatTypes
  <1>13. ASSUME NEW i \in Instances, WorkSettles(i)
         PROVE  FlatTypes'
    <2>1. /\ UNCHANGED <<reg, revoked, calls, outcome, trusted, distrusted, closed>>
          /\ work' \subseteq work
      BY <1>13 DEF WorkSettles, quiet, instances
    <2> QED BY <1>0, <2>1 DEF FlatTypes
  <1>14. ASSUME NEW r \in Instances, ActStep(r)
         PROVE  FlatTypes'
    BY <1>0, <1>14, FlatActs
  <1>15. ASSUME NEW i \in Instances, DisposeDependents(i)
         PROVE  FlatTypes'
    <2>1. UNCHANGED <<work, outcome, trusted, distrusted, closed>>
      BY <1>15 DEF DisposeDependents, bystanders
    <2>2. CASE UNCHANGED <<reg, calls, revoked>>
      BY <1>0, <2>1, <2>2, FlatStill
    <2>3. ASSUME NEW rest, rest # {},
                 rest = {k \in Dependents(i) : k > disp[i].at /\ Present(k)},
                 BeginDispose({Min(rest)}, [disp EXCEPT ![i].at = Min(rest)], reg, calls)
          PROVE  FlatTypes'
      <3>1. PICK k \in Instances : k = Min(rest)
        BY <2>3, NextDependent
      <3>2. PICK d : d = [disp EXCEPT ![i].at = Min(rest)]
        OBVIOUS
      <3>3. BeginDispose({k}, d, reg, calls)
        BY <2>3, <3>1, <3>2
      <3>4. /\ reg' = [j \in Instances |->
                         IF j \in {n \in {k} : Disposable(n)} /\ reg[j] # "none"
                         THEN "dead" ELSE reg[j]]
            /\ calls' \subseteq calls
            /\ revoked' = revoked \union {n \in {k} : Disposable(n)}
        BY <3>3 DEF BeginDispose
      <3>5. revoked' \subseteq Instances /\ calls' \subseteq Instances \X Instances
        BY <1>0, <3>4 DEF FlatTypes
      <3>6. reg' \in [Instances -> {"none", "staged", "live", "dead"}]
        BY <1>0, <3>4
      <3> QED BY <1>0, <2>1, <3>5, <3>6 DEF FlatTypes
    <2> QED BY <1>15, <2>2, <2>3 DEF DisposeDependents
  <1>16. ASSUME NEW i \in Instances, DestroyOwned(i)
         PROVE  FlatTypes'
    <2>1. UNCHANGED <<work, outcome, trusted, distrusted, closed>>
      BY <1>16 DEF DestroyOwned, bystanders
    <2>2. CASE UNCHANGED <<reg, calls, revoked>>
      BY <1>0, <2>1, <2>2, FlatStill
    <2>3. ASSUME NEW id, NEW d, BeginTear(i, id, d)
          PROVE  FlatTypes'
      BY <1>0, <2>1, <2>3, FlatTear
    <2> QED BY <1>16, <2>2, <2>3 DEF DestroyOwned
  <1>17. ASSUME NEW i \in Instances, CleanEffects(i) \/ Finish(i)
         PROVE  FlatTypes'
    BY <1>0, <1>17, FlatStill DEF CleanEffects, Finish, bystanders
  <1>18. ASSUME NEW t \in Tears, Tear(t)
         PROVE  FlatTypes'
    <2>1. UNCHANGED <<work, outcome, trusted, distrusted, closed>>
      BY <1>18 DEF Tear
    <2>2. CASE UNCHANGED instances
      BY <1>0, <2>1, <2>2, FlatStill DEF instances
    <2>3. ASSUME NEW C, C = Concerned(tear[t].at, Head(tear[t].todo)), C # {},
                 NEW k, k = Min(C), Dispose({k})
          PROVE  FlatTypes'
      <3>1. k \in Instances
        BY <2>3, TearStopsAt
      <3>2. {k} \in SUBSET Instances
        BY <3>1
      <3> QED BY <1>0, <2>1, <2>3, <3>2, FlatDispose
    <2> QED BY <1>18, <2>2, <2>3 DEF Tear
  <1>19. CASE ProfileStep
    <2>1. UNCHANGED <<work, trusted, distrusted, closed>>
      BY <1>19 DEF ProfileStep, waiting
    <2>2. ASSUME NEW t \in Tears \ Instances, NEW id \in ScopeIds,
                 BeginTear(t, id, disp), UNCHANGED outcome
          PROVE  FlatTypes'
      BY <1>0, <2>1, <2>2, FlatTear
    <2>3. CASE UNCHANGED <<instances, outcome>>
      BY <1>0, <2>1, <2>3, FlatStill DEF instances
    <2>4. ASSUME NEW i \in Instances, Activated(i), UNCHANGED instances
          PROVE  FlatTypes'
      BY <1>0, <2>1, <2>4 DEF Activated, instances, FlatTypes
    <2>5. ASSUME NEW i \in Instances, Dispose({i}), UNCHANGED outcome
          PROVE  FlatTypes'
      <3>1. {i} \in SUBSET Instances
        OBVIOUS
      <3> QED BY <1>0, <2>1, <2>5, <3>1, FlatDispose
    <2> QED BY <1>19, <2>2, <2>3, <2>4, <2>5 DEF ProfileStep
  <1> QED BY <1>1, <1>2, <1>3, <1>4, <1>5, <1>6, <1>7, <1>8, <1>9, <1>10, <1>11,
             <1>12, <1>13, <1>14, <1>15, <1>16, <1>17, <1>18, <1>19 DEF Step

-----------------------------------------------------------------------------
(* The inductive invariant is kept.                                        *)

\* The types are kept.
LEMMA TypeStep ==
  ASSUME TypeOK, Tree, Stacks, Bindings, Moves, TreeMove, FlatTypes',
         turn' \subseteq Coroutines
  PROVE  TypeOK'
  <1>1. InstanceTypes' /\ home' \in [Instances -> Scopes]
    BY InstancesMove DEF Moves
  <1>2. deps' \in [Instances -> SUBSET Instances]
    BY DEF Moves, Grown
  <1>3. EffectsMove
    BY EffectsDo DEF Moves
  <1>4. /\ effects' \in [Instances -> Seq(Effects)]
        /\ \A i \in Instances : Len(effects'[i]) <= MaxEffects
    BY <1>3, EffectsPoint
  <1>5. act' \in [Instances -> Seq(Frames)]
    BY StacksStep DEF Moves
  <1>6. TreeTypes'
    BY TreeTypesStep
  <1> QED BY <1>1, <1>2, <1>4, <1>5, <1>6 DEF TypeOK, InstanceTypes, TreeTypes, FlatTypes

\* Every step keeps it.
LEMMA InvStep ==
  ASSUME LifecycleInv, Step, turn' \subseteq Coroutines
  PROVE  LifecycleInv'
  <1>1. /\ TypeOK /\ Tree /\ Phases /\ Stacks /\ Starts /\ Bindings /\ OwnedLeft
        /\ Cleanups /\ TearLoop
        /\ DependentsFollow /\ CallsAreLive /\ CleanedInReverse /\ ClosedIsEmpty
    BY DEF LifecycleInv
  <1>2. Moves
    BY <1>1, StepMoves
  <1>3. TreeMove
    BY <1>1, <1>2, TreeDoes DEF Moves
  <1>4. FlatTypes'
    BY <1>1, FlatStep
  <1>5. TypeOK'
    BY <1>1, <1>2, <1>3, <1>4, TypeStep
  <1>6. Tree' /\ Phases' /\ Stacks'
    BY <1>1, <1>2, <1>3, TreeStep, PhasesStep, StacksStep DEF Moves
  <1>7. Starts' /\ Bindings' /\ OwnedLeft'
    BY <1>1, <1>2, <1>3, StartsStep, BindingsStep, OwnedLeftStep
  <1>8. Cleanups' /\ TearLoop'
    BY <1>1, <1>2, <1>3, CleanupsStep, TearLoopStep
  <1>9. DependentsFollow' /\ CallsAreLive' /\ CleanedInReverse' /\ ClosedIsEmpty'
    BY <1>1, <1>2, <1>3, <1>6, DependentsFollowStep, CallsAreLiveStep,
       CleanedInReverseStep, ClosedIsEmptyStep
  <1> QED BY <1>5, <1>6, <1>7, <1>8, <1>9 DEF LifecycleInv

\* Coroutines that run on are coroutines.
LEMMA TurnTypes ==
  ASSUME TypeOK, NEW S, S \subseteq Coroutines, Handover(S)
  PROVE  turn' \subseteq Coroutines
  <1>1. turn \subseteq Coroutines
    BY DEF TypeOK
  <1>2. PICK begun : begun = {i \in Instances :
                                disp[i].pc = "none" /\ disp'[i].pc # "none"}
    OBVIOUS
  <1>3. {"disp"} \X begun \subseteq Coroutines
    BY <1>2 DEF Coroutines
  <1>4. turn' \subseteq turn \union S \union ({"disp"} \X begun)
    BY <1>2 DEF Handover
  <1> QED BY <1>1, <1>3, <1>4

\* A coroutine of an instance, of an activation by the operator, of a scope.
LEMMA CoroutinesAre ==
  /\ \A i \in Instances : {<<"act", i>>} \subseteq Coroutines
  /\ \A i \in Instances : {<<"disp", i>>, <<"tear", i>>} \subseteq Coroutines
  /\ \A t \in Tears : {<<"tear", t>>} \subseteq Coroutines
  /\ ({"act"} \X Roots) \union ({"tear"} \X Tears) \subseteq Coroutines
  /\ \A S \in SUBSET Instances : {"act"} \X S \subseteq Coroutines
  <1>1. \A i \in Instances : i \in Tears
    BY LifecycleAssumption DEF Instances, Tears
  <1>2. Roots \subseteq Instances
    BY LifecycleAssumption
  <1> QED BY <1>1, <1>2 DEF Coroutines

\* Next is made of these steps.
LEMMA NextSteps ==
  ASSUME TypeOK, Next
  PROVE  Step /\ turn' \subseteq Coroutines
  <1>1. CASE Event
    <2>1. Operator \/ Plugin \/ TrustLapses \/ TrustTimer
      BY <1>1 DEF Event
    <2>2. Operator => Step
      BY DEF Operator, Step
    <2>3. Plugin => Step
      BY DEF Plugin, Step
    <2>4. Step
      BY <2>1, <2>2, <2>3 DEF Step
    <2>5. turn' \subseteq Coroutines
      BY <1>1, CoroutinesAre, TurnTypes DEF Event
    <2> QED BY <2>4, <2>5
  <1>2. ASSUME NEW i \in Instances, Activating(i)
        PROVE  Step /\ turn' \subseteq Coroutines
    <2>1. ActStep(i)
      BY <1>2 DEF Activating, ActStep
    <2>2. turn' \subseteq Coroutines
      BY <1>2, CoroutinesAre, TurnTypes DEF Activating
    <2> QED BY <2>1, <2>2 DEF Step
  <1>3. ASSUME NEW i \in Instances, Disposing(i)
        PROVE  Step /\ turn' \subseteq Coroutines
    <2>1. turn' \subseteq Coroutines
      BY <1>3, CoroutinesAre, TurnTypes DEF Disposing
    <2> QED BY <1>3, <2>1 DEF Disposing, Step
  <1>4. ASSUME NEW i \in Instances, Settling(i)
        PROVE  Step /\ turn' \subseteq Coroutines
    <2>1. turn' \subseteq Coroutines
      BY <1>4, TurnTypes DEF Settling
    <2> QED BY <1>4, <2>1 DEF Settling, Step
  <1>5. ASSUME NEW t \in Tears, Tearing(t)
        PROVE  Step /\ turn' \subseteq Coroutines
    <2>1. turn' \subseteq Coroutines
      BY <1>5, CoroutinesAre, TurnTypes DEF Tearing
    <2> QED BY <1>5, <2>1 DEF Tearing, Step
  <1> QED BY <1>1, <1>2, <1>3, <1>4, <1>5 DEF Next

\* So is a step in which nothing happens.
LEMMA StutterSteps ==
  ASSUME TypeOK, UNCHANGED vars
  PROVE  Step /\ turn' \subseteq Coroutines
  <1>1. ProfileStep
    BY DEF vars, instances, tree, waiting, ProfileStep
  <1>2. turn' \subseteq Coroutines
    BY DEF vars, TypeOK
  <1> QED BY <1>1, <1>2 DEF Step

\* The invariant holds when the constructor has returned.
LEMMA InitInv ==
  ASSUME Init
  PROVE  LifecycleInv
  <1>1. PICK root : root = <<Root, 1>>
    OBVIOUS
  <1>2. /\ MaxInstances \in Nat /\ MaxGeneration \in Nat /\ 1 \in 1 .. MaxGeneration
        /\ MaxEffects \in Nat /\ root \in Scopes /\ Root \in ScopeIds
    BY <1>1, LifecycleAssumption DEF Scopes
  <1>3. /\ table = <<root>> /\ table \in Seq(Scopes) /\ Registered = {root}
    <2>1. table = <<root>>
      BY <1>1 DEF Init
    <2>2. DOMAIN table = {1} /\ table[1] = root /\ table \in Seq(Scopes)
      BY <1>2, <2>1
    <2> QED BY <2>1, <2>2 DEF Registered
  <1>4. /\ \A i \in Instances : /\ state[i] = "absent" /\ disp[i] = Idle
                                /\ effects[i] = <<>> /\ deps[i] = {} /\ act[i] = <<>>
                                /\ reg[i] = "none"
        /\ \A t \in Tears : tear[t] = NoTear
        /\ work = {} /\ calls = {}
    BY DEF Init
  <1>5. /\ \A s \in Scopes : scope[s] = IF s = root THEN "OPEN" ELSE "none"
        /\ \A s \in Scopes : parent[s] = "none"
        /\ generation[Root] = 1
    BY <1>1, <1>2 DEF Init
  <1>6. Idle \in Disposals /\ NoTear \in Teardowns
    BY <1>2, EmptySeq DEF Idle, Disposals, NoTear, Teardowns
  <1>7. TypeOK
    <2>1. /\ state \in [Instances -> States \union {"absent"}]
          /\ home \in [Instances -> Scopes]
          /\ deps \in [Instances -> SUBSET Instances]
          /\ reg \in [Instances -> {"none", "staged", "live", "dead"}]
          /\ outcome \in [Instances -> {"none", "pending", "ok", "failed"}]
      BY <1>1, <1>2 DEF Init
    <2>2. effects \in [Instances -> Seq(Effects)] /\ act \in [Instances -> Seq(Frames)]
      BY EmptySeq DEF Init
    <2>3. \A i \in Instances : Len(effects[i]) <= MaxEffects
      BY <1>2, <1>4, EmptySeq
    <2>4. /\ scope \in [Scopes -> {"none", "OPEN", "CLOSING", "CLOSED"}]
          /\ parent \in [Scopes -> ScopeIds \union {"none"}]
          /\ owner \in [Scopes -> Instances \union {0}]
      BY DEF Init
    <2>5. generation \in [ScopeIds -> 0 .. MaxGeneration]
      <3>1. 0 \in 0 .. MaxGeneration /\ 1 \in 0 .. MaxGeneration
        BY <1>2
      <3> QED BY <3>1 DEF Init
    <2>6. disp \in [Instances -> Disposals] /\ tear \in [Tears -> Teardowns]
      BY <1>6 DEF Init
    <2>7. /\ work \subseteq Instances /\ revoked \subseteq Instances
          /\ calls \subseteq Instances \X Instances
          /\ trusted \in BOOLEAN /\ distrusted \subseteq Instances
          /\ closed \in BOOLEAN /\ turn \subseteq Coroutines
      BY DEF Init
    <2> QED BY <1>3, <2>1, <2>2, <2>3, <2>4, <2>5, <2>6, <2>7 DEF TypeOK
  <1>8. Tree
    <2>1. \A s \in Scopes : scope[s] # "none" => s[2] <= generation[s[1]]
      BY <1>1, <1>5
    <2>2. \A t \in Tears : ToSet(tear[t].todo) = {}
      BY <1>4 DEF NoTear, ToSet
    <2>3. \A s, o \in Registered : scope[s] = "OPEN" /\ scope[o] = "OPEN"
      BY <1>2, <1>3, <1>5
    <2> QED BY <1>3, <2>1, <2>2, <2>3 DEF Tree
  <1>9. Phases
    BY <1>4 DEF Phases, Idle, Early
  <1>10. Stacks
    BY <1>4, StackIsOver DEF Stacks
  <1>11. Starts
    BY <1>4 DEF Starts, Launched
  <1>12. Bindings
    BY <1>4 DEF Bindings, Idle
  <1>13. OwnedLeft
    BY <1>4 DEF OwnedLeft, Idle
  <1>14. Cleanups
    BY <1>4 DEF Cleanups, Idle, Left
  <1>15. TearLoop
    BY <1>4 DEF TearLoop, NoTear
  <1>16. DependentsFollow /\ CallsAreLive /\ CleanedInReverse
    BY <1>4 DEF DependentsFollow, CallsAreLive, CleanedInReverse
  <1>17. ClosedIsEmpty
    BY <1>5 DEF ClosedIsEmpty
  <1> QED BY <1>7, <1>8, <1>9, <1>10, <1>11, <1>12, <1>13, <1>14, <1>15, <1>16, <1>17
        DEF LifecycleInv

-----------------------------------------------------------------------------
(* The theorems.                                                           *)

\* The invariant is inductive: whatever activations, disposals, teardowns,
\* plugins and operators do in between (Host).
THEOREM LifecycleInvariant == Spec => []LifecycleInv
  <1>1. Init => LifecycleInv
    BY InitInv
  <1>2. LifecycleInv /\ [Next]_vars => LifecycleInv'
    <2> SUFFICES ASSUME LifecycleInv, [Next]_vars
                 PROVE  LifecycleInv'
      OBVIOUS
    <2>1. TypeOK
      BY DEF LifecycleInv
    <2> QED BY <2>1, InvStep, NextSteps, StutterSteps
  <1> QED BY <1>1, <1>2, PTL DEF Spec

\* DISPOSED is reported only after complete cleanup (dispose).
LEMMA CleanWhenDisposed ==
  ASSUME LifecycleInv
  PROVE  DisposedIsClean
  <1>1. TypeOK /\ Phases /\ Starts /\ OwnedLeft /\ Cleanups /\ CallsAreLive
    BY DEF LifecycleInv
  <1>2. ASSUME NEW i \in Instances, state[i] = "DISPOSED"
        PROVE  /\ \A e \in DOMAIN effects[i] : effects[i][e].task = "cleaned"
               /\ i \notin work /\ reg[i] = "none"
               /\ \A p \in calls : i \notin {p[1], p[2]}
               /\ \A s \in Registered : owner[s] # i
    <2>1. disp[i].pc = "done"
      BY <1>1, <1>2 DEF Phases
    <2>2. \A e \in DOMAIN effects[i] : effects[i][e].task = "cleaned"
      BY <1>1, <1>2 DEF Cleanups
    <2>3. i \notin work
      BY <1>1, <1>2 DEF Starts
    <2>4. reg[i] = "none"
      BY <1>1, <2>1 DEF Cleanups
    <2>5. \A p \in calls : i \notin {p[1], p[2]}
      BY <1>1, <1>2 DEF CallsAreLive
    <2>6. \A s \in Registered : owner[s] # i
      BY <1>1, <2>1 DEF OwnedLeft
    <2> QED BY <2>2, <2>3, <2>4, <2>5, <2>6
  <1> QED BY <1>1, <1>2 DEF DisposedIsClean

\* An instance that is DISPOSED has nothing left: no effect, no work, no
\* registration, no call and no scope (dispose).
THEOREM DisposedMeansClean == Spec => []DisposedIsClean
  BY LifecycleInvariant, CleanWhenDisposed, PTL

\* No ACTIVE instance depends on one that is gone (activateTree, dispose).
THEOREM ProvidersOutliveDependents == Spec => []DependentsFollow
  <1>1. LifecycleInv => DependentsFollow
    BY DEF LifecycleInv
  <1> QED BY <1>1, LifecycleInvariant, PTL

\* The host cleans the effects of a scope in reverse order (dispose,
\* destroyScope, clean).
THEOREM CleanupIsReversed == Spec => []CleanedInReverse
  <1>1. LifecycleInv => CleanedInReverse
    BY DEF LifecycleInv
  <1> QED BY <1>1, LifecycleInvariant, PTL

\* A CLOSED scope holds no instance and no effect (destroyScope).
THEOREM ClosedScopesAreEmpty == Spec => []ClosedIsEmpty
  <1>1. LifecycleInv => ClosedIsEmpty
    BY DEF LifecycleInv
  <1> QED BY <1>1, LifecycleInvariant, PTL

-----------------------------------------------------------------------------
(* Profiles.                                                               *)

\* The plan: its instances were discovered, it holds all plugins.
Planned ==
  /\ profile \in ProfileStates
  /\ profile.pc # "none" =>
       /\ Ids = ToSet(Plugins) /\ Len(profile.order) = Cardinality(Ids)
       /\ \A k \in DOMAIN profile.order :
            \A d \in ToSet(Requires[profile.order[k]]) :
              \E j \in 1 .. k - 1 : profile.order[j] = d
       /\ \A k \in DOMAIN profile.order : Present(profile.order[k])

\* startProfile() is at an instance of the plan, or at a scope of the profile;
\* when it takes the profile down it has waited for all instances after that.
Undone ==
  /\ profile.pc \in {"activating", "disposing"} => profile.at \in DOMAIN profile.order
  /\ profile.pc = "closing" => profile.at \in 0 .. Len(ProfileScopes)
  /\ profile.pc = "disposing" =>
       \A k \in DOMAIN profile.order :
         k > profile.at => disp[profile.order[k]].pc = "done"
  /\ profile.pc \in {"closing", "failed"} =>
       \A k \in DOMAIN profile.order : disp[profile.order[k]].pc = "done"

ProfilesInv == LifecycleInv /\ Planned /\ Undone

\* The instances of a plan.
LEMMA OrderIs ==
  ASSUME Planned
  PROVE  /\ Len(profile.order) \in Nat /\ DOMAIN profile.order = 1 .. Len(profile.order)
         /\ \A k \in DOMAIN profile.order : profile.order[k] \in Instances
         /\ profile.at \in Nat
  <1>1. profile.order \in Seq(Instances) /\ profile.at \in Nat
    BY DEF Planned, ProfileStates
  <1> QED BY <1>1, SeqParts

\* Steps of others leave the plan as it is, and what was disposed stays so.
LEMMA PlanStays ==
  ASSUME TypeOK, LifeMoves, Planned, Undone, UNCHANGED profile
  PROVE  Planned' /\ Undone'
  <1>1. \A k \in DOMAIN profile.order :
          /\ Present(profile.order[k]) => Present(profile.order[k])'
          /\ disp[profile.order[k]].pc = "done" => disp'[profile.order[k]].pc = "done"
    BY OrderIs, DisposalStays
  <1>2. PICK order : order = profile.order /\ order = profile'.order
    OBVIOUS
  <1>3. /\ \A k \in DOMAIN order : Present(order[k]) => Present(order[k])'
        /\ \A k \in DOMAIN order :
             disp[order[k]].pc = "done" => disp'[order[k]].pc = "done"
    BY <1>1, <1>2 DEF Present
  <1>4. profile'.pc = profile.pc /\ profile'.at = profile.at /\ Ids' = Ids
    BY DEF Ids
  <1>5. Planned'
    <2>1. profile' \in ProfileStates
      BY DEF Planned
    <2>2. ASSUME profile.pc # "none"
          PROVE  /\ Ids = ToSet(Plugins) /\ Len(order) = Cardinality(Ids)
                 /\ \A k \in DOMAIN order : \A d \in ToSet(Requires[order[k]]) :
                      \E j \in 1 .. k - 1 : order[j] = d
                 /\ \A k \in DOMAIN order : Present(order[k])
      BY <1>2, <2>2 DEF Planned
    <2>3. profile.pc # "none" => \A k \in DOMAIN order : Present(order[k])'
      BY <1>3, <2>2
    <2> QED BY <1>2, <1>4, <2>1, <2>2, <2>3 DEF Planned
  <1>6. Undone'
    <2>1. /\ profile.pc \in {"activating", "disposing"} => profile.at \in DOMAIN order
          /\ profile.pc = "closing" => profile.at \in 0 .. Len(ProfileScopes)
      BY <1>2 DEF Undone
    <2>2. profile.pc = "disposing" =>
            \A k \in DOMAIN order : k > profile.at => disp'[order[k]].pc = "done"
      BY <1>2, <1>3 DEF Undone
    <2>3. profile.pc \in {"closing", "failed"} =>
            \A k \in DOMAIN order : disp'[order[k]].pc = "done"
      BY <1>2, <1>3 DEF Undone
    <2> QED BY <1>2, <1>4, <2>1, <2>2, <2>3 DEF Undone
  <1> QED BY <1>5, <1>6

\* startProfile() up to its first await is such a step.
LEMMA StartProfileSteps ==
  ASSUME PlanIsSound, LifecycleInv, StartProfile
  PROVE  Step /\ turn' \subseteq Coroutines /\ Planned' /\ Undone'
  <1>1. PICK order : order = Order(Plugins)
    OBVIOUS
  <1>2. /\ \A i \in ToSet(Plugins) :
             /\ Present(i) /\ i \notin Needs(i)
             /\ \A d \in ToSet(Requires[i]) : d \in ToSet(Plugins)
        /\ Plugins # <<>> /\ UNCHANGED <<home, deps, effects, work, tear, trusted,
                                         distrusted, closed>>
        /\ Handover({<<"act", order[1]>>})
    BY <1>1 DEF StartProfile, Plannable
  <1>3. /\ order \in Seq(Instances) /\ ToSet(order) = ToSet(Plugins)
        /\ Len(order) = Cardinality(ToSet(order))
        /\ \A k \in DOMAIN order : \A d \in ToSet(Requires[order[k]]) :
             \E j \in 1 .. k - 1 : order[j] = d
    BY <1>1, <1>2 DEF PlanIsSound
  <1>4. /\ Len(order) \in Nat /\ DOMAIN order = 1 .. Len(order)
        /\ \A k \in DOMAIN order : order[k] \in Instances
    BY <1>3, SeqParts
  <1>5. ToSet(Plugins) # {}
    <2>1. Plugins \in Seq(Instances) /\ Plugins # <<>>
      BY <1>2, ProfilesAssumption
    <2>2. Len(Plugins) \in Nat /\ Len(Plugins) # 0 /\ DOMAIN Plugins = 1 .. Len(Plugins)
      BY <2>1, SeqParts
    <2>3. 1 \in DOMAIN Plugins
      BY <2>2
    <2> QED BY <2>3 DEF ToSet
  <1>6. 1 \in DOMAIN order /\ Len(order) \in DOMAIN order
    <2>1. DOMAIN order # {}
      BY <1>3, <1>5 DEF ToSet
    <2> QED BY <1>4, <2>1
  <1>7. order[1] \in Instances /\ order[Len(order)] \in Instances
    BY <1>4, <1>6
  <1>8. TypeOK
    BY DEF LifecycleInv
  <1>9. turn' \subseteq Coroutines
    BY <1>2, <1>7, <1>8, CoroutinesAre, TurnTypes
  <1>10. PICK m \in Nat : m = Len(ProfileScopes)
    BY ProfilesAssumption, SeqParts
  <1>11. \/ /\ ScopesCreated(m) /\ Activated(order[1]) /\ UNCHANGED instances
            /\ profile' = [pc |-> "activating", order |-> order, at |-> 1]
         \/ /\ \E n \in 0 .. m : ScopesCreated(n)
            /\ Dispose({order[Len(order)]}) /\ UNCHANGED <<outcome, act>>
            /\ profile' = [pc |-> "disposing", order |-> order, at |-> Len(order)]
    BY <1>1, <1>10 DEF StartProfile
  <1>12. ProfileStep
    <2>1. m \in 0 .. Len(ProfileScopes) /\ UNCHANGED waiting /\ UNCHANGED tear
      BY <1>2, <1>10 DEF waiting
    <2> QED BY <1>7, <1>10, <1>11, <2>1 DEF ProfileStep
  <1>13. Step
    BY <1>12 DEF Step
  <1>14. /\ profile'.order = order /\ profile' \in ProfileStates
         /\ profile'.pc \in {"activating", "disposing"} /\ profile'.at \in DOMAIN order
         /\ profile'.pc = "disposing" => profile'.at = Len(order)
    BY <1>3, <1>4, <1>6, <1>11 DEF ProfileStates
  <1>15. \A k \in DOMAIN order : Present(order[k])'
    <2>1. \A k \in DOMAIN order : Present(order[k])
      BY <1>2, <1>3 DEF ToSet
    <2>2. LifeMoves
      BY <1>8, <1>13, StepMoves DEF LifecycleInv, Moves
    <2> QED BY <1>4, <1>8, <2>1, <2>2, DisposalStays
  <1>16. Planned'
    BY <1>3, <1>14, <1>15 DEF Planned, Ids
  <1>17. \A k \in DOMAIN order : ~(k > Len(order))
    BY <1>4
  <1>18. Undone'
    BY <1>14, <1>17 DEF Undone
  <1> QED BY <1>9, <1>13, <1>16, <1>18

\* So are the later segments of startProfile().
LEMMA ProfileSteps ==
  ASSUME LifecycleInv, Planned, Undone, Profile
  PROVE  Step /\ turn' \subseteq Coroutines /\ Planned' /\ Undone'
  <1>1. TypeOK /\ Phases
    BY DEF LifecycleInv
  <1>2. PICK order : order = profile.order
    OBVIOUS
  <1>3. PICK n \in Nat : n = Len(order)
    BY <1>2, OrderIs
  <1>4. /\ DOMAIN order = 1 .. n /\ \A k \in 1 .. n : order[k] \in Instances
        /\ profile.at \in Nat
    BY <1>2, <1>3, OrderIs
  <1>5. profile \in ProfileStates /\ order \in Seq(Instances)
    BY <1>2 DEF Planned, ProfileStates
  <1>6. profile.pc # "none" =>
          /\ Ids = ToSet(Plugins) /\ n = Cardinality(Ids)
          /\ \A k \in 1 .. n : \A d \in ToSet(Requires[order[k]]) :
               \E j \in 1 .. k - 1 : order[j] = d
          /\ \A k \in 1 .. n : Present(order[k])
    <2>1. ASSUME profile.pc # "none"
          PROVE  Ids = ToSet(Plugins) /\ n = Cardinality(Ids)
      BY <1>2, <1>3, <2>1 DEF Planned
    <2>2. ASSUME profile.pc # "none", NEW k \in 1 .. n
          PROVE  Present(order[k])
      BY <1>2, <1>4, <2>2 DEF Planned
    <2>3. ASSUME profile.pc # "none", NEW k \in 1 .. n,
                 NEW d \in ToSet(Requires[order[k]])
          PROVE  \E j \in 1 .. k - 1 : order[j] = d
      BY <1>2, <1>4, <2>3 DEF Planned
    <2> QED BY <2>1, <2>2, <2>3
  <1>7. ASSUME Step, profile.pc # "none", profile' \in ProfileStates,
               profile'.order = order
        PROVE  /\ Planned'
               /\ \A k \in 1 .. n : disp[order[k]].pc = "done" => disp'[order[k]].pc = "done"
    <2>1. LifeMoves
      BY <1>1, <1>7, StepMoves DEF LifecycleInv, Moves
    <2>2. \A k \in 1 .. n : Present(order[k])'
      BY <1>1, <1>4, <1>6, <1>7, <2>1, DisposalStays
    <2>3. \A k \in 1 .. n : disp[order[k]].pc = "done" => disp'[order[k]].pc = "done"
      BY <1>1, <1>4, <2>1, DisposalStays
    <2>4. Ids' = Ids
      BY <1>2, <1>7 DEF Ids
    <2>5. Planned'
      <3>1. Ids' = ToSet(Plugins) /\ Len(order) = Cardinality(Ids')
        BY <1>3, <1>6, <1>7, <2>4
      <3>2. \A k \in DOMAIN order : \A d \in ToSet(Requires[order[k]]) :
              \E j \in 1 .. k - 1 : order[j] = d
        BY <1>4, <1>6, <1>7
      <3>3. \A k \in DOMAIN order : Present(order[k])'
        BY <1>4, <2>2
      <3> QED BY <1>7, <3>1, <3>2, <3>3 DEF Planned
    <2> QED BY <2>3, <2>5
  <1>8. CASE ProfileGoesOn
    <2>1. /\ profile.pc = "activating" /\ UNCHANGED <<instances, tree, tear, waiting>>
          /\ Handover({"act"} \X Ids)
          /\ IF profile.at < n
             THEN /\ Activated(order[profile.at + 1])
                  /\ profile' = [profile EXCEPT !.at = @ + 1]
             ELSE /\ profile' = [profile EXCEPT !.pc = "done"]
                  /\ UNCHANGED <<outcome, act>>
      BY <1>2, <1>3, <1>8 DEF ProfileGoesOn
    <2>2. profile.at \in 1 .. n
      BY <1>2, <1>4, <2>1 DEF Undone
    <2>3. profile.at < n => order[profile.at + 1] \in Instances
      BY <1>4, <2>2
    <2>4. Step
      BY <2>1, <2>3 DEF Step, ProfileStep
    <2>5. Ids \in SUBSET Instances
      BY <1>2, <1>4 DEF Ids, ToSet
    <2>6. turn' \subseteq Coroutines
      BY <1>1, <2>1, <2>5, CoroutinesAre, TurnTypes
    <2>7. /\ profile' \in ProfileStates /\ profile'.order = order
          /\ \/ profile'.pc = "activating" /\ profile'.at \in 1 .. n
             \/ profile'.pc = "done"
      BY <1>2, <1>3, <1>5, <2>1, <2>2 DEF ProfileStates
    <2> QED BY <1>4, <1>7, <2>1, <2>4, <2>6, <2>7 DEF Undone
  <1>9. CASE ProfileFails
    <2>1. /\ profile.pc = "activating" /\ Dispose({order[n]})
          /\ profile' = [profile EXCEPT !.pc = "disposing", !.at = n]
          /\ UNCHANGED <<tree, tear, act, outcome, waiting>> /\ Handover({})
      BY <1>2, <1>3, <1>9 DEF ProfileFails, UndoFrom
    <2>2. profile.at \in 1 .. n
      BY <1>2, <1>4, <2>1 DEF Undone
    <2>3. n \in 1 .. n /\ order[n] \in Instances
      BY <1>3, <1>4, <2>2
    <2>4. Step
      BY <2>1, <2>3 DEF Step, ProfileStep
    <2>5. turn' \subseteq Coroutines
      BY <1>1, <2>1, TurnTypes
    <2>6. /\ profile' \in ProfileStates /\ profile'.order = order
          /\ profile'.pc = "disposing" /\ profile'.at = n
      BY <1>2, <1>3, <1>5, <2>1 DEF ProfileStates
    <2>7. \A k \in 1 .. n : ~(k > n)
      BY <1>3
    <2> QED BY <1>4, <1>7, <2>1, <2>3, <2>4, <2>5, <2>6, <2>7 DEF Undone
  <1>10. CASE ProfileDisposes
    <2>1. /\ profile.pc = "disposing" /\ IsOver(order[profile.at])
          /\ IF profile.at > 1
             THEN /\ Dispose({order[profile.at - 1]})
                  /\ profile' = [profile EXCEPT !.at = @ - 1]
             ELSE /\ UNCHANGED instances
                  /\ profile' = [profile EXCEPT !.pc = "closing",
                                                !.at = Len(ProfileScopes)]
          /\ UNCHANGED <<tree, tear, act, outcome, waiting>> /\ Handover({})
      BY <1>2, <1>10 DEF ProfileDisposes
    <2>2. /\ profile.at \in 1 .. n
          /\ \A k \in 1 .. n : k > profile.at => disp[order[k]].pc = "done"
      BY <1>2, <1>4, <2>1 DEF Undone
    <2>3. disp[order[profile.at]].pc = "done"
      <3>1. PICK i \in Instances : i = order[profile.at]
        BY <1>4, <2>2
      <3>2. Present(i)
        BY <1>6, <2>1, <2>2, <3>1
      <3>3. disp[i].pc = "none" => state[i] \in Early
        BY <1>1 DEF Phases
      <3>4. disp[i].pc = "none" => Disposable(i)
        BY <3>2, <3>3 DEF Disposable, Present, Early
      <3> QED BY <2>1, <3>1, <3>4 DEF IsOver
    <2>4. profile.at > 1 => order[profile.at - 1] \in Instances
      BY <1>4, <2>2
    <2>5. Step
      BY <2>1, <2>4 DEF Step, ProfileStep
    <2>6. turn' \subseteq Coroutines
      BY <1>1, <2>1, TurnTypes
    <2>7. PICK m \in Nat : m = Len(ProfileScopes)
      BY ProfilesAssumption, SeqParts
    <2>8. /\ profile' \in ProfileStates /\ profile'.order = order
          /\ \/ /\ profile'.pc = "disposing" /\ profile'.at = profile.at - 1
                /\ profile'.at \in 1 .. n
             \/ /\ profile'.pc = "closing" /\ profile'.at = m /\ profile.at = 1
      <3>1. CASE profile.at > 1
        <4>1. profile' = [profile EXCEPT !.at = profile.at - 1]
          BY <2>1, <3>1
        <4>2. profile.at - 1 \in 1 .. n /\ profile.at - 1 \in Nat
          BY <2>2, <3>1
        <4> QED BY <1>2, <1>5, <2>1, <4>1, <4>2 DEF ProfileStates
      <3>2. CASE ~(profile.at > 1)
        <4>1. profile' = [profile EXCEPT !.pc = "closing", !.at = m] /\ profile.at = 1
          BY <2>1, <2>2, <2>7, <3>2
        <4> QED BY <1>2, <1>5, <2>7, <4>1 DEF ProfileStates
      <3> QED BY <3>1, <3>2
    <2>9. \A k \in 1 .. n : k > profile.at - 1 => k > profile.at \/ k = profile.at
      BY <1>3, <1>4
    <2>10. \A k \in 1 .. n : k > profile.at - 1 => disp'[order[k]].pc = "done"
      BY <1>7, <2>1, <2>2, <2>3, <2>5, <2>8, <2>9
    <2>11. Planned'
      BY <1>7, <2>1, <2>5, <2>8
    <2>12. Undone'
      <3>1. CASE profile'.pc = "disposing"
        BY <1>4, <2>8, <2>10, <3>1 DEF Undone
      <3>2. CASE profile'.pc = "closing"
        <4>1. \A k \in 1 .. n : k > 1 - 1
          BY <1>3
        <4> QED BY <1>4, <2>7, <2>8, <2>10, <3>2, <4>1 DEF Undone
      <3> QED BY <2>8, <3>1, <3>2
    <2> QED BY <2>5, <2>6, <2>11, <2>12
  <1>11. CASE ProfileCloses
    <2>1. PICK t : t = MaxInstances + Operators
      OBVIOUS
    <2>2. PICK m \in Nat : m = Len(ProfileScopes)
      BY ProfilesAssumption, SeqParts
    <2>3. /\ profile.pc = "closing" /\ UNCHANGED <<act, outcome, waiting>>
          /\ Handover({<<"tear", t>>})
          /\ IF profile.at > 0
             THEN /\ profile' = [profile EXCEPT !.at = @ - 1]
                  /\ \/ BeginTear(t, ProfileScopes[profile.at], disp)
                     \/ UNCHANGED <<instances, tree, tear>>
             ELSE /\ profile' = [profile EXCEPT !.pc = "failed"]
                  /\ UNCHANGED <<instances, tree, tear>>
      BY <1>11, <2>1 DEF ProfileCloses
    <2>4. /\ profile.at \in 0 .. m
          /\ \A k \in 1 .. n : disp[order[k]].pc = "done"
      BY <1>2, <1>4, <2>2, <2>3 DEF Undone
    <2>5. t \in Tears
      BY <2>1, LifecycleAssumption DEF Tears
    <2>6. ASSUME profile.at > 0
          PROVE  t \in Tears \ Instances /\ ProfileScopes[profile.at] \in ScopeIds
      <3>1. profile.at \in 1 .. m
        BY <2>4, <2>6
      <3>2. /\ ProfileScopes \in Seq(ScopeIds \ {Root}) /\ ProfileScopes # <<>>
            /\ DOMAIN ProfileScopes = 1 .. m
        BY <2>2, <3>1, ProfilesAssumption, SeqParts
      <3>3. Operators > 0
        BY <3>2, ProfilesAssumption
      <3>4. t \notin Instances
        BY <2>1, <3>3, LifecycleAssumption DEF Instances
      <3>5. ProfileScopes[profile.at] \in ScopeIds
        BY <3>1, <3>2, SeqParts
      <3> QED BY <2>5, <3>4, <3>5
    <2>7. Step
      <3>1. CASE UNCHANGED <<instances, tree, tear>>
        BY <2>3, <3>1 DEF Step, ProfileStep
      <3>2. CASE profile.at > 0 /\ BeginTear(t, ProfileScopes[profile.at], disp)
        BY <2>3, <2>6, <3>2 DEF Step, ProfileStep
      <3> QED BY <2>3, <3>1, <3>2
    <2>8. turn' \subseteq Coroutines
      BY <1>1, <2>3, <2>5, CoroutinesAre, TurnTypes
    <2>9. /\ profile' \in ProfileStates /\ profile'.order = order
          /\ profile'.pc \in {"closing", "failed"} /\ profile'.at \in 0 .. m
      BY <1>2, <1>5, <2>2, <2>3, <2>4 DEF ProfileStates
    <2>10. Planned' /\ \A k \in 1 .. n : disp'[order[k]].pc = "done"
      BY <1>7, <2>3, <2>4, <2>7, <2>9
    <2>11. Undone'
      BY <1>4, <2>2, <2>9, <2>10 DEF Undone
    <2> QED BY <2>7, <2>8, <2>10, <2>11
  <1> QED BY <1>8, <1>9, <1>10, <1>11 DEF Profile

\* With profiles the invariant of the instances is inductive as well, and the
\* plan is followed to its end (Host.startProfile).
THEOREM ProfilesInvariant ==
  ASSUME PlanIsSound
  PROVE  ProfilesSpec => []ProfilesInv
  <1>1. ProfilesInit => ProfilesInv
    BY InitInv, EmptySeq DEF ProfilesInit, ProfilesInv, Planned, Undone, ProfileStates
  <1>2. ProfilesInv /\ [ProfilesNext]_profileVars => ProfilesInv'
    <2> SUFFICES ASSUME ProfilesInv, [ProfilesNext]_profileVars
                 PROVE  ProfilesInv'
      OBVIOUS
    <2>1. /\ LifecycleInv /\ Planned /\ Undone
          /\ TypeOK /\ Stacks /\ Bindings
      BY DEF ProfilesInv, LifecycleInv
    <2>2. ASSUME Step, turn' \subseteq Coroutines, UNCHANGED profile
          PROVE  ProfilesInv'
      BY <2>1, <2>2, InvStep, StepMoves, PlanStays DEF Moves, ProfilesInv
    <2>3. CASE Next /\ UNCHANGED profile
      BY <2>1, <2>2, <2>3, NextSteps
    <2>4. CASE UNCHANGED profileVars
      BY <2>1, <2>2, <2>4, StutterSteps DEF profileVars
    <2>5. CASE StartProfile
      BY <2>1, <2>5, StartProfileSteps, InvStep DEF ProfilesInv
    <2>6. CASE Profile
      BY <2>1, <2>6, ProfileSteps, InvStep DEF ProfilesInv
    <2> QED BY <2>3, <2>4, <2>5, <2>6 DEF ProfilesNext
  <1> QED BY <1>1, <1>2, PTL DEF ProfilesSpec

\* A profile that failed to start has stopped every instance of its plan
\* (startProfile, dispose).
THEOREM FailedProfilesAreUndone ==
  ASSUME PlanIsSound
  PROVE  ProfilesSpec => []FailedProfilesLeaveNothing
  <1>1. ASSUME ProfilesInv
        PROVE  FailedProfilesLeaveNothing
    <2>1. Planned /\ Undone /\ Phases
      BY <1>1 DEF ProfilesInv, LifecycleInv
    <2>2. ASSUME profile.pc = "failed", NEW i \in Ids
          PROVE  Stopped(i)
      <3>1. PICK k \in DOMAIN profile.order : i = profile.order[k]
        BY <2>2 DEF Ids, ToSet
      <3>2. i \in Instances /\ disp[i].pc = "done"
        BY <2>1, <2>2, <3>1, OrderIs DEF Undone
      <3> QED BY <2>1, <3>2 DEF Phases, Stopped
    <2> QED BY <2>1, <2>2 DEF Planned, FailedProfilesLeaveNothing
  <1> QED BY <1>1, ProfilesInvariant, PTL

\* With profiles, too, the instances and their scopes are taken down in order
\* (Host).
THEOREM ProfilesKeepOrder ==
  ASSUME PlanIsSound
  PROVE  ProfilesSpec => [](/\ DisposedIsClean /\ DependentsFollow
                            /\ CleanedInReverse /\ ClosedIsEmpty)
  <1>1. ProfilesInv => /\ DisposedIsClean /\ DependentsFollow
                       /\ CleanedInReverse /\ ClosedIsEmpty
    BY CleanWhenDisposed DEF ProfilesInv, LifecycleInv
  <1> QED BY <1>1, ProfilesInvariant, PTL

=============================================================================
