-------------------------- MODULE QueryTablesProofs -------------------------
(***************************************************************************)
(* Proofs about QuerySession: the tables of the query service agree with   *)
(* one another and keep their limits, and nobody is told twice.            *)
(*                                                                         *)
(* The invariant has two groups: Tables, for the jobs, the queue, the      *)
(* subscriptions and the stack of handlers, and Told, for who has been     *)
(* answered.  Each group has a lemma for each action that can disturb it.  *)
(***************************************************************************)
EXTENDS QuerySession, FiniteSetTheorems, SequenceTheorems, WellFoundedInduction, TLAPS
-----------------------------------------------------------------------------
(* Sets of naturals, sums and sequences.                                   *)

\* Induction over the naturals, for a set: one that holds 0 and the successor
\* of each of its members holds them all.
LEMMA NatInductionSet ==
    ASSUME NEW S \in SUBSET Nat, 0 \in S, \A n \in S : n + 1 \in S
    PROVE  S = Nat
<1>1. SUFFICES ASSUME Nat \ S # {} PROVE FALSE
  OBVIOUS
<1>2. PICK x \in Nat \ S : \A y \in Nat \ S : ~(<<y, x>> \in OpToRel(<, Nat))
  BY <1>1, WFMin, NatLessThanWellFounded, Zenon
<1>3. \A y \in Nat \ S : ~(y < x)
  BY <1>2 DEF OpToRel
<1>4. x # 0 /\ x - 1 \in Nat /\ x - 1 < x
  OBVIOUS
<1>5. x - 1 \in S
  BY <1>3, <1>4
<1> QED BY <1>5, <1>4

\* A set of naturals has a least member.
LEMMA MinProperties ==
    ASSUME NEW S \in SUBSET Nat, S # {}
    PROVE  Min(S) \in S /\ \A n \in S : Min(S) <= n
<1>1. PICK x \in S : \A y \in S : ~(<<y, x>> \in OpToRel(<, Nat))
  BY WFMin, NatLessThanWellFounded, Zenon
<1>2. \A y \in S : ~(y < x)
  BY <1>1 DEF OpToRel
<1>3. \A y \in S : x <= y
  BY <1>2
<1> QED BY <1>3 DEF Min

\* t gives every subset of D the sum of the weights w.
IsSum(t, w, D) ==
    /\ t \in [SUBSET D -> Nat] /\ t[{}] = 0
    /\ \A s \in SUBSET D : \A x \in s : t[s] = w[x] + t[s \ {x}]

\* One more weight extends the sums.
LEMMA SumOfOneMore ==
    ASSUME NEW D, NEW e, e \notin D, NEW w, \A x \in D \union {e} : w[x] \in Nat,
           NEW t, IsSum(t, w, D)
    PROVE  IsSum([s \in SUBSET (D \union {e}) |-> t[s \ {e}] + IF e \in s THEN w[e] ELSE 0],
                 w, D \union {e})
<1> DEFINE E == D \union {e}
           u == [s \in SUBSET E |-> t[s \ {e}] + IF e \in s THEN w[e] ELSE 0]
<1>1. w[e] \in Nat
  OBVIOUS
<1>2. \A s \in SUBSET E : s \ {e} \in SUBSET D
  OBVIOUS
<1>3. u \in [SUBSET E -> Nat]
  BY <1>1, <1>2 DEF IsSum
<1>4. u[{}] = 0
  <2>1. {} \in SUBSET E /\ {} \ {e} = {} /\ e \notin {}
    OBVIOUS
  <2> QED BY <2>1 DEF IsSum
<1>5. ASSUME NEW s \in SUBSET E, NEW x \in s PROVE u[s] = w[x] + u[s \ {x}]
  <2>1. s \ {x} \in SUBSET E /\ s \ {e} \in SUBSET D /\ t[s \ {e}] \in Nat
    BY <1>2 DEF IsSum
  <2>2. CASE x = e
    <3>1. (s \ {x}) \ {e} = s \ {e} /\ e \in s /\ e \notin s \ {x}
      BY <2>2
    <3>2. u[s] = t[s \ {e}] + w[e] /\ u[s \ {x}] = t[s \ {e}] + 0
      BY <2>1, <3>1
    <3> QED BY <1>1, <2>1, <2>2, <3>2
  <2>3. CASE x # e
    <3>1. (s \ {x}) \ {e} = (s \ {e}) \ {x} /\ x \in s \ {e} /\ (e \in s <=> e \in s \ {x})
      BY <2>3
    <3>2. x \in D /\ (s \ {e}) \ {x} \in SUBSET D
      BY <2>3
    <3>3. t[s \ {e}] = w[x] + t[(s \ {e}) \ {x}]
      BY <2>1, <3>1 DEF IsSum
    <3>4. t[(s \ {e}) \ {x}] \in Nat /\ w[x] \in Nat
      BY <3>2 DEF IsSum
    <3>5. /\ u[s] = t[s \ {e}] + IF e \in s THEN w[e] ELSE 0
          /\ u[s \ {x}] = t[(s \ {e}) \ {x}] + IF e \in s THEN w[e] ELSE 0
      BY <2>1, <3>1
    <3> QED BY <1>1, <3>3, <3>4, <3>5
  <2> QED BY <2>2, <2>3
<1> QED BY <1>3, <1>4, <1>5 DEF IsSum

\* A finite set has sums.
LEMMA SumExists ==
    ASSUME NEW D, IsFiniteSet(D), NEW w, \A x \in D : w[x] \in Nat
    PROVE  \E t : IsSum(t, w, D)
<1> DEFINE N == {n \in Nat : \A C \in SUBSET D : Cardinality(C) = n => \E t : IsSum(t, w, C)}
<1>0. \A C \in SUBSET D : IsFiniteSet(C) /\ Cardinality(C) \in Nat
  BY FS_Subset, FS_CardinalityType
<1>1. 0 \in N
  <2>1. ASSUME NEW C \in SUBSET D, Cardinality(C) = 0 PROVE IsSum([s \in {{}} |-> 0], w, C)
    <3>1. C = {} /\ SUBSET C = {{}}
      BY <1>0, <2>1, FS_EmptySet
    <3> QED BY <3>1 DEF IsSum
  <2> QED BY <2>1
<1>2. ASSUME NEW n \in N PROVE n + 1 \in N
  <2>1. ASSUME NEW C \in SUBSET D, Cardinality(C) = n + 1 PROVE \E t : IsSum(t, w, C)
    <3>1. C # {}
      <4>1. n \in Nat /\ n + 1 # 0
        OBVIOUS
      <4> QED BY <2>1, <4>1, FS_EmptySet
    <3>2. PICK e : e \in C
      BY <3>1
    <3> DEFINE B == C \ {e}
    <3>3. B \in SUBSET D /\ Cardinality(B) = n /\ e \notin B /\ C = B \union {e}
      <4>1. IsFiniteSet(C) /\ n \in Nat
        BY <1>0
      <4>2. Cardinality(C \ {e}) = Cardinality(C) - 1
        BY <3>2, <4>1, FS_RemoveElement
      <4> QED BY <2>1, <3>2, <4>1, <4>2
    <3> HIDE DEF B
    <3>4. PICK t : IsSum(t, w, B)
      BY <3>3
    <3>5. \A x \in B \union {e} : w[x] \in Nat
      BY <3>3
    <3> QED BY <3>3, <3>4, <3>5, SumOfOneMore
  <2> QED BY <2>1
<1>3. N = Nat
  BY <1>1, <1>2, NatInductionSet
<1>4. Cardinality(D) \in N /\ D \in SUBSET D
  BY <1>0, <1>3
<1> QED BY <1>4

\* The sum of the bytes f records, over S.
SumBytes(f, S) == MapThenSumSet(LAMBDA j : f[j].bytes, S)
Weights(f, S) == [j \in S |-> f[j].bytes]

\* The recursive function SumBytes folds with.
Fold(f, S) == CHOOSE iter : iter = [s \in SUBSET S |->
    IF s = {} THEN 0 ELSE LET x == CHOOSE x \in s : TRUE IN f[x].bytes + iter[s \ {x}]]

\* SumBytes is the fold at the whole set.
LEMMA SumBytesFold == ASSUME NEW f, NEW S PROVE SumBytes(f, S) = Fold(f, S)[S]
  BY DEF SumBytes, MapThenSumSet, MapThenFoldSet, Fold

\* The fold computes the sum.
LEMMA SumIsFold ==
    ASSUME NEW f, NEW S, IsFiniteSet(S), NEW w, \A x \in S : w[x] = f[x].bytes,
           NEW t, IsSum(t, w, S)
    PROVE  SumBytes(f, S) = t[S]
<1> DEFINE P == SUBSET S
           Body(g) == [s \in P |-> IF s = {} THEN 0
                       ELSE LET x == CHOOSE x \in s : TRUE IN f[x].bytes + g[s \ {x}]]
<1>1. t = Body(t)
  <2>1. \A s \in P : t[s] = IF s = {} THEN 0
                       ELSE LET x == CHOOSE x \in s : TRUE IN f[x].bytes + t[s \ {x}]
    BY DEF IsSum
  <2>2. t = [s \in P |-> t[s]]
    BY DEF IsSum
  <2> QED BY <2>1, <2>2
<1>2. Fold(f, S) = Body(Fold(f, S))
  <2>1. \E g : g = Body(g)
    BY <1>1
  <2> HIDE DEF Body
  <2>2. Fold(f, S) = CHOOSE g : g = Body(g)
    BY DEF Fold, Body
  <2> QED BY <2>1, <2>2
<1> DEFINE N == {n \in Nat : \A s \in P : Cardinality(s) = n => Fold(f, S)[s] = t[s]}
<1>3. \A s \in P : IsFiniteSet(s) /\ Cardinality(s) \in Nat
  BY FS_Subset, FS_CardinalityType
<1>4. 0 \in N
  <2>1. ASSUME NEW s \in P, Cardinality(s) = 0 PROVE Fold(f, S)[s] = t[s]
    <3>1. s = {}
      BY <1>3, <2>1, FS_EmptySet
    <3> QED BY <1>2, <3>1 DEF IsSum
  <2> QED BY <2>1
<1>5. ASSUME NEW n \in N PROVE n + 1 \in N
  <2>1. ASSUME NEW s \in P, Cardinality(s) = n + 1 PROVE Fold(f, S)[s] = t[s]
    <3>1. s # {}
      <4>1. n \in Nat /\ n + 1 # 0
        OBVIOUS
      <4> QED BY <2>1, <4>1, FS_EmptySet
    <3>2. PICK x : x = (CHOOSE y \in s : TRUE) /\ x \in s
      BY <3>1
    <3>3. s \ {x} \in P /\ Cardinality(s \ {x}) = n
      <4>1. IsFiniteSet(s) /\ n \in Nat
        BY <1>3
      <4>2. Cardinality(s \ {x}) = Cardinality(s) - 1
        BY <3>2, <4>1, FS_RemoveElement
      <4> QED BY <2>1, <4>1, <4>2
    <3>4. Fold(f, S)[s \ {x}] = t[s \ {x}]
      BY <3>3
    <3>5. Fold(f, S)[s] = f[x].bytes + Fold(f, S)[s \ {x}]
      BY <1>2, <3>1, <3>2
    <3>6. w[x] = f[x].bytes
      BY <3>2
    <3> QED BY <3>2, <3>4, <3>5, <3>6 DEF IsSum
  <2> QED BY <2>1
<1>6. N = Nat
  BY <1>4, <1>5, NatInductionSet
<1>7. S \in P /\ Cardinality(S) \in N
  BY <1>3, <1>6
<1> QED BY <1>7, SumBytesFold

\* The sum over a part and the sum over the rest.
LEMMA SumSplits ==
    ASSUME NEW D, IsFiniteSet(D), NEW w, NEW t, IsSum(t, w, D), NEW A \in SUBSET D,
           \A x \in D : w[x] \in Nat
    PROVE  t[D] = t[A] + t[D \ A]
<1> DEFINE N == {n \in Nat : \A B \in SUBSET D :
                    Cardinality(B) = n => t[D] = t[B] + t[D \ B]}
<1>0. \A C \in SUBSET D : IsFiniteSet(C) /\ Cardinality(C) \in Nat /\ t[C] \in Nat
  BY FS_Subset, FS_CardinalityType DEF IsSum
<1>1. 0 \in N
  <2>1. ASSUME NEW B \in SUBSET D, Cardinality(B) = 0 PROVE t[D] = t[B] + t[D \ B]
    <3>1. B = {} /\ D \ B = D /\ D \in SUBSET D
      BY <1>0, <2>1, FS_EmptySet
    <3>2. t[{}] = 0 /\ t[D] \in Nat
      BY <1>0, <3>1 DEF IsSum
    <3> QED BY <3>1, <3>2
  <2> QED BY <2>1
<1>2. ASSUME NEW n \in N PROVE n + 1 \in N
  <2>1. ASSUME NEW B \in SUBSET D, Cardinality(B) = n + 1 PROVE t[D] = t[B] + t[D \ B]
    <3>1. B # {}
      <4>1. n \in Nat /\ n + 1 # 0
        OBVIOUS
      <4> QED BY <2>1, <4>1, FS_EmptySet
    <3>2. PICK e : e \in B
      BY <3>1
    <3> DEFINE C == B \ {e}
               R == D \ C
    <3>3. C \in SUBSET D /\ Cardinality(C) = n
      <4>1. IsFiniteSet(B) /\ n \in Nat
        BY <1>0
      <4>2. Cardinality(B \ {e}) = Cardinality(B) - 1
        BY <3>2, <4>1, FS_RemoveElement
      <4> QED BY <2>1, <3>2, <4>1, <4>2
    <3>4. t[D] = t[C] + t[R]
      BY <3>3
    <3>5. t[B] = w[e] + t[C]
      BY <3>2 DEF IsSum
    <3>6. R \in SUBSET D /\ e \in R /\ R \ {e} = D \ B
      BY <3>2
    <3>7. t[R] = w[e] + t[D \ B]
      <4> HIDE DEF R
      <4> QED BY <3>6 DEF IsSum
    <3>8. t[C] \in Nat /\ t[R] \in Nat /\ t[B] \in Nat /\ t[D \ B] \in Nat /\ w[e] \in Nat
      BY <1>0, <3>2, <3>3, <3>6
    <3> HIDE DEF R, C
    <3> QED BY <3>4, <3>5, <3>7, <3>8
  <2> QED BY <2>1
<1>3. N = Nat
  BY <1>1, <1>2, NatInductionSet
<1>4. Cardinality(A) \in N
  BY <1>0, <1>3
<1> QED BY <1>4

\* What the table charges: nothing for no jobs, and a natural number.
LEMMA BytesType ==
    ASSUME NEW f, NEW S, IsFiniteSet(S), \A x \in S : f[x].bytes \in Nat
    PROVE  SumBytes(f, S) \in Nat /\ (S = {} => SumBytes(f, S) = 0)
<1> DEFINE w == Weights(f, S)
<1>1. \A x \in S : w[x] = f[x].bytes
  BY DEF Weights
<1> HIDE DEF w
<1>2. PICK t : IsSum(t, w, S)
  BY <1>1, SumExists
<1>3. SumBytes(f, S) = t[S]
  BY <1>1, <1>2, SumIsFold
<1> QED BY <1>2, <1>3 DEF IsSum

\* Jobs of equal sizes are charged alike.
LEMMA BytesAgree ==
    ASSUME NEW f, NEW g, NEW S, IsFiniteSet(S),
           \A x \in S : f[x].bytes \in Nat /\ g[x].bytes = f[x].bytes
    PROVE  SumBytes(g, S) = SumBytes(f, S)
<1> DEFINE w == Weights(f, S)
<1>1. \A x \in S : w[x] = f[x].bytes
  BY DEF Weights
<1> HIDE DEF w
<1>2. PICK t : IsSum(t, w, S)
  BY <1>1, SumExists
<1>3. SumBytes(f, S) = t[S]
  BY <1>1, <1>2, SumIsFold
<1>4. SumBytes(g, S) = t[S]
  BY <1>1, <1>2, SumIsFold
<1> QED BY <1>3, <1>4

\* Removing jobs takes their bytes.
LEMMA BytesRemoved ==
    ASSUME NEW f, NEW S, IsFiniteSet(S), \A x \in S : f[x].bytes \in Nat, NEW A \in SUBSET S
    PROVE  SumBytes(f, S \ A) = SumBytes(f, S) - SumBytes(f, A)
<1> DEFINE w == Weights(f, S)
<1>1. \A x \in S : w[x] = f[x].bytes
  BY DEF Weights
<1> HIDE DEF w
<1>2. PICK t : IsSum(t, w, S)
  BY <1>1, SumExists
<1>3. ASSUME NEW B \in SUBSET S PROVE SumBytes(f, B) = t[B]
  <2> DEFINE r == [s \in SUBSET B |-> t[s]]
  <2>1. IsSum(r, w, B)
    <3>1. \A s \in SUBSET B : s \in SUBSET S /\ r[s] = t[s]
      OBVIOUS
    <3>2. \A s \in SUBSET B : \A x \in s : s \ {x} \in SUBSET B
      OBVIOUS
    <3>3. r \in [SUBSET B -> Nat]
      BY <1>2, <3>1 DEF IsSum
    <3>4. {} \in SUBSET B
      OBVIOUS
    <3> HIDE DEF r
    <3> QED BY <1>2, <3>1, <3>2, <3>3, <3>4 DEF IsSum
  <2>2. IsFiniteSet(B)
    BY FS_Subset
  <2>3. SumBytes(f, B) = r[B]
    BY <1>1, <2>1, <2>2, SumIsFold
  <2> QED BY <2>3
<1>4. t[S] = t[A] + t[S \ A]
  BY <1>1, <1>2, SumSplits
<1>5. t[S] \in Nat /\ t[A] \in Nat /\ t[S \ A] \in Nat
  BY <1>2 DEF IsSum
<1>6. SumBytes(f, S) = t[S] /\ SumBytes(f, A) = t[A] /\ SumBytes(f, S \ A) = t[S \ A]
  BY <1>3
<1> QED BY <1>4, <1>5, <1>6

\* A new job adds its bytes.
LEMMA BytesAdded ==
    ASSUME NEW f, NEW g, NEW S, IsFiniteSet(S), NEW e, e \notin S,
           \A x \in S : f[x].bytes \in Nat /\ g[x].bytes = f[x].bytes, g[e].bytes \in Nat
    PROVE  SumBytes(g, S \union {e}) = SumBytes(f, S) + g[e].bytes
<1> DEFINE E == S \union {e}
           w == Weights(g, E)
<1>1. \A x \in E : w[x] = g[x].bytes /\ w[x] \in Nat
  BY DEF Weights
<1> HIDE DEF w
<1>2. IsFiniteSet(E)
  BY FS_AddElement
<1>3. PICK t : IsSum(t, w, S)
  BY <1>1, SumExists
<1> DEFINE u == [s \in SUBSET E |-> t[s \ {e}] + IF e \in s THEN w[e] ELSE 0]
<1>4. IsSum(u, w, E)
  BY <1>1, <1>3, SumOfOneMore
<1>5. SumBytes(f, S) = t[S]
  BY <1>1, <1>3, SumIsFold
<1>6. SumBytes(g, E) = u[E]
  BY <1>1, <1>2, <1>4, SumIsFold
<1>7. E \ {e} = S /\ e \in E /\ E \in SUBSET E
  OBVIOUS
<1>8. u[E] = t[S] + w[e]
  BY <1>7
<1> QED BY <1>1, <1>5, <1>6, <1>8

\* A sequence of anything.
IsSeq(s) == Len(s) \in Nat /\ s = [n \in 1..Len(s) |-> s[n]]
Members(s) == {s[n] : n \in DOMAIN s}

\* Its positions and its type.
LEMMA SeqType ==
    ASSUME NEW s, IsSeq(s)
    PROVE  s \in Seq(Members(s)) /\ DOMAIN s = 1..Len(s) /\ Len(s) \in Nat
<1>1. DOMAIN s = 1..Len(s)
  BY DEF IsSeq
<1>2. \A n \in 1..Len(s) : s[n] \in Members(s)
  BY <1>1 DEF Members
<1> QED BY <1>1, <1>2 DEF IsSeq

\* A typed sequence is one.
LEMMA TypedSeq == ASSUME NEW S, NEW s \in Seq(S) PROVE IsSeq(s)
  BY LenProperties DEF IsSeq

\* So is the empty one.
LEMMA EmptySeqOK == IsSeq(<<>>) /\ DOMAIN <<>> = {} /\ Len(<<>>) = 0
<1>1. <<>> \in Seq(Nat)
  OBVIOUS
<1>2. DOMAIN <<>> = {} /\ Len(<<>>) = 0
  OBVIOUS
<1> QED BY <1>1, <1>2, TypedSeq

\* One more at the end.
LEMMA AppendOK ==
    ASSUME NEW s, IsSeq(s), NEW x
    PROVE  /\ IsSeq(Append(s, x)) /\ Len(Append(s, x)) = Len(s) + 1
           /\ DOMAIN Append(s, x) = DOMAIN s \union {Len(s) + 1} /\ Len(s) + 1 \notin DOMAIN s
           /\ \A n \in DOMAIN s : Append(s, x)[n] = s[n]
           /\ Append(s, x)[Len(s) + 1] = x
<1> DEFINE S == Members(s) \union {x}
           t == Append(s, x)
<1>1. s \in Seq(S) /\ DOMAIN s = 1..Len(s) /\ Len(s) \in Nat
  BY SeqType
<1> HIDE DEF S
<1>2. x \in S
  BY DEF S
<1>3. /\ t \in Seq(S) /\ Len(t) = Len(s) + 1
      /\ \A n \in 1..Len(s) : t[n] = s[n]
      /\ t[Len(s) + 1] = x
  BY <1>1, <1>2, AppendProperties
<1> HIDE DEF t
<1>4. IsSeq(t) /\ DOMAIN t = 1..(Len(s) + 1)
  BY <1>3, TypedSeq, LenProperties
<1>5. 1..(Len(s) + 1) = (1..Len(s)) \union {Len(s) + 1} /\ Len(s) + 1 \notin 1..Len(s)
  BY <1>1
<1> QED BY <1>1, <1>3, <1>4, <1>5 DEF t

\* The first taken away.
LEMMA TailOK ==
    ASSUME NEW s, IsSeq(s), s # <<>>
    PROVE  /\ IsSeq(Tail(s)) /\ Len(Tail(s)) = Len(s) - 1 /\ 1 \in DOMAIN s
           /\ Head(s) = s[1]
           /\ \A n \in DOMAIN Tail(s) : n \in Nat /\ n + 1 \in DOMAIN s /\ Tail(s)[n] = s[n + 1]
           /\ \A n \in DOMAIN s : n # 1 => n - 1 \in DOMAIN Tail(s) /\ Tail(s)[n - 1] = s[n]
<1> DEFINE S == Members(s)
           t == Tail(s)
<1>1. s \in Seq(S) /\ DOMAIN s = 1..Len(s) /\ Len(s) \in Nat
  BY SeqType
<1> HIDE DEF S
<1>2. /\ Head(s) = s[1] /\ Len(s) # 0
      /\ t \in Seq(S) /\ Len(t) = Len(s) - 1
      /\ \A n \in 1..(Len(s) - 1) : t[n] = s[n + 1]
  BY <1>1, HeadTailProperties, EmptySeq
<1> HIDE DEF t
<1>3. IsSeq(t) /\ DOMAIN t = 1..(Len(s) - 1)
  BY <1>2, TypedSeq, LenProperties
<1>4. \A n \in 1..(Len(s) - 1) : n \in Nat /\ n + 1 \in 1..Len(s)
  BY <1>1
<1>5. \A n \in 1..Len(s) : n # 1 => n - 1 \in 1..(Len(s) - 1) /\ (n - 1) + 1 = n
  BY <1>1
<1>6. 1 \in 1..Len(s)
  BY <1>1, <1>2
<1>7. \A n \in 1..Len(s) : n # 1 => t[n - 1] = s[n]
  BY <1>2, <1>5
<1> QED BY <1>1, <1>2, <1>3, <1>4, <1>5, <1>6, <1>7 DEF t

\* The last taken away.
LEMMA FrontOK ==
    ASSUME NEW s, IsSeq(s), s # <<>>
    PROVE  /\ IsSeq(Front(s)) /\ Len(Front(s)) = Len(s) - 1 /\ Len(s) \in DOMAIN s
           /\ DOMAIN Front(s) = DOMAIN s \ {Len(s)}
           /\ \A n \in DOMAIN Front(s) : n \in DOMAIN s /\ Front(s)[n] = s[n]
<1> DEFINE S == Members(s)
           t == SubSeq(s, 1, Len(s) - 1)
<1>1. s \in Seq(S) /\ DOMAIN s = 1..Len(s) /\ Len(s) \in Nat
  BY SeqType
<1> HIDE DEF S
<1>2. Len(s) # 0
  BY <1>1, EmptySeq
<1>3. /\ t \in Seq(S) /\ Len(t) = Len(s) - 1
      /\ \A n \in 1..(Len(s) - 1) : t[n] = s[n]
  BY <1>1, <1>2
<1>4. t = Front(s)
  BY DEF Front
<1> HIDE DEF t
<1>5. IsSeq(t) /\ DOMAIN t = 1..(Len(s) - 1)
  BY <1>3, TypedSeq, LenProperties
<1>6. Len(s) \in 1..Len(s) /\ 1..(Len(s) - 1) = (1..Len(s)) \ {Len(s)}
  BY <1>1, <1>2
<1> QED BY <1>1, <1>3, <1>4, <1>5, <1>6

\* One more in front.
IsCons(t, x, s) ==
    /\ IsSeq(t) /\ 1 \in DOMAIN t /\ t[1] = x
    /\ \A n \in DOMAIN t : n # 1 => n - 1 \in DOMAIN s /\ t[n] = s[n - 1]
    /\ \A n \in DOMAIN s : n \in Nat /\ n + 1 \in DOMAIN t /\ t[n + 1] = s[n]

\* So does concatenation put it there.
LEMMA ConsOK == ASSUME NEW s, IsSeq(s), NEW x PROVE IsCons(<<x>> \o s, x, s)
<1> DEFINE S == Members(s) \union {x}
           t == <<x>> \o s
<1>1. s \in Seq(S) /\ DOMAIN s = 1..Len(s) /\ Len(s) \in Nat
  BY SeqType
<1> HIDE DEF S
<1>2. x \in S
  BY DEF S
<1>3. <<x>> \in Seq(S) /\ Len(<<x>>) = 1 /\ <<x>>[1] = x
  BY <1>2
<1>4. /\ t \in Seq(S) /\ Len(t) = 1 + Len(s)
      /\ \A i \in 1..(1 + Len(s)) : t[i] = IF i <= 1 THEN <<x>>[i] ELSE s[i - 1]
  BY <1>1, <1>3, ConcatProperties
<1> HIDE DEF t
<1>5. IsSeq(t) /\ DOMAIN t = 1..(1 + Len(s))
  BY <1>4, TypedSeq, LenProperties
<1>6. t[1] = x /\ \A i \in 1..(1 + Len(s)) : i # 1 => t[i] = s[i - 1] /\ i - 1 \in 1..Len(s)
  BY <1>1, <1>3, <1>4
<1>7. \A n \in 1..Len(s) : n \in Nat /\ n + 1 \in 1..(1 + Len(s)) /\ n + 1 # 1 /\ (n + 1) - 1 = n
  BY <1>1
<1>9. \A n \in 1..Len(s) : t[n + 1] = s[n]
  BY <1>6, <1>7
<1>8. 1 \in 1..(1 + Len(s))
  BY <1>1
<1> QED BY <1>1, <1>5, <1>6, <1>7, <1>8, <1>9 DEF t, IsCons

JobFields == {"epoch", "fence", "listing", "query", "key", "bytes", "subscribers", "phase", "wire",
              "wireOp", "wireProject", "cancelRequested", "retried", "summary", "snapshot",
              "discovered", "result"}
Phases == {"queued", "reading", "summary", "viewport", "delivering"}
Queries == [kind : {"read", "graph", "command"}, op : STRING \ {"cancel"}, cached : BOOLEAN,
            exact : Nat, visible : BOOLEAN, bytes : Nat \ {0}, layout : Nat]

\* A job, and the sizes and places it may have.
IsJob(job) ==
    /\ job = [f \in JobFields |-> job[f]]
    /\ job.query \in Queries /\ job.bytes \in Nat /\ job.phase \in Phases

\* A table of jobs; its queue, where each job waits once, and its active job,
\* which has left the queue; and what it is charged.
JobTable(J) ==
    /\ J = [j \in DOMAIN J |-> J[j]] /\ 0 \notin DOMAIN J /\ IsFiniteSet(DOMAIN J)
    /\ \A j \in DOMAIN J : IsJob(J[j])
Placed(J, Q, A) ==
    /\ IsSeq(Q) /\ IsInjective(Q)
    /\ Members(Q) = {j \in DOMAIN J : J[j].phase = "queued"}
    /\ A \in DOMAIN J \union {0}
    /\ \A j \in DOMAIN J : J[j].phase # "queued" <=> j = A
Charged(J, bytes) ==
    /\ bytes = SumBytes(J, DOMAIN J) /\ bytes <= MaxQueuedBytes
    /\ Cardinality(DOMAIN J) <= MaxJobs

Places ==
    /\ JobTable(jobs) /\ DOMAIN jobs \subseteq DOMAIN asked
    /\ Placed(jobs, queue, active) /\ Charged(jobs, queuedBytes)
SubsOK ==
    /\ subscriptions = [i \in DOMAIN subscriptions |-> subscriptions[i]]
    /\ DOMAIN subscriptions \subseteq DOMAIN asked
    /\ Cardinality(DOMAIN subscriptions) <= MaxSubscriptions
    /\ \A i \in DOMAIN subscriptions :
          subscriptions[i] = [f \in {"owner", "epoch", "job"} |-> subscriptions[i][f]]

\* The stack: handlers inside a completion, and inside contextChanged.
FrameOK(fr) ==
    \/ /\ fr.frame = "deliver" /\ fr = [f \in {"frame", "job", "ids", "work"} |-> fr[f]]
       /\ IsJob(fr.work)
    \/ fr.frame = "context" /\ fr = [f \in {"frame", "job", "reply"} |-> fr[f]]
Stack ==
    /\ IsSeq(frames) /\ \A n \in DOMAIN frames : FrameOK(frames[n])
    /\ available \in BOOLEAN /\ starting \in BOOLEAN /\ loaded \in BOOLEAN /\ owners \subseteq Owner
    /\ IsSeq(asked)
Tables == Places /\ SubsOK /\ Stack

\* An ask is with a subscription or a deferred refusal until it is answered or
\* withdrawn, and a refusal is deferred once.
Told ==
    /\ answered \subseteq DOMAIN asked /\ left \subseteq DOMAIN asked
    /\ answers = Cardinality(answered) /\ answered \intersect left = {}
    /\ \A i \in DOMAIN subscriptions : i \notin answered /\ i \notin left
    /\ \A t \in deferred : t.task = "reject" =>
          /\ t.ask \in DOMAIN asked /\ t.ask \notin DOMAIN subscriptions
          /\ t.ask \notin answered /\ t.ask \notin left
    /\ \A t, u \in deferred :
          t.task = "reject" /\ u.task = "reject" /\ t.ask = u.ask => t = u


\* t is what q has at the positions K, in the order of q.
Selection(h, t, q, K) ==
    /\ \A n \in DOMAIN t : h[n] \in K /\ t[n] = q[h[n]]
    /\ \A m, n \in DOMAIN t : m < n => h[m] < h[n]
    /\ \A k \in K : \E n \in DOMAIN t : h[n] = k
Selects(t, q, K) == IsSeq(t) /\ \E h : Selection(h, t, q, K)

\* A selection holds what was selected, and nothing twice if q did not.
LEMMA SelectsOK ==
    ASSUME NEW t, NEW q, IsSeq(q), NEW K \in SUBSET DOMAIN q, Selects(t, q, K)
    PROVE  /\ IsSeq(t) /\ Members(t) = {q[k] : k \in K}
           /\ IsInjective(q) => IsInjective(t)
<1>1. PICK h : Selection(h, t, q, K)
  BY DEF Selects
<1>2. IsSeq(t) /\ DOMAIN t = 1..Len(t) /\ Len(t) \in Nat
  BY SeqType DEF Selects
<1>3. Members(t) = {q[k] : k \in K}
  BY <1>1 DEF Selection, Members
<1>6. \A n \in DOMAIN t : h[n] \in Nat
  <2>1. DOMAIN q \subseteq Nat
    BY SeqType
  <2> QED BY <1>1, <2>1 DEF Selection
<1>4. ASSUME IsInjective(q), NEW m \in DOMAIN t, NEW n \in DOMAIN t, t[m] = t[n] PROVE m = n
  <2>1. h[m] = h[n]
    BY <1>1, <1>4 DEF Selection, IsInjective
  <2>2. m \in Nat /\ n \in Nat /\ h[m] \in Nat
    BY <1>2, <1>6
  <2>3. ~(m < n) /\ ~(n < m)
    BY <1>1, <2>1, <2>2 DEF Selection
  <2> QED BY <2>2, <2>3
<1> QED BY <1>2, <1>3, <1>4 DEF IsInjective

\* Removing position k selects the others.
LEMMA RemoveAtOK ==
    ASSUME NEW q, IsSeq(q), NEW k \in DOMAIN q
    PROVE  Selects(RemoveAt(q, k), q, DOMAIN q \ {k})
<1> DEFINE S == Members(q)
           p == RemoveAt(q, k)
           old(i) == IF i < k THEN i ELSE i + 1
           a == SubSeq(q, 1, k - 1)
           b == SubSeq(q, k + 1, Len(q))
<1>1. q \in Seq(S) /\ Len(q) \in Nat /\ k \in 1..Len(q) /\ DOMAIN q = 1..Len(q)
  BY SeqType
<1> HIDE DEF S
<1>2. a \in Seq(S) /\ Len(a) = k - 1 /\ \A i \in 1..(k - 1) : a[i] = q[i]
  BY <1>1
<1>3. b \in Seq(S) /\ Len(b) = Len(q) - k /\ \A i \in 1..(Len(q) - k) : b[i] = q[i + k]
  BY <1>1
<1>5. p = a \o b
  BY DEF RemoveAt, a, b
<1> HIDE DEF a, b, p
<1>4. /\ p \in Seq(S) /\ Len(p) = Len(q) - 1
      /\ \A i \in 1..(Len(q) - 1) : p[i] = IF i < k THEN a[i] ELSE b[i - k + 1]
  <2>1. /\ p \in Seq(S) /\ Len(p) = Len(a) + Len(b)
        /\ \A i \in 1..(Len(a) + Len(b)) :
              p[i] = IF i <= Len(a) THEN a[i] ELSE b[i - Len(a)]
    BY <1>2, <1>3, <1>5, ConcatProperties, Zenon
  <2>2. Len(a) + Len(b) = Len(q) - 1
    BY <1>1, <1>2, <1>3
  <2>3. \A i \in 1..(Len(q) - 1) : (i <= Len(a) <=> i < k) /\ i - Len(a) = i - k + 1
    BY <1>1, <1>2
  <2> QED BY <2>1, <2>2, <2>3
<1>6. IsSeq(p) /\ DOMAIN p = 1..(Len(q) - 1)
  BY <1>1, <1>4, TypedSeq, LenProperties
<1>7. ASSUME NEW i \in 1..(Len(q) - 1) PROVE p[i] = q[old(i)] /\ old(i) \in DOMAIN q \ {k}
  <2>1. CASE i < k
    BY <1>1, <1>2, <1>4, <2>1
  <2>2. CASE ~(i < k)
    <3> DEFINE d == i - k + 1
    <3>1. d \in 1..(Len(q) - k) /\ d + k = i + 1 /\ i + 1 \in 1..Len(q) /\ i + 1 # k
      BY <1>1, <2>2
    <3>2. p[i] = b[d]
      BY <1>4, <2>2
    <3> HIDE DEF d
    <3>3. b[d] = q[i + 1]
      BY <1>3, <3>1
    <3> QED BY <1>1, <2>2, <3>1, <3>2, <3>3
  <2> QED BY <2>1, <2>2
<1> DEFINE h == [i \in DOMAIN p |-> old(i)]
<1>8. Selection(h, p, q, DOMAIN q \ {k})
  <2>1. \A n \in DOMAIN p : h[n] \in DOMAIN q \ {k} /\ p[n] = q[h[n]]
    BY <1>6, <1>7
  <2>2. \A m, n \in DOMAIN p : m < n => h[m] < h[n]
    BY <1>1, <1>6
  <2>3. ASSUME NEW n \in DOMAIN q \ {k} PROVE \E m \in DOMAIN p : h[m] = n
    <3>1. CASE n < k
      <4>1. n \in DOMAIN p /\ h[n] = n
        BY <1>1, <1>6, <3>1
      <4> QED BY <4>1
    <3>2. CASE ~(n < k)
      <4>1. n - 1 \in DOMAIN p /\ ~(n - 1 < k) /\ (n - 1) + 1 = n
        BY <1>1, <1>6, <3>2
      <4>2. h[n - 1] = n
        BY <4>1
      <4> QED BY <4>1, <4>2
    <3> QED BY <3>1, <3>2
  <2> QED BY <2>1, <2>2, <2>3 DEF Selection
<1> QED BY <1>6, <1>8 DEF Selects, p

KeptBody(g, q, S, L) ==
    [n \in 0..L |-> IF n = 0 THEN <<>>
                    ELSE IF q[n] \in S THEN g[n - 1] ELSE Append(g[n - 1], q[n])]
Kept(q, S) == CHOOSE g : g = KeptBody(g, q, S, Len(q))

\* Unqueued is the last value of a recursive function.
LEMMA UnqueuedKept == ASSUME NEW q, NEW S PROVE Unqueued(q, S) = Kept(q, S)[Len(q)]
  BY DEF Unqueued, Kept, KeptBody

\* There is such a function, up to every length.
LEMMA KeptExists ==
    ASSUME NEW q, NEW S, NEW L \in Nat
    PROVE  \E g : g = KeptBody(g, q, S, L)
<1> DEFINE N == {n \in Nat : \E g : g = KeptBody(g, q, S, n)}
<1>1. 0 \in N
  <2> DEFINE g == [n \in {0} |-> <<>>]
  <2>1. 0..0 = {0}
    OBVIOUS
  <2>2. g = KeptBody(g, q, S, 0)
    BY <2>1 DEF KeptBody
  <2> QED BY <2>2
<1>2. ASSUME NEW n \in N PROVE n + 1 \in N
  <2>1. PICK g : g = KeptBody(g, q, S, n)
    OBVIOUS
  <2> DEFINE f == [m \in 0..(n + 1) |->
                     IF m # n + 1 THEN g[m]
                     ELSE IF q[m] \in S THEN g[m - 1] ELSE Append(g[m - 1], q[m])]
  <2>2. n \in Nat
    OBVIOUS
  <2>3. \A m \in 0..n : g[m] = IF m = 0 THEN <<>>
                          ELSE IF q[m] \in S THEN g[m - 1] ELSE Append(g[m - 1], q[m])
    BY <2>1 DEF KeptBody
  <2>4. \A m \in 0..(n + 1) : m # 0 => m - 1 \in 0..(n + 1) /\ f[m - 1] = g[m - 1]
    BY <2>2
  <2>5. ASSUME NEW m \in 0..(n + 1)
        PROVE  f[m] = IF m = 0 THEN <<>>
                       ELSE IF q[m] \in S THEN f[m - 1] ELSE Append(f[m - 1], q[m])
    <3>1. CASE m = n + 1
      <4>1. m # 0
        BY <2>2, <3>1
      <4> QED BY <2>4, <3>1, <4>1
    <3>2. CASE m # n + 1
      <4>1. m \in 0..n /\ f[m] = g[m]
        BY <2>2, <3>2
      <4> HIDE DEF f
      <4> QED BY <2>3, <2>4, <4>1
    <3> QED BY <3>1, <3>2
  <2>6. f = [m \in 0..(n + 1) |-> f[m]]
    OBVIOUS
  <2> HIDE DEF f
  <2>7. f = KeptBody(f, q, S, n + 1)
    BY <2>5, <2>6 DEF KeptBody
  <2>8. n + 1 \in Nat
    BY <2>2
  <2> QED BY <2>7, <2>8
<1>3. N = Nat
  BY <1>1, <1>2, NatInductionSet
<1> QED BY <1>3

\* Appending one more position to a selection.
LEMMA SelectsOneMore ==
    ASSUME NEW t, NEW q, NEW K \in SUBSET Nat, Selects(t, q, K), NEW k \in Nat,
           \A n \in K : n < k
    PROVE  Selects(Append(t, q[k]), q, K \union {k})
<1>1. PICK h : Selection(h, t, q, K)
  BY DEF Selects
<1> DEFINE u == Append(t, q[k])
           e == Len(t) + 1
           H == [n \in DOMAIN u |-> IF n = e THEN k ELSE h[n]]
<1>2. /\ IsSeq(u) /\ DOMAIN u = DOMAIN t \union {e} /\ e \notin DOMAIN t
      /\ \A n \in DOMAIN t : u[n] = t[n]
      /\ u[e] = q[k]
  BY AppendOK DEF Selects
<1>3. DOMAIN t = 1..Len(t) /\ Len(t) \in Nat
  BY SeqType DEF Selects
<1>4. \A n \in DOMAIN t : n < e /\ ~(e < n)
  BY <1>3
<1> HIDE DEF u, e
<1>5. H[e] = k /\ \A n \in DOMAIN t : H[n] = h[n]
  BY <1>2
<1> HIDE DEF H
<1>6. \A n \in DOMAIN u : H[n] \in K \union {k} /\ u[n] = q[H[n]]
  BY <1>1, <1>2, <1>5 DEF Selection
<1>7. \A m, n \in DOMAIN u : m < n => H[m] < H[n]
  <2>1. TAKE m, n \in DOMAIN u
  <2>2. HAVE m < n
  <2>3. m \in DOMAIN t
    BY <1>2, <1>4, <2>2, <1>3 DEF e
  <2>4. CASE n = e
    BY <1>1, <1>5, <2>3, <2>4 DEF Selection
  <2>5. CASE n # e
    <3>1. n \in DOMAIN t
      BY <1>2, <2>5
    <3> QED BY <1>1, <1>5, <2>2, <2>3, <3>1 DEF Selection
  <2> QED BY <2>4, <2>5
<1>8. \A j \in K \union {k} : \E n \in DOMAIN u : H[n] = j
  BY <1>1, <1>2, <1>5 DEF Selection
<1> QED BY <1>2, <1>6, <1>7, <1>8 DEF Selects, Selection, u

\* Unqueued selects the positions whose jobs stay.
LEMMA UnqueuedOK ==
    ASSUME NEW q, IsSeq(q), NEW S
    PROVE  Selects(Unqueued(q, S), q, {n \in DOMAIN q : q[n] \notin S})
<1> DEFINE L == Len(q)
           g == Kept(q, S)
           Stay(m) == {n \in 1..m : q[n] \notin S}
           N == {m \in Nat : m <= L => Selects(g[m], q, Stay(m))}
<1>1. L \in Nat /\ DOMAIN q = 1..L
  BY SeqType
<1>2. g = KeptBody(g, q, S, L)
  <2>1. \E f : f = KeptBody(f, q, S, L)
    BY <1>1, KeptExists
  <2> QED BY <2>1 DEF Kept
<1> HIDE DEF g
<1>3. \A m \in 0..L : g[m] = IF m = 0 THEN <<>>
                        ELSE IF q[m] \in S THEN g[m - 1] ELSE Append(g[m - 1], q[m])
  BY <1>2 DEF KeptBody
<1>4. 0 \in N
  <2>1. g[0] = <<>> /\ Stay(0) = {}
    BY <1>1, <1>3
  <2>2. Selection(<<>>, <<>>, q, {})
    BY EmptySeqOK DEF Selection
  <2>3. Selects(g[0], q, Stay(0))
    BY <2>1, <2>2, EmptySeqOK DEF Selects
  <2> QED BY <2>3
<1>5. ASSUME NEW m \in N PROVE m + 1 \in N
  <2>1. SUFFICES ASSUME m + 1 <= L PROVE Selects(g[m + 1], q, Stay(m + 1))
    OBVIOUS
  <2>2. m \in Nat /\ m <= L /\ m + 1 \in 0..L /\ m + 1 # 0 /\ (m + 1) - 1 = m
    BY <1>1, <2>1
  <2>3. Selects(g[m], q, Stay(m))
    BY <2>2
  <2>4. g[m + 1] = IF q[m + 1] \in S THEN g[m] ELSE Append(g[m], q[m + 1])
    <3> DEFINE k == m + 1
    <3>1. k \in 0..L /\ k # 0 /\ k - 1 = m
      BY <2>2
    <3> HIDE DEF k
    <3>2. g[k] = IF q[k] \in S THEN g[m] ELSE Append(g[m], q[k])
      BY <1>3, <3>1
    <3> QED BY <3>2 DEF k
  <2>5. 1..(m + 1) = (1..m) \union {m + 1}
    BY <2>2
  <2>6. CASE q[m + 1] \in S
    <3>1. Stay(m + 1) = Stay(m)
      BY <2>5, <2>6
    <3> QED BY <2>3, <2>4, <2>6, <3>1
  <2>7. CASE q[m + 1] \notin S
    <3>1. Stay(m + 1) = Stay(m) \union {m + 1}
      BY <2>5, <2>7
    <3>2. Stay(m) \in SUBSET Nat /\ (\A n \in Stay(m) : n < m + 1) /\ m + 1 \in Nat
      BY <2>2
    <3> HIDE DEF Stay
    <3>3. Selects(Append(g[m], q[m + 1]), q, Stay(m) \union {m + 1})
      BY <2>3, <3>2, SelectsOneMore
    <3> QED BY <2>4, <2>7, <3>1, <3>3
  <2> QED BY <2>6, <2>7
<1>6. N = Nat
  BY <1>4, <1>5, NatInductionSet
<1>7. Selects(g[L], q, Stay(L))
  <2>1. L \in N
    BY <1>1, <1>6
  <2> QED BY <1>1, <2>1
<1>8. Unqueued(q, S) = g[L]
  BY UnqueuedKept DEF g
<1> QED BY <1>1, <1>7, <1>8
-----------------------------------------------------------------------------
(* The table of jobs.                                                      *)

\* What a table holds, taken apart.
LEMMA JobTableOK ==
    ASSUME NEW J, JobTable(J)
    PROVE  /\ J = [j \in DOMAIN J |-> J[j]] /\ 0 \notin DOMAIN J /\ IsFiniteSet(DOMAIN J)
           /\ \A j \in DOMAIN J : IsJob(J[j]) /\ J[j].bytes \in Nat /\ J[j].phase \in Phases
  BY DEF JobTable, IsJob

\* One job replaced by another of its size.
LEMMA ReplaceOK ==
    ASSUME NEW J, JobTable(J), NEW j \in DOMAIN J, NEW r, IsJob(r), r.bytes = J[j].bytes,
           NEW K, K = [J EXCEPT ![j] = r]
    PROVE  /\ JobTable(K) /\ DOMAIN K = DOMAIN J /\ K[j] = r
           /\ \A i \in DOMAIN J : i # j => K[i] = J[i]
           /\ \A bytes : Charged(J, bytes) => Charged(K, bytes)
<1>1. /\ DOMAIN K = DOMAIN J /\ K[j] = r
      /\ \A i \in DOMAIN J : i # j => K[i] = J[i]
      /\ K = [i \in DOMAIN K |-> K[i]]
  BY DEF JobTable
<1>2. JobTable(K)
  BY <1>1 DEF JobTable
<1>3. \A i \in DOMAIN J : J[i].bytes \in Nat /\ K[i].bytes = J[i].bytes
  BY <1>1, JobTableOK
<1>4. SumBytes(K, DOMAIN J) = SumBytes(J, DOMAIN J)
  BY <1>3, BytesAgree, JobTableOK
<1> QED BY <1>1, <1>2, <1>4 DEF Charged

\* The active job changes and stays active.
LEMMA UpdatePlaced ==
    ASSUME NEW J, NEW Q, NEW j \in DOMAIN J, Placed(J, Q, j), NEW K, DOMAIN K = DOMAIN J,
           \A i \in DOMAIN J : i # j => K[i] = J[i], K[j].phase # "queued"
    PROVE  Placed(K, Q, j)
<1>1. Members(Q) = {i \in DOMAIN K : K[i].phase = "queued"}
  BY DEF Placed
<1> QED BY <1>1 DEF Placed

\* The job at position k of the queue becomes active.
LEMMA StartPlaced ==
    ASSUME NEW J, NEW Q, Placed(J, Q, 0), JobTable(J), NEW k \in DOMAIN Q,
           NEW K, DOMAIN K = DOMAIN J,
           \A i \in DOMAIN J : i # Q[k] => K[i] = J[i], K[Q[k]].phase # "queued"
    PROVE  Placed(K, RemoveAt(Q, k), Q[k]) /\ Q[k] \in DOMAIN J /\ J[Q[k]].phase = "queued"
<1> DEFINE t == RemoveAt(Q, k)
           S == DOMAIN Q \ {k}
<1>1. Q[k] \in DOMAIN J /\ J[Q[k]].phase = "queued"
  <2>1. Q[k] \in Members(Q)
    BY DEF Members
  <2> QED BY <2>1 DEF Placed
<1>2. Selects(t, Q, S)
  BY RemoveAtOK DEF Placed
<1>3. IsSeq(t) /\ Members(t) = {Q[n] : n \in S} /\ IsInjective(t)
  BY <1>2, SelectsOK DEF Placed
<1> HIDE DEF t
<1>4. {Q[n] : n \in S} = Members(Q) \ {Q[k]}
  <2>1. \A n \in S : Q[n] # Q[k]
    BY DEF Placed, IsInjective
  <2> QED BY <2>1 DEF Members
<1>5. \A j \in DOMAIN J : J[j].phase = "queued"
  BY JobTableOK DEF Placed
<1>6. Members(t) = {j \in DOMAIN K : K[j].phase = "queued"}
  <2>1. Members(Q) = DOMAIN J
    BY <1>5 DEF Placed
  <2>2. \A i \in DOMAIN J : K[i].phase = "queued" <=> i # Q[k]
    BY <1>5
  <2> QED BY <1>3, <1>4, <2>1, <2>2
<1>7. \A j \in DOMAIN K : K[j].phase # "queued" <=> j = Q[k]
  BY <1>5
<1> QED BY <1>1, <1>3, <1>6, <1>7 DEF Placed, t

\* The active job goes back to the front of the queue.
LEMMA RequeuePlaced ==
    ASSUME NEW J, NEW Q, JobTable(J), NEW j \in DOMAIN J, Placed(J, Q, j),
           NEW K, DOMAIN K = DOMAIN J,
           \A i \in DOMAIN J : i # j => K[i] = J[i], K[j].phase = "queued"
    PROVE  Placed(K, <<j>> \o Q, 0)
<1> DEFINE t == <<j>> \o Q
<1>0. t = <<j>> \o Q /\ IsSeq(Q)
  BY DEF Placed
<1> HIDE DEF t
<1>1. /\ IsSeq(t) /\ 1 \in DOMAIN t /\ t[1] = j
      /\ \A n \in DOMAIN t : n # 1 => n - 1 \in DOMAIN Q /\ t[n] = Q[n - 1]
      /\ \A n \in DOMAIN Q : n \in Nat /\ n + 1 \in DOMAIN t /\ t[n + 1] = Q[n]
  <2>1. IsCons(t, j, Q)
    BY <1>0, ConsOK
  <2> QED BY <2>1 DEF IsCons
<1>2. \A n \in DOMAIN t : n \in Nat
  BY <1>1, SeqType
<1>3. j \notin Members(Q)
  BY DEF Placed
<1>4. Members(t) = Members(Q) \union {j}
  BY <1>1 DEF Members
<1>5. IsInjective(t)
  <2>1. ASSUME NEW m \in DOMAIN t, NEW n \in DOMAIN t, t[m] = t[n], m # 1 PROVE m = n
    <3>1. m - 1 \in DOMAIN Q /\ t[m] = Q[m - 1]
      BY <1>1, <2>1
    <3>5. Q[m - 1] \in Members(Q)
      BY <3>1 DEF Members
    <3>2. n # 1
      BY <1>1, <1>3, <2>1, <3>1, <3>5
    <3>3. n - 1 \in DOMAIN Q /\ t[n] = Q[n - 1]
      BY <1>1, <3>2
    <3>4. m - 1 = n - 1
      BY <2>1, <3>1, <3>3 DEF Placed, IsInjective
    <3> QED BY <1>2, <3>4
  <2> QED BY <2>1 DEF IsInjective
<1>6. Members(t) = {i \in DOMAIN K : K[i].phase = "queued"}
  BY <1>4 DEF Placed
<1>7. \A i \in DOMAIN K : K[i].phase = "queued" /\ i # 0
  BY JobTableOK DEF Placed
<1> QED BY <1>1, <1>5, <1>6, <1>7 DEF Placed, t

\* Jobs removed from the table are removed from the queue and from the charge.
LEMMA RemovePlaced ==
    ASSUME NEW J, NEW Q, NEW A, JobTable(J), Placed(J, Q, A), NEW S \in SUBSET DOMAIN J,
           NEW K, DOMAIN K = DOMAIN J \ S, \A i \in DOMAIN K : K[i].phase = J[i].phase
    PROVE  Placed(K, Unqueued(Q, S), IF A \in S THEN 0 ELSE A)
<1> DEFINE t == Unqueued(Q, S)
           P == {n \in DOMAIN Q : Q[n] \notin S}
<1>0. IsSeq(Q) /\ IsInjective(Q) /\ P \in SUBSET DOMAIN Q
  BY DEF Placed
<1>1. Selects(t, Q, P)
  BY <1>0, UnqueuedOK
<1> HIDE DEF t, P
<1>2. IsSeq(t) /\ Members(t) = {Q[n] : n \in P} /\ IsInjective(t)
  BY <1>0, <1>1, SelectsOK
<1>3. {Q[n] : n \in P} = Members(Q) \ S
  BY DEF Members, P
<1>4. Members(t) = {j \in DOMAIN K : K[j].phase = "queued"}
  BY <1>2, <1>3 DEF Placed
<1>5. \A j \in DOMAIN K : K[j].phase # "queued" <=> j = IF A \in S THEN 0 ELSE A
  BY JobTableOK DEF Placed
<1> QED BY <1>2, <1>4, <1>5 DEF Placed, t

\* Nor is anything else charged.
LEMMA RemoveCharged ==
    ASSUME NEW J, JobTable(J), NEW S \in SUBSET DOMAIN J, NEW bytes, Charged(J, bytes),
           NEW K, DOMAIN K = DOMAIN J \ S, \A i \in DOMAIN K : K[i].bytes = J[i].bytes
    PROVE  Charged(K, bytes - SumBytes(J, S))
<1>1. IsFiniteSet(DOMAIN J) /\ \A i \in DOMAIN J : J[i].bytes \in Nat
  BY JobTableOK
<1>2. IsFiniteSet(DOMAIN K) /\ Cardinality(DOMAIN K) <= Cardinality(DOMAIN J)
      /\ Cardinality(DOMAIN K) \in Nat /\ Cardinality(DOMAIN J) \in Nat /\ IsFiniteSet(S)
  BY <1>1, FS_Subset, FS_CardinalityType
<1>3. SumBytes(J, DOMAIN K) = SumBytes(J, DOMAIN J) - SumBytes(J, S)
  BY <1>1, BytesRemoved
<1>4. SumBytes(K, DOMAIN K) = SumBytes(J, DOMAIN K)
  BY <1>1, <1>2, BytesAgree
<1>5. SumBytes(J, S) \in Nat /\ SumBytes(J, DOMAIN J) \in Nat
  BY <1>1, <1>2, BytesType
<1>6. MaxJobs \in Nat /\ MaxQueuedBytes \in Nat
  BY QueryAssumption
<1> QED BY <1>2, <1>3, <1>4, <1>5, <1>6 DEF Charged

\* What extending a function does.
Extends(g, f, x, v) ==
    /\ DOMAIN g = DOMAIN f \union {x} /\ g[x] = v
    /\ \A y \in DOMAIN f : y # x => g[y] = f[y]
    /\ g = [y \in DOMAIN g |-> g[y]]

\* Extended does it.
LEMMA ExtendedOK == ASSUME NEW f, NEW x, NEW v PROVE Extends(Extended(f, x, v), f, x, v)
  BY DEF Extended, Extends

\* A new job waits at the end of the queue, if the limits allow it.
LEMMA NewPlaced ==
    ASSUME NEW J, NEW Q, NEW A, JobTable(J), Placed(J, Q, A), NEW a, a \notin DOMAIN J, a # 0,
           NEW r, IsJob(r), r.phase = "queued"
    PROVE  /\ JobTable(Extended(J, a, r))
           /\ Placed(Extended(J, a, r), Append(Q, a), A)
<1> DEFINE K == Extended(J, a, r)
           t == Append(Q, a)
<1>0. K = Extended(J, a, r)
  OBVIOUS
<1> HIDE DEF K
<1>1. /\ DOMAIN K = DOMAIN J \union {a} /\ K[a] = r
      /\ \A j \in DOMAIN J : K[j] = J[j]
      /\ K = [j \in DOMAIN K |-> K[j]]
  <2>1. Extends(K, J, a, r)
    BY <1>0, ExtendedOK
  <2> QED BY <2>1 DEF Extends
<1>2. IsFiniteSet(DOMAIN K)
  BY <1>1, FS_AddElement DEF JobTable
<1>3. JobTable(K)
  BY <1>1, <1>2 DEF JobTable
<1> DEFINE e == Len(Q) + 1
<1>4. /\ IsSeq(t) /\ DOMAIN t = DOMAIN Q \union {e} /\ e \notin DOMAIN Q
      /\ \A n \in DOMAIN Q : t[n] = Q[n]
      /\ t[e] = a
  BY AppendOK DEF Placed
<1> HIDE DEF t, e
<1>5. Members(t) = Members(Q) \union {a}
  BY <1>4 DEF Members
<1>6. \A n \in DOMAIN Q : Q[n] # a
  BY DEF Placed, Members
<1>7. IsInjective(t)
  BY <1>4, <1>6 DEF Placed, IsInjective
<1>8. Members(t) = {j \in DOMAIN K : K[j].phase = "queued"}
  BY <1>1, <1>5 DEF Placed
<1>9. A # a
  BY DEF Placed
<1>10. \A j \in DOMAIN K : K[j].phase # "queued" <=> j = A
  BY <1>1, <1>9 DEF Placed
<1> QED BY <1>1, <1>3, <1>4, <1>7, <1>8, <1>10 DEF Placed, t, K

\* The charge of a new job.
LEMMA NewCharged ==
    ASSUME NEW J, JobTable(J), NEW bytes, Charged(J, bytes), NEW a, a \notin DOMAIN J,
           NEW r, IsJob(r), ~(Cardinality(DOMAIN J) >= MaxJobs),
           ~(r.bytes > MaxQueuedBytes - bytes)
    PROVE  Charged(Extended(J, a, r), bytes + r.bytes)
<1> DEFINE K == Extended(J, a, r)
<1>0. K = Extended(J, a, r)
  OBVIOUS
<1> HIDE DEF K
<1>1. /\ DOMAIN K = DOMAIN J \union {a} /\ K[a] = r
      /\ \A j \in DOMAIN J : K[j] = J[j]
  <2>1. Extends(K, J, a, r)
    BY <1>0, ExtendedOK
  <2> QED BY <2>1 DEF Extends
<1>2. IsFiniteSet(DOMAIN J) /\ \A i \in DOMAIN J : J[i].bytes \in Nat
  BY JobTableOK
<1>3. r.bytes \in Nat
  BY DEF IsJob
<1>4. SumBytes(K, DOMAIN J \union {a}) = SumBytes(J, DOMAIN J) + r.bytes
  BY <1>1, <1>2, <1>3, BytesAdded
<1>5. /\ Cardinality(DOMAIN J \union {a}) = Cardinality(DOMAIN J) + 1
      /\ Cardinality(DOMAIN J) \in Nat
  BY <1>2, FS_AddElement, FS_CardinalityType
<1>6. MaxJobs \in Nat /\ MaxQueuedBytes \in Nat /\ SumBytes(J, DOMAIN J) \in Nat
  BY <1>2, QueryAssumption, BytesType
<1> QED BY <1>1, <1>3, <1>4, <1>5, <1>6 DEF Charged, K

\* A job that differs from another in the fields F at most.
Like(a, b, F) ==
    /\ a = [f \in JobFields |-> a[f]]
    /\ \A f \in JobFields \ F : a[f] = b[f]

\* Such a job is one if the fields that must be typed are.
LEMMA LikeJob ==
    ASSUME NEW b, IsJob(b), NEW a, NEW F, Like(a, b, F), "bytes" \notin F,
           "query" \in F => a.query \in Queries, "phase" \in F => a.phase \in Phases
    PROVE  IsJob(a) /\ a.bytes = b.bytes
<1>1. {"bytes", "query", "phase"} \subseteq JobFields
  BY DEF JobFields
<1>2. a.bytes = b.bytes
  BY <1>1 DEF Like
<1>3. a.query \in Queries
  BY <1>1 DEF Like, IsJob
<1>4. a.phase \in Phases
  BY <1>1 DEF Like, IsJob
<1> QED BY <1>2, <1>3, <1>4 DEF Like, IsJob

FinishFields == {"wire", "phase", "result"}
\* State::finish of a job.
LEMMA FinishedLike ==
    ASSUME NEW job, IsJob(job), NEW result, NEW a, a = Finished(job, result)
    PROVE  /\ Like(a, job, FinishFields) /\ IsJob(a) /\ a.bytes = job.bytes
           /\ a.wire = 0 /\ a.phase = "delivering" /\ a.result = result
<1>1. job = [f \in JobFields |-> job[f]]
  BY DEF IsJob
<1>2. /\ Like(a, job, FinishFields)
      /\ a.wire = 0 /\ a.phase = "delivering" /\ a.result = result
  BY <1>1 DEF Finished, Like, JobFields, FinishFields
<1>3. "bytes" \notin FinishFields /\ "query" \notin FinishFields /\ a.phase \in Phases
  BY <1>2 DEF FinishFields, Phases
<1> QED BY <1>2, <1>3, LikeJob

Dispatched(job, op, id) ==
    [job EXCEPT !.snapshot = NoSnapshot, !.wireOp = op, !.wireProject = project, !.wire = id]
DispatchFields == {"snapshot", "wireOp", "wireProject", "wire"}
\* State::dispatch of a job.
LEMMA DispatchedLike ==
    ASSUME NEW job, IsJob(job), NEW op, NEW id, NEW a, a = Dispatched(job, op, id)
    PROVE  /\ Like(a, job, DispatchFields) /\ IsJob(a) /\ a.bytes = job.bytes
           /\ a.wire = id /\ a.wireOp = op /\ a.wireProject = project
<1>1. job = [f \in JobFields |-> job[f]]
  BY DEF IsJob
<1>2. /\ Like(a, job, DispatchFields)
      /\ a.wire = id /\ a.wireOp = op /\ a.wireProject = project
  BY <1>1 DEF Dispatched, Like, JobFields, DispatchFields
<1>3. "bytes" \notin DispatchFields /\ "query" \notin DispatchFields /\ "phase" \notin DispatchFields
  BY DEF DispatchFields
<1> QED BY <1>2, <1>3, LikeJob

Running(job, p) == [job EXCEPT !.phase = p]
\* pump begins to run a job.
LEMMA RunLike ==
    ASSUME NEW job, IsJob(job), NEW p \in Phases, NEW a, a = Running(job, p)
    PROVE  Like(a, job, {"phase"}) /\ IsJob(a) /\ a.bytes = job.bytes /\ a.phase = p
<1>1. job = [f \in JobFields |-> job[f]]
  BY DEF IsJob
<1>2. Like(a, job, {"phase"}) /\ a.phase = p
  BY <1>1 DEF Running, Like, JobFields
<1> QED BY <1>2, LikeJob

Noted(job, d, s) == [job EXCEPT !.discovered = d, !.snapshot = s]
\* What receive notes of a reply.
LEMMA NotedLike ==
    ASSUME NEW job, IsJob(job), NEW d, NEW s, NEW a, a = Noted(job, d, s)
    PROVE  Like(a, job, {"discovered", "snapshot"}) /\ IsJob(a) /\ a.bytes = job.bytes
<1>1. job = [f \in JobFields |-> job[f]]
  BY DEF IsJob
<1>2. Like(a, job, {"discovered", "snapshot"})
  BY <1>1 DEF Noted, Like, JobFields
<1> QED BY <1>2, LikeJob

Retried(job) == [job EXCEPT !.retried = TRUE, !.phase = "summary", !.summary = NoSummary]
\* A graph starts over.
LEMMA RetriedLike ==
    ASSUME NEW job, IsJob(job), NEW a, a = Retried(job)
    PROVE  /\ Like(a, job, {"retried", "phase", "summary"}) /\ IsJob(a) /\ a.bytes = job.bytes
           /\ a.phase = "summary"
<1>1. job = [f \in JobFields |-> job[f]]
  BY DEF IsJob
<1> DEFINE yes == TRUE
<1>2. a = [job EXCEPT !.retried = yes, !.phase = "summary", !.summary = NoSummary]
  BY DEF Retried
<1> HIDE DEF yes
<1>3. Like(a, job, {"retried", "phase", "summary"}) /\ a.phase = "summary"
  BY <1>1, <1>2 DEF Like, JobFields
<1>4. a.phase \in Phases
  BY <1>3 DEF Phases
<1> QED BY <1>3, <1>4, LikeJob

Viewing(job, s) == [job EXCEPT !.phase = "viewport", !.summary = s]
\* A graph goes on to its viewport.
LEMMA ViewportLike ==
    ASSUME NEW job, IsJob(job), NEW s, NEW a, a = Viewing(job, s)
    PROVE  /\ Like(a, job, {"phase", "summary"}) /\ IsJob(a) /\ a.bytes = job.bytes
           /\ a.phase = "viewport" /\ a.summary = s
<1>1. job = [f \in JobFields |-> job[f]]
  BY DEF IsJob
<1>2. Like(a, job, {"phase", "summary"}) /\ a.phase = "viewport" /\ a.summary = s
  BY <1>1 DEF Viewing, Like, JobFields
<1>3. a.phase \in Phases
  BY <1>2 DEF Phases
<1> QED BY <1>2, <1>3, LikeJob

Joined(J, j, ask, visible) ==
    [J EXCEPT ![j].subscribers = @ \union {ask}, ![j].query.visible = @ \/ visible]
\* A new subscriber joins.
LEMMA JoinedLike ==
    ASSUME NEW J, JobTable(J), NEW j \in DOMAIN J, NEW ask, NEW visible \in BOOLEAN,
           NEW K, K = Joined(J, j, ask, visible)
    PROVE  /\ K = [J EXCEPT ![j] = K[j]]
           /\ Like(K[j], J[j], {"subscribers", "query"}) /\ IsJob(K[j]) /\ K[j].bytes = J[j].bytes
           /\ K[j].subscribers = J[j].subscribers \union {ask}
           /\ \E v \in BOOLEAN : K[j].query = [J[j].query EXCEPT !.visible = v]
<1> DEFINE job == J[j]
           v == job.query.visible \/ visible
           query == [job.query EXCEPT !.visible = v]
           b == [job EXCEPT !.subscribers = job.subscribers \union {ask}]
           a == [b EXCEPT !.query = query]
           M == [J EXCEPT ![j] = b]
<1>1. J = [i \in DOMAIN J |-> J[i]] /\ IsJob(job)
  BY DEF JobTable
<1>2. job = [f \in JobFields |-> job[f]] /\ job.query \in Queries
  BY <1>1 DEF IsJob
<1>3. b = [f \in JobFields |-> b[f]] /\ b.query = job.query /\ Like(b, job, {"subscribers"})
      /\ b.subscribers = job.subscribers \union {ask}
  BY <1>2 DEF JobFields, Like
<1>4. M[j] = b /\ M = [i \in DOMAIN J |-> M[i]]
  BY <1>1
<1>5. K = [M EXCEPT ![j].query.visible = @ \/ visible]
  BY DEF Joined
<1>6. v \in BOOLEAN
  BY <1>2 DEF Queries
<1>7. K = [M EXCEPT ![j] = a]
  <2>1. [M EXCEPT ![j].query.visible = @ \/ visible]
          = [M EXCEPT ![j] = [M[j] EXCEPT !.query = [M[j].query EXCEPT !.visible = M[j].query.visible \/ visible]]]
    OBVIOUS
  <2>2. M[j].query = job.query
    BY <1>3, <1>4
  <2> HIDE DEF M, b, job
  <2> QED BY <1>4, <1>5, <2>1, <2>2
<1>8. K = [J EXCEPT ![j] = a] /\ K[j] = a
  <2> HIDE DEF a, b
  <2>1. K = [[J EXCEPT ![j] = b] EXCEPT ![j] = a]
    BY <1>7
  <2>2. [[J EXCEPT ![j] = b] EXCEPT ![j] = a] = [J EXCEPT ![j] = a]
    BY <1>1
  <2>3. [J EXCEPT ![j] = a][j] = a
    BY <1>1
  <2> QED BY <2>1, <2>2, <2>3
<1>9. query \in Queries
  BY <1>2, <1>6 DEF Queries
<1>10. Like(a, job, {"subscribers", "query"}) /\ a.query = query /\ a.subscribers = b.subscribers
  <2> HIDE DEF b, query
  <2> QED BY <1>3 DEF Like, JobFields
<1> HIDE DEF a, b, query
<1>11. IsJob(a) /\ a.bytes = job.bytes
  BY <1>1, <1>9, <1>10, LikeJob
<1>12. \E w \in BOOLEAN : a.query = [job.query EXCEPT !.visible = w]
  BY <1>6, <1>10 DEF query
<1> QED BY <1>3, <1>8, <1>10, <1>11, <1>12

Left(job, ids, c) == [job EXCEPT !.subscribers = job.subscribers \ ids, !.cancelRequested = c]
\* Some subscribers leave.
LEMMA LeftLike ==
    ASSUME NEW job, IsJob(job), NEW ids, NEW c, NEW a,
           a = Left(job, ids, c)
    PROVE  /\ Like(a, job, {"subscribers", "cancelRequested"}) /\ IsJob(a) /\ a.bytes = job.bytes
           /\ a.subscribers = job.subscribers \ ids /\ a.cancelRequested = c
<1>1. job = [f \in JobFields |-> job[f]]
  BY DEF IsJob
<1>2. /\ Like(a, job, {"subscribers", "cancelRequested"})
      /\ a.subscribers = job.subscribers \ ids /\ a.cancelRequested = c
  BY <1>1 DEF Left, Like, JobFields
<1> QED BY <1>2, LikeJob

Renewed(job, e) == [job EXCEPT !.epoch = e]
\* A job goes over to the next session.
LEMMA EpochLike ==
    ASSUME NEW job, IsJob(job), NEW e, NEW a, a = Renewed(job, e)
    PROVE  Like(a, job, {"epoch"}) /\ IsJob(a) /\ a.bytes = job.bytes /\ a.epoch = e
<1>1. job = [f \in JobFields |-> job[f]]
  BY DEF IsJob
<1>2. Like(a, job, {"epoch"}) /\ a.epoch = e
  BY <1>1 DEF Renewed, Like, JobFields
<1> QED BY <1>2, LikeJob

Replaced(J, j, r) == [J EXCEPT ![j].result = r]
\* A result is replaced.
LEMMA ResultLike ==
    ASSUME NEW J, JobTable(J), NEW j \in DOMAIN J, NEW r, NEW K, K = Replaced(J, j, r)
    PROVE  /\ K = [J EXCEPT ![j] = K[j]]
           /\ Like(K[j], J[j], {"result"}) /\ IsJob(K[j]) /\ K[j].bytes = J[j].bytes
           /\ K[j].result = r
<1> DEFINE a == [J[j] EXCEPT !.result = r]
<1>1. J = [i \in DOMAIN J |-> J[i]] /\ IsJob(J[j]) /\ J[j] = [f \in JobFields |-> J[j][f]]
  BY DEF JobTable, IsJob
<1>2. K = [J EXCEPT ![j] = a]
  BY DEF Replaced
<1>3. Like(a, J[j], {"result"}) /\ a.result = r
  BY <1>1 DEF Like, JobFields
<1> HIDE DEF a
<1>4. K[j] = a
  BY <1>1, <1>2
<1> QED BY <1>1, <1>2, <1>3, <1>4, LikeJob

Requeued(J, j, r) == [J EXCEPT ![j].phase = "queued", ![j].result = r]
\* A finished job waits again.
LEMMA RequeuedLike ==
    ASSUME NEW J, JobTable(J), NEW j \in DOMAIN J, NEW r,
           NEW K, K = Requeued(J, j, r)
    PROVE  /\ K = [J EXCEPT ![j] = K[j]]
           /\ Like(K[j], J[j], {"phase", "result"}) /\ IsJob(K[j]) /\ K[j].bytes = J[j].bytes
           /\ K[j].result = r /\ K[j].phase = "queued"
<1> DEFINE b == [J[j] EXCEPT !.phase = "queued"]
           a == [b EXCEPT !.result = r]
           M == [J EXCEPT ![j] = b]
<1>1. J = [i \in DOMAIN J |-> J[i]] /\ IsJob(J[j]) /\ J[j] = [f \in JobFields |-> J[j][f]]
  BY DEF JobTable, IsJob
<1>2. Like(b, J[j], {"phase"}) /\ b.phase = "queued"
  BY <1>1 DEF Like, JobFields
<1>3. K = [M EXCEPT ![j].result = r] /\ M[j] = b
  BY <1>1 DEF Requeued
<1>4. [M EXCEPT ![j].result = r] = [M EXCEPT ![j] = [M[j] EXCEPT !.result = r]]
  OBVIOUS
<1> HIDE DEF b
<1>5. K = [[J EXCEPT ![j] = b] EXCEPT ![j] = a]
  BY <1>3, <1>4
<1>6. Like(a, J[j], {"phase", "result"}) /\ a.result = r /\ a.phase = "queued"
  BY <1>2 DEF Like, JobFields
<1> HIDE DEF a, M
<1>7. K = [J EXCEPT ![j] = a] /\ K[j] = a
  BY <1>1, <1>5
<1>8. a.phase \in Phases
  BY <1>6 DEF Phases
<1> QED BY <1>1, <1>6, <1>7, <1>8, LikeJob

\* A new job.
LEMMA NewJobOK ==
    ASSUME NEW query \in Queries, NEW ask, NEW a, a = NewJob(query, ask)
    PROVE  /\ IsJob(a) /\ a.bytes = query.bytes /\ a.phase = "queued" /\ a.query = query
           /\ a.subscribers = {ask} /\ a.epoch = epoch /\ a.wire = 0 /\ a.result = Nothing
           /\ ~a.cancelRequested /\ a.key = CoalescingKey(query)
           /\ a.fence = fence /\ a.listing = listing
<1>1. /\ a = [f \in JobFields |-> a[f]]
      /\ a.bytes = query.bytes /\ a.phase = "queued" /\ a.query = query
      /\ a.subscribers = {ask} /\ a.epoch = epoch /\ a.wire = 0 /\ a.result = Nothing
      /\ a.key = CoalescingKey(query) /\ a.fence = fence /\ a.listing = listing
  BY DEF NewJob, JobFields
<1>2. ~a.cancelRequested
  BY DEF NewJob
<1>3. query.bytes \in Nat /\ "queued" \in Phases
  BY DEF Queries, Phases
<1> QED BY <1>1, <1>2, <1>3 DEF IsJob
-----------------------------------------------------------------------------
(* The tables are kept.                                                    *)

\* Nothing is done to the jobs.
LEMMA PlacesSame ==
    ASSUME Places, UNCHANGED <<jobs, queue, active, queuedBytes>>, DOMAIN asked \subseteq DOMAIN asked'
    PROVE  Places'
<1>1. /\ JobTable(jobs') /\ DOMAIN jobs' \subseteq DOMAIN asked'
      /\ Placed(jobs', queue', active') /\ Charged(jobs', queuedBytes')
  BY DEF Places
<1> QED BY <1>1 DEF Places, JobTable, Placed, Charged

\* Where the table is after a step.
LEMMA PlacesFrom ==
    ASSUME JobTable(jobs'), DOMAIN jobs' \subseteq DOMAIN asked',
           Placed(jobs', queue', active'), Charged(jobs', queuedBytes')
    PROVE  Places'
  BY DEF Places, JobTable, Placed, Charged

\* Subscriptions are those there were, some taken away or changed.
LEMMA SubsFewer ==
    ASSUME SubsOK, IsSeq(asked), DOMAIN asked \subseteq DOMAIN asked',
           subscriptions' = [i \in DOMAIN subscriptions' |-> subscriptions'[i]],
           DOMAIN subscriptions' \subseteq DOMAIN subscriptions,
           \A i \in DOMAIN subscriptions' :
              subscriptions'[i] = [f \in {"owner", "epoch", "job"} |-> subscriptions'[i][f]]
    PROVE  SubsOK'
<1>1. IsFiniteSet(DOMAIN subscriptions)
  <2>1. IsFiniteSet(DOMAIN asked)
    <3>1. DOMAIN asked = 1..Len(asked) /\ Len(asked) \in Int /\ 1 \in Int
      BY SeqType
    <3> QED BY <3>1, FS_Interval
  <2> QED BY <2>1, FS_Subset DEF SubsOK
<1>2. /\ Cardinality(DOMAIN subscriptions') <= Cardinality(DOMAIN subscriptions)
      /\ Cardinality(DOMAIN subscriptions') \in Nat /\ Cardinality(DOMAIN subscriptions) \in Nat
  BY <1>1, FS_Subset, FS_CardinalityType
<1>3. MaxSubscriptions \in Nat
  BY QueryAssumption
<1> QED BY <1>2, <1>3 DEF SubsOK

\* A restriction of the subscriptions.
LEMMA SubsWithout ==
    ASSUME SubsOK, IsSeq(asked), DOMAIN asked \subseteq DOMAIN asked', NEW ids,
           subscriptions' = Without(subscriptions, ids)
    PROVE  /\ SubsOK' /\ DOMAIN subscriptions' = DOMAIN subscriptions \ ids
           /\ \A i \in DOMAIN subscriptions' : subscriptions'[i] = subscriptions[i]
<1>1. /\ DOMAIN subscriptions' = DOMAIN subscriptions \ ids
      /\ \A i \in DOMAIN subscriptions' : subscriptions'[i] = subscriptions[i]
      /\ subscriptions' = [i \in DOMAIN subscriptions' |-> subscriptions'[i]]
  BY DEF Without, Restrict
<1>2. \A i \in DOMAIN subscriptions' :
         subscriptions'[i] = [f \in {"owner", "epoch", "job"} |-> subscriptions'[i][f]]
  BY <1>1 DEF SubsOK
<1> QED BY <1>1, <1>2, SubsFewer

\* Nothing is done to the subscriptions.
LEMMA SubsSame ==
    ASSUME SubsOK, UNCHANGED subscriptions, DOMAIN asked \subseteq DOMAIN asked'
    PROVE  SubsOK'
  BY DEF SubsOK

\* Nothing is done to the tables.
LEMMA TablesSame ==
    ASSUME Tables, UNCHANGED table, UNCHANGED asked, UNCHANGED frames, UNCHANGED owners,
           available' \in BOOLEAN, starting' \in BOOLEAN, loaded' \in BOOLEAN
    PROVE  Tables'
<1>1. Places' /\ SubsOK'
  BY PlacesSame, SubsSame DEF Tables, table
<1>2. Stack'
  BY DEF Tables, Stack, FrameOK, IsJob
<1> QED BY <1>1, <1>2 DEF Tables

\* The stack is kept, too.
LEMMA StackSame ==
    ASSUME Stack, UNCHANGED <<frames, available, starting, loaded>>,
           owners' \subseteq owners, IsSeq(asked')
    PROVE  Stack'
  BY DEF Stack, FrameOK, IsJob

\* Without loss of generality, a query asked is one of Queries.
LEMMA QueryType == Query \subseteq Queries
  BY QueryAssumption DEF Queries

\* What an ask changes: a refusal is deferred, a job is joined, or one is made.
AskRefused(ask, query, owner) ==
    /\ deferred' = deferred \union {[task |-> "reject", ask |-> ask, owner |-> owner,
                                     epoch |-> epoch, code |-> Refusal(query)]}
    /\ Refusal(query) # ""
    /\ UNCHANGED <<jobs, subscriptions, queue, queuedBytes, fence>>
AskJoins(ask, query, owner, j) ==
    /\ j \in Shared(query) /\ Refusal(query) = ""
    /\ jobs' = [jobs EXCEPT ![j].subscribers = @ \union {ask},
                            ![j].query.visible = @ \/ query.visible]
    /\ subscriptions' = Extended(subscriptions, ask, [owner |-> owner, epoch |-> epoch, job |-> j])
    /\ deferred' = deferred \union {Pumping}
    /\ UNCHANGED <<queue, queuedBytes, fence>>
AskMakes(ask, query, owner) ==
    /\ Shared(query) = {} /\ Refusal(query) = ""
    /\ jobs' = Extended(jobs, ask, NewJob(query, ask))
    /\ subscriptions' = Extended(subscriptions, ask, [owner |-> owner, epoch |-> epoch, job |-> ask])
    /\ queue' = Append(queue, ask)
    /\ queuedBytes' = queuedBytes + query.bytes
    /\ fence' = FenceAfter(query)
    /\ deferred' = deferred \union {Pumping}
Asked(query, owner) ==
    [query |-> query, owner |-> owner, knows |-> known, project |-> project, process |-> client.epoch]
AskRest(query, owner) ==
    /\ asked' = Append(asked, Asked(query, owner)) /\ owner \in owners
    /\ UNCHANGED <<active, context, available, epoch, analysisComplete, listing, cache,
                   frames, owners, told, left, announced, client, transport, posted, worker,
                   starting, loaded, known>>

\* Asks is one of the three.
LEMMA AskCases ==
    ASSUME Asks
    PROVE  \E query \in Query, owner \in Owner :
              /\ AskRest(query, owner)
              /\ \/ AskRefused(Len(asked) + 1, query, owner)
                 \/ \E j \in DOMAIN jobs : AskJoins(Len(asked) + 1, query, owner, j)
                 \/ AskMakes(Len(asked) + 1, query, owner)
<1>1. PICK query \in Query, owner \in Owner :
          Ask(query, owner, known) /\ UNCHANGED <<transport, posted, worker, sessionVars>>
  BY DEF Asks
<1>2. AskRest(query, owner)
  BY <1>1 DEF Ask, AskRest, Asked, sessionVars
<1>3. CASE Refusal(query) # ""
  <2>1. AskRefused(Len(asked) + 1, query, owner)
    BY <1>1, <1>3 DEF Ask, AskRefused
  <2> QED BY <1>2, <2>1
<1>4. CASE Refusal(query) = ""
  <2>1. CASE Shared(query) # {}
    <3>1. \E j \in Shared(query) : AskJoins(Len(asked) + 1, query, owner, j)
      BY <1>1, <1>4, <2>1 DEF Ask, AskJoins
    <3>2. Shared(query) \subseteq DOMAIN jobs
      BY DEF Shared
    <3> QED BY <1>2, <3>1, <3>2
  <2>2. CASE Shared(query) = {}
    <3>1. AskMakes(Len(asked) + 1, query, owner)
      BY <1>1, <1>4, <2>2 DEF Ask, AskMakes
    <3> QED BY <1>2, <3>1
  <2> QED BY <2>1, <2>2
<1> QED BY <1>3, <1>4

\* The ask has a number of its own.
LEMMA AskNumber ==
    ASSUME IsSeq(asked), NEW query, NEW owner, AskRest(query, owner)
    PROVE  /\ IsSeq(asked') /\ DOMAIN asked' = DOMAIN asked \union {Len(asked) + 1}
           /\ Len(asked) + 1 \notin DOMAIN asked /\ Len(asked) + 1 # 0 /\ Len(asked) + 1 \in Nat
           /\ \A n \in DOMAIN asked : asked'[n] = asked[n]
           /\ asked'[Len(asked) + 1] = Asked(query, owner)
<1>1. asked' = Append(asked, Asked(query, owner))
  BY DEF AskRest
<1>2. Len(asked) + 1 # 0 /\ Len(asked) + 1 \in Nat
  BY DEF IsSeq
<1> QED BY <1>1, <1>2, AppendOK

\* Nobody is refused without a reason.
LEMMA Accepted ==
    ASSUME NEW query, Refusal(query) = ""
    PROVE  /\ available /\ ~(Cardinality(DOMAIN subscriptions) >= MaxSubscriptions)
           /\ Shared(query) = {} =>
                 /\ ~(Cardinality(DOMAIN jobs) >= MaxJobs)
                 /\ ~(query.bytes > MaxQueuedBytes - queuedBytes)
<1>1. available
  BY DEF Refusal
<1>2. ~(Cardinality(DOMAIN subscriptions) >= MaxSubscriptions)
  BY <1>1 DEF Refusal
<1>3. ASSUME Shared(query) = {} PROVE /\ ~(Cardinality(DOMAIN jobs) >= MaxJobs)
                                      /\ ~(query.bytes > MaxQueuedBytes - queuedBytes)
  BY <1>1, <1>2, <1>3 DEF Refusal
<1> QED BY <1>1, <1>2, <1>3

\* A subscription more, if the limit allows it.
LEMMA SubsMore ==
    ASSUME SubsOK, IsSeq(asked), NEW ask, ask \notin DOMAIN asked,
           DOMAIN asked' = DOMAIN asked \union {ask},
           NEW owner, NEW j, NEW e,
           subscriptions' = Extended(subscriptions, ask, [owner |-> owner, epoch |-> e, job |-> j]),
           ~(Cardinality(DOMAIN subscriptions) >= MaxSubscriptions)
    PROVE  /\ SubsOK' /\ DOMAIN subscriptions' = DOMAIN subscriptions \union {ask}
           /\ subscriptions'[ask] = [owner |-> owner, epoch |-> e, job |-> j]
           /\ \A i \in DOMAIN subscriptions : subscriptions'[i] = subscriptions[i]
<1> DEFINE s == [owner |-> owner, epoch |-> e, job |-> j]
<1>0. ask \notin DOMAIN subscriptions
  BY DEF SubsOK
<1>1. Extends(subscriptions', subscriptions, ask, s)
  BY ExtendedOK
<1>2. s = [f \in {"owner", "epoch", "job"} |-> s[f]]
  OBVIOUS
<1> HIDE DEF s
<1>3. /\ DOMAIN subscriptions' = DOMAIN subscriptions \union {ask} /\ subscriptions'[ask] = s
      /\ \A i \in DOMAIN subscriptions : subscriptions'[i] = subscriptions[i]
      /\ subscriptions' = [i \in DOMAIN subscriptions' |-> subscriptions'[i]]
  BY <1>0, <1>1 DEF Extends
<1>4. \A i \in DOMAIN subscriptions' :
         subscriptions'[i] = [f \in {"owner", "epoch", "job"} |-> subscriptions'[i][f]]
  BY <1>2, <1>3 DEF SubsOK
<1>5. IsFiniteSet(DOMAIN subscriptions)
  <2>1. DOMAIN asked = 1..Len(asked) /\ Len(asked) \in Int /\ 1 \in Int
    BY SeqType
  <2>2. IsFiniteSet(DOMAIN asked)
    BY <2>1, FS_Interval
  <2> QED BY <2>2, FS_Subset DEF SubsOK
<1>6. /\ Cardinality(DOMAIN subscriptions \union {ask}) = Cardinality(DOMAIN subscriptions) + 1
      /\ Cardinality(DOMAIN subscriptions) \in Nat
  BY <1>0, <1>5, FS_AddElement, FS_CardinalityType
<1>7. MaxSubscriptions \in Nat
  BY QueryAssumption
<1>8. Cardinality(DOMAIN subscriptions') <= MaxSubscriptions
  BY <1>3, <1>6, <1>7
<1> QED BY <1>3, <1>4, <1>8 DEF SubsOK, s

\* Asking keeps the tables.
LEMMA AskTables == ASSUME Tables, Asks PROVE Tables'
<1>1. PICK query \in Query, owner \in Owner :
          /\ AskRest(query, owner)
          /\ \/ AskRefused(Len(asked) + 1, query, owner)
             \/ \E j \in DOMAIN jobs : AskJoins(Len(asked) + 1, query, owner, j)
             \/ AskMakes(Len(asked) + 1, query, owner)
  BY AskCases
<1> DEFINE ask == Len(asked) + 1
<1>2. Places /\ SubsOK /\ Stack /\ IsSeq(asked)
  BY DEF Tables, Stack
<1>3. /\ IsSeq(asked') /\ DOMAIN asked' = DOMAIN asked \union {ask}
      /\ ask \notin DOMAIN asked /\ ask # 0
  BY <1>1, <1>2, AskNumber
<1> HIDE DEF ask
<1>4. Stack'
  BY <1>1, <1>2, <1>3, StackSame DEF AskRest
<1>5. UNCHANGED active /\ query \in Queries
  BY <1>1, QueryType DEF AskRest
<1>6. CASE AskRefused(ask, query, owner)
  <2>1. Places' /\ SubsOK'
    BY <1>2, <1>3, <1>5, <1>6, PlacesSame, SubsSame DEF AskRefused
  <2> QED BY <1>4, <2>1 DEF Tables
<1>7. ASSUME NEW j \in DOMAIN jobs, AskJoins(ask, query, owner, j) PROVE Tables'
  <2>1. JobTable(jobs) /\ Placed(jobs, queue, active) /\ Charged(jobs, queuedBytes)
        /\ DOMAIN jobs \subseteq DOMAIN asked
    BY <1>2 DEF Places
  <2>2. query.visible \in BOOLEAN
    BY <1>5 DEF Queries
  <2>3. /\ jobs' = [jobs EXCEPT ![j] = jobs'[j]] /\ IsJob(jobs'[j])
        /\ jobs'[j].bytes = jobs[j].bytes
        /\ Like(jobs'[j], jobs[j], {"subscribers", "query"})
    <3> DEFINE v == query.visible
               K == jobs'
    <3>1. v \in BOOLEAN
      BY <2>2
    <3>2. K = Joined(jobs, j, ask, v)
      BY <1>7 DEF AskJoins, Joined
    <3> HIDE DEF v, K
    <3>3. /\ K = [jobs EXCEPT ![j] = K[j]] /\ IsJob(K[j]) /\ K[j].bytes = jobs[j].bytes
          /\ Like(K[j], jobs[j], {"subscribers", "query"})
      BY <2>1, <3>1, <3>2, JoinedLike
    <3> QED BY <3>3 DEF K
  <2>4. /\ JobTable(jobs') /\ DOMAIN jobs' = DOMAIN jobs
        /\ \A i \in DOMAIN jobs : i # j => jobs'[i] = jobs[i]
        /\ Charged(jobs', queuedBytes)
    BY <2>1, <2>3, ReplaceOK
  <2>5. jobs'[j].phase = jobs[j].phase
    BY <2>3 DEF Like, JobFields
  <2>6. Placed(jobs', queue, active)
    <3>1. \A i \in DOMAIN jobs : jobs'[i].phase = jobs[i].phase
      BY <2>4, <2>5
    <3> QED BY <2>1, <2>4, <3>1 DEF Placed
  <2>7. Places'
    BY <1>3, <1>5, <1>7, <2>1, <2>4, <2>6, PlacesFrom DEF AskJoins
  <2>8. SubsOK'
    BY <1>2, <1>3, <1>7, Accepted, SubsMore DEF AskJoins
  <2> QED BY <1>4, <2>7, <2>8 DEF Tables
<1>8. CASE AskMakes(ask, query, owner)
  <2>1. JobTable(jobs) /\ Placed(jobs, queue, active) /\ Charged(jobs, queuedBytes)
        /\ DOMAIN jobs \subseteq DOMAIN asked
    BY <1>2 DEF Places
  <2> DEFINE r == NewJob(query, ask)
  <2>2. IsJob(r) /\ r.bytes = query.bytes /\ r.phase = "queued"
    BY <1>5, NewJobOK
  <2> HIDE DEF r
  <2>3. ask \notin DOMAIN jobs
    BY <1>3, <2>1
  <2>4. jobs' = Extended(jobs, ask, r) /\ queue' = Append(queue, ask)
        /\ queuedBytes' = queuedBytes + r.bytes
    BY <1>8, <2>2 DEF AskMakes, r
  <2>5. JobTable(jobs') /\ Placed(jobs', queue', active')
    BY <1>3, <1>5, <2>1, <2>2, <2>3, <2>4, NewPlaced
  <2>6. ~(Cardinality(DOMAIN jobs) >= MaxJobs) /\ ~(r.bytes > MaxQueuedBytes - queuedBytes)
    BY <1>8, <2>2, Accepted DEF AskMakes
  <2>7. Charged(jobs', queuedBytes')
    BY <2>1, <2>2, <2>3, <2>4, <2>6, NewCharged
  <2>8. DOMAIN jobs' \subseteq DOMAIN asked'
    <3>1. Extends(jobs', jobs, ask, r)
      BY <2>4, ExtendedOK
    <3> QED BY <1>3, <2>1, <3>1 DEF Extends
  <2>9. Places'
    BY <2>5, <2>7, <2>8, PlacesFrom
  <2>10. SubsOK'
    BY <1>2, <1>3, <1>8, Accepted, SubsMore DEF AskMakes
  <2> QED BY <1>4, <2>9, <2>10 DEF Tables
<1> QED BY <1>1, <1>6, <1>7, <1>8 DEF ask

\* The jobs that lose their last subscriber when `ids' leave, those that go
\* with it, and those that are recalled.
Emptied(ids) ==
    {j \in DOMAIN jobs : /\ jobs[j].subscribers \intersect ids # {}
                         /\ jobs[j].subscribers \subseteq ids
                         /\ Kind(j) # "command"}
Gone(ids) == {j \in Emptied(ids) : GoesAtOnce(j)}
Recalled(ids) == {j \in Emptied(ids) : Flying(j) /\ ~jobs[j].cancelRequested}

\* What a withdrawal changes.
Detached(ids) ==
    /\ subscriptions' = Without(subscriptions, ids)
    /\ jobs' = [j \in DOMAIN jobs \ Gone(ids) |->
                   [jobs[j] EXCEPT !.subscribers = @ \ ids,
                                   !.cancelRequested = @ \/ j \in Recalled(ids)]]
    /\ queue' = Unqueued(queue, Gone(ids))
    /\ queuedBytes' = queuedBytes - SumBytes(jobs, Gone(ids))
    /\ active' = IF active \in Gone(ids) THEN 0 ELSE active
    /\ deferred' = IF Gone(ids) = {} THEN deferred ELSE deferred \union {Pumping}
    /\ client' = FoldSet(LAMBDA j, c :
                     Request(c, [op |-> "cancel", target |-> jobs[j].wire]), client, Recalled(ids))
    /\ left' = left \union ids
    /\ owners' \subseteq owners
    /\ UNCHANGED <<context, session, listing, cache, frames, told, asked, announced, transport,
                   posted, worker, sessionVars>>

\* Withdraws is that, for some subscriptions.
LEMMA DetachCases ==
    ASSUME Withdraws
    PROVE  \E ids \in SUBSET DOMAIN subscriptions : Detached(ids)
<1>0. ASSUME NEW ids \in SUBSET DOMAIN subscriptions, Detach(ids), owners' \subseteq owners,
             UNCHANGED <<transport, posted, worker, sessionVars>>
      PROVE  Detached(ids)
  BY <1>0 DEF Detach, Detached, Emptied, Gone, Recalled, RemoveJobs, Bytes, SumBytes
<1>1. UNCHANGED <<transport, posted, worker, sessionVars>>
  BY DEF Withdraws
<1>2. CASE \E i \in DOMAIN subscriptions : Unsubscribe(i)
  BY <1>0, <1>1, <1>2 DEF Unsubscribe
<1>3. CASE \E owner \in Owner : UnsubscribeOwner(owner)
  BY <1>0, <1>1, <1>3 DEF UnsubscribeOwner
<1>4. CASE \E keep \in SUBSET Owner : CancelReads(keep)
  BY <1>0, <1>1, <1>4 DEF CancelReads
<1> QED BY <1>2, <1>3, <1>4 DEF Withdraws

\* What becomes of the jobs that stay.
LEMMA DetachedJobs ==
    ASSUME JobTable(jobs), NEW ids, Detached(ids)
    PROVE  /\ JobTable(jobs') /\ DOMAIN jobs' = DOMAIN jobs \ Gone(ids) /\ Gone(ids) \in SUBSET DOMAIN jobs
           /\ \A j \in DOMAIN jobs' :
                 /\ Like(jobs'[j], jobs[j], {"subscribers", "cancelRequested"})
                 /\ jobs'[j].bytes = jobs[j].bytes
                 /\ jobs'[j].subscribers = jobs[j].subscribers \ ids
                 /\ jobs'[j].cancelRequested = (jobs[j].cancelRequested \/ j \in Recalled(ids))
<1>1. Gone(ids) \in SUBSET DOMAIN jobs
  BY DEF Gone, Emptied
<1>2. /\ DOMAIN jobs' = DOMAIN jobs \ Gone(ids) /\ jobs' = [j \in DOMAIN jobs' |-> jobs'[j]]
      /\ \A j \in DOMAIN jobs' : jobs'[j] = [jobs[j] EXCEPT !.subscribers = @ \ ids,
                                   !.cancelRequested = @ \/ j \in Recalled(ids)]
  BY DEF Detached
<1>3. ASSUME NEW j \in DOMAIN jobs'
      PROVE  /\ Like(jobs'[j], jobs[j], {"subscribers", "cancelRequested"}) /\ IsJob(jobs'[j])
             /\ jobs'[j].bytes = jobs[j].bytes
             /\ jobs'[j].subscribers = jobs[j].subscribers \ ids
             /\ jobs'[j].cancelRequested = (jobs[j].cancelRequested \/ j \in Recalled(ids))
  <2> DEFINE c == jobs[j].cancelRequested \/ j \in Recalled(ids)
             job == jobs[j]
             a == jobs'[j]
  <2>1. IsJob(job)
    BY <1>2 DEF JobTable
  <2>2. a = Left(job, ids, c)
    BY <1>2 DEF Left
  <2> HIDE DEF c, job, a
  <2>3. /\ Like(a, job, {"subscribers", "cancelRequested"}) /\ IsJob(a) /\ a.bytes = job.bytes
        /\ a.subscribers = job.subscribers \ ids /\ a.cancelRequested = c
    BY <2>1, <2>2, LeftLike
  <2> QED BY <2>3 DEF c, job, a
<1>4. IsFiniteSet(DOMAIN jobs')
  BY <1>2, FS_Subset DEF JobTable
<1>5. JobTable(jobs')
  BY <1>2, <1>3, <1>4 DEF JobTable
<1> QED BY <1>1, <1>2, <1>3, <1>5

\* Withdrawing keeps the tables.
LEMMA DetachTables == ASSUME Tables, Withdraws PROVE Tables'
<1>1. PICK ids \in SUBSET DOMAIN subscriptions : Detached(ids)
  BY DetachCases
<1>2. Places /\ SubsOK /\ Stack /\ IsSeq(asked) /\ UNCHANGED asked
  BY <1>1 DEF Tables, Stack, Detached
<1>3. Stack'
  BY <1>1, <1>2, StackSame DEF Detached, session, sessionVars
<1>4. SubsOK'
  BY <1>1, <1>2, SubsWithout DEF Detached
<1> DEFINE S == Gone(ids)
<1>5. /\ JobTable(jobs) /\ Placed(jobs, queue, active) /\ Charged(jobs, queuedBytes)
      /\ DOMAIN jobs \subseteq DOMAIN asked
  BY <1>2 DEF Places
<1>6. /\ JobTable(jobs') /\ DOMAIN jobs' = DOMAIN jobs \ S /\ S \in SUBSET DOMAIN jobs
      /\ \A j \in DOMAIN jobs' : /\ Like(jobs'[j], jobs[j], {"subscribers", "cancelRequested"})
                                 /\ jobs'[j].bytes = jobs[j].bytes
  BY <1>1, <1>5, DetachedJobs
<1>7. /\ queue' = Unqueued(queue, S) /\ queuedBytes' = queuedBytes - SumBytes(jobs, S)
      /\ active' = IF active \in S THEN 0 ELSE active
  BY <1>1 DEF Detached
<1> HIDE DEF S
<1>8. \A j \in DOMAIN jobs' : jobs'[j].phase = jobs[j].phase
  BY <1>6 DEF Like, JobFields
<1>9. Placed(jobs', queue', active')
  BY <1>5, <1>6, <1>7, <1>8, RemovePlaced
<1>10. Charged(jobs', queuedBytes')
  BY <1>5, <1>6, <1>7, RemoveCharged
<1>11. Places'
  BY <1>2, <1>5, <1>6, <1>9, <1>10, PlacesFrom
<1> QED BY <1>3, <1>4, <1>11 DEF Tables
-----------------------------------------------------------------------------
(* What the steps of the event loop change.                                *)

\* The active job is replaced by another of its size.
LEMMA ReplacePlaces ==
    ASSUME Places, active # 0, NEW a, IsJob(a), a.bytes = jobs[active].bytes, a.phase # "queued",
           jobs' = [jobs EXCEPT ![active] = a], UNCHANGED <<queue, active, queuedBytes, asked>>
    PROVE  /\ Places' /\ active \in DOMAIN jobs /\ DOMAIN jobs' = DOMAIN jobs /\ jobs'[active] = a
           /\ \A i \in DOMAIN jobs : i # active => jobs'[i] = jobs[i]
<1>1. /\ JobTable(jobs) /\ Placed(jobs, queue, active) /\ Charged(jobs, queuedBytes)
      /\ DOMAIN jobs \subseteq DOMAIN asked
  BY DEF Places
<1>2. active \in DOMAIN jobs
  BY <1>1 DEF Placed
<1> DEFINE K == jobs'
<1>3. K = [jobs EXCEPT ![active] = a]
  OBVIOUS
<1> HIDE DEF K
<1>4. /\ JobTable(K) /\ DOMAIN K = DOMAIN jobs /\ K[active] = a
      /\ \A i \in DOMAIN jobs : i # active => K[i] = jobs[i]
      /\ Charged(K, queuedBytes)
  BY <1>1, <1>2, <1>3, ReplaceOK
<1>5. Placed(K, queue, active)
  BY <1>1, <1>2, <1>4, UpdatePlaced
<1>6. Places'
  BY <1>1, <1>4, <1>5, PlacesFrom DEF K
<1> QED BY <1>2, <1>4, <1>6 DEF K

\* A retired session keeps one job at most, and everybody is still subscribed.
LEMMA RetireJobs ==
    ASSUME Places, NEW keep, NEW code, Retire(keep, code)
    PROVE  /\ DOMAIN jobs' = DOMAIN jobs \intersect {keep}
           /\ jobs' = [j \in DOMAIN jobs' |-> jobs'[j]]
           /\ \A j \in DOMAIN jobs' :
                 /\ Like(jobs'[j], jobs[j], {"epoch"}) /\ IsJob(jobs'[j])
                 /\ jobs'[j].bytes = jobs[j].bytes /\ jobs'[j].epoch = epoch + 1
<1>1. jobs' = [j \in DOMAIN jobs \intersect {keep} |-> Renewed(jobs[j], epoch + 1)]
  <2>1. DOMAIN jobs \ Retired(keep) = DOMAIN jobs \intersect {keep}
    BY DEF Retired
  <2> QED BY <2>1 DEF Retire, Renewed
<1>2. ASSUME NEW j \in DOMAIN jobs'
      PROVE  /\ Like(jobs'[j], jobs[j], {"epoch"}) /\ IsJob(jobs'[j])
             /\ jobs'[j].bytes = jobs[j].bytes /\ jobs'[j].epoch = epoch + 1
  <2>1. IsJob(jobs[j]) /\ jobs'[j] = Renewed(jobs[j], epoch + 1)
    BY <1>1 DEF Places, JobTable
  <2> QED BY <2>1, EpochLike
<1> QED BY <1>1, <1>2

\* Retiring keeps the tables.
LEMMA RetireTables ==
    ASSUME Places, SubsOK, IsSeq(asked), NEW keep, NEW code, Retire(keep, code), UNCHANGED asked
    PROVE  Places' /\ SubsOK' /\ DOMAIN subscriptions' = DOMAIN subscriptions
<1>1. /\ JobTable(jobs) /\ Placed(jobs, queue, active) /\ Charged(jobs, queuedBytes)
      /\ DOMAIN jobs \subseteq DOMAIN asked
  BY DEF Places
<1> DEFINE S == Retired(keep)
<1>2. S \in SUBSET DOMAIN jobs /\ DOMAIN jobs \ S = DOMAIN jobs \intersect {keep}
  BY DEF Retired
<1>3. /\ queue' = Unqueued(queue, S) /\ queuedBytes' = queuedBytes - SumBytes(jobs, S)
      /\ active' = IF active \in S THEN 0 ELSE active
  BY DEF Retire, RemoveJobs, Bytes, SumBytes
<1> HIDE DEF S
<1>4. /\ DOMAIN jobs' = DOMAIN jobs \ S /\ jobs' = [j \in DOMAIN jobs' |-> jobs'[j]]
      /\ \A j \in DOMAIN jobs' : /\ Like(jobs'[j], jobs[j], {"epoch"}) /\ IsJob(jobs'[j])
                                 /\ jobs'[j].bytes = jobs[j].bytes
  BY <1>2, RetireJobs
<1>5. IsFiniteSet(DOMAIN jobs')
  BY <1>1, <1>4, FS_Subset DEF JobTable
<1>6. JobTable(jobs')
  BY <1>1, <1>4, <1>5 DEF JobTable
<1>7. \A j \in DOMAIN jobs' : jobs'[j].phase = jobs[j].phase
  BY <1>4 DEF Like, JobFields
<1>8. Placed(jobs', queue', active')
  BY <1>1, <1>2, <1>3, <1>4, <1>7, RemovePlaced
<1>9. Charged(jobs', queuedBytes')
  BY <1>1, <1>2, <1>3, <1>4, RemoveCharged
<1>10. Places'
  BY <1>1, <1>4, <1>6, <1>8, <1>9, PlacesFrom
<1>11. /\ subscriptions' = [i \in DOMAIN subscriptions' |-> subscriptions'[i]]
       /\ DOMAIN subscriptions' = DOMAIN subscriptions
  BY DEF Retire
<1>12. ASSUME NEW i \in DOMAIN subscriptions'
       PROVE  subscriptions'[i] = [f \in {"owner", "epoch", "job"} |-> subscriptions'[i][f]]
  <2> DEFINE s == subscriptions[i]
  <2>1. s = [f \in {"owner", "epoch", "job"} |-> s[f]]
    BY <1>11 DEF SubsOK
  <2>2. \/ subscriptions'[i] = [s EXCEPT !.job = 0, !.epoch = epoch + 1]
        \/ subscriptions'[i] = [s EXCEPT !.epoch = epoch + 1]
        \/ subscriptions'[i] = s
    BY <1>11 DEF Retire
  <2> HIDE DEF s
  <2> QED BY <2>1, <2>2
<1>13. SubsOK'
  BY <1>11, <1>12, SubsFewer
<1> QED BY <1>10, <1>11, <1>13

\* setAvailable(false) keeps the tables.
LEMMA UnavailableTables ==
    ASSUME Tables, SetUnavailable, UNCHANGED <<asked, frames, owners>>,
           starting' \in BOOLEAN, loaded' \in BOOLEAN
    PROVE  Tables'
<1>1. CASE available
  <2>1. Places /\ SubsOK /\ IsSeq(asked) /\ Retire(0, "worker_stopped") /\ available' = FALSE
    BY <1>1 DEF Tables, Stack, SetUnavailable
  <2>2. Places' /\ SubsOK'
    BY <2>1, RetireTables
  <2>3. Stack'
    BY <2>1 DEF Tables, Stack
  <2> QED BY <2>2, <2>3 DEF Tables
<1>2. CASE ~available
  <2>1. UNCHANGED table /\ UNCHANGED available
    BY <1>2 DEF SetUnavailable, session
  <2> QED BY <2>1, TablesSame DEF Tables, Stack
<1> QED BY <1>1, <1>2
\* pump takes from the queue.
LEMMA ChosenOK == ASSUME IsSeq(queue), queue # <<>> PROVE Chosen \in DOMAIN queue
<1> DEFINE visible == {n \in DOMAIN queue : /\ jobs[queue[n]].query.visible
                                            /\ \A m \in 1..n : Kind(queue[m]) # "command"}
<1>1. 1 \in DOMAIN queue
  BY TailOK
<1>2. visible \in SUBSET Nat
  BY SeqType
<1>3. visible # {} => Min(visible) \in visible
  BY <1>2, MinProperties
<1>4. Chosen = IF visible = {} THEN 1 ELSE Min(visible)
  BY DEF Chosen
<1>5. visible \subseteq DOMAIN queue
  OBVIOUS
<1> HIDE DEF visible
<1> QED BY <1>1, <1>3, <1>4, <1>5

\* The request of a job, and what it makes of the job.
Order(j, job, op, layout) ==
    [op |-> op, job |-> j, kind |-> job.query.kind,
     expected |-> IF job.query.exact # 0 THEN job.query.exact ELSE revision, layout |-> layout]
Sends(j, job, op, layout) ==
    /\ client' = Request(client, Order(j, job, op, layout))
    /\ jobs' = [jobs EXCEPT ![j] = Dispatched(job, op, client'.nextRequest)]
Finishes(j, job, result) ==
    /\ jobs' = [jobs EXCEPT ![j] = Finished(job, result)]
    /\ UNCHANGED client

\* What pump does: nothing, answer at once, or begin.
Deliver(j) == [task |-> "deliver", job |-> j]
RunPhase(job) == IF job.query.kind = "graph" THEN "summary" ELSE "reading"
RunOp(job) == IF job.query.kind = "graph" THEN "cfg_summary" ELSE job.query.op
PumpTakes(k) ==
    /\ k \in DOMAIN queue /\ active = 0 /\ available
    /\ active' = queue[k] /\ queue' = RemoveAt(queue, k)
    /\ UNCHANGED <<subscriptions, queuedBytes>>
PumpEnds(j, result) ==
    /\ Finishes(j, jobs[j], result) /\ UNCHANGED cache
    /\ deferred' = (deferred \ {Pumping}) \union {Deliver(j)}
    /\ \/ \E code : result = Error(code) /\ code # "ok"
       \/ jobs[j].query.cached /\ \E hit \in cache : result = hit.result
PumpRuns(j) ==
    /\ Sends(j, Running(jobs[j], RunPhase(jobs[j])), RunOp(jobs[j]), 0)
    /\ deferred' = deferred \ {Pumping}
    /\ cache' \subseteq cache
PumpIdles == deferred' = deferred \ {Pumping} /\ UNCHANGED <<table, cache, client>>
PumpRest ==
    UNCHANGED <<context, session, listing, frames, owners, ghosts, transport, posted, worker, sessionVars>>

\* Pumps is one of them.
LEMMA PumpCases ==
    ASSUME Pumps, IsSeq(queue)
    PROVE  /\ PumpRest
           /\ \/ PumpIdles
              \/ \E k \in DOMAIN queue : PumpTakes(k) /\ \E result : PumpEnds(queue[k], result)
              \/ \E k \in DOMAIN queue : PumpTakes(k) /\ PumpRuns(queue[k])
<1>1. PumpRest
  BY DEF Pumps, Pump, Aside, PumpRest
<1>2. CASE active # 0 \/ queue = <<>> \/ ~available
  <2>1. PumpIdles
    BY <1>2 DEF Pumps, Pump, PumpIdles
  <2> QED BY <1>1, <2>1
<1>3. CASE ~(active # 0 \/ queue = <<>> \/ ~available)
  <2> DEFINE k == Chosen
             j == queue[k]
             job == jobs[j]
             hits == {hit \in cache : hit.key = CacheKey(job)}
             ends(result) ==
                 /\ jobs' = [jobs EXCEPT ![j] = Finished(job, result)]
                 /\ deferred' = (deferred \ {Pumping}) \union {[task |-> "deliver", job |-> j]}
                 /\ UNCHANGED <<client, cache>>
  <2>1. /\ active' = j /\ queue' = RemoveAt(queue, k) /\ UNCHANGED <<subscriptions, queuedBytes>>
        /\ IF job.epoch # epoch THEN ends(Error("session_changed"))
           ELSE IF job.query.exact # 0 /\ job.query.exact # revision
                THEN ends(Error("stale_revision"))
           ELSE IF job.query.cached /\ hits # {} THEN ends((CHOOSE hit \in hits : TRUE).result)
           ELSE deferred' = deferred \ {Pumping} /\ Run(j, job)
    BY <1>3 DEF Pumps, Pump
  <2>2. k \in DOMAIN queue
    BY <1>3, ChosenOK
  <2>3. PumpTakes(k)
    BY <1>3, <2>1, <2>2 DEF PumpTakes
  <2>4. ASSUME NEW result, ends(result),
               (\E code : result = Error(code) /\ code # "ok")
               \/ (job.query.cached /\ \E hit \in cache : result = hit.result)
        PROVE  PumpEnds(j, result)
    BY <2>4 DEF PumpEnds, Finishes, Deliver
  <2>5. CASE job.epoch # epoch
    <3>1. PumpEnds(j, Error("session_changed"))
      BY <2>1, <2>4, <2>5
    <3> QED BY <1>1, <2>2, <2>3, <3>1
  <2>6. CASE job.epoch = epoch /\ job.query.exact # 0 /\ job.query.exact # revision
    <3>1. PumpEnds(j, Error("stale_revision"))
      BY <2>1, <2>4, <2>6
    <3> QED BY <1>1, <2>2, <2>3, <3>1
  <2>7. CASE /\ job.epoch = epoch /\ ~(job.query.exact # 0 /\ job.query.exact # revision)
             /\ job.query.cached /\ hits # {}
    <3> DEFINE h == CHOOSE hit \in hits : TRUE
    <3>1. h \in hits
      BY <2>7
    <3>2. h \in cache
      BY <3>1
    <3>3. ends(h.result)
      BY <2>1, <2>7
    <3> HIDE DEF h
    <3>4. PumpEnds(j, h.result)
      BY <2>4, <2>7, <3>2, <3>3
    <3> QED BY <1>1, <2>2, <2>3, <3>4
  <2>8. CASE /\ job.epoch = epoch /\ ~(job.query.exact # 0 /\ job.query.exact # revision)
             /\ ~(job.query.cached /\ hits # {})
    <3>1. deferred' = deferred \ {Pumping} /\ Run(j, job)
      BY <2>1, <2>8
    <3>2. cache' \subseteq cache
      BY <3>1 DEF Run
    <3>3. Dispatch(j, [job EXCEPT !.phase = IF Kind(j) = "graph" THEN "summary" ELSE "reading"],
                IF Kind(j) = "graph" THEN "cfg_summary" ELSE job.query.op, 0)
      BY <3>1 DEF Run
    <3>4. Sends(j, Running(jobs[j], RunPhase(jobs[j])), RunOp(jobs[j]), 0)
      BY <3>3 DEF Dispatch, Sends, Order, Dispatched, Running, RunPhase, RunOp, Kind
    <3>5. PumpRuns(j)
      BY <3>1, <3>2, <3>4 DEF PumpRuns
    <3> QED BY <1>1, <2>2, <2>3, <3>5
  <2> HIDE DEF hits, job
  <2> QED BY <2>5, <2>6, <2>7, <2>8
<1> QED BY <1>2, <1>3

Puts(j, a) == jobs' = [jobs EXCEPT ![j] = a]
\* Sending or finishing replaces a job.
LEMMA SendsReplaces ==
    ASSUME NEW j, NEW job, IsJob(job), NEW op, NEW layout, Sends(j, job, op, layout)
    PROVE  \E a : /\ Puts(j, a) /\ Like(a, job, DispatchFields) /\ IsJob(a)
                  /\ a.bytes = job.bytes /\ a.phase = job.phase /\ a.wire = client'.nextRequest
                  /\ a.wireOp = op /\ a.wireProject = project
<1> DEFINE a == Dispatched(job, op, client'.nextRequest)
<1>1. Puts(j, a)
  BY DEF Sends, Puts
<1>2. /\ Like(a, job, DispatchFields) /\ IsJob(a) /\ a.bytes = job.bytes
      /\ a.wire = client'.nextRequest /\ a.wireOp = op /\ a.wireProject = project
  <2> DEFINE id == client'.nextRequest
  <2> HIDE DEF id
  <2> QED BY DispatchedLike DEF id
<1> HIDE DEF a
<1>3. a.phase = job.phase
  BY <1>2 DEF Like, JobFields, DispatchFields
<1> QED BY <1>1, <1>2, <1>3

\* Finishing does, too.
LEMMA FinishesReplaces ==
    ASSUME NEW j, NEW job, IsJob(job), NEW result, Finishes(j, job, result)
    PROVE  \E a : /\ Puts(j, a) /\ Like(a, job, FinishFields) /\ IsJob(a)
                  /\ a.bytes = job.bytes /\ a.phase = "delivering" /\ a.wire = 0 /\ a.result = result
<1> DEFINE a == Finished(job, result)
<1>1. Puts(j, a)
  BY DEF Finishes, Puts
<1>2. /\ Like(a, job, FinishFields) /\ IsJob(a) /\ a.bytes = job.bytes
      /\ a.phase = "delivering" /\ a.wire = 0 /\ a.result = result
  BY FinishedLike
<1> HIDE DEF a
<1> QED BY <1>1, <1>2

\* The job pump takes runs, or waits to be delivered.
LEMMA PumpJob ==
    ASSUME Places, NEW k, PumpTakes(k),
           (\E result : PumpEnds(queue[k], result)) \/ PumpRuns(queue[k])
    PROVE  \E a : /\ Puts(queue[k], a) /\ IsJob(a)
                  /\ a.bytes = jobs[queue[k]].bytes /\ a.phase # "queued"
<1> DEFINE j == queue[k]
<1>1. IsJob(jobs[j])
  <2>1. k \in DOMAIN queue /\ j \in Members(queue)
    BY DEF PumpTakes, Members
  <2>2. j \in DOMAIN jobs
    BY <2>1 DEF Places, Placed
  <2> QED BY <2>2 DEF Places, JobTable
<1> HIDE DEF j
<1>2. ASSUME NEW result, PumpEnds(j, result)
      PROVE  \E a : /\ Puts(j, a) /\ IsJob(a)
                    /\ a.bytes = jobs[j].bytes /\ a.phase # "queued"
  <2>1. Finishes(j, jobs[j], result)
    BY <1>2 DEF PumpEnds
  <2> QED BY <1>1, <2>1, FinishesReplaces
<1>3. ASSUME PumpRuns(j)
      PROVE  \E a : /\ Puts(j, a) /\ IsJob(a)
                    /\ a.bytes = jobs[j].bytes /\ a.phase # "queued"
  <2> DEFINE p == RunPhase(jobs[j])
             b == Running(jobs[j], p)
  <2>1. Sends(j, b, RunOp(jobs[j]), 0)
    BY <1>3 DEF PumpRuns
  <2>2. p \in Phases /\ p # "queued"
    BY DEF RunPhase, Phases
  <2> HIDE DEF p
  <2>3. IsJob(b) /\ b.bytes = jobs[j].bytes /\ b.phase = p
    BY <1>1, <2>2, RunLike
  <2> HIDE DEF b
  <2>4. PICK a : /\ Puts(j, a) /\ IsJob(a) /\ a.bytes = b.bytes
                 /\ a.phase = b.phase
    <3> DEFINE op == RunOp(jobs[j])
    <3> HIDE DEF op
    <3>1. Sends(j, b, op, 0)
      BY <2>1 DEF op
    <3> QED BY <2>3, <3>1, SendsReplaces
  <2> QED BY <2>2, <2>3, <2>4
<1> QED BY <1>2, <1>3 DEF j

\* pump keeps the tables.
LEMMA PumpTables == ASSUME Tables, Pumps PROVE Tables'
<1>1. /\ Places /\ SubsOK /\ Stack /\ IsSeq(queue) /\ IsSeq(asked)
      /\ JobTable(jobs) /\ Placed(jobs, queue, active) /\ Charged(jobs, queuedBytes)
      /\ DOMAIN jobs \subseteq DOMAIN asked
  BY DEF Tables, Places, Placed, Stack
<1>2. PumpRest /\ UNCHANGED asked
  BY <1>1, PumpCases DEF PumpRest, ghosts
<1>3. Stack'
  BY <1>1, <1>2, StackSame DEF PumpRest, session, ghosts, sessionVars
<1>4. CASE PumpIdles
  <2>1. Places' /\ SubsOK'
    BY <1>1, <1>2, <1>4, PlacesSame, SubsSame DEF PumpIdles, table
  <2> QED BY <1>3, <2>1 DEF Tables
<1>5. ASSUME NEW k \in DOMAIN queue, PumpTakes(k),
             (\E result : PumpEnds(queue[k], result)) \/ PumpRuns(queue[k])
      PROVE  Tables'
  <2> DEFINE j == queue[k]
             K == jobs'
  <2>1. PICK a : /\ K = [jobs EXCEPT ![j] = a] /\ IsJob(a) /\ a.bytes = jobs[j].bytes
                 /\ a.phase # "queued"
    BY <1>1, <1>5, PumpJob DEF Puts
  <2>2. active = 0 /\ active' = j /\ queue' = RemoveAt(queue, k) /\ UNCHANGED <<subscriptions, queuedBytes>>
    BY <1>5 DEF PumpTakes
  <2> HIDE DEF K
  <2>3. j \in DOMAIN jobs
    <3>1. j \in Members(queue)
      BY DEF Members
    <3> QED BY <1>1, <3>1 DEF Placed
  <2>4. /\ JobTable(K) /\ DOMAIN K = DOMAIN jobs /\ K[j] = a
        /\ \A i \in DOMAIN jobs : i # j => K[i] = jobs[i]
        /\ Charged(K, queuedBytes)
    <3> HIDE DEF j
    <3> QED BY <1>1, <2>1, <2>3, ReplaceOK
  <2>5. Placed(K, RemoveAt(queue, k), j)
    <3>1. Placed(jobs, queue, 0)
      BY <1>1, <2>2
    <3>2. /\ \A i \in DOMAIN jobs : i # queue[k] => K[i] = jobs[i]
          /\ K[queue[k]].phase # "queued" /\ DOMAIN K = DOMAIN jobs
      BY <2>1, <2>4
    <3> QED BY <1>1, <3>1, <3>2, StartPlaced
  <2>6. Places'
    BY <1>1, <1>2, <2>2, <2>4, <2>5, PlacesFrom DEF K
  <2>7. SubsOK'
    BY <1>1, <1>2, <2>2, SubsSame
  <2> QED BY <1>3, <2>6, <2>7 DEF Tables
<1> QED BY <1>1, <1>4, <1>5, PumpCases
\* The stack grows, or its top goes.
LEMMA StackPush ==
    ASSUME Stack, UNCHANGED <<available, starting, loaded, owners, asked>>,
           NEW fr, FrameOK(fr), frames' = Append(frames, fr)
    PROVE  Stack'
<1>1. IsSeq(frames)
  BY DEF Stack
<1>2. /\ IsSeq(frames') /\ DOMAIN frames' = DOMAIN frames \union {Len(frames) + 1}
      /\ \A n \in DOMAIN frames : frames'[n] = frames[n]
      /\ frames'[Len(frames) + 1] = fr
  BY <1>1, AppendOK
<1>3. \A n \in DOMAIN frames' : FrameOK(frames'[n])
  BY <1>2 DEF Stack
<1> QED BY <1>2, <1>3 DEF Stack

\* The top goes.
LEMMA StackPop ==
    ASSUME Stack, frames # <<>>, UNCHANGED <<available, starting, loaded, owners, asked>>,
           frames' = Pop
    PROVE  Stack' /\ Len(frames) \in DOMAIN frames /\ FrameOK(Top)
<1>1. IsSeq(frames)
  BY DEF Stack
<1>2. /\ IsSeq(frames') /\ Len(frames) \in DOMAIN frames
      /\ \A n \in DOMAIN frames' : n \in DOMAIN frames /\ frames'[n] = frames[n]
  BY <1>1, FrontOK DEF Pop
<1> QED BY <1>2 DEF Stack, Top

\* What the beginning of a delivery does: nothing, ask again, or enter the
\* first completion.
Finishing(t) == t.job \in DOMAIN jobs /\ jobs[t.job].phase = "delivering"
DeliverLate(t) ==
    /\ t.job \notin DOMAIN jobs \/ jobs[t.job].phase # "delivering"
    /\ deferred' = deferred \ {t} /\ UNCHANGED <<table, frames>>
DeliverAgain(t) ==
    /\ Finishing(t) /\ Kind(t.job) # "command" /\ jobs' = Requeued(jobs, t.job, Nothing)
    /\ active' = 0 /\ queue' = <<t.job>> \o queue
    /\ deferred' = (deferred \ {t}) \union {Pumping}
    /\ UNCHANGED <<subscriptions, queuedBytes, frames>>
DeliverFrame(j, ids, work) == [frame |-> "deliver", job |-> j, ids |-> ids, work |-> work]
DeliverStarts(t) ==
    /\ Finishing(t)
    /\ \/ jobs' = jobs
       \/ \E code : code # "ok" /\ jobs' = Replaced(jobs, t.job, Error(code))
    /\ frames' = Append(frames, DeliverFrame(t.job, jobs[t.job].subscribers, jobs'[t.job]))
    /\ deferred' = deferred \ {t}
    /\ UNCHANGED <<subscriptions, queue, active, queuedBytes>>
DeliverRest ==
    UNCHANGED <<context, session, listing, cache, owners, ghosts, client, transport, posted, worker,
                sessionVars>>

\* Delivers is one of them.
LEMMA DeliverCases ==
    ASSUME Delivers
    PROVE  /\ DeliverRest
           /\ \E t \in deferred : /\ t.task = "deliver"
                                  /\ DeliverLate(t) \/ DeliverAgain(t) \/ DeliverStarts(t)
<1>1. DeliverRest
  BY DEF Delivers, DeliverBegin, Aside, DeliverRest
<1>2. PICK t \in deferred : DeliverBegin(t)
  BY DEF Delivers
<1>3. t.task = "deliver"
  BY <1>2 DEF DeliverBegin
<1>4. CASE t.job \notin DOMAIN jobs \/ jobs[t.job].phase # "delivering"
  <2>1. DeliverLate(t)
    BY <1>2, <1>4 DEF DeliverBegin, DeliverLate
  <2> QED BY <1>1, <1>3, <2>1
<1>5. CASE ~(t.job \notin DOMAIN jobs \/ jobs[t.job].phase # "delivering")
  <2> DEFINE job == jobs[t.job]
             stale == /\ Kind(t.job) # "command"
                      /\ job.result.code = "ok"
                      /\ \/ job.epoch # epoch
                         \/ job.result.project # project
                         \/ job.result.revision # revision
  <2>1. CASE stale /\ job.epoch = epoch /\ job.query.exact = 0
    <3>1. DeliverAgain(t)
      BY <1>2, <1>5, <2>1 DEF DeliverBegin, DeliverAgain, Finishing, Requeued
    <3> QED BY <1>1, <1>3, <3>1
  <2>2. CASE ~(stale /\ job.epoch = epoch /\ job.query.exact = 0)
    <3>1. /\ jobs' = IF stale
                     THEN [jobs EXCEPT ![t.job].result =
                              Error(IF job.epoch = epoch THEN "stale_revision"
                                                         ELSE "session_changed")]
                     ELSE jobs
          /\ frames' = Append(frames, [frame |-> "deliver", job |-> t.job,
                           ids |-> job.subscribers, work |-> jobs'[t.job]])
          /\ deferred' = deferred \ {t}
          /\ UNCHANGED <<subscriptions, queue, active, queuedBytes>>
      BY <1>2, <1>5, <2>2 DEF DeliverBegin
    <3>2. \/ jobs' = jobs
          \/ \E code : code # "ok" /\ jobs' = Replaced(jobs, t.job, Error(code))
      <4> DEFINE c == IF job.epoch = epoch THEN "stale_revision" ELSE "session_changed"
      <4>1. c # "ok"
        OBVIOUS
      <4>2. CASE stale
        <5>1. jobs' = Replaced(jobs, t.job, Error(c))
          BY <3>1, <4>2 DEF Replaced
        <5> HIDE DEF c
        <5> QED BY <4>1, <5>1
      <4>3. CASE ~stale
        BY <3>1, <4>3
      <4> QED BY <4>2, <4>3
    <3>3. DeliverStarts(t)
      BY <1>5, <3>1, <3>2 DEF DeliverStarts, Finishing, DeliverFrame
    <3> QED BY <1>1, <1>3, <3>3
  <2> QED BY <2>1, <2>2
<1> QED BY <1>4, <1>5

\* What becomes of a job whose delivery begins.
LEMMA DeliverJob ==
    ASSUME Places, NEW t, DeliverStarts(t)
    PROVE  /\ t.job = active /\ active # 0 /\ active \in DOMAIN jobs
           /\ \E a : /\ Puts(active, a) /\ Like(a, jobs[active], {"result"}) /\ IsJob(a)
                     /\ a.bytes = jobs[active].bytes /\ a.phase = "delivering"
                     /\ a = jobs[active] \/ \E code : code # "ok" /\ a.result = Error(code)
<1>1. JobTable(jobs) /\ Placed(jobs, queue, active)
  BY DEF Places
<1>2. t.job \in DOMAIN jobs /\ jobs[t.job].phase = "delivering"
  BY DEF DeliverStarts, Finishing
<1>3. t.job = active /\ active # 0
  BY <1>1, <1>2 DEF Placed, JobTable
<1>4. jobs = [j \in DOMAIN jobs |-> jobs[j]] /\ IsJob(jobs[active])
      /\ jobs[active] = [f \in JobFields |-> jobs[active][f]]
  BY <1>1, <1>2, <1>3 DEF JobTable, IsJob
<1>5. CASE jobs' = jobs
  <2> DEFINE a == jobs[active]
  <2>1. Puts(active, a)
    BY <1>4, <1>5 DEF Puts
  <2>2. Like(a, jobs[active], {"result"}) /\ IsJob(a)
    BY <1>4 DEF Like
  <2> HIDE DEF a
  <2>3. a = jobs[active]
    BY DEF a
  <2> QED BY <1>2, <1>3, <2>1, <2>2, <2>3
<1>6. ASSUME NEW code, code # "ok", jobs' = Replaced(jobs, t.job, Error(code))
      PROVE  \E a : /\ Puts(active, a) /\ Like(a, jobs[active], {"result"}) /\ IsJob(a)
                    /\ a.bytes = jobs[active].bytes /\ a.phase = "delivering"
                    /\ a = jobs[active] \/ \E c : c # "ok" /\ a.result = Error(c)
  <2> DEFINE r == Error(code)
             K == jobs'
  <2>0. K = Replaced(jobs, active, r)
    BY <1>3, <1>6
  <2> HIDE DEF r, K
  <2>1. /\ K = [jobs EXCEPT ![active] = K[active]]
        /\ Like(K[active], jobs[active], {"result"}) /\ IsJob(K[active])
        /\ K[active].bytes = jobs[active].bytes
        /\ K[active].result = r
    BY <1>1, <1>2, <1>3, <2>0, ResultLike
  <2> DEFINE a == K[active]
  <2>2. Puts(active, a)
    BY <2>1 DEF Puts, K
  <2> HIDE DEF a
  <2>3. a.phase = jobs[active].phase
    BY <2>1 DEF Like, JobFields, a
  <2>4. a.result = Error(code)
    BY <2>1 DEF a, r
  <2>5. Like(a, jobs[active], {"result"}) /\ IsJob(a) /\ a.bytes = jobs[active].bytes
    BY <2>1 DEF a
  <2> QED BY <1>2, <1>3, <1>6, <2>2, <2>3, <2>4, <2>5
<1> QED BY <1>2, <1>3, <1>5, <1>6 DEF DeliverStarts

\* The beginning of a delivery keeps the tables.
LEMMA DeliverTables == ASSUME Tables, Delivers PROVE Tables'
<1>1. /\ Places /\ SubsOK /\ Stack /\ IsSeq(asked)
      /\ JobTable(jobs) /\ Placed(jobs, queue, active) /\ Charged(jobs, queuedBytes)
      /\ DOMAIN jobs \subseteq DOMAIN asked
  BY DEF Tables, Places, Stack
<1>2. DeliverRest /\ UNCHANGED <<available, starting, loaded, owners, asked>>
  BY DeliverCases DEF DeliverRest, session, ghosts, sessionVars
<1>3. PICK t \in deferred : DeliverLate(t) \/ DeliverAgain(t) \/ DeliverStarts(t)
  BY DeliverCases
<1>4. CASE DeliverLate(t)
  BY <1>1, <1>2, <1>4, TablesSame DEF DeliverLate, Stack
<1>5. CASE DeliverAgain(t)
  <2> DEFINE j == t.job
             K == jobs'
  <2>1. j \in DOMAIN jobs /\ jobs[j].phase = "delivering" /\ K = Requeued(jobs, j, Nothing)
    BY <1>5 DEF DeliverAgain, Finishing
  <2>2. active = j
    BY <1>1, <2>1 DEF Placed
  <2> HIDE DEF j, K
  <2>3. /\ K = [jobs EXCEPT ![j] = K[j]] /\ IsJob(K[j]) /\ K[j].bytes = jobs[j].bytes
        /\ K[j].phase = "queued"
    BY <1>1, <2>1, RequeuedLike
  <2>4. /\ JobTable(K) /\ DOMAIN K = DOMAIN jobs
        /\ \A i \in DOMAIN jobs : i # j => K[i] = jobs[i]
        /\ Charged(K, queuedBytes)
    BY <1>1, <2>1, <2>3, ReplaceOK
  <2>5. Placed(K, <<j>> \o queue, 0)
    BY <1>1, <2>1, <2>2, <2>3, <2>4, RequeuePlaced
  <2>6. /\ active' = 0 /\ queue' = <<j>> \o queue /\ UNCHANGED <<subscriptions, queuedBytes, frames>>
    BY <1>5 DEF DeliverAgain, j
  <2>7. Places'
    BY <1>1, <1>2, <2>4, <2>5, <2>6, PlacesFrom DEF K
  <2>8. SubsOK' /\ Stack'
    BY <1>1, <1>2, <2>6, SubsSame, StackSame
  <2> QED BY <2>7, <2>8 DEF Tables
<1>6. CASE DeliverStarts(t)
  <2>0. active # 0 /\ UNCHANGED <<subscriptions, queue, active, queuedBytes>>
    BY <1>1, <1>6, DeliverJob DEF DeliverStarts
  <2>1. PICK a : /\ Puts(active, a) /\ IsJob(a) /\ a.bytes = jobs[active].bytes
                 /\ a.phase = "delivering"
    BY <1>1, <1>6, DeliverJob
  <2>2. Places' /\ jobs'[active] = a
    BY <1>1, <1>2, <2>0, <2>1, ReplacePlaces DEF Puts
  <2>3. SubsOK'
    BY <1>1, <1>2, <2>0, SubsSame
  <2> DEFINE fr == DeliverFrame(t.job, jobs[t.job].subscribers, jobs'[t.job])
  <2>4. FrameOK(fr)
    <3>1. t.job = active
      BY <1>1, <1>6, DeliverJob
    <3> QED BY <2>1, <2>2, <3>1 DEF FrameOK, DeliverFrame
  <2>5. frames' = Append(frames, fr)
    BY <1>6 DEF DeliverStarts
  <2> HIDE DEF fr
  <2>6. Stack'
    BY <1>1, <1>2, <2>4, <2>5, StackPush
  <2> QED BY <2>2, <2>3, <2>6 DEF Tables
<1> QED BY <1>3, <1>4, <1>5, <1>6
\* One element of a sequence is replaced.
LEMMA ReplaceAtOK ==
    ASSUME NEW s, IsSeq(s), NEW k \in DOMAIN s, NEW x, NEW t, t = [s EXCEPT ![k] = x]
    PROVE  /\ IsSeq(t) /\ Len(t) = Len(s) /\ DOMAIN t = DOMAIN s /\ t[k] = x
           /\ \A n \in DOMAIN s : n # k => t[n] = s[n]
<1> DEFINE S == Members(s) \union {x}
           L == Len(s)
<1>1. s \in Seq(Members(s)) /\ DOMAIN s = 1..L /\ L \in Nat
  BY SeqType
<1>2. s \in [1..L -> S]
  <2>1. s = [n \in 1..L |-> s[n]]
    BY DEF IsSeq
  <2>2. \A n \in 1..L : s[n] \in S
    BY <1>1 DEF Members
  <2> HIDE DEF S, L
  <2> QED BY <2>1, <2>2
<1> HIDE DEF S, L
<1>3. x \in S
  BY DEF S
<1>4. t \in [1..L -> S]
  BY <1>1, <1>2, <1>3
<1>5. t \in Seq(S) /\ Len(t) = L
  <2>1. t \in Seq(S)
    <3>1. [1..L -> S] \in {[1..n -> S] : n \in Nat}
      BY <1>1
    <3>2. t \in UNION {[1..n -> S] : n \in Nat}
      BY <1>4, <3>1, Zenon
    <3> QED BY <3>2, SeqDef, Zenon
  <2>2. DOMAIN t = 1..Len(t) /\ Len(t) \in Nat
    BY <2>1, LenProperties
  <2>3. DOMAIN t = 1..L
    BY <1>4
  <2> QED BY <1>1, <2>1, <2>2, <2>3
<1>6. IsSeq(t)
  BY <1>5, TypedSeq
<1>7. DOMAIN t = DOMAIN s /\ t[k] = x /\ \A n \in DOMAIN s : n # k => t[n] = s[n]
  BY <1>1, <1>2
<1> QED BY <1>5, <1>6, <1>7 DEF L

\* The next subscriber of the delivery at the top of the stack.
Next1 == Min(Top.ids)
Mine == Next1 \in DOMAIN subscriptions /\ subscriptions[Next1].job = Top.job
TellRest ==
    UNCHANGED <<jobs, queue, active, queuedBytes, context, session, listing, cache,
                deferred, owners, asked, left, announced, client, transport, posted, worker, starting>>

\* What telling it changes.
LEMMA TellCases ==
    ASSUME TellsNext, Stack
    PROVE  /\ TellRest /\ frames # <<>> /\ Len(frames) \in DOMAIN frames
           /\ Top.frame = "deliver" /\ Top.ids # {} /\ FrameOK(Top)
           /\ Top = [f \in {"frame", "job", "ids", "work"} |-> Top[f]] /\ IsJob(Top.work)
           /\ frames' = [frames EXCEPT ![Len(frames)] = DeliverFrame(Top.job, Top.ids \ {Next1}, Top.work)]
           /\ IF Mine THEN subscriptions' = Without(subscriptions, {Next1}) ELSE UNCHANGED subscriptions
           /\ IF Mine /\ subscriptions[Next1].epoch = epoch
              THEN Complete(Next1, Top.work.result) ELSE UNCHANGED told
           /\ loaded \in BOOLEAN => loaded' \in BOOLEAN
<1>1. DeliverNext /\ UNCHANGED <<transport, posted, worker, starting>>
  BY DEF TellsNext
<1>2. TellRest
  BY <1>1 DEF DeliverNext, TellRest
<1>3. frames # <<>> /\ Top.frame = "deliver" /\ Top.ids # {}
  BY <1>1 DEF DeliverNext, InFrame
<1>4. IsSeq(frames)
  BY DEF Stack
<1>5. Len(frames) \in DOMAIN frames
  BY <1>3, <1>4, FrontOK
<1>6. FrameOK(Top)
  BY <1>5 DEF Stack, Top
<1>7. Top = [f \in {"frame", "job", "ids", "work"} |-> Top[f]] /\ IsJob(Top.work)
  BY <1>3, <1>6 DEF FrameOK
<1>8. frames' = [frames EXCEPT ![Len(frames)] = DeliverFrame(Top.job, Top.ids \ {Next1}, Top.work)]
  <2>1. frames' = [frames EXCEPT ![Len(frames)].ids = @ \ {Next1}]
    BY <1>1 DEF DeliverNext, Next1
  <2>2. frames' = [frames EXCEPT ![Len(frames)] = [Top EXCEPT !.ids = Top.ids \ {Next1}]]
    BY <2>1 DEF Top
  <2> DEFINE fr == Top
             rest == Top.ids \ {Next1}
  <2>3. [fr EXCEPT !.ids = rest] = DeliverFrame(fr.job, rest, fr.work)
    <3>1. fr = [f \in {"frame", "job", "ids", "work"} |-> fr[f]] /\ fr.frame = "deliver"
      BY <1>3, <1>7
    <3> HIDE DEF fr, rest
    <3> QED BY <3>1 DEF DeliverFrame
  <2> QED BY <2>2, <2>3
<1>9. IF Mine THEN subscriptions' = Without(subscriptions, {Next1}) ELSE UNCHANGED subscriptions
  BY <1>1 DEF DeliverNext, Mine, Next1
<1>10. IF Mine /\ subscriptions[Next1].epoch = epoch
       THEN Complete(Next1, Top.work.result) ELSE UNCHANGED told
  BY <1>1 DEF DeliverNext, Mine, Next1
<1>11. loaded \in BOOLEAN => loaded' \in BOOLEAN
  BY DEF TellsNext
<1> QED BY <1>2, <1>3, <1>5, <1>6, <1>7, <1>8, <1>9, <1>10, <1>11

\* Telling keeps the tables.
LEMMA TellTables == ASSUME Tables, TellsNext PROVE Tables'
<1>1. Places /\ SubsOK /\ Stack /\ IsSeq(asked) /\ IsSeq(frames) /\ loaded \in BOOLEAN
  BY DEF Tables, Stack
<1>2. /\ TellRest /\ Len(frames) \in DOMAIN frames /\ IsJob(Top.work)
      /\ frames' = [frames EXCEPT ![Len(frames)] = DeliverFrame(Top.job, Top.ids \ {Next1}, Top.work)]
      /\ IF Mine THEN subscriptions' = Without(subscriptions, {Next1}) ELSE UNCHANGED subscriptions
      /\ loaded' \in BOOLEAN
  BY <1>1, TellCases
<1>3. UNCHANGED <<jobs, queue, active, queuedBytes, asked, available, owners, starting>>
  BY <1>2 DEF TellRest, session
<1>4. Places'
  BY <1>1, <1>3, PlacesSame
<1>5. SubsOK'
  BY <1>1, <1>2, <1>3, SubsWithout, SubsSame
<1> DEFINE fr == DeliverFrame(Top.job, Top.ids \ {Next1}, Top.work)
<1>6. FrameOK(fr)
  BY <1>2 DEF FrameOK, DeliverFrame
<1>7. frames' = [frames EXCEPT ![Len(frames)] = fr]
  BY <1>2
<1> HIDE DEF fr
<1>8. IsSeq(frames') /\ \A n \in DOMAIN frames' : FrameOK(frames'[n])
  <2> DEFINE t == frames'
             k == Len(frames)
  <2>1. t = [frames EXCEPT ![k] = fr] /\ k \in DOMAIN frames
    BY <1>2, <1>7
  <2> HIDE DEF t, k
  <2>2. /\ IsSeq(t) /\ DOMAIN t = DOMAIN frames /\ t[k] = fr
        /\ \A n \in DOMAIN frames : n # k => t[n] = frames[n]
    BY <1>1, <2>1, ReplaceAtOK
  <2> QED BY <1>1, <1>6, <2>2 DEF Stack, t
<1>9. Stack'
  BY <1>1, <1>2, <1>3, <1>8 DEF Stack
<1> QED BY <1>4, <1>5, <1>9 DEF Tables

\* What the end of a delivery changes.
EndRest == UNCHANGED <<subscriptions, context, session, owners, ghosts, client, transport, posted, worker,
                       starting, loaded>>

\* The job of the delivery at the top goes.
LEMMA EndCases ==
    ASSUME EndsDelivery, Stack
    PROVE  /\ EndRest /\ frames # <<>> /\ Len(frames) \in DOMAIN frames
           /\ Top.frame = "deliver" /\ Top.ids = {} /\ frames' = Pop
           /\ jobs' = Without(jobs, {Top.job})
           /\ DOMAIN jobs' = DOMAIN jobs \ {Top.job} /\ jobs' = [j \in DOMAIN jobs' |-> jobs'[j]]
           /\ \A j \in DOMAIN jobs' : jobs'[j] = jobs[j]
           /\ RemoveJobs({Top.job} \intersect DOMAIN jobs)
           /\ deferred' = deferred \union AfterDelivery(Top.work)
           /\ cache' \in {cache, {}}
<1>1. DeliverEnd /\ UNCHANGED <<transport, posted, worker, starting, loaded>>
  BY DEF EndsDelivery
<1>2. EndRest
  BY <1>1 DEF DeliverEnd, EndRest
<1>3. /\ frames # <<>> /\ Top.frame = "deliver" /\ Top.ids = {} /\ frames' = Pop
      /\ jobs' = Without(jobs, {Top.job}) /\ RemoveJobs({Top.job} \intersect DOMAIN jobs)
      /\ deferred' = deferred \union AfterDelivery(Top.work)
  BY <1>1 DEF DeliverEnd, InFrame
<1>4. IsSeq(frames)
  BY DEF Stack
<1>5. Len(frames) \in DOMAIN frames
  BY <1>3, <1>4, FrontOK
<1>6. /\ DOMAIN jobs' = DOMAIN jobs \ {Top.job} /\ jobs' = [j \in DOMAIN jobs' |-> jobs'[j]]
      /\ \A j \in DOMAIN jobs' : jobs'[j] = jobs[j]
  <2> DEFINE x == Top.job
  <2>1. jobs' = Without(jobs, {x})
    BY <1>3
  <2> HIDE DEF x
  <2>2. /\ DOMAIN jobs' = DOMAIN jobs \ {x} /\ jobs' = [j \in DOMAIN jobs' |-> jobs'[j]]
        /\ \A j \in DOMAIN jobs' : jobs'[j] = jobs[j]
    BY <2>1 DEF Without, Restrict
  <2> QED BY <2>2 DEF x
<1>7. cache' \in {cache, {}}
  BY DEF EndsDelivery, ApplyBackground
<1> QED BY <1>2, <1>3, <1>5, <1>6, <1>7

\* The end of a delivery keeps the tables.
LEMMA EndTables == ASSUME Tables, EndsDelivery PROVE Tables'
<1>1. /\ Places /\ SubsOK /\ Stack /\ IsSeq(asked)
      /\ JobTable(jobs) /\ Placed(jobs, queue, active) /\ Charged(jobs, queuedBytes)
      /\ DOMAIN jobs \subseteq DOMAIN asked
  BY DEF Tables, Places, Stack
<1>2. /\ EndRest /\ frames # <<>> /\ frames' = Pop
      /\ DOMAIN jobs' = DOMAIN jobs \ {Top.job} /\ jobs' = [j \in DOMAIN jobs' |-> jobs'[j]]
      /\ \A j \in DOMAIN jobs' : jobs'[j] = jobs[j]
      /\ RemoveJobs({Top.job} \intersect DOMAIN jobs)
  BY <1>1, EndCases
<1>3. UNCHANGED <<subscriptions, asked, available, starting, loaded, owners>>
  BY <1>2 DEF EndRest, session, ghosts
<1> DEFINE S == {Top.job} \intersect DOMAIN jobs
<1>4. S \in SUBSET DOMAIN jobs /\ DOMAIN jobs' = DOMAIN jobs \ S
  BY <1>2
<1>5. /\ queue' = Unqueued(queue, S) /\ queuedBytes' = queuedBytes - SumBytes(jobs, S)
      /\ active' = IF active \in S THEN 0 ELSE active
  BY <1>2 DEF RemoveJobs, Bytes, SumBytes
<1> HIDE DEF S
<1>6. IsFiniteSet(DOMAIN jobs')
  BY <1>1, <1>4, FS_Subset DEF JobTable
<1>7. JobTable(jobs')
  BY <1>1, <1>2, <1>4, <1>6 DEF JobTable
<1>8. \A j \in DOMAIN jobs' : jobs'[j].phase = jobs[j].phase /\ jobs'[j].bytes = jobs[j].bytes
  BY <1>2
<1>9. Placed(jobs', queue', active')
  BY <1>1, <1>4, <1>5, <1>8, RemovePlaced
<1>10. Charged(jobs', queuedBytes')
  BY <1>1, <1>4, <1>5, <1>8, RemoveCharged
<1>11. Places'
  BY <1>1, <1>3, <1>4, <1>7, <1>9, <1>10, PlacesFrom
<1>12. SubsOK' /\ Stack'
  BY <1>1, <1>2, <1>3, SubsSame, StackPop
<1> QED BY <1>11, <1>12 DEF Tables

\* Telling the retired keeps the tables.
LEMMA RetiredTables == ASSUME Tables, TellsRetired PROVE Tables'
<1>1. Places /\ SubsOK /\ Stack /\ IsSeq(asked)
  BY DEF Tables, Stack
<1>2. PICK t \in deferred : Standalone(t)
  BY DEF TellsRetired
<1>3. /\ subscriptions' = Without(subscriptions, {t.ask})
      /\ UNCHANGED <<jobs, queue, active, queuedBytes, asked, available, owners, starting, loaded, frames>>
  BY <1>2 DEF Standalone, TellsRetired, Aside, session, sessionVars
<1>4. Places' /\ Stack'
  BY <1>1, <1>3, PlacesSame, StackSame
<1>5. SubsOK'
  <2> DEFINE ids == {t.ask}
  <2>1. subscriptions' = Without(subscriptions, ids)
    BY <1>3
  <2> HIDE DEF ids
  <2> QED BY <1>1, <1>3, <2>1, SubsWithout
<1> QED BY <1>4, <1>5 DEF Tables
-----------------------------------------------------------------------------
(* Replies.                                                                *)

\* The job with what the reply brought, and what the reply makes of it.
SameJob(job, old) ==
    Like(job, old, {"discovered", "snapshot"}) /\ IsJob(job) /\ job.bytes = old.bytes
Ends(j, job, result) ==
    Finishes(j, job, result) /\ deferred' = deferred \union {Deliver(j)}
Viewed(job, m) == Viewing(job, [layout |-> m.layout, revision |-> revision, done |-> m.done])
Unfinished(job) == job.query.kind = "graph" /\ ~job.cancelRequested
SettleEnds(j, job, m, result) ==
    /\ Ends(j, job, result)
    /\ IF Unfinished(job)
       THEN /\ UNCHANGED cache
            /\ \/ result = Error("stale_layout")
               \/ /\ result = Result(m, job.summary)
                  /\ m.code = "ok" => /\ job.phase # "summary"
                                      /\ job.phase = "viewport" => /\ m.layout = job.summary.layout
                                                                   /\ job.summary.revision = revision
       ELSE /\ result = Result(m, NoSummary)
            /\ cache' = cache \/ cache' \in Cached(job, Result(m, NoSummary))
SettleRetries(j, job) ==
    Unfinished(job) /\ Sends(j, Retried(job), "cfg_summary", 0) /\ UNCHANGED <<cache, deferred>>
SettleViews(j, job, m) ==
    /\ Unfinished(job) /\ m.code = "ok" /\ job.phase = "summary" /\ Continues(job.query, m.layout)
    /\ Sends(j, Viewed(job, m), "cfg_viewport", m.layout) /\ UNCHANGED <<cache, deferred>>
SettleRest == UNCHANGED <<subscriptions, queue, active, queuedBytes, context, available, epoch, fence>>

\* A graph's reply ends its job or sends its next request.
LEMMA GraphCases ==
    ASSUME NEW j, NEW job, NEW m, GraphReply(j, job, m), Unfinished(job)
    PROVE  \/ \E result : SettleEnds(j, job, m, result)
           \/ SettleRetries(j, job) \/ SettleViews(j, job, m)
<1>1. CASE m.code = "stale_layout" /\ ~job.retried
  <2>1. Sent(j, [job EXCEPT !.retried = TRUE, !.phase = "summary", !.summary = NoSummary], "cfg_summary", 0)
    BY <1>1 DEF GraphReply
  <2>2. Sends(j, Retried(job), "cfg_summary", 0) /\ UNCHANGED <<cache, deferred>>
    BY <2>1 DEF Sent, Dispatch, Sends, Order, Dispatched, Retried
  <2> QED BY <2>2 DEF SettleRetries
<1>2. CASE ~(m.code = "stale_layout" /\ ~job.retried) /\ m.code = "ok" /\ job.phase = "summary"
  <2>1. CASE ~Continues(job.query, m.layout)
    <3>1. Ended(j, job, Error("stale_layout"))
      BY <1>2, <2>1 DEF GraphReply
    <3> DEFINE r == Error("stale_layout")
    <3>2. Ends(j, job, r) /\ UNCHANGED cache
      BY <3>1 DEF Ended, Finish, Ends, Finishes, Deliver
    <3>3. r = Error("stale_layout")
      OBVIOUS
    <3> HIDE DEF r
    <3>4. SettleEnds(j, job, m, r)
      BY <3>2, <3>3 DEF SettleEnds
    <3> QED BY <3>4
  <2>2. CASE Continues(job.query, m.layout)
    <3>1. Sent(j, [job EXCEPT !.phase = "viewport",
                      !.summary = [layout |-> m.layout, revision |-> revision, done |-> m.done]],
               "cfg_viewport", m.layout)
      BY <1>2, <2>2 DEF GraphReply
    <3>2. Sends(j, Viewed(job, m), "cfg_viewport", m.layout) /\ UNCHANGED <<cache, deferred>>
      BY <3>1 DEF Sent, Dispatch, Sends, Order, Dispatched, Viewed, Viewing
    <3> QED BY <1>2, <2>2, <3>2 DEF SettleViews
  <2> QED BY <2>1, <2>2
<1>3. CASE /\ ~(m.code = "stale_layout" /\ ~job.retried) /\ ~(m.code = "ok" /\ job.phase = "summary")
           /\ m.code = "ok" /\ job.phase = "viewport"
           /\ m.layout # job.summary.layout \/ job.summary.revision # revision
  <2>1. Ended(j, job, Error("stale_layout"))
    BY <1>3 DEF GraphReply
  <2> DEFINE r == Error("stale_layout")
  <2>2. Ends(j, job, r) /\ UNCHANGED cache
    BY <2>1 DEF Ended, Finish, Ends, Finishes, Deliver
  <2>3. r = Error("stale_layout")
    OBVIOUS
  <2> HIDE DEF r
  <2>4. SettleEnds(j, job, m, r)
    BY <2>2, <2>3 DEF SettleEnds
  <2> QED BY <2>4
<1>4. CASE /\ ~(m.code = "stale_layout" /\ ~job.retried) /\ ~(m.code = "ok" /\ job.phase = "summary")
           /\ ~(/\ m.code = "ok" /\ job.phase = "viewport"
                /\ m.layout # job.summary.layout \/ job.summary.revision # revision)
  <2>1. Ended(j, job, Result(m, job.summary))
    BY <1>4 DEF GraphReply
  <2> DEFINE r == Result(m, job.summary)
  <2>2. Ends(j, job, r) /\ UNCHANGED cache
    BY <2>1 DEF Ended, Finish, Ends, Finishes, Deliver
  <2>3. r = Result(m, job.summary)
    OBVIOUS
  <2> HIDE DEF r
  <2>4. SettleEnds(j, job, m, r)
    BY <1>4, <2>2, <2>3 DEF SettleEnds
  <2> QED BY <2>4
<1> QED BY <1>1, <1>2, <1>3, <1>4

\* The rest of receive does one of the three.
LEMMA SettleCases ==
    ASSUME NEW j, IsJob(jobs[j]), NEW m, Settle(j, m)
    PROVE  /\ SettleRest /\ analysisComplete' \in BOOLEAN
           /\ \E job : /\ SameJob(job, jobs[j])
                       /\ \/ \E result : SettleEnds(j, job, m, result)
                          \/ SettleRetries(j, job) \/ SettleViews(j, job, m)
<1> DEFINE sections == Kind(j) = "command" /\ m.code = "ok" /\ jobs[j].query.op = "section"
           analyzed == Contextual(m) /\ project # 0 /\ m.analyzed
           discovers == analyzed /\ (sections \/ ~analysisComplete)
           d == Discovered(jobs[j], discovers)
           s == IF Contextual(m) /\ project # 0 THEN [of |-> context, gen |-> m.gen]
                ELSE jobs[j].snapshot
           job == Noted(jobs[j], d, s)
<1>1. SettleRest /\ analysisComplete' = (analyzed \/ (analysisComplete /\ ~sections))
  BY DEF Settle, SettleRest
<1>2. SameJob(job, jobs[j])
  <2> HIDE DEF d, s
  <2>1. Like(job, jobs[j], {"discovered", "snapshot"}) /\ IsJob(job) /\ job.bytes = jobs[j].bytes
    BY NotedLike
  <2> QED BY <2>1 DEF SameJob
<1>3. IF Kind(j) = "graph" /\ ~job.cancelRequested THEN GraphReply(j, job, m)
      ELSE /\ Finish(j, job, Result(m, NoSummary))
           /\ IF job.query.cached /\ m.code = "ok"
              THEN cache' \in Cached(job, Result(m, NoSummary)) ELSE UNCHANGED cache
  BY DEF Settle, Noted
<1>4. Kind(j) = job.query.kind
  <2> HIDE DEF job
  <2> QED BY <1>2 DEF SameJob, Like, JobFields, Kind
<1> HIDE DEF job
<1>5. CASE Unfinished(job)
  <2>1. GraphReply(j, job, m)
    BY <1>3, <1>4, <1>5 DEF Unfinished
  <2> QED BY <1>1, <1>2, <1>5, <2>1, GraphCases
<1>6. CASE ~Unfinished(job)
  <2>1. Finish(j, job, Result(m, NoSummary)) /\ (cache' = cache \/ cache' \in Cached(job, Result(m, NoSummary)))
    BY <1>3, <1>4, <1>6 DEF Unfinished
  <2> DEFINE r == Result(m, NoSummary)
  <2>2. Ends(j, job, r)
    BY <2>1 DEF Finish, Ends, Finishes, Deliver
  <2>3. SettleEnds(j, job, m, r)
    BY <1>6, <2>1, <2>2 DEF SettleEnds
  <2> HIDE DEF r
  <2> QED BY <1>1, <1>2, <2>3
<1> QED BY <1>5, <1>6

\* The job afterwards.
LEMMA SettleJob ==
    ASSUME NEW j, NEW job, IsJob(job), NEW m,
           \/ \E result : SettleEnds(j, job, m, result)
           \/ SettleRetries(j, job) \/ SettleViews(j, job, m)
    PROVE  \E a : /\ Puts(j, a) /\ IsJob(a) /\ a.bytes = job.bytes /\ a.phase # "queued"
<1>1. ASSUME NEW result, SettleEnds(j, job, m, result)
      PROVE  \E a : /\ Puts(j, a) /\ IsJob(a) /\ a.bytes = job.bytes /\ a.phase # "queued"
  <2>1. Finishes(j, job, result)
    BY <1>1 DEF SettleEnds, Ends
  <2> QED BY <2>1, FinishesReplaces
<1>2. CASE SettleRetries(j, job)
  <2> DEFINE b == Retried(job)
  <2>1. IsJob(b) /\ b.bytes = job.bytes /\ b.phase = "summary"
    BY RetriedLike
  <2>2. Sends(j, b, "cfg_summary", 0)
    BY <1>2 DEF SettleRetries
  <2> HIDE DEF b
  <2> QED BY <2>1, <2>2, SendsReplaces
<1>3. CASE SettleViews(j, job, m)
  <2> DEFINE s == [layout |-> m.layout, revision |-> revision, done |-> m.done]
             b == Viewing(job, s)
             l == m.layout
  <2>2. Sends(j, b, "cfg_viewport", l)
    BY <1>3 DEF SettleViews, Viewed
  <2> HIDE DEF s, l
  <2>1. IsJob(b) /\ b.bytes = job.bytes /\ b.phase = "viewport"
    BY ViewportLike
  <2> HIDE DEF b
  <2> QED BY <2>1, <2>2, SendsReplaces
<1> QED BY <1>1, <1>2, <1>3

\* Settling keeps the tables.
LEMMA SettlePlaces ==
    ASSUME Places, active # 0, NEW m, Settle(active, m), UNCHANGED asked
    PROVE  Places' /\ UNCHANGED subscriptions /\ UNCHANGED available
<1>1. IsJob(jobs[active]) /\ active \in DOMAIN jobs
  BY DEF Places, Placed, JobTable
<1>2. SettleRest
  BY <1>1, SettleCases
<1>3. PICK job : /\ SameJob(job, jobs[active])
                 /\ \/ \E result : SettleEnds(active, job, m, result)
                    \/ SettleRetries(active, job) \/ SettleViews(active, job, m)
  BY <1>1, SettleCases
<1>4. IsJob(job) /\ job.bytes = jobs[active].bytes
  BY <1>3 DEF SameJob
<1>5. PICK a : Puts(active, a) /\ IsJob(a) /\ a.bytes = job.bytes /\ a.phase # "queued"
  <2> DEFINE j == active
  <2> HIDE DEF j
  <2>1. \/ \E result : SettleEnds(j, job, m, result)
        \/ SettleRetries(j, job) \/ SettleViews(j, job, m)
    BY <1>3 DEF j
  <2>2. \E a : Puts(j, a) /\ IsJob(a) /\ a.bytes = job.bytes /\ a.phase # "queued"
    BY <1>4, <2>1, SettleJob
  <2> QED BY <2>2 DEF j
<1>6. Places'
  BY <1>2, <1>4, <1>5, ReplacePlaces DEF Puts, SettleRest
<1> QED BY <1>2, <1>6 DEF SettleRest

\* What a reply does: nothing, end the active job with an error, move the
\* context, open a project, or settle the job.
ReceiveIgnored == UNCHANGED <<table, context, session, cache, deferred, frames, client>>
ReceiveFails ==
    /\ \E code : code # "ok" /\ Ends(active, jobs[active], Error(code))
    /\ UNCHANGED <<cache, subscriptions, queue, active, queuedBytes, context, session, frames>>
ContextFrame(j, m) == [frame |-> "context", job |-> j, reply |-> m]
ReceiveMoves(m) ==
    /\ Moved(m) /\ m.project = jobs[active].wireProject /\ project' = m.project /\ revision' = m.revision
    /\ frames' = Append(frames, ContextFrame(active, m))
    /\ cache' = {}
    /\ UNCHANGED <<table, session, deferred, client>>
ReceiveOpens(m) ==
    /\ Moved(m) /\ Opening(m) /\ project' = m.project /\ revision' = m.revision
    /\ frames' = Append(frames, ContextFrame(active, m))
    /\ UNCHANGED <<available, client>> /\ Retire(active, "session_changed")
ReceiveSettles(m) == Settle(active, m) /\ UNCHANGED frames
ReceiveRest ==
    UNCHANGED <<listing, owners, ghosts, transport, worker, sessionVars>>

\* HearsReply is one of them, and all but the first are of a reply the active
\* job waits for.
LEMMA ReceiveCases ==
    ASSUME HearsReply
    PROVE  /\ ReceiveRest /\ posted # <<>> /\ posted' = Tail(posted)
           /\ Head(posted).type = "response" /\ Head(posted).epoch = client.epoch
           /\ \/ ReceiveIgnored /\ (Awaited(Head(posted)) => Head(posted).code = "progress")
              \/ /\ Awaited(Head(posted))
                 /\ \/ ReceiveFails
                    \/ /\ Head(posted).code # "progress"
                       /\ Head(posted).op = "" \/ Head(posted).op = jobs[active].wireOp
                       /\ \/ ReceiveMoves(Head(posted)) \/ ReceiveOpens(Head(posted))
                          \/ ReceiveSettles(Head(posted))
<1> DEFINE m == Head(posted)
<1>1. /\ ReceiveRest /\ posted # <<>> /\ posted' = Tail(posted) /\ m.type = "response"
      /\ m.epoch = client.epoch /\ Receive(m)
  BY DEF HearsReply, NextPosted, Current, Receive, ReceiveRest
<1> HIDE DEF m
<1>2. CASE ~Awaited(m)
  <2>1. ReceiveIgnored
    BY <1>1, <1>2 DEF Receive, ReceiveIgnored
  <2> QED BY <1>1, <1>2, <2>1 DEF m
<1>3. CASE Awaited(m)
  <2>1. ASSUME NEW code, code # "ok", Ended(active, jobs[active], Error(code)),
               UNCHANGED <<subscriptions, queue, active, queuedBytes, context, session, frames>>
        PROVE  ReceiveFails
    <3>1. Ends(active, jobs[active], Error(code)) /\ UNCHANGED cache
      BY <2>1 DEF Ended, Finish, Ends, Finishes, Deliver
    <3> QED BY <2>1, <3>1 DEF ReceiveFails
  <2>2. CASE (m.op # "" /\ m.op # jobs[active].wireOp) \/ m.code = "malformed"
    <3>1. /\ Ended(active, jobs[active], Error("invalid_response"))
          /\ UNCHANGED <<subscriptions, queue, active, queuedBytes, context, session, frames>>
      BY <1>1, <1>3, <2>2 DEF Receive
    <3>2. ReceiveFails
      BY <2>1, <3>1
    <3> QED BY <1>1, <1>3, <3>2 DEF m
  <2> DEFINE Plain == ~((m.op # "" /\ m.op # jobs[active].wireOp) \/ m.code = "malformed")
  <2>3. CASE Plain /\ m.code = "progress"
    <3>1. ReceiveIgnored
      BY <1>1, <1>3, <2>3 DEF Receive, ReceiveIgnored
    <3> QED BY <1>1, <2>3, <3>1 DEF m
  <2> DEFINE Other == Contextual(m) /\ ~Opening(m) /\ m.project # jobs[active].wireProject
  <2>4. CASE Plain /\ m.code # "progress" /\ Other
    <3>1. /\ Ended(active, jobs[active], Error("stale_project"))
          /\ UNCHANGED <<subscriptions, queue, active, queuedBytes, context, session, frames>>
      BY <1>1, <1>3, <2>4 DEF Receive
    <3>2. ReceiveFails
      BY <2>1, <3>1
    <3> QED BY <1>1, <1>3, <3>2 DEF m
  <2>5. CASE Plain /\ m.code # "progress" /\ ~Other
    <3>0. m.op = "" \/ m.op = jobs[active].wireOp
      BY <2>5
    <3>1. CASE Moved(m)
      <4>1. /\ project' = m.project /\ revision' = m.revision
            /\ frames' = Append(frames, [frame |-> "context", job |-> active, reply |-> m])
            /\ UNCHANGED <<available, client>>
            /\ IF Opening(m) THEN Retire(active, "session_changed")
               ELSE /\ cache' = {}
                    /\ UNCHANGED <<table, epoch, fence, analysisComplete, deferred>>
        BY <1>1, <1>3, <2>5, <3>1 DEF Receive
      <4>2. ReceiveMoves(m) \/ ReceiveOpens(m)
        <5>1. Opening(m) \/ m.project = jobs[active].wireProject
          BY <2>5, <3>1 DEF Moved
        <5> QED BY <3>1, <4>1, <5>1 DEF ReceiveMoves, ReceiveOpens, ContextFrame, session
      <4> QED BY <1>1, <1>3, <2>5, <3>0, <4>2 DEF m
    <3>2. CASE ~Moved(m)
      <4>1. ReceiveSettles(m)
        BY <1>1, <1>3, <2>5, <3>2 DEF Receive, ReceiveSettles
      <4> QED BY <1>1, <1>3, <2>5, <3>0, <4>1 DEF m
    <3> QED BY <3>1, <3>2
  <2> QED BY <2>2, <2>3, <2>4, <2>5
<1> QED BY <1>2, <1>3
\* Replies keep the tables.
LEMMA ReceiveTables == ASSUME Tables, HearsReply PROVE Tables'
<1>1. Places /\ SubsOK /\ Stack /\ IsSeq(asked)
  BY DEF Tables, Stack
<1>2. UNCHANGED <<asked, owners, starting, loaded>>
  BY ReceiveCases DEF ReceiveRest, ghosts, sessionVars
<1> DEFINE m == Head(posted)
<1> HIDE DEF m
<1>3. \/ ReceiveIgnored
      \/ /\ Awaited(m)
         /\ ReceiveFails \/ ReceiveMoves(m) \/ ReceiveOpens(m) \/ ReceiveSettles(m)
  BY ReceiveCases DEF m
<1> DEFINE fr == ContextFrame(active, m)
<1>4. FrameOK(fr)
  BY DEF FrameOK, ContextFrame
<1> HIDE DEF fr
<1>5. CASE ReceiveIgnored
  <2>1. UNCHANGED <<table, frames, available>>
    BY <1>5 DEF ReceiveIgnored, session
  <2> QED BY <1>1, <1>2, <2>1, TablesSame DEF Stack
<1>6. CASE Awaited(m) /\ ReceiveFails
  <2>1. UNCHANGED <<subscriptions, queue, active, queuedBytes, available, frames>> /\ active # 0
    BY <1>6 DEF ReceiveFails, session, Awaited
  <2>2. IsJob(jobs[active])
    BY <1>1, <2>1 DEF Places, Placed, JobTable
  <2>3. PICK code : Ends(active, jobs[active], Error(code))
    BY <1>6 DEF ReceiveFails
  <2>4. PICK a : Puts(active, a) /\ IsJob(a) /\ a.bytes = jobs[active].bytes /\ a.phase = "delivering"
    BY <2>2, <2>3, FinishesReplaces DEF Ends
  <2>5. Places'
    BY <1>1, <1>2, <2>1, <2>4, ReplacePlaces DEF Puts
  <2>6. SubsOK' /\ Stack'
    BY <1>1, <1>2, <2>1, SubsSame, StackSame
  <2> QED BY <2>5, <2>6 DEF Tables
<1>7. CASE ReceiveMoves(m)
  <2>1. UNCHANGED <<jobs, queue, active, queuedBytes, subscriptions, available>>
        /\ frames' = Append(frames, fr)
    BY <1>7 DEF ReceiveMoves, session, table, fr
  <2>2. Places' /\ SubsOK'
    BY <1>1, <1>2, <2>1, PlacesSame, SubsSame
  <2>3. Stack'
    BY <1>1, <1>2, <1>4, <2>1, StackPush
  <2> QED BY <2>2, <2>3 DEF Tables
<1>8. CASE ReceiveOpens(m)
  <2>1. UNCHANGED available /\ frames' = Append(frames, fr) /\ Retire(active, "session_changed")
    BY <1>8 DEF ReceiveOpens, fr
  <2>2. Places' /\ SubsOK'
    BY <1>1, <1>2, <2>1, RetireTables
  <2>3. Stack'
    BY <1>1, <1>2, <1>4, <2>1, StackPush
  <2> QED BY <2>2, <2>3 DEF Tables
<1>9. CASE Awaited(m) /\ ReceiveSettles(m)
  <2>1. Settle(active, m) /\ UNCHANGED frames /\ active # 0
    BY <1>9 DEF ReceiveSettles, Awaited
  <2>2. Places' /\ UNCHANGED subscriptions /\ UNCHANGED available
    BY <1>1, <1>2, <2>1, SettlePlaces
  <2>3. SubsOK' /\ Stack'
    BY <1>1, <1>2, <2>1, <2>2, SubsSame, StackSame
  <2> QED BY <2>2, <2>3 DEF Tables
<1> QED BY <1>3, <1>5, <1>6, <1>7, <1>8, <1>9

\* What the return of contextChanged does.
ContextRest == UNCHANGED <<listing, owners, ghosts, transport, posted, worker, sessionVars>>
Resumed == active # 0 /\ active = Top.job /\ active \in DOMAIN jobs /\ Settle(active, Top.reply)

\* receive goes on, or it does not.
LEMMA ContextCases ==
    ASSUME ResumesReceive, Places, Stack
    PROVE  /\ ContextRest /\ frames # <<>> /\ Len(frames) \in DOMAIN frames
           /\ Top.frame = "context" /\ frames' = Pop
           /\ \/ Resumed
              \/ UNCHANGED <<table, context, session, cache, deferred, client>>
<1>1. ContextRest /\ frames # <<>> /\ Top.frame = "context" /\ frames' = Pop
  BY DEF ResumesReceive, ContextChanged, Aside, ContextRest, InFrame
<1>2. Len(frames) \in DOMAIN frames
  BY <1>1, FrontOK DEF Stack
<1>3. Resumed \/ UNCHANGED <<table, context, session, cache, deferred, client>>
  BY DEF ResumesReceive, ContextChanged, Resumed, Places, JobTable
<1> QED BY <1>1, <1>2, <1>3

\* It keeps the tables.
LEMMA ContextTables == ASSUME Tables, ResumesReceive PROVE Tables'
<1>1. Places /\ SubsOK /\ Stack /\ IsSeq(asked)
  BY DEF Tables, Stack
<1>2. /\ UNCHANGED <<asked, owners, starting, loaded>> /\ frames # <<>> /\ frames' = Pop
      /\ Resumed \/ UNCHANGED <<table, context, session, cache, deferred, client>>
  BY <1>1, ContextCases DEF ContextRest, ghosts, sessionVars
<1>3. CASE Resumed
  <2> DEFINE m == Top.reply
  <2>1. Settle(active, m) /\ active # 0
    BY <1>3 DEF Resumed
  <2> HIDE DEF m
  <2>2. Places' /\ UNCHANGED subscriptions /\ UNCHANGED available
    BY <1>1, <1>2, <2>1, SettlePlaces
  <2>3. SubsOK' /\ Stack'
    BY <1>1, <1>2, <2>2, SubsSame, StackPop
  <2> QED BY <2>2, <2>3 DEF Tables
<1>4. CASE UNCHANGED <<table, context, session, cache, deferred, client>>
  <2>1. UNCHANGED <<jobs, queue, active, queuedBytes, subscriptions, available>>
    BY <1>4 DEF table, session
  <2>2. Places' /\ SubsOK' /\ Stack'
    BY <1>1, <1>2, <2>1, PlacesSame, SubsSame, StackPop
  <2> QED BY <2>2 DEF Tables
<1> QED BY <1>2, <1>3, <1>4

\* The other steps of the GUI thread keep them.
LEMMA OtherTables ==
    ASSUME Tables, \/ Restart \/ OpenStartsWorker \/ Rejects \/ Announces
                   \/ Unheard \/ HearsHello \/ HearsFatal \/ HearsStopped \/ HearsHeartbeat
    PROVE  Tables'
<1>0. available \in BOOLEAN /\ starting \in BOOLEAN /\ loaded \in BOOLEAN
  BY DEF Tables, Stack
<1>1. CASE Restart
  BY <1>1, UnavailableTables DEF Restart, WorkerGone, ghosts
<1>2. CASE OpenStartsWorker
  BY <1>0, <1>2, TablesSame DEF OpenStartsWorker, WorkerGone, ghosts, session
<1>3. CASE Rejects
  BY <1>0, <1>3, TablesSame DEF Rejects, RejectLater, Aside, session, sessionVars
<1>4. CASE Announces
  BY <1>0, <1>4, TablesSame DEF Announces, AnalysisCompleted, Aside, session, sessionVars
<1>5. CASE Unheard
  BY <1>0, <1>5, TablesSame DEF Unheard, serviceVars, ghosts, session, sessionVars
<1>6. CASE HearsHello
  BY <1>0, <1>6, TablesSame DEF HearsHello, SetAvailable, WorkerGone, ghosts
<1>7. CASE HearsFatal
  BY <1>7, UnavailableTables DEF HearsFatal, WorkerGone, ghosts
<1>8. CASE HearsStopped
  BY <1>8, UnavailableTables DEF HearsStopped, WorkerGone, ghosts
<1>9. CASE HearsHeartbeat
  BY <1>0, <1>9, TablesSame DEF HearsHeartbeat, ghosts, session
<1> QED BY <1>1, <1>2, <1>3, <1>4, <1>5, <1>6, <1>7, <1>8, <1>9

\* The transport and the worker are not on the GUI thread.
LEMMA ElsewhereOnly == ASSUME Transport \/ Process PROVE Elsewhere
  BY DEF Transport, Process, Starts, Stops, Refuses, Fills, WorkerReads, SaysHello, SaysFatal,
     Exits,
         WorkerAnswers, WorkerProgress, WorkerDiscovers, WorkerBeats

\* Every step keeps the tables.
LEMMA TablesStep == ASSUME Tables, [Next]_vars PROVE Tables'
<1>0. available \in BOOLEAN /\ starting \in BOOLEAN /\ loaded \in BOOLEAN
  BY DEF Tables, Stack
<1>1. CASE Users
  BY <1>1, AskTables, DetachTables, OtherTables DEF Users
<1>2. CASE EventLoop
  BY <1>2, PumpTables, DeliverTables, ContextTables, TellTables, EndTables, RetiredTables,
     ReceiveTables, OtherTables DEF EventLoop
<1>3. CASE Transport \/ Process
  <2>1. Elsewhere
    BY <1>3, ElsewhereOnly
  <2> QED BY <1>0, <2>1, TablesSame DEF Elsewhere, serviceVars, ghosts, session, sessionVars
<1>4. CASE UNCHANGED vars
  BY <1>0, <1>4, TablesSame DEF vars, serviceVars, ghosts, session, sessionVars
<1> QED BY <1>1, <1>2, <1>3, <1>4 DEF Next

\* The empty tables are in order.
LEMMA EmptyTables ==
    ASSUME jobs = <<>>, subscriptions = <<>>, queue = <<>>, active = 0, queuedBytes = 0, frames = <<>>,
           available \in BOOLEAN, starting \in BOOLEAN, loaded \in BOOLEAN, owners = Owner, IsSeq(asked)
    PROVE  Tables
<1>1. IsSeq(<<>>) /\ DOMAIN <<>> = {} /\ Len(<<>>) = 0
  BY EmptySeqOK
<1>2. IsFiniteSet({}) /\ Cardinality({}) = 0
  BY FS_EmptySet
<1>3. jobs = [j \in DOMAIN jobs |-> jobs[j]] /\ DOMAIN jobs = {}
  BY <1>1 DEF IsSeq
<1>4. JobTable(jobs)
  BY <1>2, <1>3 DEF JobTable
<1>5. Placed(jobs, queue, active)
  BY <1>1, <1>3 DEF Placed, IsInjective, Members
<1>6. MaxJobs \in Nat /\ MaxQueuedBytes \in Nat /\ MaxSubscriptions \in Nat
  BY QueryAssumption
<1>7. Charged(jobs, queuedBytes)
  <2>1. SumBytes(jobs, {}) = 0
    BY <1>2, BytesType
  <2> QED BY <1>2, <1>3, <1>6, <2>1 DEF Charged
<1>8. Places
  BY <1>3, <1>4, <1>5, <1>7 DEF Places
<1>9. SubsOK
  <2>1. subscriptions = [i \in DOMAIN subscriptions |-> subscriptions[i]] /\ DOMAIN subscriptions = {}
    BY <1>1 DEF IsSeq
  <2> QED BY <1>2, <1>6, <2>1 DEF SubsOK
<1>10. Stack
  BY <1>1 DEF Stack
<1> QED BY <1>8, <1>9, <1>10 DEF Tables

\* Both initial states are.
LEMMA TablesInit == ASSUME Init \/ OpenedInit PROVE Tables
<1>1. CASE Init
  BY <1>1, EmptyTables, EmptySeqOK DEF Init, ServiceInit
<1>2. CASE OpenedInit
  <2>1. PICK x : asked = <<x>>
    BY <1>2 DEF OpenedInit
  <2>2. IsSeq(asked)
    <3>1. <<x>> \in Seq({x})
      OBVIOUS
    <3> QED BY <2>1, <3>1, TypedSeq
  <2> QED BY <1>2, <2>2, EmptyTables DEF OpenedInit
<1> QED BY <1>1, <1>2

\* What the tables say.
LEMMA TablesImply == ASSUME Tables PROVE TablesAgree
<1>1. /\ JobTable(jobs) /\ Placed(jobs, queue, active) /\ Charged(jobs, queuedBytes)
      /\ DOMAIN jobs \subseteq DOMAIN asked /\ SubsOK /\ Stack
  BY DEF Tables, Places
<1>2. TypeOK
  <2>1. \A j \in DOMAIN jobs :
           jobs[j].phase \in {"queued", "reading", "summary", "viewport", "delivering"}
    BY <1>1, JobTableOK DEF Phases
  <2>2. \A n \in DOMAIN frames : frames[n].frame \in {"deliver", "context"}
    BY <1>1 DEF Stack, FrameOK
  <2> QED BY <1>1, <2>1, <2>2 DEF TypeOK, Placed, SubsOK, Stack
<1>3. queuedBytes = Bytes(DOMAIN jobs) /\ queuedBytes <= MaxQueuedBytes
  BY <1>1 DEF Charged, SumBytes, Bytes
<1>4. Range(queue) = Members(queue)
  BY DEF Range, Members
<1>5. IsInjective(queue) /\ Members(queue) = {j \in DOMAIN jobs : jobs[j].phase = "queued"}
  BY <1>1 DEF Placed
<1>6. DOMAIN jobs = Members(queue) \union ({active} \ {0})
  BY <1>1, <1>5 DEF Placed, JobTable
<1>7. active # 0 => active \notin Members(queue)
  BY <1>1, <1>5 DEF Placed
<1>8. Cardinality(DOMAIN jobs) <= MaxJobs /\ Cardinality(DOMAIN subscriptions) <= MaxSubscriptions
  BY <1>1 DEF Charged, SubsOK
<1>9. \A j \in Range(queue) : j \in DOMAIN jobs /\ jobs[j].phase = "queued"
  BY <1>4, <1>5
<1>10. DOMAIN jobs = Range(queue) \union ({active} \ {0}) /\ (active # 0 => active \notin Range(queue))
  BY <1>4, <1>6, <1>7
<1> QED BY <1>2, <1>3, <1>5, <1>8, <1>9, <1>10 DEF TablesAgree

\* The scheduler's tables agree in every state, from the first start of a
\* worker and from a project that is open: what is charged is what is held,
\* every job waits once or is active, and the limits hold.
THEOREM TablesAreKept == Spec \/ OpenedSpec => []TablesAgree
<1>1. Init \/ OpenedInit => Tables
  BY TablesInit
<1>2. Tables /\ [Next]_vars => Tables'
  BY TablesStep
<1>3. Tables => TablesAgree
  BY TablesImply
<1> QED BY <1>1, <1>2, <1>3, PTL DEF Spec, OpenedSpec
-----------------------------------------------------------------------------
(* Who is told.                                                            *)

Refusals(D) == {t \in D : t.task = "reject"}

\* Nobody is told.
LEMMA ToldSame ==
    ASSUME Told, UNCHANGED <<answered, answers, left, asked>>,
           DOMAIN subscriptions' \subseteq DOMAIN subscriptions, Refusals(deferred') \subseteq deferred
    PROVE  Told'
  BY DEF Told, Refusals

\* One subscriber, or one who was refused, is told.
LEMMA ToldOne ==
    ASSUME Told, IsSeq(asked), UNCHANGED <<left, asked>>, NEW i \in DOMAIN asked,
           i \notin answered, i \notin left, NEW result, Complete(i, result),
           DOMAIN subscriptions' \subseteq DOMAIN subscriptions \ {i},
           Refusals(deferred') \subseteq deferred, \A t \in Refusals(deferred') : t.ask # i
    PROVE  Told'
<1>1. answered' = answered \union {i} /\ answers' = answers + 1
  BY DEF Complete
<1>2. IsFiniteSet(DOMAIN asked)
  <2>1. DOMAIN asked = 1..Len(asked) /\ Len(asked) \in Int /\ 1 \in Int
    BY SeqType
  <2> QED BY <2>1, FS_Interval
<1>3. IsFiniteSet(answered)
  BY <1>2, FS_Subset DEF Told
<1>4. Cardinality(answered \union {i}) = Cardinality(answered) + 1
  BY <1>3, FS_AddElement
<1>5. answers' = Cardinality(answered') /\ answered' \subseteq DOMAIN asked' /\ left' \subseteq DOMAIN asked'
  BY <1>1, <1>4 DEF Told
<1>6. answered' \intersect left' = {}
  BY <1>1 DEF Told
<1>7. \A k \in DOMAIN subscriptions' : k \notin answered' /\ k \notin left'
  BY <1>1 DEF Told
<1>8. \A t \in deferred' : t.task = "reject" =>
         /\ t.ask \in DOMAIN asked' /\ t.ask \notin DOMAIN subscriptions'
         /\ t.ask \notin answered' /\ t.ask \notin left'
  BY <1>1 DEF Told, Refusals
<1>9. \A t, u \in deferred' :
         t.task = "reject" /\ u.task = "reject" /\ t.ask = u.ask => t = u
  BY DEF Told, Refusals
<1> QED BY <1>5, <1>6, <1>7, <1>8, <1>9 DEF Told

\* What steps add to the event loop are no refusals.
LEMMA NoRefusals ==
    /\ Pumping.task # "reject" /\ \A j : Deliver(j).task # "reject"
    /\ \A i, code : [task |-> "standalone", ask |-> i, code |-> code].task # "reject"
    /\ \A e : [task |-> "analysis", epoch |-> e].task # "reject"
  BY DEF Pumping, Deliver

\* Asking.
LEMMA AskTold == ASSUME Tables, Told, Asks PROVE Told'
<1>1. PICK query \in Query, owner \in Owner :
          /\ AskRest(query, owner)
          /\ \/ AskRefused(Len(asked) + 1, query, owner)
             \/ \E j \in DOMAIN jobs : AskJoins(Len(asked) + 1, query, owner, j)
             \/ AskMakes(Len(asked) + 1, query, owner)
  BY AskCases
<1> DEFINE ask == Len(asked) + 1
<1>2. IsSeq(asked) /\ DOMAIN subscriptions \subseteq DOMAIN asked
  BY DEF Tables, Stack, SubsOK
<1>3. DOMAIN asked' = DOMAIN asked \union {ask} /\ ask \notin DOMAIN asked
  BY <1>1, <1>2, AskNumber
<1> HIDE DEF ask
<1>4. UNCHANGED <<answered, answers, left>>
  BY <1>1 DEF AskRest, told
<1>5. ask \notin answered /\ ask \notin left /\ ask \notin DOMAIN subscriptions
  BY <1>2, <1>3 DEF Told
<1>6. CASE AskRefused(ask, query, owner)
  <2> DEFINE r == [task |-> "reject", ask |-> ask, owner |-> owner, epoch |-> epoch, code |-> Refusal(query)]
  <2>1. deferred' = deferred \union {r} /\ UNCHANGED subscriptions
    BY <1>6 DEF AskRefused
  <2>2. r.ask = ask
    OBVIOUS
  <2> HIDE DEF r
  <2>3. \A t \in deferred' : t.task = "reject" =>
           /\ t.ask \in DOMAIN asked' /\ t.ask \notin DOMAIN subscriptions'
           /\ t.ask \notin answered' /\ t.ask \notin left'
    BY <1>3, <1>4, <1>5, <2>1, <2>2 DEF Told
  <2>4. \A t, u \in deferred' :
           t.task = "reject" /\ u.task = "reject" /\ t.ask = u.ask => t = u
    BY <1>3, <2>1, <2>2 DEF Told
  <2> QED BY <1>3, <1>4, <2>1, <2>3, <2>4 DEF Told
<1>7. ASSUME NEW s, subscriptions' = Extended(subscriptions, ask, s), deferred' = deferred \union {Pumping}
      PROVE  Told'
  <2>1. DOMAIN subscriptions' = DOMAIN subscriptions \union {ask}
    BY <1>7, ExtendedOK DEF Extends
  <2>2. Refusals(deferred') \subseteq deferred
    BY <1>7, NoRefusals DEF Refusals
  <2>3. \A t \in deferred' : t.task = "reject" =>
           /\ t.ask \in DOMAIN asked' /\ t.ask \notin DOMAIN subscriptions'
           /\ t.ask \notin answered' /\ t.ask \notin left'
    BY <1>3, <1>4, <1>5, <2>1, <2>2 DEF Told, Refusals
  <2>4. \A t, u \in deferred' :
           t.task = "reject" /\ u.task = "reject" /\ t.ask = u.ask => t = u
    BY <2>2 DEF Told, Refusals
  <2> QED BY <1>3, <1>4, <1>5, <2>1, <2>3, <2>4 DEF Told
<1>8. ASSUME NEW j \in DOMAIN jobs, AskJoins(ask, query, owner, j) PROVE Told'
  BY <1>7, <1>8 DEF AskJoins
<1>9. CASE AskMakes(ask, query, owner)
  BY <1>7, <1>9 DEF AskMakes
<1> QED BY <1>1, <1>6, <1>8, <1>9 DEF ask

\* Withdrawing: who leaves is subscribed, so neither told nor gone.
LEMMA DetachTold == ASSUME Tables, Told, Withdraws PROVE Told'
<1>1. PICK ids \in SUBSET DOMAIN subscriptions : Detached(ids)
  BY DetachCases
<1>2. /\ UNCHANGED <<answered, answers, asked>> /\ left' = left \union ids
      /\ subscriptions' = Without(subscriptions, ids) /\ deferred' \subseteq deferred \union {Pumping}
  BY <1>1 DEF Detached, told
<1>3. DOMAIN subscriptions' = DOMAIN subscriptions \ ids
  BY <1>2 DEF Without, Restrict
<1>4. Refusals(deferred') \subseteq deferred
  BY <1>2, NoRefusals DEF Refusals
<1>5. DOMAIN subscriptions \subseteq DOMAIN asked
  BY DEF Tables, SubsOK
<1>6. \A t \in deferred' : t.task = "reject" =>
         /\ t.ask \in DOMAIN asked' /\ t.ask \notin DOMAIN subscriptions'
         /\ t.ask \notin answered' /\ t.ask \notin left'
  BY <1>2, <1>3, <1>4 DEF Told, Refusals
<1>7. \A t, u \in deferred' :
         t.task = "reject" /\ u.task = "reject" /\ t.ask = u.ask => t = u
  BY <1>4 DEF Told, Refusals
<1> QED BY <1>2, <1>3, <1>5, <1>6, <1>7 DEF Told

\* Retiring only tells later.
LEMMA RetireTold ==
    ASSUME Tables, Told, NEW keep, NEW code, Retire(keep, code), UNCHANGED <<answered, answers, left, asked>>
    PROVE  Told'
<1>1. DOMAIN subscriptions' = DOMAIN subscriptions
  BY DEF Retire
<1>2. Refusals(deferred') \subseteq deferred
  BY NoRefusals DEF Retire, Refusals
<1> QED BY <1>1, <1>2, ToldSame

\* So does setAvailable(false).
LEMMA UnavailableTold ==
    ASSUME Tables, Told, SetUnavailable, UNCHANGED <<answered, answers, left, asked>>
    PROVE  Told'
<1>1. CASE available
  BY <1>1, RetireTold DEF SetUnavailable
<1>2. CASE ~available
  <2>1. UNCHANGED <<subscriptions, deferred>>
    BY <1>2 DEF SetUnavailable, table
  <2> QED BY <2>1, ToldSame DEF Refusals
<1> QED BY <1>1, <1>2

\* Running a job and replies tell nobody.
LEMMA RunTold ==
    ASSUME Tables, Told, Pumps \/ Delivers \/ EndsDelivery \/ ResumesReceive \/ HearsReply
    PROVE  Told'
<1>0. Places /\ Stack /\ IsSeq(queue)
  BY DEF Tables, Places, Placed
<1>1. ASSUME UNCHANGED <<answered, answers, left, asked, subscriptions>>,
             NEW t, deferred' \subseteq deferred \union {t}, t.task # "reject"
      PROVE  Told'
  <2>1. Refusals(deferred') \subseteq deferred
    BY <1>1 DEF Refusals
  <2> QED BY <1>1, <2>1, ToldSame
<1>2. ASSUME NEW j, NEW m, IsJob(jobs[j]), Settle(j, m), UNCHANGED <<answered, answers, left, asked>> PROVE Told'
  <2>1. UNCHANGED subscriptions
    BY <1>2, SettleCases DEF SettleRest
  <2>2. PICK job : \/ \E result : SettleEnds(j, job, m, result)
                   \/ SettleRetries(j, job) \/ SettleViews(j, job, m)
    BY <1>2, SettleCases
  <2> DEFINE t == Deliver(j)
  <2>3. deferred' \subseteq deferred \union {t}
    BY <2>2 DEF SettleEnds, Ends, SettleRetries, SettleViews
  <2>4. t.task # "reject"
    BY NoRefusals
  <2> HIDE DEF t
  <2> QED BY <1>1, <1>2, <2>1, <2>3, <2>4
<1>3. CASE Pumps
  <2>1. \/ PumpIdles
        \/ \E k \in DOMAIN queue : PumpTakes(k) /\ \E result : PumpEnds(queue[k], result)
        \/ \E k \in DOMAIN queue : PumpTakes(k) /\ PumpRuns(queue[k])
    BY <1>0, <1>3, PumpCases
  <2>0. PumpRest
    BY <1>0, <1>3, PumpCases
  <2>2. UNCHANGED <<answered, answers, left, asked>>
    BY <2>0 DEF PumpRest, ghosts
  <2>3. UNCHANGED subscriptions /\ \E j : deferred' \subseteq deferred \union {Deliver(j)}
    BY <2>1 DEF PumpIdles, PumpTakes, PumpEnds, PumpRuns, table
  <2>4. PICK j : deferred' \subseteq deferred \union {Deliver(j)}
    BY <2>3
  <2> DEFINE t == Deliver(j)
  <2>5. t.task # "reject"
    BY NoRefusals
  <2> HIDE DEF t
  <2>6. deferred' \subseteq deferred \union {t}
    BY <2>4 DEF t
  <2> QED BY <1>1, <2>2, <2>3, <2>5, <2>6
<1>4. CASE Delivers
  <2>1. PICK t \in deferred : DeliverLate(t) \/ DeliverAgain(t) \/ DeliverStarts(t)
    BY <1>4, DeliverCases
  <2>2. UNCHANGED <<answered, answers, left, asked>>
    BY <1>4, DeliverCases DEF DeliverRest, ghosts
  <2>3. UNCHANGED subscriptions /\ deferred' \subseteq deferred \union {Pumping}
    BY <2>1 DEF DeliverLate, DeliverAgain, DeliverStarts, table
  <2>4. Pumping.task # "reject"
    BY NoRefusals
  <2> QED BY <1>1, <2>2, <2>3, <2>4
<1>5. CASE EndsDelivery
  <2>1. EndRest /\ deferred' = deferred \union AfterDelivery(Top.work)
    BY <1>0, <1>5, EndCases
  <2>2. UNCHANGED <<answered, answers, left, asked, subscriptions>>
    BY <2>1 DEF EndRest, ghosts
  <2>3. \A t \in AfterDelivery(Top.work) : t.task # "reject"
    BY NoRefusals DEF AfterDelivery, Announcement
  <2>4. Refusals(deferred') \subseteq deferred
    BY <2>1, <2>3 DEF Refusals
  <2> QED BY <2>2, <2>4, ToldSame
<1>6. CASE ResumesReceive
  <2>1. UNCHANGED <<answered, answers, left, asked>>
    BY <1>0, <1>6, ContextCases DEF ContextRest, ghosts
  <2>2. Resumed \/ UNCHANGED <<table, context, session, cache, deferred, client>>
    BY <1>0, <1>6, ContextCases
  <2>3. CASE Resumed
    <3>1. IsJob(jobs[active]) /\ Settle(active, Top.reply)
      BY <1>0, <2>3 DEF Resumed, Places, JobTable
    <3> QED BY <1>2, <2>1, <3>1
  <2>4. CASE UNCHANGED <<table, context, session, cache, deferred, client>>
    BY <2>1, <2>4, ToldSame DEF table, Refusals
  <2> QED BY <2>2, <2>3, <2>4
<1>7. CASE HearsReply
  <2> DEFINE m == Head(posted)
  <2> HIDE DEF m
  <2>1. UNCHANGED <<answered, answers, left, asked>>
    BY <1>7, ReceiveCases DEF ReceiveRest, ghosts
  <2>2. \/ ReceiveIgnored
        \/ /\ Awaited(m)
           /\ ReceiveFails \/ ReceiveMoves(m) \/ ReceiveOpens(m) \/ ReceiveSettles(m)
    BY <1>7, ReceiveCases DEF m
  <2>3. CASE ReceiveIgnored \/ ReceiveFails \/ ReceiveMoves(m)
    <3>1. UNCHANGED subscriptions /\ deferred' \subseteq deferred \union {Deliver(active)}
      BY <2>3 DEF ReceiveIgnored, ReceiveFails, ReceiveMoves, Ends, table
    <3>2. Deliver(active).task # "reject"
      BY NoRefusals
    <3> QED BY <1>1, <2>1, <3>1, <3>2
  <2>4. CASE ReceiveOpens(m)
    BY <2>1, <2>4, RetireTold DEF ReceiveOpens
  <2>5. CASE Awaited(m) /\ ReceiveSettles(m)
    <3>1. IsJob(jobs[active]) /\ Settle(active, m)
      BY <1>0, <2>5 DEF Awaited, ReceiveSettles, Places, Placed, JobTable
    <3> QED BY <1>2, <2>1, <3>1
  <2> QED BY <2>2, <2>3, <2>4, <2>5
<1> QED BY <1>3, <1>4, <1>5, <1>6, <1>7

\* A delivery, a refusal and a retirement tell one who waits, once.
LEMMA TellTold == ASSUME Tables, Told, TellsNext \/ Rejects \/ TellsRetired PROVE Told'
<1>0. Stack /\ SubsOK /\ IsSeq(asked) /\ DOMAIN subscriptions \subseteq DOMAIN asked
  BY DEF Tables, Stack, SubsOK
<1>1. CASE TellsNext
  <2> DEFINE i == Next1
             r == Top.work.result
  <2>1. /\ IF Mine THEN subscriptions' = Without(subscriptions, {i}) ELSE UNCHANGED subscriptions
        /\ IF Mine /\ subscriptions[i].epoch = epoch THEN Complete(i, r) ELSE UNCHANGED told
        /\ Mine => i \in DOMAIN subscriptions
        /\ UNCHANGED <<deferred, asked, left>>
    BY <1>0, <1>1, TellCases DEF TellRest, Mine
  <2> HIDE DEF i, r
  <2>2. Mine => DOMAIN subscriptions' = DOMAIN subscriptions \ {i}
    BY <2>1 DEF Without, Restrict
  <2>3. CASE Mine /\ subscriptions[i].epoch = epoch
    BY <1>0, <2>1, <2>2, <2>3, ToldOne DEF Told, Refusals
  <2>4. CASE ~(Mine /\ subscriptions[i].epoch = epoch)
    BY <2>1, <2>2, <2>4, ToldSame DEF told, Refusals
  <2> QED BY <2>3, <2>4
<1>2. CASE Rejects
  <2>1. PICK t \in deferred : RejectLater(t)
    BY <1>2 DEF Rejects
  <2> DEFINE i == t.ask
             r == Error(IF epoch # t.epoch THEN "session_changed" ELSE t.code)
  <2>2. /\ t.task = "reject" /\ deferred' = deferred \ {t} /\ UNCHANGED <<subscriptions, asked, left>>
        /\ Complete(i, r) \/ UNCHANGED told
    BY <2>1 DEF RejectLater, table
  <2> HIDE DEF r
  <2>3. Refusals(deferred') \subseteq deferred /\ \A u \in Refusals(deferred') : u.ask # i
    BY <2>2 DEF Told, Refusals
  <2>4. i \in DOMAIN asked /\ i \notin DOMAIN subscriptions /\ i \notin answered /\ i \notin left
    BY <2>2 DEF Told
  <2> HIDE DEF i
  <2>5. CASE Complete(i, r)
    BY <1>0, <2>2, <2>3, <2>4, <2>5, ToldOne
  <2>6. CASE UNCHANGED told
    BY <2>2, <2>3, <2>6, ToldSame DEF told
  <2> QED BY <2>2, <2>5, <2>6
<1>3. CASE TellsRetired
  <2>1. PICK t \in deferred : Standalone(t)
    BY <1>3 DEF TellsRetired
  <2> DEFINE i == t.ask
             r == Error(t.code)
  <2>2. /\ t.task = "standalone" /\ deferred' = deferred \ {t} /\ UNCHANGED <<asked, left>>
        /\ subscriptions' = Without(subscriptions, {i})
        /\ IF i \in DOMAIN subscriptions THEN Complete(i, r) ELSE UNCHANGED told
    BY <2>1 DEF Standalone
  <2> HIDE DEF r, i
  <2>3. DOMAIN subscriptions' = DOMAIN subscriptions \ {i} /\ Refusals(deferred') \subseteq deferred
    BY <2>2 DEF Without, Restrict, Refusals
  <2>4. CASE i \in DOMAIN subscriptions
    BY <1>0, <2>2, <2>3, <2>4, ToldOne DEF Told, Refusals
  <2>5. CASE i \notin DOMAIN subscriptions
    BY <2>2, <2>3, <2>5, ToldSame DEF told
  <2> QED BY <2>4, <2>5
<1> QED BY <1>1, <1>2, <1>3

\* Every step keeps it.
LEMMA ToldStep == ASSUME Tables, Told, [Next]_vars PROVE Told'
<1>0. ASSUME UNCHANGED ghosts, UNCHANGED subscriptions, deferred' \subseteq deferred \union {Pumping} PROVE Told'
  BY <1>0, ToldSame, NoRefusals DEF ghosts, Refusals
<1>1. CASE Restart \/ HearsFatal \/ HearsStopped
  BY <1>1, UnavailableTold DEF Restart, HearsFatal, HearsStopped, WorkerGone, ghosts
<1>2. CASE OpenStartsWorker \/ Unheard \/ HearsHello \/ HearsHeartbeat
  BY <1>0, <1>2 DEF OpenStartsWorker, Unheard, HearsHello, HearsHeartbeat, SetAvailable, WorkerGone,
     table, serviceVars
<1>3. CASE Announces
  BY <1>3, ToldSame DEF Announces, AnalysisCompleted, table, told, Refusals
<1>4. CASE Users
  BY <1>1, <1>2, <1>4, AskTold, DetachTold DEF Users
<1>5. CASE EventLoop
  BY <1>1, <1>2, <1>3, <1>5, RunTold, TellTold DEF EventLoop
<1>6. CASE (Transport \/ Process) \/ UNCHANGED vars
  BY <1>0, <1>6, ElsewhereOnly DEF Elsewhere, vars, serviceVars, table
<1> QED BY <1>4, <1>5, <1>6 DEF Next

\* At first nobody waits.
LEMMA ToldInit == ASSUME Init \/ OpenedInit PROVE Told
<1>1. DOMAIN <<>> = {} /\ Cardinality({}) = 0 /\ Cardinality({1}) = 1
  BY EmptySeqOK, FS_EmptySet, FS_Singleton
<1>2. CASE Init
  BY <1>1, <1>2 DEF Init, ServiceInit, Told
<1>3. CASE OpenedInit
  <2>1. 1 \in DOMAIN asked
    <3>1. PICK x : asked = <<x>>
      BY <1>3 DEF OpenedInit
    <3> QED BY <3>1
  <2> QED BY <1>1, <1>3, <2>1 DEF OpenedInit, Told
<1> QED BY <1>2, <1>3

\* No completion runs twice, and none for one who withdrew, whatever is
\* joined, retired, refused or delivered in between.
THEOREM EveryoneToldOnce == Spec \/ OpenedSpec => []AnsweredOnce
<1>1. Init \/ OpenedInit => Tables /\ Told
  BY TablesInit, ToldInit
<1>2. Tables /\ Told /\ [Next]_vars => Tables' /\ Told'
  BY TablesStep, ToldStep
<1>3. Told => AnsweredOnce
  BY DEF Told, AnsweredOnce
<1> QED BY <1>1, <1>2, <1>3, PTL DEF Spec, OpenedSpec
=============================================================================
