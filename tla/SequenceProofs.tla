---------------------------- MODULE SequenceProofs ----------------------------
(***************************************************************************)
(* Facts about lists that the other proofs rest on: the sets of their      *)
(* elements, and what a fold over a list computes, for a list of any       *)
(* length.                                                                 *)
(*                                                                         *)
(* The induction theorems of the library take an operator, which no prover *)
(* here can instantiate.  Induction is therefore stated over a set of      *)
(* numbers (SetInduction), and a fold is described by the list of its      *)
(* intermediate results (FoldRun), over which one can induct.              *)
(***************************************************************************)
EXTENDS Lists, Functions, Integers, FiniteSetTheorems, SequenceTheorems,
        WellFoundedInduction, TLAPS

(***************************************************************************)
(* Induction.                                                              *)
(***************************************************************************)
LEMMA LeastNumber ==
    ASSUME NEW T \in SUBSET Nat, T # {}
    PROVE  \E n \in T : \A m \in T : n <= m
<1> DEFINE R == {pair \in Nat \X Nat : pair[1] < pair[2]}
<1>1. IsWellFoundedOn(R, Nat)
  BY NatLessThanWellFounded DEF OpToRel
<1>2. \A x, y \in Nat : x < y => <<x, y>> \in R
  OBVIOUS
<1> HIDE DEF R
<1>3. PICK n \in T : \A m \in T : ~(<<m, n>> \in R)
  BY <1>1, WFMin
<1>4. \A m \in T : m \in Nat /\ n \in Nat /\ ~(m < n)
  BY <1>2, <1>3
<1> QED BY <1>4

LEMMA SetInduction ==
    ASSUME NEW S, 0 \in S, \A n \in Nat : n \in S => n + 1 \in S
    PROVE  Nat \subseteq S
<1> SUFFICES ASSUME Nat \ S # {} PROVE FALSE
  OBVIOUS
<1>1. PICK n \in Nat \ S : \A m \in Nat \ S : n <= m
  BY LeastNumber
<1>2. n # 0 /\ n - 1 \in Nat /\ (n - 1) + 1 = n
  BY <1>1
<1>3. n - 1 \in S
  BY <1>1, <1>2
<1> QED BY <1>2, <1>3

\* The same up to a bound.
LEMMA BoundedInduction ==
    ASSUME NEW N \in Nat, NEW S, 0 \in S,
           \A n \in 0..(N - 1) : n \in S => n + 1 \in S
    PROVE  0..N \subseteq S
<1> DEFINE T == {n \in Nat : n <= N => n \in S}
<1>1. 0 \in T
  OBVIOUS
<1>2. ASSUME NEW n \in Nat, n \in T PROVE n + 1 \in T
  BY <1>2
<1>3. Nat \subseteq T
  <2> HIDE DEF T
  <2> QED BY <1>1, <1>2, SetInduction
<1> QED BY <1>3

LEMMA MaxIsIn ==
    ASSUME NEW n \in Nat, NEW s \in SUBSET (1..n), s # {}
    PROVE  Max(s) \in s /\ \A x \in s : Max(s) >= x
<1> DEFINE T == {n - x : x \in s}
<1>1. T \in SUBSET Nat /\ T # {}
  <2>1. \A x \in s : n - x \in Nat
    OBVIOUS
  <2> QED BY <2>1
<1> HIDE DEF T
<1>2. PICK t \in T : \A u \in T : t <= u
  BY <1>1, LeastNumber
<1>3. PICK x \in s : \A y \in s : n - x <= n - y
  BY <1>2 DEF T
<1>4. \A y \in s : x >= y
  BY <1>3
<1> QED BY <1>4 DEF Max

LEMMA MaxOfInterval ==
    ASSUME NEW n \in Nat, NEW s \in SUBSET (1..(n + 1)), n + 1 \in s
    PROVE  Max(s) = n + 1
<1>1. Max(s) \in s /\ Max(s) >= n + 1
  BY MaxIsIn
<1>2. \A x \in 1..(n + 1) : x >= n + 1 => x = n + 1
  OBVIOUS
<1> QED BY <1>1, <1>2

LEMMA LastOfDomain ==
    ASSUME NEW A, NEW seq \in Seq(A), NEW s \in SUBSET DOMAIN seq, s # {}
    PROVE  s \ {Max(s)} \in SUBSET DOMAIN seq /\ seq[Max(s)] \in A
<1>1. Len(seq) \in Nat /\ DOMAIN seq = 1..Len(seq)
  OBVIOUS
<1>2. Max(s) \in s
  BY <1>1, MaxIsIn
<1> QED BY <1>1, <1>2

-----------------------------------------------------------------------------
(***************************************************************************)
(* Folds.  The operation is a function F on pairs here.  To use it for     *)
(* FoldLeft(LAMBDA b, x : Op(b, x), ..), take for F the graph of Op on the *)
(* values the fold can take.                                               *)
(***************************************************************************)
\* The equation by which Folds.tla defines a fold over 1..n, from the left.
FoldEquation(F, base, seq, D, iter) ==
    iter = [s \in SUBSET D |-> IF s = {} THEN base
                               ELSE F[<<iter[s \ {Max(s)}], seq[Max(s)]>>]]

\* It has a solution over the first k indices.
Foldable(F, B, base, seq, k) ==
    \E iter \in [SUBSET (1..k) -> B] : FoldEquation(F, base, seq, 1..k, iter)

\* One more index: the sets that contain it are new.
LEMMA FoldExtends ==
    ASSUME NEW A, NEW B, NEW F, \A b \in B, x \in A : F[<<b, x>>] \in B,
           NEW base \in B, NEW seq, NEW k \in Nat, seq[k + 1] \in A,
           Foldable(F, B, base, seq, k)
    PROVE  Foldable(F, B, base, seq, k + 1)
<1>0. PICK old \in [SUBSET (1..k) -> B] : FoldEquation(F, base, seq, 1..k, old)
  BY DEF Foldable
<1> DEFINE iter == [s \in SUBSET (1..(k + 1)) |->
                      IF s \in SUBSET (1..k) THEN old[s]
                      ELSE F[<<old[s \ {k + 1}], seq[k + 1]>>]]
           value(s) == IF s = {} THEN base
                       ELSE F[<<iter[s \ {Max(s)}], seq[Max(s)]>>]
<1>1. ASSUME NEW s \in SUBSET (1..k)
      PROVE  iter[s] = value(s) /\ iter[s] \in B
  <2>1. CASE s = {}
    BY <1>0, <2>1 DEF FoldEquation
  <2>2. CASE s # {}
    <3>1. /\ s \ {Max(s)} \in SUBSET (1..k) /\ s \ {Max(s)} \in SUBSET (1..(k + 1))
          /\ s \in SUBSET (1..(k + 1))
      OBVIOUS
    <3>2. iter[s] = old[s] /\ iter[s \ {Max(s)}] = old[s \ {Max(s)}]
      BY <3>1
    <3>3. old[s] = F[<<old[s \ {Max(s)}], seq[Max(s)]>>] /\ old[s] \in B
      BY <1>0, <2>2 DEF FoldEquation
    <3> QED BY <2>2, <3>2, <3>3
  <2> QED BY <2>1, <2>2
<1>2. ASSUME NEW s \in SUBSET (1..(k + 1)), s \notin SUBSET (1..k)
      PROVE  iter[s] = value(s) /\ iter[s] \in B
  <2>1. k + 1 \in s
    BY <1>2
  <2>2. Max(s) = k + 1
    BY <2>1, MaxOfInterval
  <2>3. s \ {k + 1} \in SUBSET (1..k) /\ s \ {k + 1} \in SUBSET (1..(k + 1))
    OBVIOUS
  <2>4. iter[s \ {k + 1}] = old[s \ {k + 1}] /\ old[s \ {k + 1}] \in B
    BY <1>0, <2>3
  <2>5. iter[s] = F[<<old[s \ {k + 1}], seq[k + 1]>>]
    BY <1>2
  <2> QED BY <2>1, <2>2, <2>4, <2>5
<1> HIDE DEF value
<1>3. iter = [s \in SUBSET (1..(k + 1)) |-> value(s)]
  BY <1>1, <1>2
<1>4. iter \in [SUBSET (1..(k + 1)) -> B]
  BY <1>1, <1>2
<1>5. FoldEquation(F, base, seq, 1..(k + 1), iter)
  BY <1>3 DEF FoldEquation, value
<1> HIDE DEF iter
<1> QED BY <1>4, <1>5 DEF Foldable

LEMMA FoldExists ==
    ASSUME NEW A, NEW B, NEW F, \A b \in B, x \in A : F[<<b, x>>] \in B,
           NEW base \in B, NEW seq \in Seq(A)
    PROVE  \E iter \in [SUBSET DOMAIN seq -> B] :
               FoldEquation(F, base, seq, DOMAIN seq, iter)
<1> DEFINE T == {k \in Nat : Foldable(F, B, base, seq, k)}
<1>1. 0 \in T
  <2> DEFINE iter == [s \in SUBSET (1..0) |-> base]
  <2>1. \A s \in SUBSET (1..0) : s = {}
    OBVIOUS
  <2>2. FoldEquation(F, base, seq, 1..0, iter)
    BY <2>1 DEF FoldEquation
  <2> QED BY <2>2 DEF Foldable
<1>2. Len(seq) \in Nat /\ DOMAIN seq = 1..Len(seq)
  OBVIOUS
<1>3. ASSUME NEW k \in 0..(Len(seq) - 1), k \in T PROVE k + 1 \in T
  <2>1. k \in Nat /\ k + 1 \in Nat /\ seq[k + 1] \in A
    BY <1>2
  <2>2. Foldable(F, B, base, seq, k + 1)
    BY <1>3, <2>1, FoldExtends
  <2> QED BY <2>1, <2>2
<1> HIDE DEF T
<1>4. Len(seq) \in 0..Len(seq) /\ 0..Len(seq) \subseteq T
  BY <1>1, <1>2, <1>3, BoundedInduction
<1>5. Foldable(F, B, base, seq, Len(seq))
  BY <1>4 DEF T
<1> QED BY <1>2, <1>5 DEF Foldable

\* The intermediate results, from base to the value of the fold.
Results(h, B, base, seq, value) ==
    h \in [0..Len(seq) -> B] /\ h[0] = base /\ h[Len(seq)] = value

IsRun(h, F, seq) == \A n \in 1..Len(seq) : h[n] = F[<<h[n - 1], seq[n]>>]

LEMMA FoldRun ==
    ASSUME NEW A, NEW B, NEW F, \A b \in B, x \in A : F[<<b, x>>] \in B,
           NEW base \in B, NEW seq \in Seq(A),
           NEW iter, FoldEquation(F, base, seq, DOMAIN seq, iter)
    PROVE  \E h : Results(h, B, base, seq, iter[DOMAIN seq]) /\ IsRun(h, F, seq)
<1> DEFINE h == [n \in 0..Len(seq) |-> iter[1..n]]
           T == {n \in Nat : iter[1..n] \in B}
<1>1. Len(seq) \in Nat /\ DOMAIN seq = 1..Len(seq)
  OBVIOUS
<1>2. iter[1..0] = base
  <2>1. 1..0 = {}
    OBVIOUS
  <2> QED BY <2>1 DEF FoldEquation
<1>3. ASSUME NEW n \in 0..(Len(seq) - 1)
      PROVE  iter[1..(n + 1)] = F[<<iter[1..n], seq[n + 1]>>] /\ seq[n + 1] \in A
  <2>1. Max(1..(n + 1)) = n + 1
    BY <1>1, MaxOfInterval
  <2>2. (1..(n + 1)) \ {n + 1} = 1..n
    OBVIOUS
  <2>3. 1..(n + 1) \subseteq 1..Len(seq) /\ n + 1 \in 1..(n + 1)
    BY <1>1
  <2>4. iter[1..(n + 1)] = F[<<iter[(1..(n + 1)) \ {Max(1..(n + 1))}], seq[Max(1..(n + 1))]>>]
    BY <1>1, <2>3 DEF FoldEquation
  <2>5. seq[n + 1] \in A
    BY <1>1
  <2> QED BY <2>1, <2>2, <2>4, <2>5
<1>4. 0..Len(seq) \subseteq T
  <2>1. ASSUME NEW n \in 0..(Len(seq) - 1), n \in T PROVE n + 1 \in T
    <3>1. F[<<iter[1..n], seq[n + 1]>>] \in B
      BY <1>3, <2>1
    <3> QED BY <1>3, <3>1
  <2>2. 0 \in T
    BY <1>2
  <2> HIDE DEF T
  <2> QED BY <1>1, <2>1, <2>2, BoundedInduction
<1>5. h \in [0..Len(seq) -> B] /\ h[0] = base /\ h[Len(seq)] = iter[DOMAIN seq]
  BY <1>1, <1>2, <1>4
<1>6. ASSUME NEW n \in 1..Len(seq) PROVE h[n] = F[<<h[n - 1], seq[n]>>]
  <2>1. n - 1 \in 0..(Len(seq) - 1) /\ (n - 1) + 1 = n
    BY <1>1
  <2> QED BY <1>1, <1>3, <2>1
<1> HIDE DEF h
<1> QED BY <1>5, <1>6 DEF IsRun, Results
-----------------------------------------------------------------------------
(***************************************************************************)
(* Sequences as sets.                                                      *)
(***************************************************************************)
LEMMA AppendSet ==
    ASSUME NEW S, NEW s \in Seq(S), NEW e \in S
    PROVE  /\ ToSet(Append(s, e)) = ToSet(s) \cup {e}
           /\ IsInjective(s) /\ e \notin ToSet(s) => IsInjective(Append(s, e))
<1> DEFINE t == Append(s, e)
<1>1. /\ DOMAIN t = 1..(Len(s) + 1) /\ DOMAIN s = 1..Len(s) /\ Len(s) \in Nat
      /\ \A i \in 1..Len(s) : t[i] = s[i]
      /\ t[Len(s) + 1] = e
  OBVIOUS
<1> HIDE DEF t
<1>2. ToSet(t) = ToSet(s) \cup {e}
  BY <1>1 DEF ToSet
<1>3. ASSUME IsInjective(s), e \notin ToSet(s) PROVE IsInjective(t)
  BY <1>1, <1>3 DEF ToSet, IsInjective
<1> QED BY <1>2, <1>3 DEF t

LEMMA TailSet ==
    ASSUME NEW S, NEW s \in Seq(S), s # <<>>
    PROVE  /\ Head(s) \in S /\ Tail(s) \in Seq(S)
           /\ ToSet(s) = {Head(s)} \cup ToSet(Tail(s))
           /\ IsInjective(s) => Head(s) \notin ToSet(Tail(s)) /\ IsInjective(Tail(s))
<1> DEFINE t == Tail(s)
<1>1. /\ Len(s) \in Nat \ {0} /\ DOMAIN s = 1..Len(s)
      /\ DOMAIN t = 1..(Len(s) - 1)
      /\ \A i \in 1..(Len(s) - 1) : t[i] = s[i + 1]
      /\ Head(s) = s[1] /\ Head(s) \in S /\ t \in Seq(S)
  OBVIOUS
<1> HIDE DEF t
<1>2. ToSet(s) = {Head(s)} \cup ToSet(t)
  <2>1. ASSUME NEW i \in DOMAIN s PROVE s[i] \in {Head(s)} \cup ToSet(t)
    <3>1. CASE i = 1
      BY <1>1, <3>1
    <3>2. CASE i # 1
      <4>1. i - 1 \in DOMAIN t /\ t[i - 1] = s[i]
        BY <1>1, <3>2
      <4> QED BY <4>1 DEF ToSet
    <3> QED BY <3>1, <3>2
  <2>2. ASSUME NEW i \in DOMAIN t PROVE t[i] \in ToSet(s)
    BY <1>1 DEF ToSet
  <2>3. Head(s) \in ToSet(s)
    BY <1>1 DEF ToSet
  <2> QED BY <2>1, <2>2, <2>3 DEF ToSet
<1>3. ASSUME IsInjective(s) PROVE Head(s) \notin ToSet(t) /\ IsInjective(t)
  <2>1. \A i \in DOMAIN t : i + 1 \in DOMAIN s /\ t[i] = s[i + 1] /\ i + 1 # 1
    BY <1>1
  <2>2. 1 \in DOMAIN s
    BY <1>1
  <2>3. \A i \in DOMAIN t : t[i] # s[1]
    BY <1>3, <2>1, <2>2 DEF IsInjective
  <2>4. ASSUME NEW a \in DOMAIN t, NEW b \in DOMAIN t, t[a] = t[b] PROVE a = b
    <3>1. a + 1 = b + 1
      BY <1>3, <2>1, <2>4 DEF IsInjective
    <3> QED BY <1>1, <3>1
  <2> QED BY <1>1, <2>3, <2>4 DEF ToSet, IsInjective
<1>4. t = Tail(s)
  BY DEF t
<1> QED BY <1>1, <1>2, <1>3, <1>4, Zenon

LEMMA ConcatSet ==
    ASSUME NEW S, NEW s \in Seq(S), NEW t \in Seq(S)
    PROVE  /\ s \o t \in Seq(S)
           /\ ToSet(s \o t) = ToSet(s) \cup ToSet(t)
           /\ IsInjective(s) /\ IsInjective(t) /\ ToSet(s) \cap ToSet(t) = {}
                => IsInjective(s \o t)
<1> DEFINE u == s \o t
<1>1. /\ Len(s) \in Nat /\ Len(t) \in Nat
      /\ DOMAIN s = 1..Len(s) /\ DOMAIN t = 1..Len(t)
      /\ DOMAIN u = 1..(Len(s) + Len(t)) /\ u \in Seq(S)
      /\ \A i \in 1..Len(s) : u[i] = s[i]
      /\ \A i \in 1..Len(t) : u[Len(s) + i] = t[i]
  BY ConcatProperties
<1> HIDE DEF u
<1>2. \A i \in DOMAIN u :
        \/ i \in DOMAIN s /\ u[i] = s[i]
        \/ i - Len(s) \in DOMAIN t /\ u[i] = t[i - Len(s)]
  <2> SUFFICES ASSUME NEW i \in DOMAIN u, i \notin DOMAIN s
               PROVE  i - Len(s) \in DOMAIN t /\ u[i] = t[i - Len(s)]
    BY <1>1
  <2>1. i - Len(s) \in 1..Len(t) /\ i = Len(s) + (i - Len(s))
    BY <1>1
  <2> QED BY <1>1, <2>1
<1>3. ToSet(u) = ToSet(s) \cup ToSet(t)
  <2>1. ToSet(u) \subseteq ToSet(s) \cup ToSet(t)
    BY <1>2 DEF ToSet
  <2>2. ToSet(s) \subseteq ToSet(u)
    BY <1>1 DEF ToSet
  <2>3. ASSUME NEW i \in DOMAIN t PROVE t[i] \in ToSet(u)
    <3>1. Len(s) + i \in DOMAIN u /\ u[Len(s) + i] = t[i]
      BY <1>1
    <3> QED BY <3>1 DEF ToSet
  <2> QED BY <2>1, <2>2, <2>3 DEF ToSet
<1>4. ASSUME IsInjective(s), IsInjective(t), ToSet(s) \cap ToSet(t) = {},
             NEW a \in DOMAIN u, NEW b \in DOMAIN u, u[a] = u[b]
      PROVE  a = b
  <2>1. CASE a \in DOMAIN s /\ u[a] = s[a]
    <3>1. b \in DOMAIN s /\ u[b] = s[b]
      BY <1>2, <1>4, <2>1 DEF ToSet
    <3> QED BY <1>4, <2>1, <3>1 DEF IsInjective
  <2>2. CASE a - Len(s) \in DOMAIN t /\ u[a] = t[a - Len(s)]
    <3>1. b - Len(s) \in DOMAIN t /\ u[b] = t[b - Len(s)]
      BY <1>2, <1>4, <2>2 DEF ToSet
    <3>2. a - Len(s) = b - Len(s)
      BY <1>4, <2>2, <3>1 DEF IsInjective
    <3> QED BY <1>1, <3>2
  <2> QED BY <1>2, <2>1, <2>2
<1> QED BY <1>1, <1>3, <1>4 DEF u, IsInjective
(***************************************************************************)
(* An injective sequence as long as a finite set has elements holds all.   *)
(***************************************************************************)
LEMMA FullSequence ==
    ASSUME NEW S, IsFiniteSet(S), NEW s \in Seq(S), IsInjective(s),
           Len(s) = Cardinality(S)
    PROVE  ToSet(s) = S
<1>1. s \in Injection(1..Len(s), S) /\ DOMAIN s = 1..Len(s) /\ Len(s) \in Nat
  BY DEF Injection
<1>2. Cardinality(1..Len(s)) = Len(s)
  BY <1>1, FS_Interval
<1>3. s \in Surjection(1..Len(s), S)
  BY <1>1, <1>2, FS_Injection
<1> QED BY <1>1, <1>3 DEF Surjection, ToSet

LEMMA InjectiveCount ==
    ASSUME NEW S, NEW s \in Seq(S), IsInjective(s)
    PROVE  IsFiniteSet(ToSet(s)) /\ Cardinality(ToSet(s)) = Len(s)
<1>1. Len(s) \in Nat /\ DOMAIN s = 1..Len(s) /\ s \in [1..Len(s) -> S]
  OBVIOUS
<1>2. s \in Bijection(1..Len(s), ToSet(s))
  BY <1>1 DEF Bijection, Injection, Surjection, IsInjective, ToSet
<1>3. ExistsBijection(1..Len(s), ToSet(s))
  BY <1>2 DEF ExistsBijection
<1> QED BY <1>1, <1>3, FS_NatBijection, FS_CountingElements

LEMMA ListIsFinite ==
    ASSUME NEW A, NEW seq \in Seq(A)
    PROVE  IsFiniteSet(ToSet(seq))
<1>1. Len(seq) \in Nat /\ DOMAIN seq = 1..Len(seq) /\ seq \in [1..Len(seq) -> A]
  OBVIOUS
<1>2. seq \in Surjection(1..Len(seq), ToSet(seq))
  BY <1>1 DEF Surjection, ToSet
<1> QED BY <1>1, <1>2, FS_NatSurjection DEF ExistsSurjection

(***************************************************************************)
(* One task done: what is still missing for a set of dependencies.         *)
(***************************************************************************)
LEMMA OneLess ==
    ASSUME NEW D, IsFiniteSet(D), NEW done, NEW node, node \notin done
    PROVE  /\ Cardinality(D \ done) \in Nat
           /\ Cardinality(D \ (done \cup {node}))
                = IF node \in D THEN Cardinality(D \ done) - 1
                  ELSE Cardinality(D \ done)
           /\ node \in D => (Cardinality(D \ done) = 1
                                <=> D \subseteq done \cup {node})
           /\ Cardinality(D \ done) = 0 <=> D \subseteq done
<1>1. IsFiniteSet(D \ done) /\ Cardinality(D \ done) \in Nat
  BY FS_Difference, FS_CardinalityType
<1>2. D \ (done \cup {node}) = (D \ done) \ {node}
  OBVIOUS
<1>3. /\ IsFiniteSet((D \ done) \ {node})
      /\ Cardinality((D \ done) \ {node})
           = IF node \in D \ done THEN Cardinality(D \ done) - 1
             ELSE Cardinality(D \ done)
  BY <1>1, FS_RemoveElement
<1>4. Cardinality((D \ done) \ {node}) = 0 <=> (D \ done) \ {node} = {}
  BY <1>3, FS_EmptySet
<1>5. Cardinality(D \ done) = 0 <=> D \ done = {}
  BY <1>1, FS_EmptySet
<1>6. ASSUME node \in D
      PROVE  Cardinality(D \ done) = 1 <=> D \subseteq done \cup {node}
  BY <1>1, <1>3, <1>4, <1>6
<1> QED BY <1>1, <1>2, <1>3, <1>5, <1>6
-----------------------------------------------------------------------------
(***************************************************************************)
(* The folds of Lists.                                                     *)
(***************************************************************************)
\* What a list holds up to a position.
UpTo(seq, n) == {seq[i] : i \in 1..n}

LEMMA UpToNext ==
    ASSUME NEW seq, NEW n \in Nat
    PROVE  UpTo(seq, 0) = {} /\ UpTo(seq, n + 1) = UpTo(seq, n) \cup {seq[n + 1]}
<1>1. \A i \in 1..(n + 1) : i \in 1..n \/ i = n + 1
  OBVIOUS
<1>2. n + 1 \in 1..(n + 1) /\ \A i \in 1..n : i \in 1..(n + 1)
  OBVIOUS
<1> QED BY <1>1, <1>2 DEF UpTo

KeptSteps(h, seq, S) == \A n \in 1..Len(seq) : h[n] = KeepIn(S, h[n - 1], seq[n])

LEMMA KeptRun ==
    ASSUME NEW A, NEW seq \in Seq(A), NEW S
    PROVE  \E h : Results(h, Seq(A), <<>>, seq, Kept(seq, S)) /\ KeptSteps(h, seq, S)
<1> DEFINE B == Seq(A)
           step(g, s) == IF s = {} THEN <<>> ELSE KeepIn(S, g[s \ {Max(s)}], seq[Max(s)])
           iter == CHOOSE g : g = [s \in SUBSET DOMAIN seq |-> step(g, s)]
           W == B \cup {iter[s] : s \in SUBSET DOMAIN seq}
           F == [y \in W \X A |-> KeepIn(S, y[1], y[2])]
<1>1. Kept(seq, S) = iter[DOMAIN seq]
  BY DEF Kept, FoldLeft, MapThenFoldSet
<1>2. /\ B \subseteq W /\ \A s \in SUBSET DOMAIN seq : iter[s] \in W
      /\ \A b \in W, x \in A : F[<<b, x>>] = KeepIn(S, b, x)
  OBVIOUS
<1> HIDE DEF iter, W, F
<1>3. <<>> \in B /\ \A b \in B, x \in A : F[<<b, x>>] \in B
  <2>1. \A b \in B, x \in A : KeepIn(S, b, x) \in B
    BY DEF KeepIn
  <2> QED BY <1>2, <2>1
<1> HIDE DEF B
<1>4. PICK g \in [SUBSET DOMAIN seq -> B] : FoldEquation(F, <<>>, seq, DOMAIN seq, g)
  BY <1>3, FoldExists
<1>5. \A s \in SUBSET DOMAIN seq :
         s # {} => s \ {Max(s)} \in SUBSET DOMAIN seq /\ seq[Max(s)] \in A
  BY LastOfDomain
<1>6. g = [s \in SUBSET DOMAIN seq |-> step(g, s)]
  BY <1>2, <1>4, <1>5 DEF FoldEquation
<1> HIDE DEF step
<1>7. iter = [s \in SUBSET DOMAIN seq |-> step(iter, s)]
  BY <1>6 DEF iter
<1>8. FoldEquation(F, <<>>, seq, DOMAIN seq, iter)
  BY <1>2, <1>5, <1>7 DEF FoldEquation, step
<1>9. PICK h : Results(h, B, <<>>, seq, iter[DOMAIN seq]) /\ IsRun(h, F, seq)
  BY <1>3, <1>8, FoldRun
<1>10. ASSUME NEW n \in 1..Len(seq) PROVE h[n] = KeepIn(S, h[n - 1], seq[n])
  <2>1. h[n - 1] \in B /\ seq[n] \in A
    BY <1>9 DEF Results
  <2> QED BY <1>2, <1>9, <2>1 DEF IsRun
<1> QED BY <1>1, <1>9, <1>10 DEF B, KeptSteps

\* What [x for x in seq if x in S] holds: the order is kept as well.
LEMMA KeptList ==
    ASSUME NEW A, NEW seq \in Seq(A), NEW S
    PROVE  /\ Kept(seq, S) \in Seq(A)
           /\ ToSet(Kept(seq, S)) = ToSet(seq) \cap S
           /\ IsInjective(seq) => IsInjective(Kept(seq, S))
<1>1. PICK h : Results(h, Seq(A), <<>>, seq, Kept(seq, S)) /\ KeptSteps(h, seq, S)
  BY KeptRun
<1>2. /\ Len(seq) \in Nat /\ DOMAIN seq = 1..Len(seq)
      /\ \A n \in 1..Len(seq) : seq[n] \in A
  OBVIOUS
<1> DEFINE T == {n \in 0..Len(seq) :
                    /\ ToSet(h[n]) = UpTo(seq, n) \cap S
                    /\ IsInjective(seq) => IsInjective(h[n])}
<1>3. 0 \in T
  BY <1>1, <1>2, UpToNext DEF ToSet, IsInjective, Results
<1>4. ASSUME NEW n \in 0..(Len(seq) - 1), n \in T PROVE n + 1 \in T
  <2>1. /\ n \in Nat /\ n + 1 \in 1..Len(seq) /\ (n + 1) - 1 = n
        /\ seq[n + 1] \in A /\ h[n] \in Seq(A)
    BY <1>1, <1>2 DEF Results
  <2>5. UpTo(seq, n + 1) = UpTo(seq, n) \cup {seq[n + 1]}
    BY <2>1, UpToNext
  <2>2. h[n + 1] = KeepIn(S, h[n], seq[n + 1])
    BY <1>1, <2>1 DEF KeptSteps
  <2>3. CASE seq[n + 1] \notin S
    BY <1>4, <2>1, <2>2, <2>3, <2>5 DEF KeepIn
  <2>4. CASE seq[n + 1] \in S
    <3>1. h[n + 1] = Append(h[n], seq[n + 1])
      BY <2>2, <2>4 DEF KeepIn
    <3>2. IsInjective(seq) => seq[n + 1] \notin UpTo(seq, n)
      <4>1. \A i \in 1..n : i \in 1..Len(seq) /\ i # n + 1
        BY <1>2
      <4> QED BY <1>2, <2>1, <4>1 DEF UpTo, IsInjective
    <3>3. /\ ToSet(h[n + 1]) = ToSet(h[n]) \cup {seq[n + 1]}
          /\ IsInjective(h[n]) /\ seq[n + 1] \notin ToSet(h[n]) => IsInjective(h[n + 1])
      BY <2>1, <3>1, AppendSet
    <3> QED BY <1>4, <2>1, <2>4, <2>5, <3>2, <3>3
  <2> QED BY <2>3, <2>4
<1>5. Len(seq) \in T
  <2> HIDE DEF T
  <2>1. 0..Len(seq) \subseteq T
    BY <1>2, <1>3, <1>4, BoundedInduction
  <2> QED BY <1>2, <2>1
<1>6. UpTo(seq, Len(seq)) = ToSet(seq)
  BY <1>2 DEF UpTo, ToSet
<1> QED BY <1>1, <1>2, <1>5, <1>6 DEF Results

JoinedSteps(h, seq) == \A n \in 1..Len(seq) : h[n] = Extended(h[n - 1], seq[n])

LEMMA JoinedRun ==
    ASSUME NEW A, NEW seq \in Seq(Seq(A))
    PROVE  \E h : Results(h, Seq(A), <<>>, seq, Joined(seq)) /\ JoinedSteps(h, seq)
<1> DEFINE B == Seq(A)
           E == Seq(A)
           step(g, s) == IF s = {} THEN <<>> ELSE Extended(g[s \ {Max(s)}], seq[Max(s)])
           iter == CHOOSE g : g = [s \in SUBSET DOMAIN seq |-> step(g, s)]
           W == B \cup {iter[s] : s \in SUBSET DOMAIN seq}
           F == [y \in W \X E |-> Extended(y[1], y[2])]
<1>1. Joined(seq) = iter[DOMAIN seq]
  BY DEF Joined, FoldLeft, MapThenFoldSet
<1>2. /\ B \subseteq W /\ \A s \in SUBSET DOMAIN seq : iter[s] \in W
      /\ \A b \in W, x \in E : F[<<b, x>>] = Extended(b, x)
  OBVIOUS
<1> HIDE DEF iter, W, F
<1>3. <<>> \in B /\ \A b \in B, x \in E : F[<<b, x>>] \in B
  <2>1. \A b \in B, x \in E : Extended(b, x) \in B
    BY DEF Extended
  <2> QED BY <1>2, <2>1
<1>0. seq \in Seq(E)
  OBVIOUS
<1> HIDE DEF B, E
<1>4. PICK g \in [SUBSET DOMAIN seq -> B] : FoldEquation(F, <<>>, seq, DOMAIN seq, g)
  BY <1>0, <1>3, FoldExists
<1>5. \A s \in SUBSET DOMAIN seq :
         s # {} => s \ {Max(s)} \in SUBSET DOMAIN seq /\ seq[Max(s)] \in E
  BY <1>0, LastOfDomain
<1>6. g = [s \in SUBSET DOMAIN seq |-> step(g, s)]
  BY <1>2, <1>4, <1>5 DEF FoldEquation
<1> HIDE DEF step
<1>7. iter = [s \in SUBSET DOMAIN seq |-> step(iter, s)]
  BY <1>6 DEF iter
<1>8. FoldEquation(F, <<>>, seq, DOMAIN seq, iter)
  BY <1>2, <1>5, <1>7 DEF FoldEquation, step
<1>9. PICK h : Results(h, B, <<>>, seq, iter[DOMAIN seq]) /\ IsRun(h, F, seq)
  BY <1>0, <1>3, <1>8, FoldRun
<1>10. ASSUME NEW n \in 1..Len(seq) PROVE h[n] = Extended(h[n - 1], seq[n])
  <2>1. h[n - 1] \in B /\ seq[n] \in E
    BY <1>0, <1>9 DEF Results
  <2> QED BY <1>2, <1>9, <2>1 DEF IsRun
<1> QED BY <1>1, <1>9, <1>10 DEF B, JoinedSteps

LEMMA JoinedList ==
    ASSUME NEW A, NEW seqs \in Seq(Seq(A))
    PROVE  Joined(seqs) \in Seq(A)
<1>1. PICK h : Results(h, Seq(A), <<>>, seqs, Joined(seqs)) /\ JoinedSteps(h, seqs)
  BY JoinedRun
<1>2. Len(seqs) \in 0..Len(seqs)
  OBVIOUS
<1> QED BY <1>1, <1>2 DEF Results

-----------------------------------------------------------------------------
(***************************************************************************)
(* Lists made by operators of the community modules.                       *)
(***************************************************************************)
\* A finite set in some order, each element once.
LEMMA SetToSeqList ==
    ASSUME NEW S, IsFiniteSet(S)
    PROVE  SetToSeq(S) \in Seq(S) /\ ToSet(SetToSeq(S)) = S
<1> DEFINE n == Cardinality(S)
           Enumeration(f) == f \in [1..n -> S] /\ IsInjective(f)
<1>1. n \in Nat /\ ExistsBijection(1..n, S)
  BY FS_CardinalityType
<1>2. PICK f : f \in Bijection(1..n, S)
  BY <1>1 DEF ExistsBijection
<1>3. f \in [1..n -> S] /\ IsInjective(f)
  BY <1>2 DEF Bijection, Injection, IsInjective
<1>4. SetToSeq(S) \in [1..n -> S] /\ IsInjective(SetToSeq(S))
  BY <1>3 DEF SetToSeq
<1> DEFINE s == SetToSeq(S)
<1> HIDE DEF s
<1>5. s \in Seq(S) /\ IsInjective(s) /\ Len(s) = n
  BY <1>1, <1>4 DEF s
<1>6. ToSet(s) = S
  BY <1>5, FullSequence
<1> QED BY <1>5, <1>6 DEF s

LEMMA ReverseList ==
    ASSUME NEW A, NEW seq \in Seq(A)
    PROVE  Reverse(seq) \in Seq(A) /\ (Reverse(seq) = <<>> <=> seq = <<>>)
<1>1. Len(seq) \in Nat /\ DOMAIN seq = 1..Len(seq)
  OBVIOUS
<1>2. \A i \in 1..Len(seq) : (Len(seq) - i) + 1 \in 1..Len(seq)
  BY <1>1
<1>3. Reverse(seq) \in [1..Len(seq) -> A]
  BY <1>1, <1>2 DEF Reverse
<1> DEFINE r == Reverse(seq)
<1> HIDE DEF r
<1>4. r \in Seq(A) /\ Len(r) = Len(seq)
  BY <1>1, <1>3 DEF r
<1> QED BY <1>4 DEF r
=============================================================================
