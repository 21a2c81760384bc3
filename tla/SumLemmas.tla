----------------------------- MODULE SumLemmas -----------------------------
(***************************************************************************)
(* Sums and concatenations over finite sets, as the models take them from  *)
(* the community modules (SumFunctionOnSet, FoldSet), for the proofs.      *)
(*                                                                         *)
(* A fold is a recursive function of the subsets of its set, so each fact  *)
(* about one needs that the function exists and an induction.  Both are    *)
(* done here, for functions as parameters, with the well-founded order of  *)
(* the finite subsets.  What a sum is, independent of the order in which   *)
(* elements are chosen, is a cardinality: Units(h, S) has h[x] elements    *)
(* for every x of S.                                                       *)
(***************************************************************************)
EXTENDS Integers, Sequences, FiniteSets, FiniteSetsExt, FiniteSetTheorems,
        SequenceTheorems, WellFoundedInduction, TLAPS

Pick(s) == CHOOSE x \in s : TRUE

(* Induction: a set that holds {} and every subset of S whose rest it      *)
(* holds has all subsets of S.                                             *)
LEMMA SubsetInduction ==
  ASSUME NEW S, IsFiniteSet(S), NEW F,
         \A s \in SUBSET S : (s = {} \/ s \ {Pick(s)} \in F) => s \in F
  PROVE  \A s \in SUBSET S : s \in F
  <1> DEFINE R == StrictSubsetOrdering(S)
             T == {s \in SUBSET S : s \notin F}
  <1>1. IsWellFoundedOn(R, SUBSET S)
    BY FS_StrictSubsetOrderingWellFounded, FS_FiniteSubsetsOfFinite
  <1>2. SUFFICES ASSUME T # {} PROVE FALSE
    OBVIOUS
  <1>3. T \subseteq SUBSET S
    OBVIOUS
  <1> HIDE DEF R
  <1>4. PICK s \in T : \A t \in T : ~(<<t, s>> \in R)
    BY <1>1, <1>2, <1>3, WFMin
  <1>5. s # {} /\ s \in SUBSET S
    BY <1>4
  <1>6. Pick(s) \in s
    BY <1>5 DEF Pick
  <1>7. s \ {Pick(s)} \in SUBSET S /\ <<s \ {Pick(s)}, s>> \in R
    BY <1>5, <1>6 DEF R, StrictSubsetOrdering
  <1>8. s \ {Pick(s)} \in F
    BY <1>4, <1>7
  <1> QED
    BY <1>4, <1>5, <1>8

(* it folds the subsets of S with the function G.                          *)
IsFold(it, S, B, base, G) ==
  /\ it \in [SUBSET S -> B]
  /\ \A s \in SUBSET S :
        it[s] = IF s = {} THEN base ELSE G[<<Pick(s), it[s \ {Pick(s)}]>>]

(* A fold with the function G exists.                                      *)
LEMMA FoldExists ==
  ASSUME NEW S, IsFiniteSet(S), NEW B, NEW base \in B, NEW G \in [S \X B -> B]
  PROVE  \E it : IsFold(it, S, B, base, G)
  <1> DEFINE Good(it, D) == \A s \in D :
                it[s] = IF s = {} THEN base ELSE G[<<Pick(s), it[s \ {Pick(s)}]>>]
             Small(n) == {s \in SUBSET S : Cardinality(s) <= n}
             T == {n \in Nat : \A it \in [Small(n) -> B] : ~Good(it, Small(n))}
             R == {ss \in Nat \X Nat : ss[1] < ss[2]}
  <1>0. \A s \in SUBSET S : IsFiniteSet(s) /\ Cardinality(s) \in Nat
    BY FS_Subset, FS_CardinalityType
  <1>1. T = {}
    <2> SUFFICES ASSUME T # {} PROVE FALSE
      OBVIOUS
    <2>1. IsWellFoundedOn(R, Nat)
      BY NatLessThanWellFounded DEF OpToRel
    <2>2. T \subseteq Nat
      OBVIOUS
    <2> HIDE DEF R, T
    <2>3. PICK n \in T : \A m \in T : ~(<<m, n>> \in R)
      BY <2>1, <2>2, WFMin
    <2>4. n \in Nat
      BY <2>2, <2>3
    <2>5. CASE n = 0
      <3> DEFINE it == [s \in Small(0) |-> base]
      <3>1. \A s \in Small(0) : s = {}
        BY <1>0, FS_EmptySet
      <3>2. it \in [Small(0) -> B] /\ Good(it, Small(0))
        BY <3>1
      <3> QED
        BY <2>3, <2>5, <3>2 DEF T
    <2>6. CASE n > 0
      <3>1. n - 1 \in Nat /\ n - 1 < n
        BY <2>4, <2>6
      <3>2. n - 1 \notin T
        BY <2>3, <2>4, <3>1 DEF R
      <3>3. PICK jt \in [Small(n - 1) -> B] : Good(jt, Small(n - 1))
        BY <3>1, <3>2 DEF T
      <3> DEFINE it == [s \in Small(n) |-> IF s \in Small(n - 1) THEN jt[s]
                                           ELSE G[<<Pick(s), jt[s \ {Pick(s)}]>>]]
      <3>4. ASSUME NEW s \in Small(n), s # {}
            PROVE  s \ {Pick(s)} \in Small(n - 1) /\ Pick(s) \in S
        <4>1. Pick(s) \in s
          BY <3>4 DEF Pick
        <4>2. Cardinality(s \ {Pick(s)}) = Cardinality(s) - 1
          BY <4>1, <1>0, FS_RemoveElement
        <4> QED
          BY <4>1, <4>2, <1>0, <2>4
      <3>5. {} \in Small(n - 1) /\ Small(n - 1) \subseteq Small(n)
        <4>1. \A s \in Small(n - 1) : s \in Small(n)
          BY <1>0, <2>4
        <4> QED
          BY <3>1, <4>1, FS_EmptySet
      <3> HIDE DEF Small
      <3>6. it \in [Small(n) -> B]
        <4>1. ASSUME NEW s \in Small(n), s \notin Small(n - 1)
              PROVE  G[<<Pick(s), jt[s \ {Pick(s)}]>>] \in B
          <5>1. s # {}
            BY <4>1, <3>5
          <5>2. jt[s \ {Pick(s)}] \in B /\ Pick(s) \in S
            BY <5>1, <3>4
          <5> QED
            BY <5>2
        <4> QED
          BY <4>1
      <3>7. Good(it, Small(n))
        <4> SUFFICES ASSUME NEW s \in Small(n)
                     PROVE  it[s] = IF s = {} THEN base
                                    ELSE G[<<Pick(s), it[s \ {Pick(s)}]>>]
          OBVIOUS
        <4>1. CASE s = {}
          <5>1. it[s] = jt[s] /\ jt[s] = base
            BY <4>1, <3>3, <3>5
          <5> QED
            BY <4>1, <5>1
        <4>2. CASE s # {}
          <5>1. s \ {Pick(s)} \in Small(n - 1) /\ s \ {Pick(s)} \in Small(n)
            BY <4>2, <3>4, <3>5
          <5>2. it[s \ {Pick(s)}] = jt[s \ {Pick(s)}]
            BY <5>1
          <5>3. it[s] = G[<<Pick(s), jt[s \ {Pick(s)}]>>]
            BY <4>2, <3>3
          <5> QED
            BY <4>2, <5>2, <5>3
        <4> QED
          BY <4>1, <4>2
      <3> HIDE DEF it, Good
      <3> QED
        BY <2>3, <3>6, <3>7 DEF T
    <2> QED
      BY <2>4, <2>5, <2>6
  <1>2. Cardinality(S) \in Nat
    BY FS_CardinalityType
  <1>3. Small(Cardinality(S)) = SUBSET S
    BY <1>0, FS_Subset
  <1>4. PICK it \in [Small(Cardinality(S)) -> B] : Good(it, Small(Cardinality(S)))
    BY <1>1, <1>2
  <1> QED
    BY <1>3, <1>4 DEF IsFold

-----------------------------------------------------------------------------
(* Sums as cardinalities.                                                  *)

Units(h, S) == UNION {{x} \X (1..h[x]) : x \in S}
Total(h, S) == Cardinality(Units(h, S))

(* The units of one element.                                               *)
LEMMA UnitsOfOne ==
  ASSUME NEW x, NEW n \in Nat
  PROVE  IsFiniteSet({x} \X (1..n)) /\ Cardinality({x} \X (1..n)) = n
  <1> DEFINE f == [i \in 1..n |-> <<x, i>>]
             T == {x} \X (1..n)
  <1>1. f \in [1..n -> T]
    OBVIOUS
  <1>2. \A i, j \in 1..n : f[i] = f[j] => i = j
    OBVIOUS
  <1>3. \A y \in T : \E i \in 1..n : f[i] = y
    <2> SUFFICES ASSUME NEW y \in T PROVE \E i \in 1..n : f[i] = y
      OBVIOUS
    <2>1. y[2] \in 1..n /\ y = <<x, y[2]>>
      OBVIOUS
    <2>2. f[y[2]] = y
      BY <2>1
    <2> QED
      BY <2>1, <2>2
  <1> HIDE DEF f, T
  <1>4. f \in Bijection(1..n, T)
    BY <1>1, <1>2, <1>3 DEF Bijection, Injection, Surjection, IsInjective
  <1>5. ExistsBijection(1..n, T)
    BY <1>4 DEF ExistsBijection
  <1>6. IsFiniteSet(1..n) /\ Cardinality(1..n) = n
    BY FS_Interval
  <1> QED
    BY <1>5, <1>6, FS_Bijection DEF T

(* The units of two sets without a common element.                         *)
LEMMA UnitsOfTwo ==
  ASSUME NEW h, NEW S, NEW D, S \cap D = {}
  PROVE  /\ Units(h, S \cup D) = Units(h, S) \cup Units(h, D)
         /\ Units(h, S) \cap Units(h, D) = {}
  <1>1. Units(h, S \cup D) = Units(h, S) \cup Units(h, D)
    BY DEF Units
  <1>2. \A u \in Units(h, S) : u[1] \in S
    BY DEF Units
  <1>3. \A u \in Units(h, D) : u[1] \in D
    BY DEF Units
  <1> QED
    BY <1>1, <1>2, <1>3

(* The units of one element, as Units.                                     *)
LEMMA UnitsSingle ==
  ASSUME NEW h, NEW x
  PROVE  Units(h, {x}) = {x} \X (1..h[x])
  BY DEF Units

(* A finite sum is a number.                                               *)
LEMMA TotalType ==
  ASSUME NEW S, IsFiniteSet(S), NEW h, \A x \in S : h[x] \in Nat
  PROVE  IsFiniteSet(Units(h, S)) /\ Total(h, S) \in Nat
  <1> DEFINE F == {s \in SUBSET S : IsFiniteSet(Units(h, s))}
  <1>1. ASSUME NEW s \in SUBSET S, s = {} \/ s \ {Pick(s)} \in F PROVE s \in F
    <2>1. CASE s = {}
      <3>1. Units(h, s) = {}
        BY <2>1 DEF Units
      <3> QED
        BY <3>1, FS_EmptySet
    <2>2. CASE s # {}
      <3> DEFINE x == Pick(s)
      <3>1. x \in s /\ x \in S
        BY <2>2 DEF Pick
      <3>2. s = (s \ {x}) \cup {x}
        BY <3>1
      <3>3. IsFiniteSet(Units(h, s \ {x}))
        BY <1>1, <2>2
      <3> HIDE DEF x
      <3>4. IsFiniteSet(Units(h, {x}))
        <4>1. h[x] \in Nat /\ Units(h, {x}) = {x} \X (1..h[x])
          BY <3>1, UnitsSingle
        <4>2. IsFiniteSet({x} \X (1..h[x]))
          BY <4>1, UnitsOfOne
        <4> QED
          BY <4>1, <4>2
      <3>5. Units(h, s) = Units(h, s \ {x}) \cup Units(h, {x})
        BY <3>2 DEF Units
      <3> QED
        BY <3>3, <3>4, <3>5, FS_Union
    <2> QED
      BY <2>1, <2>2
  <1> HIDE DEF F
  <1>2. S \in F
    BY <1>1, SubsetInduction
  <1> QED
    BY <1>2, FS_CardinalityType DEF F, Total

(* The sum of no element, and of one.                                      *)
LEMMA TotalOne ==
  ASSUME NEW h, NEW x
  PROVE  /\ Total(h, {}) = 0
         /\ h[x] \in Nat => Total(h, {x}) = h[x]
  <1>1. Units(h, {}) = {}
    BY DEF Units
  <1>2. Total(h, {}) = 0
    BY <1>1, FS_EmptySet DEF Total
  <1>3. ASSUME h[x] \in Nat PROVE Total(h, {x}) = h[x]
    <2>1. Cardinality({x} \X (1..h[x])) = h[x]
      BY <1>3, UnitsOfOne
    <2> QED
      BY <2>1, UnitsSingle DEF Total
  <1> QED
    BY <1>2, <1>3

(* The sum over two sets without a common element.                         *)
LEMMA TotalUnion ==
  ASSUME NEW S, IsFiniteSet(S), NEW D, IsFiniteSet(D), S \cap D = {}, NEW h,
         \A x \in S \cup D : h[x] \in Nat
  PROVE  Total(h, S \cup D) = Total(h, S) + Total(h, D)
  <1>1. IsFiniteSet(Units(h, S)) /\ IsFiniteSet(Units(h, D))
        /\ Total(h, S) \in Nat /\ Total(h, D) \in Nat
    BY TotalType
  <1>2. /\ Units(h, S \cup D) = Units(h, S) \cup Units(h, D)
        /\ Units(h, S) \cap Units(h, D) = {}
    BY UnitsOfTwo
  <1> DEFINE A == Units(h, S)
             C == Units(h, D)
  <1>3. IsFiniteSet(A) /\ IsFiniteSet(C) /\ A \cap C = {}
    BY <1>1, <1>2
  <1> HIDE DEF A, C
  <1>4. Cardinality(A \cup C) = Cardinality(A) + Cardinality(C) - Cardinality(A \cap C)
    BY <1>3, FS_Union
  <1>5. Cardinality(A \cap C) = 0 /\ Cardinality(A) \in Nat /\ Cardinality(C) \in Nat
    BY <1>3, FS_EmptySet, FS_CardinalityType
  <1>6. Cardinality(A \cup C) = Cardinality(A) + Cardinality(C)
    BY <1>4, <1>5
  <1> QED
    BY <1>2, <1>6 DEF Total, A, C

(* A sum depends on the terms alone.                                       *)
LEMMA TotalSame ==
  ASSUME NEW S, NEW h, NEW k, \A x \in S : h[x] = k[x]
  PROVE  Total(h, S) = Total(k, S)
  <1>1. Units(h, S) = Units(k, S)
    BY DEF Units
  <1> QED
    BY <1>1 DEF Total

(* One term changes.                                                       *)
LEMMA TotalChange ==
  ASSUME NEW S, IsFiniteSet(S), NEW h, \A x \in S : h[x] \in Nat,
         NEW k, NEW y \in S, k[y] \in Nat, \A x \in S \ {y} : k[x] = h[x]
  PROVE  /\ Total(k, S) = Total(h, S) - h[y] + k[y]
         /\ h[y] <= Total(h, S) /\ Total(h, S) \in Nat
  <1> DEFINE D == S \ {y}
  <1>1. IsFiniteSet(D) /\ IsFiniteSet({y}) /\ D \cap {y} = {} /\ S = D \cup {y}
    <2>1. IsFiniteSet(D)
      BY FS_RemoveElement
    <2>2. IsFiniteSet({y})
      BY FS_Singleton
    <2> QED
      BY <2>1, <2>2
  <1>2. \A x \in D \cup {y} : h[x] \in Nat /\ k[x] \in Nat
    OBVIOUS
  <1>3. \A x \in D : k[x] = h[x]
    OBVIOUS
  <1> HIDE DEF D
  <1>4. Total(h, S) = Total(h, D) + Total(h, {y}) /\ Total(k, S) = Total(k, D) + Total(k, {y})
    BY <1>1, <1>2, TotalUnion
  <1>5. Total(h, {y}) = h[y] /\ Total(k, {y}) = k[y]
    BY <1>2, TotalOne
  <1>6. Total(k, D) = Total(h, D)
    BY <1>3, TotalSame
  <1>7. Total(h, D) \in Nat
    BY <1>1, <1>2, TotalType
  <1> QED
    BY <1>2, <1>4, <1>5, <1>6, <1>7

(* The terms of some elements become zero.                                 *)
LEMMA TotalDrop ==
  ASSUME NEW S, IsFiniteSet(S), NEW h, \A x \in S : h[x] \in Nat,
         NEW D, D \subseteq S,
         NEW k, \A x \in S : k[x] = IF x \in D THEN 0 ELSE h[x]
  PROVE  /\ Total(k, S) = Total(h, S) - Total(h, D)
         /\ Total(h, S) \in Nat /\ Total(h, D) \in Nat /\ Total(h, D) <= Total(h, S)
  <1> DEFINE E == S \ D
  <1>1. IsFiniteSet(D) /\ IsFiniteSet(E) /\ E \cap D = {} /\ S = E \cup D
    BY FS_Subset
  <1>2. /\ \A x \in E \cup D : h[x] \in Nat /\ k[x] \in Nat
        /\ \A x \in E : k[x] = h[x]
        /\ \A x \in D : k[x] = 0
    OBVIOUS
  <1> HIDE DEF E
  <1>3. Total(h, S) = Total(h, E) + Total(h, D) /\ Total(k, S) = Total(k, E) + Total(k, D)
    BY <1>1, <1>2, TotalUnion
  <1>4. Total(k, E) = Total(h, E)
    BY <1>2, TotalSame
  <1>5. Total(k, D) = 0
    <2>1. Units(k, D) = {}
      BY <1>2 DEF Units
    <2> QED
      BY <2>1, FS_EmptySet DEF Total
  <1>6. Total(h, E) \in Nat /\ Total(h, D) \in Nat
    BY <1>1, <1>2, TotalType
  <1> QED
    BY <1>3, <1>4, <1>5, <1>6

(* A sum of sums.                                                          *)
LEMMA TotalPlus ==
  ASSUME NEW S, IsFiniteSet(S), NEW h, NEW k, NEW o,
         \A x \in S : k[x] \in Nat /\ o[x] \in Nat /\ h[x] = k[x] + o[x]
  PROVE  Total(h, S) = Total(k, S) + Total(o, S)
  <1> DEFINE F == {s \in SUBSET S : Total(h, s) = Total(k, s) + Total(o, s)}
  <1>1. ASSUME NEW s \in SUBSET S, s = {} \/ s \ {Pick(s)} \in F PROVE s \in F
    <2>1. CASE s = {}
      <3>1. Total(h, s) = 0 /\ Total(k, s) = 0 /\ Total(o, s) = 0
        BY <2>1, TotalOne
      <3> QED
        BY <3>1
    <2>2. CASE s # {}
      <3> DEFINE x == Pick(s)
                 t == s \ {x}
      <3>1. x \in s /\ x \in S
        BY <2>2 DEF Pick
      <3>2. IsFiniteSet(t) /\ IsFiniteSet({x}) /\ t \cap {x} = {} /\ s = t \cup {x}
        BY <3>1, FS_Subset, FS_Singleton
      <3>3. Total(h, t) = Total(k, t) + Total(o, t)
        BY <1>1, <2>2
      <3>4. \A y \in t \cup {x} : h[y] \in Nat /\ k[y] \in Nat /\ o[y] \in Nat
        BY <3>1
      <3>5. h[x] = k[x] + o[x]
        BY <3>1
      <3> HIDE DEF x, t
      <3>6. /\ Total(h, s) = Total(h, t) + Total(h, {x})
            /\ Total(k, s) = Total(k, t) + Total(k, {x})
            /\ Total(o, s) = Total(o, t) + Total(o, {x})
        BY <3>2, <3>4, TotalUnion
      <3>7. Total(h, {x}) = h[x] /\ Total(k, {x}) = k[x] /\ Total(o, {x}) = o[x]
        BY <3>4, TotalOne
      <3>8. Total(h, t) \in Nat /\ Total(k, t) \in Nat /\ Total(o, t) \in Nat
        BY <3>2, <3>4, TotalType
      <3>9. Total(h, s) = Total(k, s) + Total(o, s)
        BY <3>3, <3>4, <3>5, <3>6, <3>7, <3>8
      <3> QED
        BY <3>9
    <2> QED
      BY <2>1, <2>2
  <1> HIDE DEF F
  <1>2. S \in F
    BY <1>1, SubsetInduction
  <1> QED
    BY <1>2 DEF F

-----------------------------------------------------------------------------
(* The folds of the models.                                                *)

(* SumFunctionOnSet computes the sum.                                      *)
LEMMA SumIs ==
  ASSUME NEW S, IsFiniteSet(S), NEW h, \A x \in S : h[x] \in Nat
  PROVE  SumFunctionOnSet(h, S) = Total(h, S)
  <1> DEFINE Def(jt) == [s \in SUBSET S |-> IF s = {} THEN 0
                                            ELSE h[Pick(s)] + jt[s \ {Pick(s)}]]
             I == CHOOSE jt : jt = Def(jt)
             G == [p \in S \X Nat |-> h[p[1]] + p[2]]
  <1>1. SumFunctionOnSet(h, S) = I[S]
    BY DEF SumFunctionOnSet, FoldFunctionOnSet, MapThenFoldSet, Pick
  <1>p. \A s \in SUBSET S : s # {} => Pick(s) \in S /\ s \ {Pick(s)} \in SUBSET S
    BY DEF Pick
  <1>2. \E jt : jt = Def(jt)
    <2>1. G \in [S \X Nat -> Nat]
      <3>1. \A p \in S \X Nat : h[p[1]] + p[2] \in Nat
        OBVIOUS
      <3> QED
        BY <3>1
    <2> HIDE DEF G
    <2>a. PICK it : IsFold(it, S, Nat, 0, G)
      BY <2>1, FoldExists
    <2>2. /\ it \in [SUBSET S -> Nat]
          /\ \A s \in SUBSET S :
                it[s] = IF s = {} THEN 0 ELSE G[<<Pick(s), it[s \ {Pick(s)}]>>]
      BY <2>a DEF IsFold
    <2>3. ASSUME NEW s \in SUBSET S PROVE it[s] = Def(it)[s]
      <3>1. CASE s = {}
        BY <3>1, <2>2
      <3>2. CASE s # {}
        <4>1. <<Pick(s), it[s \ {Pick(s)}]>> \in S \X Nat
          BY <3>2, <1>p, <2>2
        <4>2. G[<<Pick(s), it[s \ {Pick(s)}]>>] = h[Pick(s)] + it[s \ {Pick(s)}]
          BY <4>1 DEF G
        <4> QED
          BY <3>2, <4>2, <2>2
      <3> QED
        BY <3>1, <3>2
    <2>4. it = Def(it)
      BY <2>2, <2>3
    <2> QED
      BY <2>4
  <1>3. I = Def(I)
    <2> HIDE DEF Def
    <2> QED
      BY <1>2
  <1> HIDE DEF I
  <1>4. \A s \in SUBSET S : I[s] = IF s = {} THEN 0 ELSE h[Pick(s)] + I[s \ {Pick(s)}]
    BY <1>3
  <1> DEFINE F == {s \in SUBSET S : I[s] = Total(h, s)}
  <1>5. ASSUME NEW s \in SUBSET S, s = {} \/ s \ {Pick(s)} \in F PROVE s \in F
    <2>1. CASE s = {}
      <3>1. Total(h, s) = 0
        BY <2>1, TotalOne
      <3> QED
        BY <3>1, <2>1, <1>4
    <2>2. CASE s # {}
      <3> DEFINE x == Pick(s)
                 t == s \ {x}
      <3>1. x \in s /\ x \in S /\ h[x] \in Nat /\ t \in SUBSET S
        BY <2>2, <1>p DEF Pick
      <3>2. I[s] = h[x] + I[t] /\ I[t] = Total(h, t)
        BY <2>2, <1>4, <1>5
      <3> HIDE DEF x
      <3>3. IsFiniteSet(t) /\ IsFiniteSet({x}) /\ t \cap {x} = {} /\ s = t \cup {x}
        BY <3>1, FS_Subset, FS_Singleton
      <3> HIDE DEF t
      <3>4. \A y \in t \cup {x} : h[y] \in Nat
        BY <3>1
      <3>5. Total(h, s) = Total(h, t) + Total(h, {x}) /\ Total(h, {x}) = h[x]
            /\ Total(h, t) \in Nat
        BY <3>1, <3>3, <3>4, TotalUnion, TotalOne, TotalType
      <3>6. I[s] = Total(h, s)
        BY <3>1, <3>2, <3>5
      <3> QED
        BY <3>6
    <2> QED
      BY <2>1, <2>2
  <1> HIDE DEF F
  <1>6. S \in F
    BY <1>5, SubsetInduction
  <1> QED
    BY <1>1, <1>6 DEF F

(* The sequences of p at S, one after the other in any order.              *)
Concat(p, S) == FoldSet(LAMBDA c, acc : acc \o p[c], <<>>, S)

(* Every element of the sequences p[c] is in w.                            *)
Covers(p, S, w) ==
    \A c \in S : \A i \in DOMAIN p[c] : \E j \in DOMAIN w : w[j] = p[c][i]

(* Joining a sequence to one that covers others covers it too.             *)
LEMMA CoversMore ==
  ASSUME NEW A, NEW p, NEW S, NEW x, NEW w \in Seq(A), Covers(p, S, w), p[x] \in Seq(A)
  PROVE  Covers(p, S \cup {x}, w \o p[x])
  <1> DEFINE q == p[x]
             v == w \o q
  <1>1. /\ q \in Seq(A) /\ DOMAIN w = 1..Len(w) /\ DOMAIN q = 1..Len(q) /\ Len(w) \in Nat
        /\ Len(q) \in Nat
    BY LenProperties
  <1> HIDE DEF q
  <1>2. /\ v \in Seq(A) /\ Len(v) = Len(w) + Len(q)
        /\ \A i \in 1..(Len(w) + Len(q)) : v[i] = IF i <= Len(w) THEN w[i] ELSE q[i - Len(w)]
    BY <1>1, ConcatProperties
  <1> HIDE DEF v
  <1>3. DOMAIN v = 1..(Len(w) + Len(q))
    BY <1>2, LenProperties
  <1>4. ASSUME NEW j \in DOMAIN w PROVE j \in DOMAIN v /\ v[j] = w[j]
    BY <1>1, <1>2, <1>3
  <1>5. ASSUME NEW j \in DOMAIN q PROVE Len(w) + j \in DOMAIN v /\ v[Len(w) + j] = q[j]
    <2>1. Len(w) + j \in 1..(Len(w) + Len(q)) /\ ~(Len(w) + j <= Len(w)) /\ (Len(w) + j) - Len(w) = j
      BY <1>1
    <2>2. v[Len(w) + j] = q[(Len(w) + j) - Len(w)]
      BY <2>1, <1>2
    <2> QED
      BY <2>1, <2>2, <1>3
  <1>6. ASSUME NEW c \in S \cup {x}, NEW i \in DOMAIN p[c] PROVE \E j \in DOMAIN v : v[j] = p[c][i]
    <2>1. CASE c = x
      BY <2>1, <1>5, <1>6 DEF q
    <2>2. CASE c \in S
      <3>1. PICK j \in DOMAIN w : w[j] = p[c][i]
        BY <2>2, <1>6 DEF Covers
      <3> QED
        BY <3>1, <1>4
    <2> QED
      BY <2>1, <2>2
  <1> QED
    BY <1>6 DEF Covers, v, q

(* The lists of some elements, one after the other.                        *)
LEMMA ConcatIs ==
  ASSUME NEW S, IsFiniteSet(S), NEW A, NEW p, \A c \in S : p[c] \in Seq(A),
         NEW h, \A c \in S : h[c] = Len(p[c])
  PROVE  /\ Concat(p, S) \in Seq(A) /\ Len(Concat(p, S)) = Total(h, S)
         /\ Covers(p, S, Concat(p, S))
  <1> DEFINE Def(jt) == [s \in SUBSET S |-> IF s = {} THEN <<>>
                                            ELSE jt[s \ {Pick(s)}] \o p[Pick(s)]]
             I == CHOOSE jt : jt = Def(jt)
             G == [q \in S \X Seq(A) |-> q[2] \o p[q[1]]]
  <1>1. Concat(p, S) = I[S]
    BY DEF Concat, FoldSet, MapThenFoldSet, Pick
  <1>p. \A s \in SUBSET S : s # {} => Pick(s) \in S /\ s \ {Pick(s)} \in SUBSET S
    BY DEF Pick
  <1>2. \E jt : jt = Def(jt)
    <2>1. G \in [S \X Seq(A) -> Seq(A)]
      <3>1. ASSUME NEW q \in S \X Seq(A) PROVE q[2] \o p[q[1]] \in Seq(A)
        <4>1. q[2] \in Seq(A) /\ p[q[1]] \in Seq(A)
          OBVIOUS
        <4> QED
          BY <4>1, ConcatProperties
      <3> QED
        BY <3>1
    <2> HIDE DEF G
    <2>e. <<>> \in Seq(A)
      OBVIOUS
    <2>a. PICK it : IsFold(it, S, Seq(A), <<>>, G)
      BY <2>1, <2>e, FoldExists
    <2>2. /\ it \in [SUBSET S -> Seq(A)]
          /\ \A s \in SUBSET S :
                it[s] = IF s = {} THEN <<>> ELSE G[<<Pick(s), it[s \ {Pick(s)}]>>]
      BY <2>a DEF IsFold
    <2>3. ASSUME NEW s \in SUBSET S PROVE it[s] = Def(it)[s]
      <3>1. CASE s = {}
        BY <3>1, <2>2
      <3>2. CASE s # {}
        <4>1. <<Pick(s), it[s \ {Pick(s)}]>> \in S \X Seq(A)
          BY <3>2, <1>p, <2>2
        <4>2. G[<<Pick(s), it[s \ {Pick(s)}]>>] = it[s \ {Pick(s)}] \o p[Pick(s)]
          BY <4>1 DEF G
        <4> QED
          BY <3>2, <4>2, <2>2
      <3> QED
        BY <3>1, <3>2
    <2>4. it = Def(it)
      BY <2>2, <2>3
    <2> QED
      BY <2>4
  <1>3. I = Def(I)
    <2> HIDE DEF Def
    <2> QED
      BY <1>2
  <1> HIDE DEF I
  <1>4. \A s \in SUBSET S : I[s] = IF s = {} THEN <<>> ELSE I[s \ {Pick(s)}] \o p[Pick(s)]
    BY <1>3
  <1>h. \A c \in S : h[c] \in Nat
    BY LenProperties
  <1> DEFINE F == {s \in SUBSET S : I[s] \in Seq(A) /\ Len(I[s]) = Total(h, s) /\ Covers(p, s, I[s])}
  <1>5. ASSUME NEW s \in SUBSET S, s = {} \/ s \ {Pick(s)} \in F PROVE s \in F
    <2>1. CASE s = {}
      <3>1. Total(h, s) = 0
        BY <2>1, TotalOne
      <3>2. I[s] = <<>>
        BY <2>1, <1>4
      <3> QED
        <4>1. I[s] \in Seq(A) /\ Len(I[s]) = 0
          BY <3>2
        <4>2. Covers(p, s, I[s])
          BY <2>1 DEF Covers
        <4> QED
          BY <3>1, <4>1, <4>2
    <2>2. CASE s # {}
      <3> DEFINE x == Pick(s)
                 t == s \ {x}
      <3>1. x \in s /\ x \in S /\ t \in SUBSET S
        BY <2>2, <1>p DEF Pick
      <3>2. /\ I[s] = I[t] \o p[x] /\ I[t] \in Seq(A) /\ Len(I[t]) = Total(h, t)
            /\ Covers(p, t, I[t])
        BY <2>2, <1>4, <1>5
      <3> HIDE DEF x
      <3>3. IsFiniteSet(t) /\ IsFiniteSet({x}) /\ t \cap {x} = {} /\ s = t \cup {x}
        BY <3>1, FS_Subset, FS_Singleton
      <3> HIDE DEF t
      <3>4. \A y \in t \cup {x} : h[y] \in Nat
        BY <3>1, <1>h
      <3>5. Total(h, s) = Total(h, t) + Total(h, {x}) /\ Total(h, {x}) = h[x]
        BY <3>1, <3>3, <3>4, TotalUnion, TotalOne
      <3>6. p[x] \in Seq(A) /\ h[x] = Len(p[x])
        BY <3>1
      <3>7. I[s] \in Seq(A) /\ Len(I[s]) = Len(I[t]) + Len(p[x])
        <4> DEFINE a == I[t]
                   b == p[x]
        <4>1. a \in Seq(A) /\ b \in Seq(A) /\ I[s] = a \o b
          BY <3>2, <3>6
        <4> HIDE DEF a, b
        <4>2. a \o b \in Seq(A) /\ Len(a \o b) = Len(a) + Len(b)
          BY <4>1, ConcatProperties
        <4> QED
          BY <4>1, <4>2 DEF a, b
      <3>8. Len(I[s]) = Total(h, s)
        BY <3>2, <3>5, <3>6, <3>7
      <3>9. Covers(p, s, I[s])
        <4> DEFINE w == I[t]
        <4>1. w \in Seq(A) /\ Covers(p, t, w) /\ p[x] \in Seq(A)
          BY <3>2, <3>6
        <4> HIDE DEF w
        <4>2. Covers(p, t \cup {x}, w \o p[x])
          BY <4>1, CoversMore
        <4> QED
          BY <4>2, <3>2, <3>3 DEF w
      <3> QED
        BY <3>7, <3>8, <3>9
    <2> QED
      BY <2>1, <2>2
  <1> HIDE DEF F
  <1>6. S \in F
    BY <1>5, SubsetInduction
  <1> QED
    BY <1>1, <1>6 DEF F


(* A sum does not depend on what its terms are called.                     *)
LEMMA TotalRenamed ==
  ASSUME NEW S, IsFiniteSet(S), NEW T, NEW f \in Bijection(S, T), NEW h, NEW k,
         \A x \in S : h[x] \in Nat, \A x \in S : k[f[x]] = h[x]
  PROVE  Total(k, T) = Total(h, S)
  <1> DEFINE g == [u \in Units(h, S) |-> <<f[u[1]], u[2]>>]
  <1>1. /\ f \in [S -> T] /\ (\A y, z \in S : f[y] = f[z] => y = z)
        /\ \A y \in T : \E x \in S : f[x] = y
    BY DEF Bijection, Injection, IsInjective, Surjection
  <1>2. /\ \A u \in Units(k, T) : u = <<u[1], u[2]>> /\ u[1] \in T /\ u[2] \in 1..k[u[1]]
        /\ \A y \in T : \A i \in 1..k[y] : <<y, i>> \in Units(k, T)
    BY DEF Units
  <1>3. /\ \A u \in Units(h, S) : u = <<u[1], u[2]>> /\ u[1] \in S /\ u[2] \in 1..h[u[1]]
        /\ \A x \in S : \A i \in 1..h[x] : <<x, i>> \in Units(h, S)
    BY DEF Units
  <1>4. \A u \in Units(h, S) : g[u] = <<f[u[1]], u[2]>> /\ g[u] \in Units(k, T)
    BY <1>1, <1>2, <1>3
  <1>a. g \in [Units(h, S) -> Units(k, T)]
    BY <1>4
  <1> HIDE DEF g
  <1>5. ASSUME NEW u \in Units(h, S), NEW v \in Units(h, S), g[u] = g[v] PROVE u = v
    <2>1. f[u[1]] = f[v[1]] /\ u[2] = v[2]
      BY <1>4, <1>5
    <2>2. u[1] = v[1]
      BY <2>1, <1>1, <1>3
    <2> QED
      BY <2>1, <2>2, <1>3
  <1>6. ASSUME NEW w \in Units(k, T) PROVE \E u \in Units(h, S) : g[u] = w
    <2>1. w = <<w[1], w[2]>> /\ w[1] \in T /\ w[2] \in 1..k[w[1]]
      BY <1>2
    <2>2. PICK x \in S : f[x] = w[1]
      BY <1>1, <2>1
    <2>3. <<x, w[2]>> \in Units(h, S)
      BY <1>3, <2>1, <2>2
    <2>4. g[<<x, w[2]>>] = <<f[x], w[2]>>
      BY <2>3, <1>4
    <2> QED
      BY <2>1, <2>2, <2>3, <2>4
  <1>7. g \in Bijection(Units(h, S), Units(k, T))
    BY <1>a, <1>5, <1>6 DEF Bijection, Injection, IsInjective, Surjection
  <1>8. ExistsBijection(Units(h, S), Units(k, T)) /\ IsFiniteSet(Units(h, S))
    BY <1>7, TotalType DEF ExistsBijection
  <1>9. Cardinality(Units(k, T)) = Cardinality(Units(h, S))
    BY <1>8, FS_Bijection
  <1> QED
    BY <1>9 DEF Total
=============================================================================
