---------------------------- MODULE SumTheorems -----------------------------
(***************************************************************************)
(* Sums over finite sets, as the fold of the library defines them: the     *)
(* worth of a set of notes, the rewards of a set of providers and the fees *)
(* of a window are such sums.  And quotients: shares, prices and turns     *)
(* are rounded.                                                            *)
(***************************************************************************)
EXTENDS Integers, FiniteSets, Functions, FiniteSetTheorems, WellFoundedInduction, TLAPS

-----------------------------------------------------------------------------
(* Induction with a set in place of a predicate. *)

\* A set that holds 0 and with every number its successor holds them all.
LEMMA NatSet ==
    ASSUME NEW G, 0 \in G, \A n \in Nat : n \in G => n + 1 \in G
    PROVE  Nat \subseteq G
PROOF
<1> DEFINE Bad == Nat \ G
<1> SUFFICES ASSUME Bad # {} PROVE FALSE
  OBVIOUS
<1>1. PICK n \in Bad : \A m \in Bad : ~(<<m, n>> \in OpToRel(<, Nat))
  <2> HIDE DEF Bad
  <2>1. Bad \subseteq Nat
    BY DEF Bad
  <2> QED  BY <2>1, WFMin, NatLessThanWellFounded
<1>2. n \in Nat /\ n # 0 /\ n - 1 \in Nat
  OBVIOUS
<1>3. n - 1 \in Bad
  <2>1. (n - 1) + 1 = n
    BY <1>2
  <2>2. n - 1 \notin G
    BY <1>2, <2>1
  <2> QED  BY <1>2, <2>2
<1>4. <<n - 1, n>> \in OpToRel(<, Nat)
  BY <1>2 DEF OpToRel
<1> QED  BY <1>1, <1>3, <1>4

\* A family of subsets of a finite set that holds the empty set and with every
\* set those with one element more holds the set itself.
LEMMA FiniteInduction ==
    ASSUME NEW S, IsFiniteSet(S), NEW G, {} \in G,
           \A T \in SUBSET S : \A x \in S \ T : T \in G => T \cup {x} \in G
    PROVE  S \in G
PROOF
<1> DEFINE N == {n \in Nat : \A T \in SUBSET S : Cardinality(T) = n => T \in G}
<1>1. \A T \in SUBSET S : IsFiniteSet(T) /\ Cardinality(T) \in Nat
  BY FS_Subset, FS_CardinalityType
<1>2. 0 \in N
  BY Zenon, <1>1, FS_EmptySet
<1>3. ASSUME NEW n \in Nat, n \in N PROVE n + 1 \in N
  <2> SUFFICES ASSUME NEW T \in SUBSET S, Cardinality(T) = n + 1 PROVE T \in G
    OBVIOUS
  <2>1. PICK x : x \in T
    BY <1>1, FS_EmptySet
  <2>2. Cardinality(T \ {x}) = n
    <3>1. Cardinality(T \ {x}) = Cardinality(T) - 1
      BY Zenon, <1>1, <2>1, FS_RemoveElement
    <3> QED  BY <3>1
  <2>3. T \ {x} \in G
    BY <1>3, <2>2
  <2>4. (T \ {x}) \cup {x} = T /\ x \in S \ (T \ {x}) /\ T \ {x} \in SUBSET S
    BY <2>1
  <2> QED  BY Zenon, <2>3, <2>4
<1>4. Nat \subseteq N
  <2> HIDE DEF N
  <2> QED  BY <1>2, <1>3, NatSet
<1> QED  BY <1>1, <1>4

-----------------------------------------------------------------------------
(* Sums over finite sets. *)

Sum(S, u) == FoldFunctionOnSet(+, 0, u, S)
Pick(s) == CHOOSE x \in s : TRUE
SumStep(f, s, u) == IF s = {} THEN 0 ELSE u[Pick(s)] + f[s \ {Pick(s)}]
SumFcn(S, u) == CHOOSE f : f = [s \in SUBSET S |-> SumStep(f, s, u)]

\* The sum is the value of its step function.
LEMMA SumIs == ASSUME NEW S, NEW u PROVE Sum(S, u) = SumFcn(S, u)[S]
  BY DEF Sum, FoldFunctionOnSet, MapThenFoldSet, SumFcn, SumStep, Pick

\* The recursion that defines a sum is well founded.
LEMMA SumFcnExists ==
    ASSUME NEW S, IsFiniteSet(S), NEW u
    PROVE  SumFcn(S, u) = [s \in SUBSET S |-> SumStep(SumFcn(S, u), s, u)]
PROOF
<1> DEFINE Good(f, n) == \A s \in SUBSET S : Cardinality(s) <= n => f[s] = SumStep(f, s, u)
           N == {n \in Nat : \E f : Good(f, n)}
<1>1. \A s \in SUBSET S : IsFiniteSet(s) /\ Cardinality(s) \in Nat
  BY FS_Subset, FS_CardinalityType
<1>2. \A s \in SUBSET S : s # {} => /\ Pick(s) \in s
                                    /\ s \ {Pick(s)} \in SUBSET S
                                    /\ Cardinality(s \ {Pick(s)}) = Cardinality(s) - 1
  BY Zenon, <1>1, FS_RemoveElement DEF Pick
<1>3. 0 \in N
  <2>1. Good([s \in SUBSET S |-> 0], 0)
    BY <1>1, FS_EmptySet DEF SumStep
  <2> QED  BY <2>1
<1>4. ASSUME NEW n \in Nat, n \in N PROVE n + 1 \in N
  <2>1. PICK f : Good(f, n)
    BY <1>4
  <2> DEFINE g == [s \in SUBSET S |-> IF Cardinality(s) <= n THEN f[s] ELSE SumStep(f, s, u)]
  <2>2. ASSUME NEW s \in SUBSET S, Cardinality(s) <= n + 1 PROVE g[s] = SumStep(g, s, u)
    <3>1. SumStep(g, s, u) = SumStep(f, s, u)
      <4>1. CASE s = {}
        BY <4>1 DEF SumStep
      <4>2. CASE s # {}
        <5>1. g[s \ {Pick(s)}] = f[s \ {Pick(s)}]
          BY <1>1, <1>2, <2>2, <4>2
        <5> QED  BY <4>2, <5>1 DEF SumStep
      <4> QED  BY <4>1, <4>2
    <3>2. g[s] = SumStep(f, s, u)
      BY <2>1
    <3> QED  BY <3>1, <3>2
  <2>3. Good(g, n + 1)
    <3> HIDE DEF g
    <3> QED  BY <2>2
  <2>4. \E h : Good(h, n + 1)
    <3> HIDE DEF g, Good
    <3> QED  BY <2>3
  <2> QED  BY <2>4
<1>5. Nat \subseteq N
  <2> HIDE DEF N
  <2> QED  BY <1>3, <1>4, NatSet
<1>6. PICK f : Good(f, Cardinality(S))
  BY <1>1, <1>5
<1> DEFINE g == [s \in SUBSET S |-> f[s]]
<1>7. ASSUME NEW s \in SUBSET S PROVE g[s] = SumStep(g, s, u)
  <2>1. Cardinality(s) <= Cardinality(S)
    BY FS_Subset
  <2>2. f[s] = SumStep(f, s, u)
    BY <1>6, <2>1
  <2>3. SumStep(g, s, u) = SumStep(f, s, u)
    BY <1>2 DEF SumStep
  <2> QED  BY <2>2, <2>3
<1>8. g = [s \in SUBSET S |-> SumStep(g, s, u)]
  BY Zenon, <1>7
<1> QED
  <2> HIDE DEF g
  <2> QED  BY <1>8 DEF SumFcn

\* The sum over a subset does not depend on the set it is a subset of.
LEMMA SumFcnAgree ==
    ASSUME NEW S, IsFiniteSet(S), NEW T \in SUBSET S, NEW u
    PROVE  SumFcn(S, u)[T] = Sum(T, u)
PROOF
<1> DEFINE f == SumFcn(S, u)
           g == SumFcn(T, u)
           N == {n \in Nat : \A s \in SUBSET T : Cardinality(s) = n => f[s] = g[s]}
<1>1. IsFiniteSet(T) /\ \A s \in SUBSET T : IsFiniteSet(s) /\ Cardinality(s) \in Nat
  BY FS_Subset, FS_CardinalityType
<1>2. /\ f = [s \in SUBSET S |-> SumStep(f, s, u)]
      /\ g = [s \in SUBSET T |-> SumStep(g, s, u)]
  BY ZenonT(30), <1>1, SumFcnExists
<1> HIDE DEF f, g
<1>3. \A s \in SUBSET T : f[s] = SumStep(f, s, u) /\ g[s] = SumStep(g, s, u)
  BY <1>2
<1>4. 0 \in N
  BY SMTT(20), <1>1, <1>3, FS_EmptySet DEF SumStep
<1>5. ASSUME NEW n \in Nat, n \in N PROVE n + 1 \in N
  <2> SUFFICES ASSUME NEW s \in SUBSET T, Cardinality(s) = n + 1 PROVE f[s] = g[s]
    OBVIOUS
  <2>1. s # {} /\ Pick(s) \in s
    BY <1>1, FS_EmptySet DEF Pick
  <2>2. Cardinality(s \ {Pick(s)}) = n
    <3>1. Cardinality(s \ {Pick(s)}) = Cardinality(s) - 1
      BY <1>1, <2>1, FS_RemoveElement
    <3> QED  BY <3>1
  <2>3. f[s \ {Pick(s)}] = g[s \ {Pick(s)}]
    BY <1>5, <2>2
  <2> QED  BY <1>3, <2>1, <2>3 DEF SumStep
<1>6. Nat \subseteq N
  <2> HIDE DEF N
  <2> QED  BY <1>4, <1>5, NatSet
<1>7. f[T] = g[T]
  BY <1>1, <1>6
<1> QED  BY <1>7, SumIs DEF f, g

\* The sum over nothing.
LEMMA SumEmpty == ASSUME NEW u PROVE Sum({}, u) = 0
PROOF
<1>1. IsFiniteSet({}) /\ {} \in SUBSET {}
  BY FS_EmptySet
<1>2. SumFcn({}, u) = [s \in SUBSET {} |-> SumStep(SumFcn({}, u), s, u)]
  BY ZenonT(30), <1>1, SumFcnExists
<1>3. SumFcn({}, u)[{}] = SumStep(SumFcn({}, u), {}, u)
  BY <1>1, <1>2
<1> QED  BY <1>3, SumIs DEF SumStep

\* A sum is one element and the sum of the rest.
LEMMA SumUnfold ==
    ASSUME NEW S, IsFiniteSet(S), NEW u, S # {}
    PROVE  Pick(S) \in S /\ Sum(S, u) = u[Pick(S)] + Sum(S \ {Pick(S)}, u)
PROOF
<1>1. Pick(S) \in S
  BY DEF Pick
<1>2. SumFcn(S, u) = [s \in SUBSET S |-> SumStep(SumFcn(S, u), s, u)]
  BY Zenon, SumFcnExists
<1>3. SumFcn(S, u)[S] = SumStep(SumFcn(S, u), S, u)
  BY <1>2
<1>4. SumFcn(S, u)[S \ {Pick(S)}] = Sum(S \ {Pick(S)}, u)
  BY SumFcnAgree
<1> QED  BY <1>1, <1>3, <1>4, SumIs DEF SumStep

IntOn(S, u) == \A x \in S : u[x] \in Int

\* The element picked is added to the others; which one it is does not matter.
LEMMA SumAdd ==
    ASSUME NEW T, IsFiniteSet(T), NEW u, IntOn(T, u)
    PROVE  /\ Sum(T, u) \in Int
           /\ \A x \in T : Sum(T, u) = u[x] + Sum(T \ {x}, u)
PROOF
<1> DEFINE Good(s) == /\ Sum(s, u) \in Int
                      /\ \A x \in s : Sum(s, u) = u[x] + Sum(s \ {x}, u)
           N == {n \in Nat : \A s \in SUBSET T : Cardinality(s) <= n => Good(s)}
<1>1. \A s \in SUBSET T : IsFiniteSet(s) /\ Cardinality(s) \in Nat
  BY FS_Subset, FS_CardinalityType
<1>2. 0 \in N
  BY <1>1, FS_EmptySet, SumEmpty
<1>3. ASSUME NEW n \in Nat, n \in N PROVE n + 1 \in N
  <2> SUFFICES ASSUME NEW s \in SUBSET T, Cardinality(s) <= n + 1 PROVE Good(s)
    OBVIOUS
  <2>1. CASE s = {}
    BY <2>1, SumEmpty
  <2>2. CASE s # {}
    <3>1. \A x \in s : /\ s \ {x} \in SUBSET T
                       /\ Cardinality(s \ {x}) <= n
      <4>1. \A x \in s : Cardinality(s \ {x}) = Cardinality(s) - 1
        BY <1>1, FS_RemoveElement
      <4> QED  BY <1>1, <4>1
    <3>2. \A x \in s : Good(s \ {x})
      BY <1>3, <3>1
    <3> DEFINE p == Pick(s)
    <3>3. p \in s /\ Sum(s, u) = u[p] + Sum(s \ {p}, u)
      BY Zenon, <1>1, <2>2, SumUnfold
    <3> HIDE DEF p
    <3>4. Sum(s, u) \in Int
      BY <3>2, <3>3 DEF IntOn
    <3>5. ASSUME NEW x \in s PROVE Sum(s, u) = u[x] + Sum(s \ {x}, u)
      <4>1. CASE x = p
        BY <3>3, <4>1
      <4>2. CASE x # p
        <5>1. Sum(s \ {p}, u) = u[x] + Sum((s \ {p}) \ {x}, u)
          BY <3>2, <3>3, <4>2
        <5>2. Sum(s \ {x}, u) = u[p] + Sum((s \ {x}) \ {p}, u)
          BY <3>2, <3>3, <4>2
        <5>3. (s \ {p}) \ {x} = (s \ {x}) \ {p}
          OBVIOUS
        <5>4. Sum((s \ {x}) \ {p}, u) \in Int
          <6>1. Cardinality((s \ {x}) \ {p}) <= n /\ (s \ {x}) \ {p} \in SUBSET T
            <7>1. Cardinality((s \ {x}) \ {p}) <= Cardinality(s \ {x})
              BY <1>1, <3>1, FS_Subset
            <7> QED  BY <1>1, <3>1, <7>1
          <6> QED  BY <1>3, <6>1
        <5>5. u[x] \in Int /\ u[p] \in Int
          BY <3>3 DEF IntOn
        <5> DEFINE rest == Sum((s \ {x}) \ {p}, u)
        <5>6. /\ Sum(s \ {p}, u) = u[x] + rest
              /\ Sum(s \ {x}, u) = u[p] + rest
              /\ rest \in Int
          BY <5>1, <5>2, <5>3, <5>4
        <5> HIDE DEF N, rest, Good
        <5>7. Sum(s, u) = u[p] + (u[x] + rest)
          BY <3>3, <5>6
        <5>8. u[x] + Sum(s \ {x}, u) = u[x] + (u[p] + rest)
          BY <5>6
        <5>9. u[p] + (u[x] + rest) = u[x] + (u[p] + rest)
          BY <5>5, <5>6
        <5> QED  BY <5>7, <5>8, <5>9
      <4> QED  BY <4>1, <4>2
    <3> QED  BY <3>4, <3>5
  <2> QED  BY <2>1, <2>2
<1>4. Nat \subseteq N
  <2> HIDE DEF N
  <2> QED  BY <1>2, <1>3, NatSet
<1>5. Good(T)
  BY <1>1, <1>4
<1> QED  BY <1>5

\* One element more.
LEMMA SumInsert ==
    ASSUME NEW T, IsFiniteSet(T), NEW x, x \notin T, NEW u, IntOn(T \cup {x}, u)
    PROVE  /\ Sum(T, u) \in Int /\ u[x] \in Int
           /\ Sum(T \cup {x}, u) = Sum(T, u) + u[x]
PROOF
<1>1. IsFiniteSet(T \cup {x})
  BY FS_AddElement
<1>2. (T \cup {x}) \ {x} = T
  OBVIOUS
<1>3. u[x] \in Int /\ IntOn(T, u)
  BY DEF IntOn
<1>4. Sum(T, u) \in Int
  BY <1>3, SumAdd
<1>5. Sum(T \cup {x}, u) = u[x] + Sum((T \cup {x}) \ {x}, u)
  BY <1>1, SumAdd
<1>6. Sum(T \cup {x}, u) = u[x] + Sum(T, u)
  BY <1>2, <1>5
<1> QED  BY <1>3, <1>4, <1>6

\* The sum over a disjoint union.
LEMMA SumUnion ==
    ASSUME NEW A, IsFiniteSet(A), NEW B, IsFiniteSet(B), A \cap B = {},
           NEW u, IntOn(A \cup B, u)
    PROVE  /\ Sum(A, u) \in Int /\ Sum(B, u) \in Int
           /\ Sum(A \cup B, u) = Sum(A, u) + Sum(B, u)
PROOF
<1>1. Sum(A, u) \in Int /\ Sum(B, u) \in Int
  <2>1. IntOn(A, u) /\ IntOn(B, u)
    BY DEF IntOn
  <2> QED  BY <2>1, SumAdd
<1> DEFINE G == {T \in SUBSET B : Sum(A \cup T, u) = Sum(A, u) + Sum(T, u)}
<1>2. {} \in G
  <2>1. A \cup {} = A
    OBVIOUS
  <2> QED  BY <1>1, <2>1, SumEmpty
<1>3. ASSUME NEW T \in SUBSET B, NEW x \in B \ T, T \in G PROVE T \cup {x} \in G
  <2>1. IsFiniteSet(T) /\ IsFiniteSet(A \cup T)
    BY Zenon, FS_Subset, FS_Union
  <2>2. x \notin T /\ x \notin A \cup T
    OBVIOUS
  <2>3. IntOn(T \cup {x}, u) /\ IntOn((A \cup T) \cup {x}, u)
    BY DEF IntOn
  <2>4. Sum(T, u) \in Int /\ u[x] \in Int /\ Sum(T \cup {x}, u) = Sum(T, u) + u[x]
    BY <2>1, <2>2, <2>3, SumInsert
  <2>5. Sum((A \cup T) \cup {x}, u) = Sum(A \cup T, u) + u[x]
    BY Zenon, <2>1, <2>2, <2>3, SumInsert
  <2>6. (A \cup T) \cup {x} = A \cup (T \cup {x})
    OBVIOUS
  <2>7. Sum(A \cup T, u) = Sum(A, u) + Sum(T, u)
    BY <1>3
  <2> HIDE DEF G
  <2>8. Sum(A \cup (T \cup {x}), u) = (Sum(A, u) + Sum(T, u)) + u[x]
    BY <2>5, <2>6, <2>7
  <2>9. Sum(A, u) + Sum(T \cup {x}, u) = Sum(A, u) + (Sum(T, u) + u[x])
    BY <2>4
  <2>10. (Sum(A, u) + Sum(T, u)) + u[x] = Sum(A, u) + (Sum(T, u) + u[x])
    BY <1>1, <2>4
  <2> QED  BY <2>8, <2>9, <2>10 DEF G
<1>4. B \in G
  <2> HIDE DEF G
  <2> QED  BY Zenon, <1>2, <1>3, FiniteInduction
<1> QED  BY <1>1, <1>4

\* A sum of naturals is a natural, and a set of zero terms adds up to zero.
LEMMA SumNat ==
    ASSUME NEW S, IsFiniteSet(S), NEW u, \A x \in S : u[x] \in Nat
    PROVE  Sum(S, u) \in Nat
PROOF
<1> DEFINE G == {T \in SUBSET S : Sum(T, u) \in Nat}
<1>1. {} \in G
  BY SumEmpty
<1>2. ASSUME NEW T \in SUBSET S, NEW x \in S \ T, T \in G PROVE T \cup {x} \in G
  <2>1. IsFiniteSet(T) /\ IntOn(T \cup {x}, u) /\ u[x] \in Nat /\ Sum(T, u) \in Nat
    BY <1>2, FS_Subset DEF IntOn
  <2>2. Sum(T \cup {x}, u) = Sum(T, u) + u[x]
    BY <2>1, SumInsert
  <2> QED  BY <2>1, <2>2
<1>3. S \in G
  <2> HIDE DEF G
  <2> QED  BY Zenon, <1>1, <1>2, FiniteInduction
<1> QED  BY <1>3

\* The sum over the image of an injection, the terms being carried along.
LEMMA SumImage ==
    ASSUME NEW S, IsFiniteSet(S), NEW f, NEW u, NEW v, IntOn(S, u),
           \A x \in S : v[f[x]] = u[x],
           \A x, y \in S : f[x] = f[y] => x = y
    PROVE  Sum({f[x] : x \in S}, v) = Sum(S, u)
PROOF
<1> DEFINE Im(T) == {f[x] : x \in T}
           G == {T \in SUBSET S : IsFiniteSet(Im(T)) /\ Sum(Im(T), v) = Sum(T, u)}
<1>1. {} \in G
  <2>1. Im({}) = {}
    OBVIOUS
  <2> HIDE DEF Im
  <2> QED  BY <2>1, SumEmpty, FS_EmptySet
<1>2. ASSUME NEW T \in SUBSET S, NEW x \in S \ T, T \in G PROVE T \cup {x} \in G
  <2>1. IsFiniteSet(T) /\ IntOn(T \cup {x}, u)
    BY FS_Subset DEF IntOn
  <2>2. Sum(T \cup {x}, u) = Sum(T, u) + u[x]
    BY Zenon, <2>1, SumInsert
  <2>3. Im(T \cup {x}) = Im(T) \cup {f[x]} /\ f[x] \notin Im(T)
    OBVIOUS
  <2>4. IntOn(Im(T) \cup {f[x]}, v)
    BY DEF IntOn
  <2>5. IsFiniteSet(Im(T)) /\ Sum(Im(T), v) = Sum(T, u) /\ v[f[x]] = u[x]
    BY <1>2
  <2> HIDE DEF Im
  <2>6. Sum(Im(T) \cup {f[x]}, v) = Sum(Im(T), v) + v[f[x]]
    <3> DEFINE I == Im(T)  y == f[x]
    <3>1. IsFiniteSet(I) /\ y \notin I /\ IntOn(I \cup {y}, v)
      BY <2>3, <2>4, <2>5
    <3> HIDE DEF I, y
    <3>2. Sum(I \cup {y}, v) = Sum(I, v) + v[y]
      BY ZenonT(30), <3>1, SumInsert
    <3> QED  BY <3>2 DEF I, y
  <2>7. IsFiniteSet(Im(T) \cup {f[x]})
    BY <2>5, FS_AddElement
  <2> QED  BY <2>2, <2>3, <2>5, <2>6, <2>7
<1>3. S \in G
  <2> HIDE DEF G, Im
  <2> QED  BY Zenon, <1>1, <1>2, FiniteInduction
<1> QED  BY <1>3

\* The sum depends on the values inside the set only.
LEMMA SumSame ==
    ASSUME NEW S, IsFiniteSet(S), NEW u, NEW v, IntOn(S, u), \A x \in S : v[x] = u[x]
    PROVE  Sum(S, v) = Sum(S, u)
PROOF
<1> DEFINE id == [x \in S |-> x]
<1>1. /\ \A x \in S : v[id[x]] = u[x]
      /\ \A x, y \in S : id[x] = id[y] => x = y
      /\ {id[x] : x \in S} = S
  OBVIOUS
<1> HIDE DEF id
<1>2. Sum({id[x] : x \in S}, v) = Sum(S, u)
  BY <1>1, SumImage
<1> QED  BY <1>1, <1>2

\* A share of q for every element of a set, and two for those in P.
LEMMA SumShares ==
    ASSUME NEW S, IsFiniteSet(S), NEW P, NEW q \in Nat, NEW u,
           \A x \in S : u[x] = q * (IF x \in P THEN 2 ELSE 1)
    PROVE  Sum(S, u) = q * (Cardinality(S) + Cardinality(S \cap P))
PROOF
<1> DEFINE Shares(T) == Cardinality(T) + Cardinality(T \cap P)
           G == {T \in SUBSET S : Sum(T, u) = q * Shares(T)}
<1>1. {} \in G
  <2>1. Shares({}) = 0
    <3>1. {} \cap P = {}
      OBVIOUS
    <3> QED  BY <3>1, FS_EmptySet
  <2> HIDE DEF Shares
  <2> QED  BY <2>1, SumEmpty
<1>2. ASSUME NEW T \in SUBSET S, NEW x \in S \ T, T \in G PROVE T \cup {x} \in G
  <2> DEFINE w == IF x \in P THEN 2 ELSE 1
  <2>1. IsFiniteSet(T) /\ IsFiniteSet(T \cap P) /\ x \notin T
    BY FS_Subset
  <2>2. Cardinality(T \cup {x}) = Cardinality(T) + 1 /\ Cardinality(T) \in Nat
    BY <2>1, FS_AddElement, FS_CardinalityType
  <2>3. /\ Cardinality(T \cap P) \in Nat
        /\ Cardinality((T \cup {x}) \cap P) = Cardinality(T \cap P) + (w - 1)
    <3>1. Cardinality(T \cap P) \in Nat
      BY <2>1, FS_CardinalityType
    <3>2. CASE x \in P
      <4>1. (T \cup {x}) \cap P = (T \cap P) \cup {x} /\ x \notin T \cap P
        BY <3>2
      <4>2. Cardinality((T \cap P) \cup {x}) = Cardinality(T \cap P) + 1
        BY Zenon, <2>1, <4>1, FS_AddElement
      <4>3. w = 2
        BY <3>2
      <4>4. Cardinality((T \cup {x}) \cap P) = Cardinality(T \cap P) + 1
        BY <4>1, <4>2
      <4> HIDE DEF w
      <4> QED  BY <3>1, <4>3, <4>4
    <3>3. CASE x \notin P
      <4>1. (T \cup {x}) \cap P = T \cap P
        BY <3>3
      <4>2. w = 1
        BY <3>3
      <4>3. Cardinality((T \cup {x}) \cap P) = Cardinality(T \cap P)
        BY <4>1
      <4> HIDE DEF w
      <4> QED  BY <3>1, <4>2, <4>3
    <3> QED  BY <3>2, <3>3
  <2>4. w \in Nat /\ u[x] = q * w
    OBVIOUS
  <2>5. Shares(T) \in Nat /\ Shares(T \cup {x}) = Shares(T) + w
    BY <2>2, <2>3, <2>4
  <2> HIDE DEF Shares, w
  <2>6. IntOn(T \cup {x}, u)
    BY DEF IntOn
  <2>7. Sum(T \cup {x}, u) = Sum(T, u) + u[x]
    BY Zenon, <2>1, <2>6, SumInsert
  <2>8. Sum(T \cup {x}, u) = q * Shares(T) + q * w
    BY <1>2, <2>4, <2>7
  <2>9. q * (Shares(T) + w) = q * Shares(T) + q * w
    BY <2>4, <2>5
  <2> QED  BY <2>5, <2>8, <2>9
<1>3. S \in G
  <2> HIDE DEF G
  <2> QED  BY Zenon, <1>1, <1>2, FiniteInduction
<1> QED  BY <1>3

-----------------------------------------------------------------------------
(* Quotients. *)

\* Division rounds down.
LEMMA Quotient ==
    ASSUME NEW a \in Nat, NEW b \in Nat \ {0}
    PROVE  a \div b \in Nat /\ (a \div b) * b <= a /\ a < (a \div b) * b + b
  OBVIOUS

\* A product of naturals is one, and grows with its factors.
LEMMA ProductGrows ==
    ASSUME NEW a \in Nat, NEW b \in Nat, NEW c \in Nat, a <= b
    PROVE  a * c \in Nat /\ b * c \in Nat /\ a * c <= b * c
PROOF
<1>1. PICK d \in Nat : b = a + d
  <2>1. b - a \in Nat /\ b = a + (b - a)
    OBVIOUS
  <2> QED  BY <2>1
<1>2. b * c = a * c + d * c /\ a * c \in Nat /\ d * c \in Nat
  BY <1>1
<1> QED  BY <1>2

\* Multiplication is associative.
LEMMA ProductRegroups ==
    ASSUME NEW a \in Nat, NEW b \in Nat, NEW c \in Nat, NEW d \in Nat
    PROVE  a * ((b * c) * d) = ((a * b) * c) * d
  OBVIOUS

\* And strictly so, unless the other factor is 0.
LEMMA ProductGrowsStrictly ==
    ASSUME NEW a \in Nat, NEW b \in Nat, NEW c \in Nat \ {0}, a < b
    PROVE  a * c < b * c
PROOF
<1>1. (a + 1) * c <= b * c /\ b * c \in Nat
  BY ProductGrows
<1>2. (a + 1) * c = a * c + c /\ a * c \in Nat
  OBVIOUS
<1> QED  BY <1>1, <1>2

LEMMA ProductCancels ==
    ASSUME NEW a \in Nat, NEW b \in Nat, NEW c \in Nat \ {0}
    PROVE  (a * c <= b * c => a <= b) /\ (a * c < b * c => a < b)
<1>1. a > b => b * c < a * c
    BY ProductGrowsStrictly
<1>2. a >= b => b * c <= a * c
    BY ProductGrows
<1>3. a * c \in Nat /\ b * c \in Nat
    OBVIOUS
<1> QED  BY <1>1, <1>2, <1>3

=============================================================================
