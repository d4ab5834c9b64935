---------------------- MODULE CryptarchiaEngineTheorems ----------------------
(***************************************************************************)
(* The consensus engine is correct for every set of headers, every era     *)
(* schedule and every size of the block tree: facts about blocks and block *)
(* trees, then what fork choice answers, for every order in which the tips *)
(* are visited, then the calls of the engine.                              *)
(***************************************************************************)
EXTENDS CryptarchiaEngine, FiniteSetTheorems, WellFoundedInduction, TLAPS


-----------------------------------------------------------------------------
(* Blocks and block trees, for every set H of headers. *)

\* A non-empty set of naturals has a smallest element.
LEMMA SmallestInSet ==
  ASSUME NEW S, S \subseteq Nat, S # {}
  PROVE  \E x \in S : \A y \in S : x <= y
<1>1. PICK x \in S : \A y \in S : ~ (<<y, x>> \in OpToRel(<, Nat))
  BY Zenon, WFMin, NatLessThanWellFounded
<1>2. ASSUME NEW y \in S PROVE x <= y
  <2>1. ~ (<<y, x>> \in OpToRel(<, Nat))
    BY Zenon, <1>1
  <2>2. ~ (y < x)
    BY Zenon, <2>1 DEF OpToRel
  <2> QED
    BY <2>2
<1> QED
  BY Zenon, <1>2

\* Sequences with the same elements are equal.
LEMMA SameSequence ==
  ASSUME NEW S, NEW s \in Seq(S), NEW t \in Seq(S), Len(s) = Len(t),
         \A i \in 1..Len(s) : s[i] = t[i]
  PROVE  s = t
<1>1. s = [i \in 1..Len(s) |-> s[i]] /\ t = [i \in 1..Len(t) |-> t[i]]
  OBVIOUS
<1> QED
  BY Zenon, <1>1

\* The ancestor of a given length.
LEMMA AtLengthProperties ==
  ASSUME NEW H, NEW b \in Seq(H), NEW n \in 0..Len(b)
  PROVE  /\ AtLength(b, n) \in Seq(H)
         /\ Len(AtLength(b, n)) = n
         /\ \A i \in 1..n : AtLength(b, n)[i] = b[i]
         /\ IsAncestor(AtLength(b, n), b)
<1>1. /\ AtLength(b, n) \in Seq(H)
      /\ Len(AtLength(b, n)) = n
      /\ \A i \in 1..n : AtLength(b, n)[i] = b[i]
  BY DEF AtLength
<1> QED
  BY <1>1 DEF IsAncestor

\* An ancestor is determined by its length.
LEMMA AncestorByLength ==
  ASSUME NEW H, NEW a \in Seq(H), NEW b \in Seq(H), IsAncestor(a, b)
  PROVE  /\ Len(a) \in 0..Len(b)
         /\ a = AtLength(b, Len(a))
<1>1. Len(a) \in Nat /\ Len(b) \in Nat /\ Len(a) <= Len(b)
  BY DEF IsAncestor
<1>2. Len(a) \in 0..Len(b)
  BY <1>1
<1>3. /\ AtLength(b, Len(a)) \in Seq(H)
      /\ Len(AtLength(b, Len(a))) = Len(a)
      /\ \A i \in 1..Len(a) : AtLength(b, Len(a))[i] = b[i]
  BY Zenon, <1>2, AtLengthProperties
<1>4. \A i \in 1..Len(a) : a[i] = b[i]
  BY Zenon DEF IsAncestor
<1> QED
  BY Zenon, <1>2, <1>3, <1>4, SameSequence

\* Ancestry is reflexive and transitive, and the ancestors of a block form a
\* chain.
LEMMA AncestorOrder ==
  ASSUME NEW H, NEW a \in Seq(H), NEW b \in Seq(H), NEW c \in Seq(H)
  PROVE  /\ IsAncestor(a, a)
         /\ IsAncestor(a, b) /\ IsAncestor(b, c) => IsAncestor(a, c)
         /\ IsAncestor(a, b) /\ IsAncestor(b, a) => a = b
         /\ IsAncestor(a, c) /\ IsAncestor(b, c) /\ Len(a) <= Len(b)
               => IsAncestor(a, b)
         /\ IsAncestor(a, b) /\ Len(a) = Len(b) => a = b
<1>0. Len(a) \in Nat /\ Len(b) \in Nat /\ Len(c) \in Nat
  OBVIOUS
<1>1. IsAncestor(a, a)
  BY <1>0 DEF IsAncestor
<1>2. ASSUME IsAncestor(a, b), IsAncestor(b, c) PROVE IsAncestor(a, c)
  BY <1>0, <1>2 DEF IsAncestor
<1>3. ASSUME IsAncestor(a, b), IsAncestor(b, a) PROVE a = b
  BY <1>0, <1>3, SameSequence DEF IsAncestor
<1>4. ASSUME IsAncestor(a, c), IsAncestor(b, c), Len(a) <= Len(b)
      PROVE  IsAncestor(a, b)
  BY <1>0, <1>4 DEF IsAncestor
<1>5. ASSUME IsAncestor(a, b), Len(a) = Len(b) PROVE a = b
  BY Zenon, <1>0, <1>5, SameSequence DEF IsAncestor
<1> QED
  BY Zenon, <1>1, <1>2, <1>3, <1>4, <1>5

\* The parent of an appended block, and its ancestors.
LEMMA ChildAncestors ==
  ASSUME NEW H, NEW p \in Seq(H), NEW h \in H
  PROVE  /\ Append(p, h) \in Seq(H)
         /\ Len(Append(p, h)) = Len(p) + 1
         /\ ParentOf(Append(p, h)) = p
         /\ IsAncestor(p, Append(p, h))
         /\ \A a \in Seq(H) : IsAncestor(a, Append(p, h)) =>
              a = Append(p, h) \/ IsAncestor(a, p)
<1> DEFINE b == Append(p, h)
<1>1. /\ b \in Seq(H) /\ Len(b) = Len(p) + 1 /\ Len(p) \in Nat
      /\ \A i \in 1..Len(p) : b[i] = p[i]
  OBVIOUS
<1>2. IsAncestor(p, b)
  BY <1>1 DEF IsAncestor
<1>3. ParentOf(b) = p
  <2>1. Len(b) - 1 = Len(p)
    BY <1>1
  <2>2. p = AtLength(b, Len(p))
    BY Zenon, <1>1, <1>2, AncestorByLength
  <2> QED
    BY Zenon, <2>1, <2>2 DEF ParentOf
<1>4. ASSUME NEW a \in Seq(H), IsAncestor(a, b)
      PROVE  a = b \/ IsAncestor(a, p)
  <2>1. CASE Len(a) = Len(b)
    BY Zenon, <1>1, <1>4, <2>1, AncestorOrder
  <2>2. CASE Len(a) # Len(b)
    BY <1>1, <1>2, <1>4, <2>2, AncestorOrder DEF IsAncestor
  <2> QED
    BY Zenon, <2>1, <2>2
<1> QED
  BY Zenon, <1>1, <1>2, <1>3, <1>4

\* The lowest block of a set of blocks exists.
LEMMA LowestProperties ==
  ASSUME NEW H, NEW S, S \subseteq Seq(H), S # {}
  PROVE  /\ Lowest(S) \in S
         /\ \A c \in S : Len(Lowest(S)) <= Len(c)
<1> DEFINE L == {Len(b) : b \in S}
<1>1. L \subseteq Nat /\ L # {}
  <2>1. \A b \in S : Len(b) \in Nat
    OBVIOUS
  <2> QED
    BY Zenon, <2>1
<1>2. PICK x \in L : \A y \in L : x <= y
  BY Zenon, <1>1, SmallestInSet
<1>3. \E b \in S : \A c \in S : Len(b) <= Len(c)
  BY Zenon, <1>2
<1> QED
  BY Zenon, <1>3 DEF Lowest

\* The highest block of a set of blocks of bounded length exists.
LEMMA HighestProperties ==
  ASSUME NEW H, NEW S, S \subseteq Seq(H), S # {},
         NEW bound \in Nat, \A b \in S : Len(b) <= bound
  PROVE  /\ Highest(S) \in S
         /\ \A c \in S : Len(c) <= Len(Highest(S))
<1> DEFINE L == {bound - Len(b) : b \in S}
<1>1. L \subseteq Nat /\ L # {}
  OBVIOUS
<1>2. PICK x \in L : \A y \in L : x <= y
  BY Zenon, <1>1, SmallestInSet
<1>3. PICK b \in S : x = bound - Len(b)
  BY Zenon
<1>4. ASSUME NEW c \in S PROVE Len(c) <= Len(b)
  <2>1. bound - Len(b) <= bound - Len(c)
    BY Zenon, <1>2, <1>3
  <2>2. Len(b) \in Nat /\ Len(c) \in Nat
    OBVIOUS
  <2> QED
    BY <2>1, <2>2
<1>5. \E d \in S : \A c \in S : Len(c) <= Len(d)
  BY Zenon, <1>4
<1> QED
  BY Zenon, <1>5 DEF Highest

\* In a rooted tree the walk of a block is the set of its ancestors.
LEMMA WalkInRootedTree ==
  ASSUME NEW H, NEW T, T \subseteq Seq(H), NEW r, Rooted(T, r), NEW b \in T
  PROVE  /\ Walk(T, b) \subseteq T
         /\ \A a \in T : a \in Walk(T, b) <=> IsAncestor(a, b)
<1>1. IsAncestor(b, b)
  BY Zenon, AncestorOrder
<1>2. ASSUME NEW a \in T, IsAncestor(a, b) PROVE a \in Walk(T, b)
  <2>1. Len(r) \in Nat /\ Len(a) \in Nat /\ Len(b) \in Nat /\ Len(r) <= Len(a)
    BY DEF Rooted, IsAncestor
  <2>2. \A n \in Len(r)..Len(b) : AtLength(b, n) \in T
    BY Zenon DEF Rooted
  <2>3. \A n \in Len(a)..(Len(b) - 1) : n \in Len(r)..Len(b)
    BY <2>1
  <2> QED
    BY Zenon, <1>2, <2>2, <2>3 DEF Walk
<1>3. ASSUME NEW a \in Walk(T, b) PROVE a \in T /\ IsAncestor(a, b)
  BY Zenon, <1>1 DEF Walk
<1> QED
  BY Zenon, <1>2, <1>3

\* In a rooted tree any two blocks have a lowest common ancestor.
LEMMA LcaInRootedTree ==
  ASSUME NEW H, NEW T, T \subseteq Seq(H), NEW r, Rooted(T, r),
         NEW b1 \in T, NEW b2 \in T
  PROVE  /\ HasLca(T, b1, b2)
         /\ Lca(T, b1, b2) \in T
         /\ IsAncestor(Lca(T, b1, b2), b1)
         /\ IsAncestor(Lca(T, b1, b2), b2)
         /\ \A a \in T : IsAncestor(a, b1) /\ IsAncestor(a, b2)
                          => Len(a) <= Len(Lca(T, b1, b2))
<1> DEFINE C == Walk(T, b1) \cap Walk(T, b2)
<1>1. /\ C \subseteq T
      /\ \A a \in T : a \in C <=> IsAncestor(a, b1) /\ IsAncestor(a, b2)
  BY Zenon, WalkInRootedTree
<1>2. r \in C
  BY Zenon, <1>1 DEF Rooted
<1>3. Len(b1) \in Nat /\ \A a \in C : Len(a) <= Len(b1)
  BY <1>1 DEF IsAncestor
<1>4. Highest(C) \in C /\ \A c \in C : Len(c) <= Len(Highest(C))
  BY Zenon, <1>1, <1>2, <1>3, HighestProperties
<1> QED
  BY Zenon, <1>1, <1>2, <1>4 DEF Lca, HasLca

\* A common ancestor above which there is none is the lowest common ancestor.
LEMMA LcaUnique ==
  ASSUME NEW H, NEW T, T \subseteq Seq(H), NEW r, Rooted(T, r),
         NEW b1 \in T, NEW b2 \in T,
         NEW a \in T, IsAncestor(a, b1), IsAncestor(a, b2),
         \A c \in T : IsAncestor(c, b1) /\ IsAncestor(c, b2) => Len(c) <= Len(a)
  PROVE  Lca(T, b1, b2) = a
<1> DEFINE l == Lca(T, b1, b2)
<1>1. l \in T /\ IsAncestor(l, b1) /\ IsAncestor(l, b2) /\ Len(a) <= Len(l)
  BY Zenon, LcaInRootedTree
<1> HIDE DEF l
<1>2. Len(l) <= Len(a) /\ Len(l) \in Nat /\ Len(a) \in Nat
  BY <1>1
<1>3. Len(l) = Len(a)
  BY <1>1, <1>2
<1>4. IsAncestor(l, a)
  BY Zenon, <1>1, <1>2, AncestorOrder
<1>5. l = a
  BY Zenon, <1>1, <1>3, <1>4, AncestorOrder
<1> QED
  BY Zenon, <1>5 DEF l

\* Two blocks have one lowest common ancestor, whichever is named first.
LEMMA LcaCommutes ==
  ASSUME NEW T, NEW b1, NEW b2
  PROVE  Lca(T, b1, b2) = Lca(T, b2, b1)
<1>1. Walk(T, b1) \cap Walk(T, b2) = Walk(T, b2) \cap Walk(T, b1)
  BY Zenon
<1> QED
  BY Zenon, <1>1 DEF Lca

\* If t left c before u did, it left u where it left c.
LEMMA LcaOfThree ==
  ASSUME NEW H, NEW T, T \subseteq Seq(H), NEW r, Rooted(T, r),
         NEW c \in T, NEW u \in T, NEW t \in T,
         Len(Lca(T, c, t)) < Len(Lca(T, c, u))
  PROVE  Lca(T, u, t) = Lca(T, c, t)
<1> DEFINE l == Lca(T, c, t)
           m == Lca(T, c, u)
<1>1. /\ l \in T /\ IsAncestor(l, c) /\ IsAncestor(l, t)
      /\ \A a \in T : IsAncestor(a, c) /\ IsAncestor(a, t) => Len(a) <= Len(l)
  BY Zenon, LcaInRootedTree
<1>2. m \in T /\ IsAncestor(m, c) /\ IsAncestor(m, u) /\ Len(l) < Len(m)
  BY Zenon, LcaInRootedTree
<1> HIDE DEF l, m
<1>3. Len(l) \in Nat /\ Len(m) \in Nat
  BY <1>1, <1>2
<1>4. IsAncestor(l, m) /\ IsAncestor(l, u)
  <2>1. IsAncestor(l, m)
    BY <1>1, <1>2, <1>3, AncestorOrder
  <2> QED
    BY Zenon, <1>1, <1>2, <2>1, AncestorOrder
<1>5. ASSUME NEW a \in T, IsAncestor(a, u), IsAncestor(a, t)
      PROVE  Len(a) <= Len(l)
  <2>1. Len(a) \in Nat
    OBVIOUS
  <2>2. CASE Len(a) <= Len(m)
    <3>1. IsAncestor(a, m)
      BY Zenon, <1>2, <1>5, <2>2, AncestorOrder
    <3>2. IsAncestor(a, c)
      BY Zenon, <1>2, <3>1, AncestorOrder
    <3> QED
      BY Zenon, <1>1, <1>5, <3>2
  <2>3. CASE Len(m) <= Len(a)
    <3>1. IsAncestor(m, a)
      BY Zenon, <1>2, <1>5, <2>3, AncestorOrder
    <3>2. IsAncestor(m, t)
      BY Zenon, <1>2, <1>5, <3>1, AncestorOrder
    <3>3. Len(m) <= Len(l)
      BY Zenon, <1>1, <1>2, <3>2
    <3> QED
      BY <1>2, <1>3, <3>3
  <2> QED
    BY <1>3, <2>1, <2>2, <2>3
<1>6. Lca(T, u, t) = l
  BY Zenon, <1>1, <1>4, <1>5, LcaUnique
<1> QED
  BY Zenon, <1>6 DEF l

-----------------------------------------------------------------------------
(* Fork choice. *)

\* A block has a later slot than the blocks below it.
SlotsRise(T) == \A a, b \in T : IsAncestor(a, b) /\ a # b => SlotOf(a) < SlotOf(b)

\* What every engine value satisfies between two calls.
EngineOK(e) ==
  /\ e \in EngineType
  /\ RootedAtLib(e) /\ TipsLeaves(e)
  /\ IsFiniteSet(e.branches) /\ SlotsRise(e.branches)

\* The slot of a block is a natural, and k is defined there.
LEMMA SecurityParamAtBlock ==
  ASSUME NEW b \in Blocks
  PROVE  SlotOf(b) \in Nat /\ SecurityParam[SlotOf(b)] \in Nat
<1>1. CASE b = Genesis
  BY Zenon, <1>1, EngineAssumption DEF SlotOf
<1>2. CASE b # Genesis
  <2>1. Len(b) \in 1..Len(b) /\ b[Len(b)] \in Headers
    BY <1>2 DEF Blocks, Genesis
  <2> QED
    BY Zenon, <1>2, <2>1, EngineAssumption DEF SlotOf
<1> QED
  BY Zenon, <1>1, <1>2

\* What the loop starts with, and what an iteration makes of what it may hold.
FirstVisit(e) == {[cmax |-> e.local_chain, left |-> e.tips]}
NextVisit(e, X) == UNION {{Visit(e, x, t) : t \in x.left} : x \in X}
VisitEqn(e, n, f) ==
  f = [i \in 0..n |-> IF i = 0 THEN FirstVisit(e) ELSE NextVisit(e, f[i - 1])]

\* The recursion of Visited has a solution for every number of iterations.
LEMMA VisitedExists ==
  ASSUME NEW e, NEW n \in Nat
  PROVE  \E f : VisitEqn(e, n, f)
<1> DEFINE Bad == {m \in Nat : ~ \E f : VisitEqn(e, m, f)}
<1> SUFFICES ASSUME Bad # {} PROVE FALSE
  BY Zenon
<1>1. PICK m \in Bad : \A k \in Bad : m <= k
  <2>1. Bad \subseteq Nat
    BY Zenon
  <2> QED
    BY Zenon, <2>1, SmallestInSet
<1>2. CASE m = 0
  <2> DEFINE f == [i \in 0..0 |-> FirstVisit(e)]
  <2>1. VisitEqn(e, 0, f)
    BY DEF VisitEqn
  <2> QED
    BY Zenon, <1>1, <1>2, <2>1
<1>3. CASE m # 0
  <2>1. m \in Nat /\ m - 1 \in Nat /\ m - 1 < m
    BY <1>1, <1>3
  <2>2. PICK g : VisitEqn(e, m - 1, g)
    BY <1>1, <2>1
  <2> DEFINE f == [i \in 0..m |-> IF i = 0 THEN FirstVisit(e) ELSE NextVisit(e, g[i - 1])]
  <2>3. ASSUME NEW i \in 0..m, i # 0 PROVE f[i - 1] = g[i - 1]
    <3>1. i - 1 \in 0..(m - 1) /\ i - 1 \in 0..m
      BY <2>1, <2>3
    <3>2. g[i - 1] = IF i - 1 = 0 THEN FirstVisit(e) ELSE NextVisit(e, g[(i - 1) - 1])
      BY Zenon, <2>2, <3>1 DEF VisitEqn
    <3> QED
      BY Zenon, <3>1, <3>2
  <2>4. f = [i \in 0..m |-> IF i = 0 THEN FirstVisit(e) ELSE NextVisit(e, f[i - 1])]
    BY Zenon, <2>3
  <2>5. VisitEqn(e, m, f)
    BY Zenon, <2>4 DEF VisitEqn
  <2> QED
    BY Zenon, <1>1, <2>5
<1> QED
  BY Zenon, <1>2, <1>3

\* So Visited computes what it says.
LEMMA VisitedEquations ==
  ASSUME NEW e, NEW n \in Nat
  PROVE  /\ Visited(e, n)[0] = FirstVisit(e)
         /\ \A i \in 0..n : i # 0 => Visited(e, n)[i] = NextVisit(e, Visited(e, n)[i - 1])
<1>1. Visited(e, n) = CHOOSE f : VisitEqn(e, n, f)
  BY Zenon DEF VisitEqn, Visited, FirstVisit, NextVisit
<1>2. VisitEqn(e, n, Visited(e, n))
  BY Zenon, <1>1, VisitedExists
<1> QED
  BY <1>2 DEF VisitEqn

\* k of the era of a block.
K(b) == SecurityParam[SlotOf(b)]

\* t is not longer than c, or left it more than k blocks ago.
Settled(T, c, t) ==
  Len(t) > Len(c) => Len(c) - Len(Lca(T, c, t)) > K(Lca(T, c, t))

\* Fork choice went from b to c directly, or through a chain it could accept.
Reached(T, b, c) ==
  c = b \/ ReplacesMc(T, b, c) \/ \E d \in T : ReplacesMc(T, b, d) /\ Len(d) < Len(c)

\* The invariant of the loop: the best chain so far is a tip unless no tip above
\* the local chain was visited yet; in state Online it is not shorter than the
\* local chain, is reached from it, and is settled with every tip that was
\* visited.
VisitOK(e, x) ==
  LET done == e.tips \ x.left
  IN  /\ x.left \subseteq e.tips
      /\ \/ x.cmax \in e.tips
         \/ x.cmax = e.local_chain /\ \A t \in done : ~IsAncestor(x.cmax, t)
      /\ e.state = "Online" =>
           /\ Len(e.local_chain) <= Len(x.cmax)
           /\ Reached(e.branches, e.local_chain, x.cmax)
           /\ KNeverFalls(e.branches) =>
                \A t \in done : Settled(e.branches, x.cmax, t)

\* A chain that replaces the best chain so far leaves what was settled settled.
LEMMA SettledStays ==
  ASSUME NEW T, T \subseteq Blocks, NEW r, Rooted(T, r), KNeverFalls(T),
         NEW c \in T, NEW u \in T, NEW t \in T,
         Settled(T, c, t), ReplacesMc(T, c, u)
  PROVE  Settled(T, u, t)
<1> DEFINE l == Lca(T, c, t)
           m == Lca(T, c, u)
<1>0. Len(c) \in Nat /\ Len(u) \in Nat /\ Len(t) \in Nat
  BY DEF Blocks
<1>1. l \in T /\ m \in T /\ IsAncestor(l, c) /\ IsAncestor(m, c)
  BY Zenon, LcaInRootedTree DEF Blocks
<1>2. Len(c) - Len(m) <= K(m) /\ Len(c) < Len(u)
  BY Zenon DEF ReplacesMc, Length, K
<1>3. CASE Len(t) <= Len(c)
  BY <1>0, <1>2, <1>3 DEF Settled
<1>4. CASE Len(t) > Len(c)
  <2>1. Len(c) - Len(l) > K(l)
    BY Zenon, <1>4 DEF Settled
  <2> HIDE DEF l, m
  <2>2. Len(l) \in Nat /\ Len(m) \in Nat /\ K(l) \in Nat /\ K(m) \in Nat
    BY <1>1, SecurityParamAtBlock DEF Blocks, K
  <2>3. Len(l) < Len(m)
    <3>1. SUFFICES ASSUME Len(m) <= Len(l) PROVE FALSE
      BY <2>2
    <3>2. IsAncestor(m, l)
      BY Zenon, <1>1, <3>1, AncestorOrder DEF Blocks
    <3>3. K(m) <= K(l)
      BY Zenon, <1>1, <3>2 DEF KNeverFalls, K
    <3> QED
      BY <1>0, <1>2, <2>1, <2>2, <3>1, <3>3
  <2>4. Lca(T, u, t) = l
    BY Zenon, <2>3, LcaOfThree DEF l, m, Blocks
  <2>5. Len(u) - Len(l) > K(l)
    BY <1>0, <1>2, <2>1, <2>2
  <2> QED
    BY Zenon, <2>4, <2>5 DEF Settled
<1> QED
  BY <1>0, <1>3, <1>4

\* A chain that replaces the best chain so far is reached from the local chain.
LEMMA ReachedStays ==
  ASSUME NEW T, T \subseteq Blocks, NEW b \in T, NEW c \in T, NEW u \in T,
         Reached(T, b, c), ReplacesMc(T, c, u)
  PROVE  Reached(T, b, u)
<1>1. Len(c) < Len(u) /\ Len(c) \in Nat /\ Len(u) \in Nat
  BY DEF ReplacesMc, Length, Blocks
<1>2. CASE c = b
  BY Zenon, <1>2 DEF Reached
<1>3. CASE ReplacesMc(T, b, c)
  BY Zenon, <1>1, <1>3 DEF Reached
<1>4. ASSUME NEW d \in T, ReplacesMc(T, b, d), Len(d) < Len(c) PROVE Reached(T, b, u)
  <2>1. Len(d) \in Nat /\ Len(d) < Len(u)
    BY <1>1, <1>4 DEF Blocks
  <2> QED
    BY Zenon, <1>4, <2>1 DEF Reached
<1> QED
  BY Zenon, <1>2, <1>3, <1>4 DEF Reached

\* A tip above the best chain so far replaces it, in both states.
LEMMA ExtensionReplaces ==
  ASSUME NEW e, EngineOK(e), NEW c \in e.branches, NEW t \in e.branches,
         IsAncestor(c, t), t # c
  PROVE  Replaces(e, c, t)
<1> DEFINE T == e.branches
<1>0. T \subseteq Blocks /\ Rooted(T, e.lib)
  BY Zenon DEF EngineOK, EngineType, RootedAtLib
<1>1. /\ Len(c) \in Nat /\ Len(t) \in Nat /\ IsAncestor(c, c)
      /\ \A a \in T : IsAncestor(a, c) => Len(a) <= Len(c)
  BY <1>0, AncestorOrder DEF Blocks, IsAncestor
<1>2. Lca(T, c, t) = c
  BY Zenon, <1>0, <1>1, LcaUnique DEF Blocks
<1>3. Len(c) < Len(t)
  <2>1. Len(c) # Len(t)
    BY Zenon, <1>0, AncestorOrder DEF Blocks
  <2> QED
    BY <1>1, <2>1 DEF IsAncestor
<1>4. SecurityParam[SlotOf(c)] \in Nat /\ Len(c) - Len(c) = 0
  BY <1>0, <1>1, SecurityParamAtBlock
<1>5. Len(c) - Len(c) <= SecurityParam[SlotOf(c)]
  BY <1>4
<1> QED
  BY Zenon, <1>2, <1>3, <1>5 DEF Replaces, ReplacesBg, ReplacesMc, Length

\* An iteration keeps the invariant of the loop.
LEMMA VisitKeepsOK ==
  ASSUME NEW e, EngineOK(e), NEW x, VisitOK(e, x), NEW u \in x.left
  PROVE  VisitOK(e, Visit(e, x, u))
<1> DEFINE T == e.branches
           y == Visit(e, x, u)
           c == x.cmax
           done == e.tips \ x.left
<1>0. /\ T \subseteq Blocks /\ Rooted(T, e.lib) /\ e.local_chain \in T
      /\ e.tips \subseteq T
  BY Zenon DEF EngineOK, EngineType, RootedAtLib, TipsLeaves
<1>1. /\ x.left \subseteq e.tips /\ u \in e.tips
      /\ c \in e.tips \/ (c = e.local_chain /\ \A t \in done : ~IsAncestor(c, t))
  BY Zenon DEF VisitOK
<1>2. c \in T /\ u \in T
  BY Zenon, <1>0, <1>1
<1>3. y.left = x.left \ {u} /\ y.cmax = IF Replaces(e, c, u) THEN u ELSE c
  BY Zenon DEF Visit
<1> HIDE DEF y
<1>4. y.left \subseteq e.tips /\ e.tips \ y.left = done \cup {u}
  BY Zenon, <1>1, <1>3
<1>5. \/ y.cmax \in e.tips
      \/ y.cmax = e.local_chain /\ \A t \in done \cup {u} : ~IsAncestor(y.cmax, t)
  <2>1. CASE Replaces(e, c, u) \/ c \in e.tips
    BY Zenon, <1>1, <1>3, <2>1
  <2>2. CASE ~Replaces(e, c, u) /\ c \notin e.tips
    <3>1. u # c
      BY Zenon, <1>1, <2>2
    <3>2. ~IsAncestor(c, u)
      BY Zenon, <1>2, <2>2, <3>1, ExtensionReplaces
    <3> QED
      BY Zenon, <1>1, <1>3, <2>2, <3>2
  <2> QED
    BY Zenon, <2>1, <2>2
<1>6. ASSUME e.state = "Online"
      PROVE  /\ Len(e.local_chain) <= Len(y.cmax)
             /\ Reached(T, e.local_chain, y.cmax)
             /\ KNeverFalls(T) => \A t \in done \cup {u} : Settled(T, y.cmax, t)
  <2>0. Len(e.local_chain) \in Nat /\ Len(c) \in Nat /\ Len(u) \in Nat
    BY <1>0, <1>2 DEF Blocks
  <2>1. /\ Len(e.local_chain) <= Len(c) /\ Reached(T, e.local_chain, c)
        /\ KNeverFalls(T) => \A t \in done : Settled(T, c, t)
    BY Zenon, <1>6 DEF VisitOK
  <2>2. Replaces(e, c, u) = ReplacesMc(T, c, u)
    BY Zenon, <1>6 DEF Replaces
  <2>3. CASE ReplacesMc(T, c, u)
    <3>1. y.cmax = u
      BY Zenon, <1>3, <2>2, <2>3
    <3>2. Len(c) < Len(u)
      BY Zenon, <2>3 DEF ReplacesMc, Length
    <3>3. Reached(T, e.local_chain, u)
      BY Zenon, <1>0, <1>2, <2>1, <2>3, ReachedStays
    <3>4. ASSUME KNeverFalls(T), NEW t \in done PROVE Settled(T, u, t)
      BY Zenon, <1>0, <1>2, <2>1, <2>3, <3>4, SettledStays
    <3>5. Settled(T, u, u)
      BY <2>0 DEF Settled
    <3> QED
      BY <2>0, <2>1, <3>1, <3>2, <3>3, <3>4, <3>5
  <2>4. CASE ~ReplacesMc(T, c, u)
    <3>1. y.cmax = c
      BY Zenon, <1>3, <2>2, <2>4
    <3>2. Settled(T, c, u)
      <4> DEFINE l == Lca(T, c, u)
      <4>1. l \in T
        BY Zenon, <1>0, <1>2, LcaInRootedTree DEF Blocks
      <4>2. ~ (Len(c) - Len(l) <= K(l) /\ Len(c) < Len(u))
        BY Zenon, <2>4 DEF ReplacesMc, Length, K
      <4>3. SUFFICES ASSUME Len(u) > Len(c) PROVE Len(c) - Len(l) > K(l)
        BY Zenon DEF Settled
      <4> HIDE DEF l
      <4>4. K(l) \in Nat /\ Len(l) \in Nat
        BY <1>0, <4>1, SecurityParamAtBlock DEF Blocks, K
      <4> QED
        BY <2>0, <4>2, <4>3, <4>4
    <3> QED
      BY Zenon, <2>1, <3>1, <3>2
  <2> QED
    BY Zenon, <2>3, <2>4
<1> QED
  BY Zenon, <1>4, <1>5, <1>6 DEF VisitOK, y

\* The invariant of the loop holds throughout, and the loop goes on until every
\* tip was visited.
LEMMA VisitedOK ==
  ASSUME NEW e, EngineOK(e), NEW n \in Nat, n = Cardinality(e.tips),
         IsFiniteSet(e.tips), NEW i \in 0..n
  PROVE  /\ Visited(e, n)[i] # {}
         /\ \A x \in Visited(e, n)[i] :
              VisitOK(e, x) /\ IsFiniteSet(x.left) /\ Cardinality(x.left) = n - i
<1> DEFINE V == Visited(e, n)
           Good(k) == /\ V[k] # {}
                      /\ \A x \in V[k] : /\ VisitOK(e, x) /\ IsFiniteSet(x.left)
                                         /\ Cardinality(x.left) = n - k
           Bad == {k \in 0..n : ~Good(k)}
<1> SUFFICES ASSUME Bad # {} PROVE FALSE
  BY Zenon
<1>1. PICK k \in Bad : \A j \in Bad : k <= j
  <2>1. Bad \subseteq Nat
    OBVIOUS
  <2> QED
    BY Zenon, <2>1, SmallestInSet
<1>2. CASE k = 0
  <2> DEFINE start == [cmax |-> e.local_chain, left |-> e.tips]
  <2>1. V[0] = {start}
    BY Zenon, VisitedEquations DEF FirstVisit
  <2>2. start.cmax = e.local_chain /\ start.left = e.tips
    BY Zenon
  <2> HIDE DEF start
  <2>3. e.local_chain \in e.branches /\ e.branches \subseteq Blocks
    BY Zenon DEF EngineOK, EngineType, RootedAtLib
  <2>4. Reached(e.branches, e.local_chain, e.local_chain)
    BY Zenon DEF Reached
  <2>5. VisitOK(e, start)
    BY <2>2, <2>3, <2>4 DEF VisitOK, Blocks
  <2> QED
    BY <1>1, <1>2, <2>1, <2>2, <2>5
<1>3. CASE k # 0
  <2>1. k - 1 \in 0..n /\ k - 1 \notin Bad
    BY <1>1, <1>3
  <2>2. Good(k - 1)
    BY Zenon, <2>1
  <2>3. V[k] = NextVisit(e, V[k - 1])
    BY <1>1, <1>3, VisitedEquations
  <2> HIDE DEF V
  <2>4. V[k] # {}
    <3>1. PICK x \in V[k - 1] : IsFiniteSet(x.left) /\ Cardinality(x.left) = n - (k - 1)
      BY Zenon, <2>2
    <3>2. Cardinality(x.left) # 0
      BY <1>1, <3>1
    <3>3. PICK t : t \in x.left
      BY Zenon, <3>1, <3>2, FS_EmptySet
    <3> QED
      BY <2>3, <3>3 DEF NextVisit
  <2>5. ASSUME NEW y \in V[k]
        PROVE  VisitOK(e, y) /\ IsFiniteSet(y.left) /\ Cardinality(y.left) = n - k
    <3>0. PICK x \in V[k - 1] : \E t \in x.left : y = Visit(e, x, t)
      BY Zenon, <2>3 DEF NextVisit
    <3>1. PICK t \in x.left : y = Visit(e, x, t)
      BY Zenon, <3>0
    <3>2. VisitOK(e, x) /\ IsFiniteSet(x.left) /\ Cardinality(x.left) = n - (k - 1)
      BY Zenon, <2>2
    <3>3. VisitOK(e, y)
      BY Zenon, <3>1, <3>2, VisitKeepsOK
    <3>4. y.left = x.left \ {t}
      BY Zenon, <3>1 DEF Visit
    <3>5. IsFiniteSet(y.left) /\ Cardinality(y.left) = Cardinality(x.left) - 1
      <4>1. /\ IsFiniteSet(x.left \ {t})
            /\ Cardinality(x.left \ {t}) = Cardinality(x.left) - 1
        BY Zenon, <3>2, FS_RemoveElement
      <4> QED
        BY Zenon, <3>4, <4>1
    <3> QED
      BY <1>1, <3>2, <3>3, <3>5
  <2> QED
    BY Zenon, <1>1, <2>4, <2>5
<1> QED
  BY Zenon, <1>2, <1>3

\* Fork choice answers, and it answers a tip; in state Online one that is not
\* shorter than the local chain, is reached from it and is settled with every
\* tip.
LEMMA ForkChoicesOK ==
  ASSUME NEW e, EngineOK(e)
  PROVE  /\ ForkChoices(e) # {}
         /\ \A c \in ForkChoices(e) :
              /\ c \in e.tips
              /\ e.state = "Online" =>
                   /\ Len(e.local_chain) <= Len(c)
                   /\ Reached(e.branches, e.local_chain, c)
                   /\ KNeverFalls(e.branches) =>
                        \A t \in e.tips : Settled(e.branches, c, t)
<1> DEFINE n == Cardinality(e.tips)
<1>1. IsFiniteSet(e.tips) /\ n \in Nat
  BY Zenon, FS_Subset, FS_CardinalityType DEF EngineOK, TipsLeaves
<1>2. ForkChoices(e) = {x.cmax : x \in Visited(e, n)[n]}
  BY Zenon DEF ForkChoices
<1> HIDE DEF n
<1>3. /\ Visited(e, n)[n] # {}
      /\ \A x \in Visited(e, n)[n] :
           VisitOK(e, x) /\ IsFiniteSet(x.left) /\ Cardinality(x.left) = n - n
  BY <1>1, VisitedOK DEF n
<1>4. ASSUME NEW x \in Visited(e, n)[n]
      PROVE  /\ x.cmax \in e.tips
             /\ e.state = "Online" =>
                  /\ Len(e.local_chain) <= Len(x.cmax)
                  /\ Reached(e.branches, e.local_chain, x.cmax)
                  /\ KNeverFalls(e.branches) =>
                       \A t \in e.tips : Settled(e.branches, x.cmax, t)
  <2>1. Cardinality(x.left) = 0 /\ IsFiniteSet(x.left)
    BY <1>1, <1>3
  <2>2. e.tips \ x.left = e.tips
    BY Zenon, <2>1, FS_EmptySet
  <2>3. \E t \in e.tips : IsAncestor(e.local_chain, t)
    BY Zenon DEF EngineOK, TipsLeaves, RootedAtLib
  <2> QED
    BY Zenon, <1>3, <2>2, <2>3 DEF VisitOK
<1> QED
  BY Zenon, <1>2, <1>3, <1>4

-----------------------------------------------------------------------------
(* The engine. *)

\* The inductive invariant.
IInv == EngineOK(engine) /\ outcome \in OutcomeType

\* A new engine is well formed.
LEMMA FromLibOK ==
  ASSUME NEW lib \in Blocks, NEW state \in States
  PROVE  EngineOK(FromLib(lib, state))
<1> DEFINE e == FromLib(lib, state)
<1>1. e \in EngineType
  BY Zenon DEF EngineType, FromLib
<1>2. IsAncestor(lib, lib)
  BY Zenon, AncestorOrder DEF Blocks
<1>3. \A n \in Len(lib)..Len(lib) : AtLength(lib, n) = lib
  BY <1>2, AncestorByLength DEF Blocks
<1>4. IsFiniteSet({lib})
  BY Zenon, FS_Singleton
<1> QED
  BY Zenon, <1>1, <1>2, <1>3, <1>4
     DEF EngineOK, FromLib, RootedAtLib, Rooted, TipsLeaves, SlotsRise

\* apply_header keeps the engine well formed.
LEMMA ApplyHeaderOK ==
  ASSUME NEW e, EngineOK(e), NEW p \in e.branches, NEW h \in Headers,
         Append(p, h) \notin e.branches, SlotOf(p) < SlotOf(Append(p, h))
  PROVE  /\ EngineOK(ApplyHeader(e, Append(p, h)))
         /\ ApplyHeader(e, Append(p, h)).branches = e.branches \cup {Append(p, h)}
         /\ ApplyHeader(e, Append(p, h)).lib = e.lib
         /\ ApplyHeader(e, Append(p, h)).local_chain = e.local_chain
         /\ ApplyHeader(e, Append(p, h)).state = e.state
<1> DEFINE b == Append(p, h)
           f == ApplyHeader(e, b)
           T == e.branches
<1>0. /\ e \in EngineType /\ T \subseteq Blocks /\ e.tips \subseteq T
      /\ e.lib \in T /\ p \in T /\ p \in Blocks
      /\ \A c \in T : IsAncestor(e.lib, c)
      /\ \A c \in T : \A n \in Len(e.lib)..Len(c) : AtLength(c, n) \in T
      /\ \A t \in e.tips : \A c \in T : IsAncestor(t, c) => c = t
      /\ \A c \in T : \E t \in e.tips : IsAncestor(c, t)
  BY Zenon DEF EngineOK, EngineType, RootedAtLib, Rooted, TipsLeaves
<1>1. /\ b \in Blocks /\ Len(b) = Len(p) + 1 /\ ParentOf(b) = p /\ IsAncestor(p, b)
      /\ \A a \in Blocks : IsAncestor(a, b) => a = b \/ IsAncestor(a, p)
  BY Zenon, <1>0, ChildAncestors DEF Blocks
<1>2. /\ f \in EngineType
      /\ f.branches = T \cup {b} /\ f.tips = (e.tips \ {p}) \cup {b}
      /\ f.lib = e.lib /\ f.local_chain = e.local_chain /\ f.state = e.state
  <2> HIDE DEF b
  <2> QED
    BY Zenon, <1>0, <1>1 DEF ApplyHeader, EngineType
<1> HIDE DEF b, f, T
<1>9. Len(e.lib) \in Nat /\ Len(p) \in Nat /\ Len(e.lib) <= Len(p)
  BY SMTT(20), <1>0 DEF Blocks, IsAncestor
<1>3. IsAncestor(e.lib, b)
  BY <1>0, <1>1, AncestorOrder DEF Blocks
<1>4. ASSUME NEW n \in Len(e.lib)..Len(b) PROVE AtLength(b, n) \in T \cup {b}
  <2>2. CASE n = Len(b)
    BY Zenon, <1>1, <2>2, AncestorOrder, AncestorByLength DEF Blocks
  <2>3. CASE n # Len(b)
    <3>1. n \in Len(e.lib)..Len(p) /\ n \in 0..Len(p) /\ n \in 0..Len(b)
      BY <1>1, <1>9, <2>3
    <3>2. AtLength(p, n) \in T /\ AtLength(p, n) \in Blocks
      BY Zenon, <1>0, <3>1
    <3>3. IsAncestor(AtLength(p, n), p) /\ Len(AtLength(p, n)) = n
      BY Zenon, <1>0, <3>1, AtLengthProperties DEF Blocks
    <3>4. IsAncestor(AtLength(p, n), b)
      BY Zenon, <1>0, <1>1, <3>2, <3>3, AncestorOrder DEF Blocks
    <3>5. AtLength(p, n) = AtLength(b, n)
      BY ZenonT(30), <1>1, <3>2, <3>3, <3>4, AncestorByLength DEF Blocks
    <3> QED
      BY Zenon, <3>2, <3>5
  <2> QED
    BY Zenon, <2>2, <2>3
<1>5. RootedAtLib(f)
  <2>1. Rooted(f.branches, f.lib)
    BY Zenon, <1>0, <1>2, <1>3, <1>4 DEF Rooted
  <2> QED
    BY Zenon, <1>2, <2>1 DEF EngineOK, RootedAtLib, T
<1>6. b \notin T
  BY Zenon DEF b, T
<1>7. ASSUME NEW c \in T PROVE ~IsAncestor(b, c)
  <2>1. SUFFICES ASSUME IsAncestor(b, c) PROVE FALSE
    BY Zenon
  <2>3. b = AtLength(c, Len(b)) /\ Len(b) \in 0..Len(c)
    BY Zenon, <1>0, <1>1, <2>1, AncestorByLength DEF Blocks
  <2>4. Len(b) \in Len(e.lib)..Len(c)
    BY <1>1, <1>9, <2>3
  <2> QED
    BY <1>0, <1>6, <2>3, <2>4
<1>8. TipsLeaves(f)
  <2>1. f.tips \subseteq f.branches
    BY Zenon, <1>0, <1>2
  <2>2. ASSUME NEW t \in f.tips, NEW c \in f.branches, IsAncestor(t, c)
        PROVE  c = t
    <3>1. CASE t = b
      BY Zenon, <1>2, <1>7, <2>2, <3>1
    <3>2. CASE t # b /\ c # b
      BY Zenon, <1>0, <1>2, <2>2, <3>2
    <3>3. CASE t # b /\ c = b
      <4>1. t \in e.tips /\ t # p /\ t \in Blocks
        BY Zenon, <1>0, <1>2, <3>3
      <4>2. IsAncestor(t, p)
        BY Zenon, <1>1, <2>2, <3>3, <4>1
      <4>3. p \in T
        BY Zenon DEF T
      <4> QED
        BY Zenon, <1>0, <4>1, <4>2, <4>3
    <3> QED
      BY Zenon, <3>1, <3>2, <3>3
  <2>3. ASSUME NEW c \in f.branches PROVE \E t \in f.tips : IsAncestor(c, t)
    <3>1. CASE c = b
      BY Zenon, <1>1, <1>2, <3>1, AncestorOrder DEF Blocks
    <3>2. CASE c # b
      <4>1. c \in T /\ c \in Blocks
        BY Zenon, <1>0, <1>2, <3>2
      <4>2. PICK t \in e.tips : IsAncestor(c, t)
        BY Zenon, <1>0, <4>1
      <4>3. CASE t = p
        <5>1. IsAncestor(c, b)
          BY Zenon, <1>0, <1>1, <4>1, <4>2, <4>3, AncestorOrder DEF Blocks
        <5> QED
          BY Zenon, <1>2, <5>1
      <4>4. CASE t # p
        BY Zenon, <1>2, <4>2, <4>4
      <4> QED
        BY Zenon, <4>3, <4>4
    <3> QED
      BY Zenon, <3>1, <3>2
  <2> QED
    BY Zenon, <2>1, <2>2, <2>3 DEF TipsLeaves
<1>10. IsFiniteSet(f.branches)
  BY <1>2, FS_AddElement DEF EngineOK, T
<1>11. SlotsRise(f.branches)
  <2>1. SlotOf(p) < SlotOf(b) /\ SlotsRise(T)
    BY Zenon DEF b, T, EngineOK
  <2>2. SUFFICES ASSUME NEW a \in f.branches, NEW c \in f.branches,
                        IsAncestor(a, c), a # c
                 PROVE  SlotOf(a) < SlotOf(c)
    BY Zenon DEF SlotsRise
  <2>3. CASE c \in T
    <3>1. a \in T
      BY Zenon, <1>2, <1>7, <2>2, <2>3
    <3> QED
      BY Zenon, <2>1, <2>2, <2>3, <3>1 DEF SlotsRise
  <2>4. CASE c = b
    <3>1. a \in T /\ a \in Blocks /\ IsAncestor(a, p)
      BY Zenon, <1>0, <1>1, <1>2, <2>2, <2>4
    <3>2. a = p \/ SlotOf(a) < SlotOf(p)
      BY Zenon, <1>0, <2>1, <3>1 DEF SlotsRise
    <3>3. SlotOf(a) \in Nat /\ SlotOf(p) \in Nat /\ SlotOf(b) \in Nat
      BY Zenon, <1>0, <1>1, <3>1, SecurityParamAtBlock
    <3> QED
      BY <2>1, <2>4, <3>2, <3>3
  <2> QED
    BY Zenon, <1>2, <2>3, <2>4
<1> QED
  BY Zenon, <1>2, <1>5, <1>8, <1>10, <1>11 DEF EngineOK, f, b, T

\* State::lib answers a block of the local chain that descends from the LIB.
LEMMA LibOfOK ==
  ASSUME NEW e, EngineOK(e)
  PROVE  /\ LibOf(e) \in e.branches
         /\ IsAncestor(e.lib, LibOf(e))
         /\ IsAncestor(LibOf(e), e.local_chain)
<1> DEFINE T == e.branches
           tip == e.local_chain
           withinK == {b \in LibToTip(T, e.lib, tip) :
                         Length(tip) - Length(b) <= SecurityParam[SlotOf(b)]}
<1>0. /\ T \subseteq Blocks /\ e.lib \in T /\ tip \in T
      /\ Rooted(T, e.lib)
      /\ \A c \in T : IsAncestor(e.lib, c)
  BY Zenon DEF EngineOK, EngineType, RootedAtLib, Rooted
<1>1. CASE e.state = "Bootstrapping"
  BY Zenon, <1>0, <1>1, AncestorOrder DEF LibOf, Blocks
<1>2. CASE e.state # "Bootstrapping"
  <2>1. /\ Walk(T, tip) \subseteq T
        /\ \A a \in T : a \in Walk(T, tip) <=> IsAncestor(a, tip)
    BY <1>0, WalkInRootedTree DEF Blocks
  <2>2. LibToTip(T, e.lib, tip) \subseteq Walk(T, tip)
    BY Zenon DEF LibToTip
  <2>3. tip \in withinK
    <3>1. IsAncestor(tip, tip) /\ Len(tip) \in Nat /\ Len(e.lib) \in Nat
      BY <1>0, AncestorOrder DEF Blocks
    <3>2. Len(tip) - Len(tip) = 0 /\ Len(tip) >= Len(e.lib)
      BY <1>0, <3>1 DEF IsAncestor
    <3>3. tip \in LibToTip(T, e.lib, tip)
      BY Zenon, <1>0, <2>1, <3>1, <3>2 DEF LibToTip
    <3>4. SecurityParam[SlotOf(tip)] \in Nat
      BY Zenon, <1>0, SecurityParamAtBlock
    <3>5. Length(tip) - Length(tip) <= SecurityParam[SlotOf(tip)]
      BY <3>2, <3>4 DEF Length
    <3> QED
      BY Zenon, <3>3, <3>5
  <2>4. withinK \subseteq T /\ \A a \in withinK : IsAncestor(a, tip)
    BY Zenon, <2>1, <2>2
  <2>5. Lowest(withinK) \in withinK
    <3> HIDE DEF withinK
    <3> QED
      BY Zenon, <1>0, <2>3, <2>4, LowestProperties DEF Blocks
  <2>6. LibOf(e) = Lowest(withinK)
    BY Zenon, <1>2 DEF LibOf
  <2> HIDE DEF withinK
  <2> QED
    BY Zenon, <1>0, <2>4, <2>5, <2>6
<1> QED
  BY Zenon, <1>1, <1>2

\* Pruning at a block L of the local chain leaves exactly the blocks that
\* descend from L, and the tips that descend from L.
LEMMA PruningLeavesDescendants ==
  ASSUME NEW e, e \in EngineType, NEW r \in Blocks,
         Rooted(e.branches, r), e.local_chain \in e.branches, TipsLeaves(e),
         e.lib \in e.branches, IsAncestor(e.lib, e.local_chain)
  PROVE  /\ (e.branches \ StaleBlocks(e)) \ ImmutableBlocks(e)
              = {b \in e.branches : IsAncestor(e.lib, b)}
         /\ e.tips \ PrunableForks(e) = {t \in e.tips : IsAncestor(e.lib, t)}
         /\ ImmutableBlocks(e) = {b \in e.branches : IsAncestor(b, e.lib) /\ b # e.lib}
         /\ StaleBlocks(e) = {b \in e.branches : /\ ~IsAncestor(b, e.lib)
                                                 /\ ~IsAncestor(e.lib, b)}
<1> DEFINE T == e.branches
           tip == e.local_chain
           L == e.lib
           lca(t) == Lca(T, tip, t)
<1>0. /\ T \subseteq Blocks /\ L \in T /\ tip \in T /\ e.tips \subseteq T
      /\ \A c \in T : \E t \in e.tips : IsAncestor(c, t)
      /\ \A c \in T : Len(c) \in Nat
  BY DEF EngineType, TipsLeaves, Blocks
<1>1. ASSUME NEW t \in T
      PROVE  /\ lca(t) \in T /\ IsAncestor(lca(t), tip) /\ IsAncestor(lca(t), t)
             /\ \A a \in T : IsAncestor(a, tip) /\ IsAncestor(a, t)
                               => Len(a) <= Len(lca(t))
             /\ Walk(T, t) \subseteq T
             /\ \A a \in T : a \in Walk(T, t) <=> IsAncestor(a, t)
  BY Zenon, <1>0, LcaInRootedTree, WalkInRootedTree DEF Blocks
<1>2. ASSUME NEW a \in T, NEW c \in T, NEW d \in T
      PROVE  /\ IsAncestor(a, a)
             /\ IsAncestor(a, c) /\ IsAncestor(c, d) => IsAncestor(a, d)
             /\ IsAncestor(a, c) /\ IsAncestor(c, a) => a = c
             /\ IsAncestor(a, d) /\ IsAncestor(c, d) /\ Len(a) <= Len(c)
                   => IsAncestor(a, c)
  BY Zenon, <1>0, AncestorOrder DEF Blocks
<1>3. ASSUME NEW t \in e.tips
      PROVE  t \in PrunableForks(e) <=> ~IsAncestor(L, t)
  <2>1. t \in T /\ t \in Blocks
    BY Zenon, <1>0
  <2>2. CASE t = tip
    BY Zenon, <2>2 DEF PrunableForks
  <2>3. CASE t # tip /\ IsAncestor(L, t)
    <3>1. Len(L) <= Len(lca(t))
      BY Zenon, <1>0, <1>1, <2>1, <2>3
    <3> QED
      BY <1>0, <1>1, <2>1, <2>3, <3>1 DEF PrunableForks, Length
  <2>4. CASE t # tip /\ ~IsAncestor(L, t)
    <3>1. /\ lca(t) \in T /\ IsAncestor(lca(t), tip) /\ IsAncestor(lca(t), t)
          /\ Len(L) \in Nat /\ Len(lca(t)) \in Nat
      BY Zenon, <1>0, <1>1, <2>1
    <3> HIDE DEF lca
    <3>2. ~ (Len(L) <= Len(lca(t)))
      <4>1. SUFFICES ASSUME Len(L) <= Len(lca(t)) PROVE IsAncestor(L, t)
        BY Zenon, <2>4
      <4>2. IsAncestor(L, lca(t))
        BY ZenonT(30), <1>0, <1>2, <3>1, <4>1
      <4> QED
        BY Zenon, <1>0, <1>2, <2>1, <3>1, <4>2
    <3>3. Len(lca(t)) < Len(L)
      BY <3>1, <3>2
    <3> QED
      BY Zenon, <2>4, <3>3 DEF PrunableForks, Length, lca
  <2> QED
    BY Zenon, <2>2, <2>3, <2>4
<1>4. ImmutableBlocks(e) = {b \in T : IsAncestor(b, L) /\ b # L}
  BY Zenon, <1>0, <1>1 DEF ImmutableBlocks
<1>5. ASSUME NEW a \in T
      PROVE  a \in StaleBlocks(e) <=>
               \E t \in PrunableForks(e) : IsAncestor(a, t) /\ Len(a) > Len(lca(t))
  <2>1. PrunableForks(e) \subseteq e.tips
    BY Zenon DEF PrunableForks
  <2>2. ASSUME NEW t \in PrunableForks(e)
        PROVE  a \in WalkBackTo(T, t, lca(t)) <=> IsAncestor(a, t) /\ Len(a) > Len(lca(t))
    BY Zenon, <1>0, <1>1, <2>1 DEF WalkBackTo
  <2> HIDE DEF lca
  <2> QED
    BY Zenon, <2>2 DEF StaleBlocks, lca
<1>6. ASSUME NEW a \in T, IsAncestor(L, a)
      PROVE  a \notin StaleBlocks(e) /\ a \notin ImmutableBlocks(e)
  <2>1. a \notin ImmutableBlocks(e)
    BY Zenon, <1>0, <1>2, <1>4, <1>6
  <2>2. ASSUME NEW t \in PrunableForks(e), IsAncestor(a, t) PROVE FALSE
    <3>1. t \in e.tips /\ t \in T
      BY Zenon, <1>0 DEF PrunableForks
    <3>2. IsAncestor(L, t)
      BY Zenon, <1>0, <1>2, <1>6, <2>2, <3>1
    <3> QED
      BY Zenon, <1>3, <3>1, <3>2
  <2> QED
    BY Zenon, <1>5, <2>1, <2>2
<1>7. ASSUME NEW a \in T, ~IsAncestor(L, a), a \notin ImmutableBlocks(e)
      PROVE  a \in StaleBlocks(e)
  <2>1. PICK t \in e.tips : IsAncestor(a, t)
    BY Zenon, <1>0
  <2>2. t \in T
    BY Zenon, <1>0
  <2>3. ~IsAncestor(a, L)
    BY Zenon, <1>0, <1>2, <1>4, <1>7
  <2>4. ~IsAncestor(L, t)
    BY <1>0, <1>2, <1>7, <2>1, <2>2, <2>3
  <2>5. t \in PrunableForks(e) /\ t # tip
    BY Zenon, <1>3, <2>4
  <2>6. Len(a) > Len(lca(t))
    <3>1. SUFFICES ASSUME Len(a) <= Len(lca(t)) PROVE FALSE
      BY <1>0, <1>1, <2>2
    <3>2. lca(t) \in T /\ IsAncestor(lca(t), tip) /\ IsAncestor(lca(t), t)
      BY Zenon, <1>1, <2>2
    <3>3. IsAncestor(a, lca(t))
      BY ZenonT(30), <1>2, <2>1, <2>2, <3>1, <3>2
    <3>4. IsAncestor(a, tip)
      BY <1>0, <1>2, <3>2, <3>3
    <3> QED
      BY <1>0, <1>2, <1>7, <2>3, <3>4
  <2> QED
    BY Zenon, <1>5, <2>1, <2>5, <2>6
<1>8. (T \ StaleBlocks(e)) \ ImmutableBlocks(e) = {b \in T : IsAncestor(L, b)}
  BY Zenon, <1>6, <1>7
<1>9. e.tips \ PrunableForks(e) = {t \in e.tips : IsAncestor(L, t)}
  BY Zenon, <1>3
<1>10. StaleBlocks(e) \subseteq T
  <2>1. ASSUME NEW t \in PrunableForks(e)
        PROVE  WalkBackTo(T, t, lca(t)) \subseteq T
    BY Zenon, <1>0, <1>1 DEF WalkBackTo, PrunableForks
  <2> HIDE DEF lca
  <2> QED
    BY Zenon, <2>1 DEF StaleBlocks, lca
<1>11. ASSUME NEW a \in StaleBlocks(e) PROVE ~IsAncestor(a, L)
  <2>1. PICK t \in PrunableForks(e) : IsAncestor(a, t) /\ Len(a) > Len(lca(t))
    BY Zenon, <1>5, <1>10
  <2>2. a \in T /\ t \in T
    BY Zenon, <1>0, <1>10 DEF PrunableForks
  <2>3. SUFFICES ASSUME IsAncestor(a, L) PROVE FALSE
    BY Zenon
  <2>4. IsAncestor(a, tip)
    BY Zenon, <1>0, <1>2, <2>2, <2>3
  <2>5. Len(a) <= Len(lca(t)) /\ lca(t) \in T
    BY Zenon, <1>1, <2>1, <2>2, <2>4
  <2> QED
    BY <1>0, <2>1, <2>2, <2>5
<1>12. StaleBlocks(e) = {b \in T : ~IsAncestor(b, L) /\ ~IsAncestor(L, b)}
  BY Zenon, <1>4, <1>6, <1>7, <1>10, <1>11
<1> QED
  BY Zenon, <1>4, <1>8, <1>9, <1>12

\* update_lib moves the LIB up the local chain, and whether it moves or not,
\* what is left are the descendants of the LIB, and what is reported is the rest.
LEMMA UpdateLibEffect ==
  ASSUME NEW e, EngineOK(e)
  PROVE  LET f == UpdateLib(e).engine
             pruned == UpdateLib(e).pruned
         IN  /\ f \in EngineType
             /\ f.lib \in e.branches
             /\ IsAncestor(e.lib, f.lib) /\ IsAncestor(f.lib, e.local_chain)
             /\ f.branches = {b \in e.branches : IsAncestor(f.lib, b)}
             /\ f.tips = {t \in e.tips : IsAncestor(f.lib, t)}
             /\ f.local_chain = e.local_chain /\ f.state = e.state
             /\ pruned \in PrunedType
             /\ pruned.stale = {b \in e.branches : /\ ~IsAncestor(b, f.lib)
                                                   /\ ~IsAncestor(f.lib, b)}
             /\ pruned.immutable =
                  OnePerSlot({b \in e.branches : IsAncestor(b, f.lib) /\ b # f.lib})
<1> DEFINE L == LibOf(e)
           m == [e EXCEPT !.lib = L]
           T == e.branches
<1>0. /\ e \in EngineType /\ T \subseteq Blocks /\ e.lib \in Blocks
      /\ e.tips \subseteq T /\ e.local_chain \in T
      /\ Rooted(T, e.lib) /\ \A c \in T : IsAncestor(e.lib, c)
  BY Zenon DEF EngineOK, EngineType, RootedAtLib, Rooted, TipsLeaves
<1>1. L \in T /\ L \in Blocks /\ IsAncestor(e.lib, L) /\ IsAncestor(L, e.local_chain)
  BY Zenon, <1>0, LibOfOK
<1> HIDE DEF L
<1>2. /\ m \in EngineType /\ m.branches = T /\ m.tips = e.tips /\ m.lib = L
      /\ m.local_chain = e.local_chain /\ m.state = e.state
  BY Zenon, <1>0, <1>1 DEF EngineType
<1> HIDE DEF m
<1>3. \A S \in SUBSET Blocks : OnePerSlot(S) \in SUBSET Blocks
  BY Zenon DEF OnePerSlot
<1>4. CASE L = e.lib
  <2>1. UpdateLib(e) = [engine |-> e, pruned |-> NothingPruned]
    BY Zenon, <1>2, <1>4 DEF UpdateLib, L, m
  <2>2. {b \in T : IsAncestor(b, L) /\ b # L} = {}
    BY <1>0, <1>4, AncestorOrder DEF Blocks
  <2>3. OnePerSlot({b \in T : IsAncestor(b, L) /\ b # L}) = {}
    BY Zenon, <2>2 DEF OnePerSlot
  <2> QED
    BY <1>0, <1>1, <1>4, <2>1, <2>3 DEF NothingPruned, PrunedType
<1>5. CASE L # e.lib
  <2>1. TipsLeaves(m)
    BY Zenon, <1>2 DEF EngineOK, TipsLeaves
  <2>2. /\ (T \ StaleBlocks(m)) \ ImmutableBlocks(m) = {b \in T : IsAncestor(L, b)}
        /\ e.tips \ PrunableForks(m) = {t \in e.tips : IsAncestor(L, t)}
        /\ ImmutableBlocks(m) = {b \in T : IsAncestor(b, L) /\ b # L}
        /\ StaleBlocks(m) = {b \in T : ~IsAncestor(b, L) /\ ~IsAncestor(L, b)}
    BY <1>0, <1>1, <1>2, <2>1, PruningLeavesDescendants
  <2>3. /\ UpdateLib(e).engine =
             [m EXCEPT !.branches = (@ \ StaleBlocks(m)) \ ImmutableBlocks(m),
                       !.tips = @ \ PrunableForks(m)]
        /\ UpdateLib(e).pruned = [stale |-> StaleBlocks(m),
                                  immutable |-> OnePerSlot(ImmutableBlocks(m))]
    BY Zenon, <1>2, <1>5 DEF UpdateLib, L, m
  <2>4. LET f == UpdateLib(e).engine
        IN  /\ f \in EngineType
            /\ f.branches = {b \in T : IsAncestor(L, b)}
            /\ f.tips = {t \in e.tips : IsAncestor(L, t)}
            /\ f.lib = L /\ f.local_chain = e.local_chain /\ f.state = e.state
    <3> DEFINE B == {b \in T : IsAncestor(L, b)}
               P == {t \in e.tips : IsAncestor(L, t)}
    <3>1. UpdateLib(e).engine = [[m EXCEPT !.branches = B] EXCEPT !.tips = P]
      BY Zenon, <1>2, <2>2, <2>3 DEF EngineType
    <3>2. B \in SUBSET Blocks /\ P \in SUBSET Blocks
      BY Zenon, <1>0
    <3> HIDE DEF B, P
    <3>3. /\ UpdateLib(e).engine \in EngineType
          /\ UpdateLib(e).engine.branches = B /\ UpdateLib(e).engine.tips = P
          /\ UpdateLib(e).engine.lib = m.lib
          /\ UpdateLib(e).engine.local_chain = m.local_chain
          /\ UpdateLib(e).engine.state = m.state
      BY Zenon, <1>2, <3>1, <3>2 DEF EngineType
    <3> QED
      BY Zenon, <1>2, <3>3 DEF B, P
  <2>5. /\ StaleBlocks(m) \in SUBSET Blocks /\ ImmutableBlocks(m) \in SUBSET Blocks
        /\ OnePerSlot(ImmutableBlocks(m)) \in SUBSET Blocks
    BY Zenon, <1>0, <1>3, <2>2
  <2>6. UpdateLib(e).pruned \in PrunedType
    BY <2>3, <2>5 DEF PrunedType
  <2>7. /\ UpdateLib(e).pruned.stale = StaleBlocks(m)
        /\ UpdateLib(e).pruned.immutable = OnePerSlot(ImmutableBlocks(m))
    BY <2>3
  <2> QED
    BY Zenon, <1>1, <2>2, <2>4, <2>6, <2>7
<1> QED
  BY Zenon, <1>4, <1>5

\* update_lib keeps the engine well formed.
LEMMA UpdateLibOK ==
  ASSUME NEW e, EngineOK(e)
  PROVE  EngineOK(UpdateLib(e).engine)
<1> DEFINE f == UpdateLib(e).engine
           T == e.branches
           L == f.lib
<1>0. /\ T \subseteq Blocks /\ e.tips \subseteq T /\ e.local_chain \in T /\ e.lib \in T
      /\ \A c \in T : \A n \in Len(e.lib)..Len(c) : AtLength(c, n) \in T
      /\ \A t \in e.tips : \A c \in T : IsAncestor(t, c) => c = t
      /\ \A c \in T : \E t \in e.tips : IsAncestor(c, t)
  BY Zenon DEF EngineOK, EngineType, RootedAtLib, Rooted, TipsLeaves
<1>1. /\ f \in EngineType /\ L \in T
      /\ IsAncestor(e.lib, L) /\ IsAncestor(L, e.local_chain)
      /\ f.branches = {b \in T : IsAncestor(L, b)}
      /\ f.tips = {t \in e.tips : IsAncestor(L, t)}
      /\ f.local_chain = e.local_chain
  BY Zenon, UpdateLibEffect
<1> HIDE DEF f
<1>2. RootedAtLib(f)
  <2>1. L \in f.branches
    BY <1>0, <1>1, AncestorOrder DEF Blocks
  <2>2. ASSUME NEW b \in f.branches, NEW n \in Len(L)..Len(b)
        PROVE  AtLength(b, n) \in f.branches
    <3>1. /\ b \in T /\ b \in Blocks /\ IsAncestor(L, b)
          /\ Len(e.lib) \in Nat /\ Len(L) \in Nat /\ Len(b) \in Nat
          /\ Len(e.lib) <= Len(L)
      BY SMTT(20), <1>0, <1>1 DEF Blocks, IsAncestor
    <3>2. n \in 0..Len(b) /\ n \in Len(e.lib)..Len(b) /\ Len(L) <= n
      BY <3>1
    <3>3. AtLength(b, n) \in T /\ AtLength(b, n) \in Blocks
      BY Zenon, <1>0, <3>1, <3>2
    <3>4. IsAncestor(AtLength(b, n), b) /\ Len(AtLength(b, n)) = n
      BY Zenon, <3>1, <3>2, AtLengthProperties DEF Blocks
    <3>5. IsAncestor(L, AtLength(b, n))
      BY <1>0, <1>1, <3>1, <3>2, <3>3, <3>4, AncestorOrder DEF Blocks
    <3> QED
      BY Zenon, <1>1, <3>3, <3>5
  <2> QED
    BY Zenon, <1>0, <1>1, <2>1, <2>2 DEF RootedAtLib, Rooted
<1>3. TipsLeaves(f)
  <2>1. ASSUME NEW b \in f.branches PROVE \E t \in f.tips : IsAncestor(b, t)
    <3>1. b \in T /\ IsAncestor(L, b)
      BY Zenon, <1>1
    <3>2. PICK t \in e.tips : IsAncestor(b, t)
      BY Zenon, <1>0, <3>1
    <3>3. IsAncestor(L, t)
      BY <1>0, <1>1, <3>1, <3>2, AncestorOrder DEF Blocks
    <3> QED
      BY Zenon, <1>1, <3>2, <3>3
  <2> QED
    BY Zenon, <1>0, <1>1, <2>1 DEF TipsLeaves
<1>4. IsFiniteSet(f.branches) /\ SlotsRise(f.branches)
  <2>1. f.branches \subseteq T /\ IsFiniteSet(T) /\ SlotsRise(T)
    BY Zenon, <1>1 DEF EngineOK
  <2> QED
    BY Zenon, <2>1, FS_Subset DEF SlotsRise
<1> QED
  BY Zenon, <1>1, <1>2, <1>3, <1>4 DEF EngineOK, f

\* Receiving b leads from e over a, which has the block, and c, which follows
\* the tip fork choice chose, to the outcome r.
ReceivedVia(e, b, r, a, c, tip) ==
    /\ EngineOK(a) /\ a.branches = e.branches \cup {b}
    /\ a.local_chain = e.local_chain /\ a.lib = e.lib /\ a.state = e.state
    /\ tip \in ForkChoices(a) /\ tip \in a.tips /\ tip \in a.branches
    /\ EngineOK(c) /\ c.branches = a.branches /\ c.tips = a.tips
    /\ c.lib = e.lib /\ c.local_chain = tip
    /\ r.engine = UpdateLib(c).engine /\ r.pruned = UpdateLib(c).pruned
    /\ LET lca == Lca(a.branches, e.local_chain, tip)
       IN  /\ r.reorged = IF tip = e.local_chain THEN {}
                          ELSE WalkBackTo(a.branches, e.local_chain, lca)
           /\ r.newly_canonical = IF tip = e.local_chain THEN {}
                                  ELSE WalkBackTo(a.branches, tip, lca)

\* receive_block step by step: apply_header gives a, fork choice moves it to tip,
\* which gives c, and update_lib ends the call.
LEMMA ReceiveSteps ==
  ASSUME NEW e, EngineOK(e), NEW p \in e.branches, NEW h \in Headers,
         Append(p, h) \notin e.branches, SlotOf(p) < SlotOf(Append(p, h)),
         NEW r \in ReceiveOutcomes(e, Append(p, h))
  PROVE  \E a, c, tip : ReceivedVia(e, Append(p, h), r, a, c, tip)
<1> DEFINE b == Append(p, h)
           a == ApplyHeader(e, b)
<1>1. /\ EngineOK(a) /\ a.branches = e.branches \cup {b} /\ a.lib = e.lib
      /\ a.local_chain = e.local_chain /\ a.state = e.state
  <2>1. EngineOK(a)
    BY Zenon, ApplyHeaderOK
  <2>2. /\ a.branches = e.branches \cup {b} /\ a.lib = e.lib
        /\ a.local_chain = e.local_chain /\ a.state = e.state
    BY ApplyHeaderOK
  <2> QED
    BY Zenon, <2>1, <2>2
<1> HIDE DEF a
<1>2. PICK tip \in ForkChoices(a) : r = Outcome(e, a, tip)
  BY Zenon DEF ReceiveOutcomes, a
<1> DEFINE c == [a EXCEPT !.local_chain = tip]
<1>3. tip \in a.tips /\ tip \in a.branches
  BY Zenon, <1>1, ForkChoicesOK DEF EngineOK, TipsLeaves
<1>4. a \in EngineType /\ a.branches \subseteq Blocks
  BY Zenon, <1>1 DEF EngineOK, EngineType
<1>5. /\ c \in EngineType /\ c.branches = a.branches /\ c.tips = a.tips
      /\ c.lib = a.lib /\ c.local_chain = tip
  BY Zenon, <1>3, <1>4 DEF EngineType
<1>6. /\ r.engine = UpdateLib(c).engine /\ r.pruned = UpdateLib(c).pruned
      /\ r.reorged = IF tip = e.local_chain THEN {}
                     ELSE WalkBackTo(a.branches, e.local_chain,
                                     Lca(a.branches, e.local_chain, tip))
      /\ r.newly_canonical = IF tip = e.local_chain THEN {}
                             ELSE WalkBackTo(a.branches, tip,
                                             Lca(a.branches, e.local_chain, tip))
  BY Zenon, <1>2 DEF Outcome
<1> HIDE DEF c
<1>7. EngineOK(c)
  BY Zenon, <1>1, <1>3, <1>5 DEF EngineOK, RootedAtLib, TipsLeaves
<1>8. ReceivedVia(e, b, r, a, c, tip)
  BY Zenon, <1>1, <1>2, <1>3, <1>5, <1>6, <1>7 DEF ReceivedVia
<1> QED
  BY Zenon, <1>8

\* receive_block keeps the engine well formed, whichever tip fork choice
\* answers, and moves the LIB up its own chain.
LEMMA ReceiveOK ==
  ASSUME NEW e, EngineOK(e), NEW p \in e.branches, NEW h \in Headers,
         Append(p, h) \notin e.branches, SlotOf(p) < SlotOf(Append(p, h)),
         NEW r \in ReceiveOutcomes(e, Append(p, h))
  PROVE  /\ EngineOK(r.engine)
         /\ IsAncestor(e.lib, r.engine.lib)
         /\ ReportOf(Append(p, h), r) \in OutcomeType
<1> DEFINE b == Append(p, h)
<1>0. PICK a, c, tip : ReceivedVia(e, b, r, a, c, tip)
  BY Zenon, ReceiveSteps
<1>1. /\ EngineOK(a) /\ a.branches = e.branches \cup {b}
      /\ a.local_chain = e.local_chain /\ tip \in a.branches
      /\ EngineOK(c) /\ c.lib = e.lib
      /\ r.engine = UpdateLib(c).engine /\ r.pruned = UpdateLib(c).pruned
      /\ LET lca == Lca(a.branches, e.local_chain, tip)
         IN  /\ r.reorged = IF tip = e.local_chain THEN {}
                            ELSE WalkBackTo(a.branches, e.local_chain, lca)
             /\ r.newly_canonical = IF tip = e.local_chain THEN {}
                                    ELSE WalkBackTo(a.branches, tip, lca)
  BY Zenon, <1>0 DEF ReceivedVia
<1>2. /\ EngineOK(UpdateLib(c).engine) /\ IsAncestor(c.lib, UpdateLib(c).engine.lib)
      /\ UpdateLib(c).pruned \in PrunedType
  BY Zenon, <1>1, UpdateLibOK, UpdateLibEffect
<1>3. a.branches \subseteq Blocks /\ e.local_chain \in a.branches
  BY Zenon, <1>1 DEF EngineOK, EngineType, RootedAtLib
<1>4. ASSUME NEW d \in a.branches, NEW t PROVE WalkBackTo(a.branches, d, t) \subseteq Blocks
  BY Zenon, <1>1, <1>3, WalkInRootedTree DEF WalkBackTo, EngineOK, RootedAtLib, Blocks
<1>5. r.reorged \in SUBSET Blocks /\ r.newly_canonical \in SUBSET Blocks
  <2> DEFINE lca == Lca(a.branches, e.local_chain, tip)
  <2>1. /\ WalkBackTo(a.branches, e.local_chain, lca) \in SUBSET Blocks
        /\ WalkBackTo(a.branches, tip, lca) \in SUBSET Blocks /\ {} \in SUBSET Blocks
    BY Zenon, <1>1, <1>3, <1>4
  <2>2. /\ r.reorged \in {{}, WalkBackTo(a.branches, e.local_chain, lca)}
        /\ r.newly_canonical \in {{}, WalkBackTo(a.branches, tip, lca)}
    BY Zenon, <1>1
  <2> HIDE DEF lca
  <2> QED  BY Zenon, <2>1, <2>2
<1>6. ReportOf(b, r) \in OutcomeType
  <2>1. {b} \in SUBSET Blocks
    BY Zenon, <1>1, <1>3
  <2> HIDE DEF b
  <2> QED
    BY Zenon, <1>1, <1>2, <1>5, <2>1 DEF ReportOf, OutcomeType
<1> QED
  BY Zenon, <1>1, <1>2, <1>6

\* online() hands a well formed engine to update_lib.
LEMMA OnlineReady ==
  ASSUME NEW e, EngineOK(e)
  PROVE  LET c == [e EXCEPT !.state = "Online"]
         IN  /\ EngineOK(c) /\ c \in EngineType
             /\ c.branches = e.branches /\ c.tips = e.tips
             /\ c.lib = e.lib /\ c.local_chain = e.local_chain
<1> DEFINE c == [e EXCEPT !.state = "Online"]
<1>1. e \in EngineType
  BY Zenon DEF EngineOK
<1>2. /\ c \in EngineType /\ c.branches = e.branches /\ c.tips = e.tips
      /\ c.lib = e.lib /\ c.local_chain = e.local_chain
  BY Zenon, <1>1 DEF EngineType, States
<1> HIDE DEF c
<1>3. EngineOK(c)
  BY Zenon, <1>2 DEF EngineOK, RootedAtLib, TipsLeaves
<1> QED
  BY Zenon, <1>2, <1>3 DEF c

\* online() keeps the engine well formed and moves the LIB up its own chain.
LEMMA OnlineOK ==
  ASSUME NEW e, EngineOK(e)
  PROVE  /\ EngineOK(GoOnline(e).engine)
         /\ IsAncestor(e.lib, GoOnline(e).engine.lib)
         /\ GoOnline(e).pruned \in PrunedType
<1> DEFINE c == [e EXCEPT !.state = "Online"]
<1>1. EngineOK(c) /\ c.lib = e.lib
  BY Zenon, OnlineReady
<1> HIDE DEF c
<1> QED
  BY Zenon, <1>1, UpdateLibOK, UpdateLibEffect DEF GoOnline, c

\* IInv holds initially.
LEMMA InitIInv == Init => IInv
<1> SUFFICES ASSUME Init PROVE IInv
  BY Zenon
<1>1. PICK lib \in RecoveredLibs, state \in States : engine = FromLib(lib, state)
  BY Zenon DEF Init
<1>2. lib \in Blocks
  BY Zenon, EngineAssumption DEF Blocks
<1>3. outcome \in OutcomeType
  BY Zenon DEF Init, NoOutcome, NothingPruned, OutcomeType, PrunedType
<1> QED
  BY Zenon, <1>1, <1>2, <1>3, FromLibOK DEF IInv

\* Every step keeps IInv, and moves the LIB up its own chain.
LEMMA NextIInv ==
  ASSUME IInv, [Next]_vars
  PROVE  IInv' /\ IsAncestor(engine.lib, engine'.lib)
<1>0. EngineOK(engine) /\ outcome \in OutcomeType /\ engine.lib \in Blocks
  BY Zenon DEF IInv, EngineOK, EngineType
<1>1. ASSUME NEW parent \in engine.branches, NEW header \in Headers,
             ReceiveBlock(parent, header)
      PROVE  IInv' /\ IsAncestor(engine.lib, engine'.lib)
  <2>1. /\ Append(parent, header) \notin engine.branches
        /\ SlotOf(parent) < SlotOf(Append(parent, header))
    BY Zenon, <1>1 DEF ReceiveBlock
  <2>2. PICK r \in ReceiveOutcomes(engine, Append(parent, header)) :
          engine' = r.engine /\ outcome' = ReportOf(Append(parent, header), r)
    BY Zenon, <1>1 DEF ReceiveBlock
  <2> QED
    BY Zenon, <1>0, <2>1, <2>2, ReceiveOK DEF IInv
<1>2. CASE Online
  <2>1. /\ engine' = GoOnline(engine).engine
        /\ outcome' = [NoOutcome EXCEPT !.pruned = GoOnline(engine).pruned]
    BY Zenon, <1>2 DEF Online
  <2>2. /\ EngineOK(GoOnline(engine).engine) /\ GoOnline(engine).pruned \in PrunedType
        /\ IsAncestor(engine.lib, GoOnline(engine).engine.lib)
    BY Zenon, <1>0, OnlineOK
  <2>3. outcome' \in OutcomeType
    BY Zenon, <2>1, <2>2 DEF NoOutcome, OutcomeType
  <2> QED
    BY Zenon, <2>1, <2>2, <2>3 DEF IInv
<1>3. CASE UNCHANGED vars
  <2>1. IsAncestor(engine.lib, engine.lib)
    BY Zenon, <1>0, AncestorOrder DEF Blocks
  <2> QED
    BY Zenon, <1>0, <1>3, <2>1 DEF IInv, vars
<1> QED
  BY Zenon, <1>1, <1>2, <1>3 DEF Next

\* The engine and what receive_block and online return are always well typed.
THEOREM TypeCorrect == Spec => []TypeOK
<1>1. IInv => TypeOK
  BY Zenon DEF IInv, EngineOK, TypeOK
<1> QED
  BY <1>1, InitIInv, NextIInv, PTL DEF Spec

\* The tree is always one tree rooted at the LIB, so the common ancestors that
\* fork choice and pruning "expect" exist; its tips are always its leaves.
THEOREM TreeCorrect == Spec => []TreeIsSound
<1>1. IInv => TreeIsSound
  BY Zenon DEF IInv, EngineOK, TreeIsSound, TreeRootedAtLib, TipsAreLeaves
<1> QED
  BY <1>1, InitIInv, NextIInv, PTL DEF Spec

\* The engine implements the append-only log of final blocks.
THEOREM EngineIsFinal == Spec => LibIsFinal
<1>1. Init => Finality!Init
  <2> SUFFICES ASSUME Init PROVE Finality!Init
    BY Zenon
  <2>1. IInv
    BY Zenon, InitIInv
  <2> QED
    BY Zenon, <2>1 DEF IInv, EngineOK, EngineType, Blocks, Finality!Init
<1>2. ASSUME IInv, [Next]_vars PROVE [Finality!Extend]_(engine.lib)
  <2>1. IInv' /\ IsAncestor(engine.lib, engine'.lib)
    BY Zenon, <1>2, NextIInv
  <2>2. engine.lib \in Blocks /\ engine'.lib \in Blocks
    BY Zenon, <1>2, <2>1 DEF IInv, EngineOK, EngineType
  <2>3. Len(engine.lib) \in Nat /\ Len(engine'.lib) \in Nat
    BY <2>2 DEF Blocks
  <2>4. CASE Len(engine.lib) = Len(engine'.lib)
    BY Zenon, <2>1, <2>2, <2>4, AncestorOrder DEF Blocks
  <2>5. CASE Len(engine.lib) # Len(engine'.lib)
    BY <2>1, <2>2, <2>3, <2>5 DEF Finality!Extend, IsAncestor, Blocks
  <2> QED
    BY Zenon, <2>4, <2>5
<1> QED
  BY <1>1, <1>2, InitIInv, NextIInv, PTL DEF Spec, LibIsFinal, Finality!Spec

\* The canonical chain of a block are its ancestors.
LEMMA CanonicalIsAncestors ==
  ASSUME NEW b \in Blocks
  PROVE  Canonical(b) = {a \in Blocks : IsAncestor(a, b)}
<1>1. ASSUME NEW a \in Canonical(b) PROVE a \in Blocks /\ IsAncestor(a, b)
  BY Zenon, AtLengthProperties DEF Canonical, Length, Blocks
<1>2. ASSUME NEW a \in Blocks, IsAncestor(a, b) PROVE a \in Canonical(b)
  BY Zenon, <1>2, AncestorByLength DEF Canonical, Length, Blocks
<1> QED
  BY Zenon, <1>1, <1>2

\* The blocks of two chains above their common ancestor are what a switch from
\* one to the other undoes and adds.
LEMMA SwitchExact ==
  ASSUME NEW T, T \subseteq Blocks, NEW r, Rooted(T, r), NEW old \in T, NEW new \in T
  PROVE  LET lca == Lca(T, old, new)
             undone == WalkBackTo(T, old, lca)
             added == WalkBackTo(T, new, lca)
         IN  /\ undone = {a \in T : IsAncestor(a, old) /\ Len(a) > Len(lca)}
             /\ undone \subseteq Canonical(old)
             /\ added \cap Canonical(old) = {}
             /\ Canonical(new) = (Canonical(old) \ undone) \cup added
<1> DEFINE lca == Lca(T, old, new)
           undone == WalkBackTo(T, old, lca)
           added == WalkBackTo(T, new, lca)
<1>1. /\ lca \in T /\ IsAncestor(lca, old) /\ IsAncestor(lca, new)
      /\ \A a \in T : IsAncestor(a, old) /\ IsAncestor(a, new) => Len(a) <= Len(lca)
  BY Zenon, LcaInRootedTree DEF Blocks
<1> HIDE DEF lca
<1>2. ASSUME NEW b \in T, IsAncestor(lca, b)
      PROVE  WalkBackTo(T, b, lca) = {a \in T : IsAncestor(a, b) /\ Len(a) > Len(lca)}
  <2>1. /\ Walk(T, b) \subseteq T
        /\ \A a \in T : a \in Walk(T, b) <=> IsAncestor(a, b)
    BY Zenon, WalkInRootedTree DEF Blocks
  <2> QED
    BY Zenon, <1>1, <1>2, <2>1 DEF WalkBackTo
<1>3. /\ undone = {a \in T : IsAncestor(a, old) /\ Len(a) > Len(lca)}
      /\ added = {a \in T : IsAncestor(a, new) /\ Len(a) > Len(lca)}
  BY Zenon, <1>1, <1>2
<1> HIDE DEF undone, added
<1>4. /\ Canonical(old) = {a \in Blocks : IsAncestor(a, old)}
      /\ Canonical(new) = {a \in Blocks : IsAncestor(a, new)}
  BY Zenon, CanonicalIsAncestors
<1>5. \A a \in Blocks : Len(a) \in Nat
  BY DEF Blocks
<1>6. ASSUME NEW a \in Blocks, NEW b \in T, IsAncestor(a, b), Len(a) > Len(lca)
      PROVE  a \in T
  <2>1. a = AtLength(b, Len(a)) /\ Len(a) \in 0..Len(b)
    BY Zenon, <1>6, AncestorByLength DEF Blocks
  <2>2. Len(r) \in Nat /\ Len(r) <= Len(lca)
    BY Zenon, <1>1, <1>5 DEF Rooted, IsAncestor
  <2>3. Len(a) \in Len(r)..Len(b)
    BY <1>1, <1>5, <1>6, <2>1, <2>2
  <2> QED
    BY Zenon, <2>1, <2>3 DEF Rooted
<1>7. ASSUME NEW a \in Blocks, NEW b \in T, NEW d \in T, IsAncestor(lca, b), IsAncestor(lca, d),
             IsAncestor(a, b), Len(a) <= Len(lca)
      PROVE  IsAncestor(a, d)
  <2>1. IsAncestor(a, lca)
    BY Zenon, <1>1, <1>7, AncestorOrder DEF Blocks
  <2> QED
    BY Zenon, <1>1, <1>7, <2>1, AncestorOrder DEF Blocks
<1>8. undone \subseteq Canonical(old) /\ added \cap Canonical(old) = {}
  <2>1. ASSUME NEW a \in added, IsAncestor(a, old) PROVE FALSE
    BY <1>1, <1>3, <1>5, <2>1
  <2> QED
    BY Zenon, <1>3, <1>4, <2>1
<1>9. ASSUME NEW a \in Canonical(new) PROVE a \in (Canonical(old) \ undone) \cup added
  <2>1. a \in Blocks /\ IsAncestor(a, new)
    BY Zenon, <1>4
  <2>2. CASE Len(a) > Len(lca)
    BY Zenon, <1>3, <1>6, <2>1, <2>2
  <2>3. CASE Len(a) <= Len(lca)
    BY Zenon, <1>1, <1>3, <1>4, <1>5, <1>7, <2>1, <2>3
  <2> QED
    BY <1>1, <1>5, <2>1, <2>2, <2>3
<1>10. ASSUME NEW a \in (Canonical(old) \ undone) \cup added PROVE a \in Canonical(new)
  <2>1. CASE a \in added
    BY Zenon, <1>3, <1>4, <2>1
  <2>2. CASE a \in Canonical(old) \ undone
    <3>1. a \in Blocks /\ IsAncestor(a, old)
      BY Zenon, <1>4, <2>2
    <3>2. Len(a) <= Len(lca)
      BY <1>1, <1>3, <1>5, <1>6, <2>2, <3>1
    <3> QED
      BY Zenon, <1>1, <1>4, <1>7, <3>1, <3>2
  <2> QED
    BY Zenon, <2>1, <2>2
<1> QED
  BY Zenon, <1>3, <1>8, <1>9, <1>10 DEF undone, added, lca

\* What receive_block reports of a canonical change is exact.
THEOREM CanonicalChangeIsExact == Spec => CanonicalChangeExact
<1>1. ASSUME IInv, [Next]_vars PROVE [ReportsChange]_vars
  <2>0. EngineOK(engine) /\ engine.local_chain \in Blocks
    BY Zenon, <1>1 DEF IInv, EngineOK, EngineType
  <2>1. ASSUME NEW parent \in engine.branches, NEW header \in Headers,
               ReceiveBlock(parent, header)
        PROVE  ReportsChange
    <3> DEFINE b == Append(parent, header)
    <3>1. b \notin engine.branches /\ SlotOf(parent) < SlotOf(b)
      BY Zenon, <2>1 DEF ReceiveBlock
    <3>2. PICK r \in ReceiveOutcomes(engine, b) : engine' = r.engine /\ outcome' = ReportOf(b, r)
      BY Zenon, <2>1 DEF ReceiveBlock
    <3>0. PICK a, c, tip : ReceivedVia(engine, b, r, a, c, tip)
      BY Zenon, <2>0, <3>1, ReceiveSteps
    <3>3. /\ EngineOK(a) /\ a.local_chain = engine.local_chain /\ tip \in a.branches
          /\ EngineOK(c) /\ c.local_chain = tip /\ r.engine = UpdateLib(c).engine
          /\ LET lca == Lca(a.branches, engine.local_chain, tip)
             IN  /\ r.reorged = IF tip = engine.local_chain THEN {}
                                ELSE WalkBackTo(a.branches, engine.local_chain, lca)
                 /\ r.newly_canonical = IF tip = engine.local_chain THEN {}
                                        ELSE WalkBackTo(a.branches, tip, lca)
      BY Zenon, <3>0 DEF ReceivedVia
    <3>4. engine'.local_chain = tip
      BY ZenonT(30), <3>2, <3>3, UpdateLibEffect
    <3>5. outcome'.reorged = r.reorged /\ outcome'.newly_canonical = r.newly_canonical
      BY Zenon, <3>2 DEF ReportOf
    <3>6. CASE tip = engine.local_chain
      BY Zenon, <3>3, <3>4, <3>5, <3>6 DEF ReportsChange
    <3>7. CASE tip # engine.local_chain
      <4>1. /\ a.branches \subseteq Blocks /\ Rooted(a.branches, a.lib)
            /\ engine.local_chain \in a.branches
        BY Zenon, <3>3 DEF EngineOK, EngineType, RootedAtLib
      <4> DEFINE lca == Lca(a.branches, engine.local_chain, tip)
                 undone == WalkBackTo(a.branches, engine.local_chain, lca)
                 added == WalkBackTo(a.branches, tip, lca)
      <4>2. /\ undone \subseteq Canonical(engine.local_chain)
            /\ added \cap Canonical(engine.local_chain) = {}
            /\ Canonical(tip) = (Canonical(engine.local_chain) \ undone) \cup added
        BY ZenonT(30), <3>3, <4>1, SwitchExact
      <4>3. outcome'.reorged = undone /\ outcome'.newly_canonical = added
        BY Zenon, <3>3, <3>5, <3>7
      <4> HIDE DEF undone, added
      <4> QED
        BY Zenon, <3>4, <4>2, <4>3 DEF ReportsChange
    <3> QED
      BY Zenon, <3>6, <3>7
  <2>2. CASE Online
    <3> DEFINE c == [engine EXCEPT !.state = "Online"]
    <3>1. c \in EngineType /\ c.local_chain = engine.local_chain /\ EngineOK(c)
      BY Zenon, <2>0, OnlineReady
    <3>2. engine' = UpdateLib(c).engine /\ outcome'.reorged = {} /\ outcome'.newly_canonical = {}
      BY Zenon, <2>2 DEF Online, GoOnline, NoOutcome
    <3> HIDE DEF c
    <3>3. engine'.local_chain = engine.local_chain
      BY Zenon, <3>1, <3>2, UpdateLibEffect
    <3> QED
      BY Zenon, <3>2, <3>3 DEF ReportsChange
  <2>3. CASE UNCHANGED vars
    BY Zenon, <2>3
  <2> QED
    BY Zenon, <1>1, <2>1, <2>2, <2>3 DEF Next
<1> QED
  BY <1>1, InitIInv, NextIInv, PTL DEF Spec, CanonicalChangeExact

\* update_lib reports every block it removes once: no two immutable blocks have
\* one slot, so none is lost in the map from slots to blocks.
LEMMA PrunedExact ==
  ASSUME NEW e, EngineOK(e)
  PROVE  LET f == UpdateLib(e).engine
             pruned == UpdateLib(e).pruned
             gone == e.branches \ f.branches
         IN  /\ pruned.immutable = {b \in gone : IsAncestor(b, f.lib)}
             /\ pruned.stale = {b \in gone : ~IsAncestor(b, f.lib)}
<1> DEFINE f == UpdateLib(e).engine
           pruned == UpdateLib(e).pruned
           L == f.lib
           T == e.branches
           below == {b \in T : IsAncestor(b, L) /\ b # L}
<1>1. /\ L \in T /\ f.branches = {b \in T : IsAncestor(L, b)}
      /\ pruned.stale = {b \in T : ~IsAncestor(b, L) /\ ~IsAncestor(L, b)}
      /\ pruned.immutable = OnePerSlot(below)
  BY Zenon, UpdateLibEffect
<1> HIDE DEF f, pruned
<1>2. T \subseteq Blocks /\ SlotsRise(T)
  BY Zenon DEF EngineOK, EngineType
<1>3. ASSUME NEW b \in below, NEW c \in below, SlotOf(c) = SlotOf(b)
      PROVE  Length(b) <= Length(c)
  <2>1. /\ b \in T /\ c \in T /\ IsAncestor(b, L) /\ IsAncestor(c, L)
        /\ Len(b) \in Nat /\ Len(c) \in Nat
    BY <1>2 DEF Blocks
  <2>2. SUFFICES ASSUME Len(c) < Len(b) PROVE FALSE
    BY <2>1 DEF Length
  <2>3. IsAncestor(c, b) /\ c # b
    BY <1>1, <1>2, <2>1, <2>2, AncestorOrder DEF Blocks
  <2>4. SlotOf(c) < SlotOf(b) /\ SlotOf(b) \in Nat
    BY Zenon, <1>2, <2>1, <2>3, SecurityParamAtBlock DEF SlotsRise
  <2> QED
    BY <1>3, <2>4
<1>4. OnePerSlot(below) = below
  BY Zenon, <1>3 DEF OnePerSlot
<1>5. ASSUME NEW b \in T, IsAncestor(b, L) PROVE b # L <=> ~IsAncestor(L, b)
  BY ZenonT(30), <1>1, <1>2, <1>5, AncestorOrder DEF Blocks
<1> QED
  BY Zenon, <1>1, <1>4, <1>5 DEF f, pruned

\* Every block that leaves the tree is reported, as immutable or as stale, and
\* nothing else is.
THEOREM PruningIsExact == Spec => PruningExact
<1>1. ASSUME IInv, [Next]_vars PROVE [ReportsPruned]_vars
  <2>0. EngineOK(engine)
    BY Zenon, <1>1 DEF IInv
  <2>1. ASSUME NEW parent \in engine.branches, NEW header \in Headers,
               ReceiveBlock(parent, header)
        PROVE  ReportsPruned
    <3> DEFINE b == Append(parent, header)
    <3>1. b \notin engine.branches /\ SlotOf(parent) < SlotOf(b)
      BY Zenon, <2>1 DEF ReceiveBlock
    <3>2. PICK r \in ReceiveOutcomes(engine, b) : engine' = r.engine /\ outcome' = ReportOf(b, r)
      BY Zenon, <2>1 DEF ReceiveBlock
    <3>0. PICK a, c, tip : ReceivedVia(engine, b, r, a, c, tip)
      BY Zenon, <2>0, <3>1, ReceiveSteps
    <3>3. /\ a.branches = engine.branches \cup {b}
          /\ EngineOK(c) /\ c.branches = a.branches
          /\ r.engine = UpdateLib(c).engine /\ r.pruned = UpdateLib(c).pruned
      BY Zenon, <3>0 DEF ReceivedVia
    <3>4. outcome'.received = {b} /\ outcome'.pruned = UpdateLib(c).pruned
      BY Zenon, <3>2, <3>3 DEF ReportOf
    <3> QED
      BY <3>2, <3>3, <3>4, PrunedExact DEF ReportsPruned
  <2>2. CASE Online
    <3> DEFINE c == [engine EXCEPT !.state = "Online"]
    <3>1. EngineOK(c) /\ c.branches = engine.branches
      BY Zenon, <2>0, OnlineReady
    <3>2. /\ engine' = UpdateLib(c).engine
          /\ outcome'.pruned = UpdateLib(c).pruned /\ outcome'.received = {}
      BY Zenon, <2>2 DEF Online, GoOnline, NoOutcome
    <3> HIDE DEF c
    <3> QED
      BY <3>1, <3>2, PrunedExact DEF ReportsPruned
  <2>3. CASE UNCHANGED vars
    BY Zenon, <2>3
  <2> QED
    BY Zenon, <1>1, <2>1, <2>2, <2>3 DEF Next
<1> QED
  BY <1>1, InitIInv, NextIInv, PTL DEF Spec, PruningExact

\* The common ancestor of two blocks above L is the same in the tree of the
\* blocks above L.
LEMMA LcaAboveLib ==
  ASSUME NEW e, EngineOK(e),
         NEW b1 \in UpdateLib(e).engine.branches, NEW b2 \in UpdateLib(e).engine.branches
  PROVE  Lca(UpdateLib(e).engine.branches, b1, b2) = Lca(e.branches, b1, b2)
<1> DEFINE f == UpdateLib(e).engine
           T == e.branches
           l == Lca(T, b1, b2)
<1>1. f.lib \in T /\ f.branches = {b \in T : IsAncestor(f.lib, b)}
  BY Zenon, UpdateLibEffect
<1>2. Rooted(f.branches, f.lib)
  BY Zenon, UpdateLibOK DEF EngineOK, RootedAtLib
<1> HIDE DEF f
<1>3. /\ T \subseteq Blocks /\ Rooted(T, e.lib) /\ b1 \in T /\ b2 \in T
      /\ IsAncestor(f.lib, b1) /\ IsAncestor(f.lib, b2)
  BY Zenon, <1>1 DEF EngineOK, EngineType, RootedAtLib, f
<1>4. /\ l \in T /\ IsAncestor(l, b1) /\ IsAncestor(l, b2)
      /\ \A a \in T : IsAncestor(a, b1) /\ IsAncestor(a, b2) => Len(a) <= Len(l)
  BY Zenon, <1>3, LcaInRootedTree DEF Blocks
<1> HIDE DEF l
<1>5. l \in f.branches
  BY Zenon, <1>1, <1>3, <1>4, AncestorOrder DEF Blocks
<1>6. f.branches \subseteq Seq(Headers) /\ b1 \in f.branches /\ b2 \in f.branches
  BY Zenon, <1>1, <1>3 DEF Blocks, f
<1>7. Lca(f.branches, b1, b2) = l
  BY ZenonT(30), <1>1, <1>2, <1>4, <1>5, <1>6, LcaUnique
<1> QED
  BY Zenon, <1>7 DEF f, l

\* One pass over the tips settles fork choice.
THEOREM ForkChoiceSettles == Spec => ForkChoiceSettled
<1>1. ASSUME IInv, [Next]_vars PROVE [OnePassSettles]_vars
  <2>0. EngineOK(engine)
    BY Zenon, <1>1 DEF IInv
  <2>1. ASSUME NEW parent \in engine.branches, NEW header \in Headers,
               ReceiveBlock(parent, header)
        PROVE  OnePassSettles
    <3> DEFINE b == Append(parent, header)
    <3>1. b \notin engine.branches /\ SlotOf(parent) < SlotOf(b)
      BY Zenon, <2>1 DEF ReceiveBlock
    <3>2. PICK r \in ReceiveOutcomes(engine, b) : engine' = r.engine /\ outcome' = ReportOf(b, r)
      BY Zenon, <2>1 DEF ReceiveBlock
    <3>0. PICK a, c, tip : ReceivedVia(engine, b, r, a, c, tip)
      BY Zenon, <2>0, <3>1, ReceiveSteps
    <3>3. /\ EngineOK(a) /\ a.branches = engine.branches \cup {b} /\ a.state = engine.state
          /\ tip \in ForkChoices(a) /\ tip \in a.tips
          /\ EngineOK(c) /\ c.branches = a.branches /\ c.tips = a.tips
          /\ c.local_chain = tip /\ r.engine = UpdateLib(c).engine
      BY Zenon, <3>0 DEF ReceivedVia
    <3> DEFINE f == UpdateLib(c).engine
    <3>4. /\ f.local_chain = tip /\ IsAncestor(f.lib, tip)
          /\ f.tips = {t \in a.tips : IsAncestor(f.lib, t)}
      <4>1. /\ f.local_chain = c.local_chain /\ IsAncestor(f.lib, c.local_chain)
            /\ f.tips = {t \in c.tips : IsAncestor(f.lib, t)}
        BY Zenon, <3>3, UpdateLibEffect
      <4> HIDE DEF f
      <4> QED
        BY Zenon, <3>3, <4>1
    <3>5. EngineOK(f)
      BY Zenon, <3>3, UpdateLibOK
    <3>6. ASSUME NEW t \in f.tips
          PROVE  Lca(f.branches, tip, t) = Lca(a.branches, tip, t)
      <4>1. tip \in f.branches /\ t \in f.branches
        BY Zenon, <3>4, <3>5 DEF EngineOK, RootedAtLib, TipsLeaves
      <4>2. Lca(f.branches, tip, t) = Lca(c.branches, tip, t)
        BY Zenon, <3>3, <4>1, LcaAboveLib
      <4> HIDE DEF f
      <4> QED
        BY Zenon, <3>3, <4>2
    <3>7. engine' = f /\ outcome'.received = {b}
      BY Zenon, <3>2, <3>3 DEF ReportOf
    <3> HIDE DEF f, b
    <3>8. tip \in f.tips
      BY Zenon, <3>3, <3>4
    <3>9. ASSUME engine.state = "Online", KNeverFalls(a.branches),
                 NEW t \in f.tips, Len(t) > Len(tip)
          PROVE  Len(tip) - Len(Lca(f.branches, tip, t))
                   > SecurityParam[SlotOf(Lca(f.branches, tip, t))]
      <4>1. Settled(a.branches, tip, t)
        BY Zenon, <3>3, <3>4, <3>9, ForkChoicesOK
      <4> QED
        BY Zenon, <3>6, <3>9, <4>1 DEF Settled, K
    <3> QED
      BY ZenonT(30), <3>3, <3>4, <3>7, <3>8, <3>9 DEF OnePassSettles, Length
  <2>2. CASE Online
    BY Zenon, <2>2 DEF Online, NoOutcome, OnePassSettles
  <2>3. CASE UNCHANGED vars
    BY Zenon, <2>3
  <2> QED
    BY Zenon, <1>1, <2>1, <2>2, <2>3 DEF Next
<1> QED
  BY <1>1, InitIInv, NextIInv, PTL DEF Spec, ForkChoiceSettled

\* The blocks of a chain above one of its blocks are as many as their lengths say.
LEMMA ChainAboveCount ==
  ASSUME NEW T, T \subseteq Blocks, NEW r, Rooted(T, r), NEW b \in T, NEW l \in T,
         IsAncestor(l, b)
  PROVE  Cardinality({a \in T : IsAncestor(a, b) /\ Len(a) > Len(l)}) = Len(b) - Len(l)
<1> DEFINE S == {a \in T : IsAncestor(a, b) /\ Len(a) > Len(l)}
           n == Len(b) - Len(l)
           I == 1..n
           f == [i \in I |-> AtLength(b, Len(l) + i)]
<1>1. /\ Len(b) \in Nat /\ Len(l) \in Nat /\ Len(l) <= Len(b) /\ n \in Nat
      /\ b \in Seq(Headers) /\ Len(r) \in Nat /\ Len(r) <= Len(l)
  BY SMTT(20) DEF Blocks, IsAncestor, Rooted
<1>2. ASSUME NEW i \in I
      PROVE  f[i] = AtLength(b, Len(l) + i) /\ f[i] \in S /\ Len(f[i]) = Len(l) + i
  <2>1. Len(l) + i \in 0..Len(b) /\ Len(l) + i \in Len(r)..Len(b) /\ Len(l) + i > Len(l)
    BY <1>1
  <2>2. /\ Len(AtLength(b, Len(l) + i)) = Len(l) + i
        /\ IsAncestor(AtLength(b, Len(l) + i), b)
    BY Zenon, <1>1, <2>1, AtLengthProperties
  <2>3. AtLength(b, Len(l) + i) \in T
    BY Zenon, <2>1 DEF Rooted
  <2> QED
    BY Zenon, <2>1, <2>2, <2>3
<1>3. ASSUME NEW a \in S PROVE \E i \in I : f[i] = a
  <2>1. a \in Seq(Headers) /\ IsAncestor(a, b) /\ Len(a) > Len(l)
    BY Zenon DEF Blocks
  <2>2. a = AtLength(b, Len(a)) /\ Len(a) \in 0..Len(b)
    BY Zenon, <1>1, <2>1, AncestorByLength
  <2>3. Len(a) - Len(l) \in I /\ Len(l) + (Len(a) - Len(l)) = Len(a)
    BY <1>1, <2>1, <2>2
  <2> QED
    BY Zenon, <2>2, <2>3
<1>4. f \in Bijection(I, S)
  <2>1. f \in [I -> S]
    BY Zenon, <1>2
  <2>2. ASSUME NEW i \in I, NEW j \in I, f[i] = f[j] PROVE i = j
    <3>1. Len(l) + i = Len(l) + j /\ i \in Nat /\ j \in Nat
      BY <1>1, <1>2, <2>2
    <3> QED
      BY <1>1, <3>1
  <2> HIDE DEF f, S, I
  <2> QED
    BY Zenon, <1>3, <2>1, <2>2 DEF Bijection, Injection, Surjection, IsInjective
<1>5. IsFiniteSet(I) /\ Cardinality(I) = n
  <2>1. n \in Int /\ 1 \in Int /\ (1 > n => n = 0) /\ n - 1 + 1 = n
    BY <1>1
  <2> HIDE DEF n
  <2> QED
    BY Zenon, <2>1, FS_Interval
<1> HIDE DEF f, S, I, n
<1>6. Cardinality(S) = n
  BY Zenon, <1>4, <1>5, FS_Bijection DEF ExistsBijection
<1> QED
  BY Zenon, <1>6 DEF S, n

\* In state Online a reorg undoes at most the k blocks of its fork point, unless
\* fork choice passed through another chain.
THEOREM ReorgIsBounded == Spec => OnlineReorgBounded
<1>1. ASSUME IInv, [Next]_vars PROVE [ReorgBounded]_vars
  <2>0. EngineOK(engine)
    BY Zenon, <1>1 DEF IInv
  <2>1. ASSUME NEW parent \in engine.branches, NEW header \in Headers,
               ReceiveBlock(parent, header), engine.state = "Online",
               engine'.local_chain # engine.local_chain
        PROVE  ReorgBounded
    <3> DEFINE b == Append(parent, header)
               old == engine.local_chain
    <3>1. b \notin engine.branches /\ SlotOf(parent) < SlotOf(b)
      BY Zenon, <2>1 DEF ReceiveBlock
    <3>2. PICK r \in ReceiveOutcomes(engine, b) : engine' = r.engine /\ outcome' = ReportOf(b, r)
      BY Zenon, <2>1 DEF ReceiveBlock
    <3>0. PICK a, c, tip : ReceivedVia(engine, b, r, a, c, tip)
      BY Zenon, <2>0, <3>1, ReceiveSteps
    <3>3. /\ EngineOK(a) /\ a.branches = engine.branches \cup {b}
          /\ a.local_chain = old /\ a.state = engine.state
          /\ tip \in ForkChoices(a) /\ tip \in a.branches
          /\ EngineOK(c) /\ c.local_chain = tip /\ r.engine = UpdateLib(c).engine
          /\ r.reorged = IF tip = old THEN {}
                         ELSE WalkBackTo(a.branches, old, Lca(a.branches, old, tip))
      BY Zenon, <3>0 DEF ReceivedVia
    <3> DEFINE T == a.branches
               l == Lca(T, old, tip)
    <3>4. engine'.local_chain = tip
      BY Zenon, <3>2, <3>3, UpdateLibEffect
    <3>5. outcome'.reorged = WalkBackTo(T, old, l) /\ outcome'.received = {b}
      BY Zenon, <2>1, <3>2, <3>3, <3>4 DEF ReportOf
    <3>6. T \subseteq Blocks /\ Rooted(T, a.lib) /\ old \in T
      BY Zenon, <3>3 DEF EngineOK, EngineType, RootedAtLib
    <3>7. WalkBackTo(T, old, l) = {x \in T : IsAncestor(x, old) /\ Len(x) > Len(l)}
      <4>1. tip \in T
        BY Zenon, <3>3
      <4> HIDE DEF T, old
      <4> QED
        BY Zenon, <3>6, <4>1, SwitchExact
    <3>8. l \in T /\ IsAncestor(l, old)
      BY Zenon, <3>3, <3>6, LcaInRootedTree DEF Blocks
    <3> HIDE DEF l
    <3>9. Cardinality(outcome'.reorged) = Len(old) - Len(l)
      BY <3>5, <3>6, <3>7, <3>8, ChainAboveCount
    <3>10. \/ ReplacesMc(T, old, tip)
           \/ \E d \in T : ReplacesMc(T, old, d) /\ Len(d) < Len(tip)
      <4>1. Reached(T, old, tip)
        BY Zenon, <2>1, <3>3, ForkChoicesOK
      <4> QED
        BY Zenon, <2>1, <3>4, <4>1 DEF Reached
    <3>11. engine.branches \cup outcome'.received = T
      BY Zenon, <3>3, <3>5
    <3> HIDE DEF T
    <3> QED
      BY Zenon, <3>4, <3>9, <3>10, <3>11 DEF ReorgBounded, ReplacesMc, Length, l
  <2>2. CASE Online
    BY Zenon, <2>2 DEF Online, ReorgBounded
  <2>3. CASE UNCHANGED vars
    BY Zenon, <2>3
  <2>4. CASE engine.state # "Online" \/ engine'.local_chain = engine.local_chain
    BY Zenon, <2>4 DEF ReorgBounded
  <2> QED
    BY Zenon, <1>1, <2>1, <2>2, <2>3, <2>4 DEF Next
<1> QED
  BY <1>1, InitIInv, NextIInv, PTL DEF Spec, OnlineReorgBounded
==============================================================================
