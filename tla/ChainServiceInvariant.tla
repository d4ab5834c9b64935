------------------------- MODULE ChainServiceInvariant ------------------------
(***************************************************************************)
(* The inductive invariant of the chain service, and the proof that the    *)
(* steps that apply a block keep it: storing the block, committing the     *)
(* state it leads to, and replaying a recovered chain.                     *)
(***************************************************************************)
EXTENDS ChainService, CryptarchiaEngineTheorems

\* The blocks of T and all their ancestors.
History(T) == UNION {Canonical(b) : b \in T}

\* b is on no chain through L.
Stale(L, b) == b \in Blocks /\ ~IsAncestor(b, L) /\ ~IsAncestor(L, b)

\* What the service needs of a recovery state to start from it.
SnapshotOK(s) ==
  /\ s \in SnapshotType
  /\ IsAncestor(s.lib, s.tip) /\ SlotsRise(Canonical(s.tip))
  /\ \A b \in s.storage_blocks_to_remove : Stale(s.lib, b)

\* Each block of the queue is a child of the one before it, the first of b.
ChainFrom(b, blocks) ==
  /\ blocks \in Seq(Blocks)
  /\ \A i \in 1..Len(blocks) :
       /\ blocks[i] # Genesis
       /\ ParentOf(blocks[i]) = IF i = 1 THEN b ELSE blocks[i - 1]
       /\ SlotOf(ParentOf(blocks[i])) < SlotOf(blocks[i])

\* The candidate is an answer of the engine to a block that extends the tree.
CandidateOK(c) ==
  /\ \E p \in engine.branches, h \in Headers : c.block = Append(p, h)
  /\ c.block \notin engine.branches /\ SlotOf(ParentOf(c.block)) < SlotOf(c.block)
  /\ c.result \in ReceiveOutcomes(engine, c.block)
  /\ c.block \in store

\* The tree is backed by ledger states and storage, and what is due for
\* removal is on no chain through the LIB.
MemoryOK ==
  Running =>
    /\ EngineOK(engine) /\ ledger = engine.branches
    /\ \A b \in engine.branches : SlotsRise(Canonical(b))
    /\ History(engine.branches) \ {Genesis} \subseteq store
    /\ \A b \in to_remove \cup todo \cup failed : Stale(engine.lib, b)
    /\ \A c \in candidate : CandidateOK(c)

\* Recovery states are never ahead of the service, and the chain up to the LIB
\* of the saved one is in storage whether the service runs or not.
RecoveryOK ==
  /\ SnapshotOK(saved) /\ SnapshotOK(updater)
  /\ IsAncestor(saved.lib, updater.lib)
  /\ Canonical(saved.lib) \ {Genesis} \subseteq store
  /\ Running => IsAncestor(updater.lib, engine.lib)
  /\ (step = "down" \/ start # "done") => updater = saved

\* The phases of the service: while it starts from a recovered chain, the tree
\* is the part of that chain which was replayed, and the queue the rest.
PhaseOK ==
  /\ step \in Steps /\ start \in Starts
  /\ step \in {"down", "idle", "online"} => start = "done"
  /\ step = "replay" => start # "done"
  /\ step = "down" => failed = {}
  /\ candidate # {} => step = "stored"
  /\ \A c, d \in candidate : c = d
  /\ Running /\ start = "fell_back" => queue = <<>> /\ step # "stored"
  /\ step = "replay" /\ start = "recovered" =>
       engine.tips = {engine.local_chain} /\ ChainFrom(engine.local_chain, queue)
  /\ step = "stored" /\ start = "recovered" =>
       /\ engine.tips = {engine.local_chain}
       /\ \A c \in candidate : /\ ParentOf(c.block) = engine.local_chain
                               /\ ChainFrom(c.block, queue)

\* The index has the chain up to the LIB, and while the engine has just been
\* switched it will have it with the next write.
IndexOK ==
  ~index_lost =>
    /\ Canonical(saved.lib) \ {Genesis} \subseteq index
    /\ Canonical(updater.lib) \ {Genesis} \subseteq index
    /\ Running /\ step # "online" => Canonical(engine.lib) \ {Genesis} \subseteq index
    /\ \A c \in candidate : Canonical(c.result.engine.lib) \ {Genesis} \subseteq index
    /\ step = "online" =>
         Canonical(engine.lib) \ {Genesis} \subseteq
           Reindexed(ImmutableBlocksIndex(outcome.pruned, TRUE, engine.lib))

\* Before the first crash storage holds the history of the tree and what is due
\* for removal, which a pass of deletions goes through completely.
StorageOK ==
  /\ crashes \in Nat
  /\ crashes = 0 =>
      /\ step = "down" => store = {} /\ saved = Fresh
      /\ Running => store \subseteq History(engine.branches) \cup todo \cup failed \cup to_remove
                                      \cup {c.block : c \in candidate}
      /\ step \in {"online", "delete"} =>
           store \subseteq History(engine.branches) \cup todo \cup failed
      /\ (step = "replay" \/ (step = "stored" /\ start # "done")) => to_remove \subseteq todo
      /\ step = "idle" => todo = {} /\ failed = {}

\* The inductive invariant.
ServiceInv == MemoryOK /\ RecoveryOK /\ PhaseOK /\ IndexOK /\ StorageOK

------------------------------------------------------------------------------
\* Chains

\* A block below a block below another is below that one.
LEMMA BelowBelow ==
  ASSUME NEW a \in Blocks, NEW b \in Blocks, NEW c \in Blocks,
         IsAncestor(a, b), IsAncestor(b, c)
  PROVE  IsAncestor(a, c)
<1>1. a \in Seq(Headers) /\ b \in Seq(Headers) /\ c \in Seq(Headers)
  BY Zenon DEF Blocks
<1> QED
  BY Zenon, <1>1, AncestorOrder

\* The chain of an ancestor is part of the chain of a block.
LEMMA CanonicalGrows ==
  ASSUME NEW a \in Blocks, NEW b \in Blocks, IsAncestor(a, b)
  PROVE  Canonical(a) \subseteq Canonical(b)
<1>1. /\ Canonical(a) = {x \in Blocks : IsAncestor(x, a)}
      /\ Canonical(b) = {x \in Blocks : IsAncestor(x, b)}
  BY Zenon, CanonicalIsAncestors
<1>2. ASSUME NEW x \in Blocks, IsAncestor(x, a) PROVE IsAncestor(x, b)
  BY Zenon, <1>2, AncestorOrder DEF Blocks
<1> QED
  BY Zenon, <1>1, <1>2

\* The slots rise along a chain that is extended.
LEMMA SlotsRiseToChild ==
  ASSUME NEW p \in Blocks, NEW h \in Headers, SlotsRise(Canonical(p)),
         SlotOf(p) < SlotOf(Append(p, h))
  PROVE  SlotsRise(Canonical(Append(p, h)))
<1> DEFINE b == Append(p, h)
<1>1. /\ b \in Blocks /\ Len(b) = Len(p) + 1 /\ Len(p) \in Nat /\ IsAncestor(p, p)
      /\ \A a \in Blocks : IsAncestor(a, b) => a = b \/ IsAncestor(a, p)
  BY ChildAncestors, AncestorOrder DEF Blocks
<1>2. SlotOf(p) < SlotOf(b)
  BY Zenon
<1> HIDE DEF b
<1>3. /\ Canonical(p) = {x \in Blocks : IsAncestor(x, p)}
      /\ Canonical(b) = {x \in Blocks : IsAncestor(x, b)}
  BY Zenon, <1>1, CanonicalIsAncestors
<1>4. SUFFICES ASSUME NEW a \in Canonical(b), NEW c \in Canonical(b), IsAncestor(a, c), a # c
               PROVE  SlotOf(a) < SlotOf(c)
  BY Zenon DEF SlotsRise, b
<1>5. a \in Blocks /\ c \in Blocks /\ IsAncestor(a, b) /\ IsAncestor(c, b)
  BY Zenon, <1>3
<1>6. a # b
  BY Zenon, <1>1, <1>4, <1>5, AncestorOrder DEF Blocks
<1>7. a \in Canonical(p) /\ p \in Canonical(p)
  BY Zenon, <1>1, <1>3, <1>5, <1>6
<1>8. CASE c # b
  BY Zenon, <1>1, <1>3, <1>4, <1>5, <1>7, <1>8 DEF SlotsRise
<1>9. CASE c = b
  <2>1. a = p \/ SlotOf(a) < SlotOf(p)
    BY Zenon, <1>3, <1>7 DEF SlotsRise
  <2>2. SlotOf(a) \in Nat /\ SlotOf(p) \in Nat /\ SlotOf(b) \in Nat
    BY Zenon, <1>1, <1>5, SecurityParamAtBlock
  <2> QED
    BY <1>2, <1>9, <2>1, <2>2
<1> QED
  BY Zenon, <1>8, <1>9

\* A block that is stale stays stale when the LIB moves up.
LEMMA StaleStays ==
  ASSUME NEW L \in Blocks, NEW M \in Blocks, IsAncestor(L, M), NEW b, Stale(L, b)
  PROVE  Stale(M, b)
<1>1. b \in Blocks /\ ~IsAncestor(b, L) /\ ~IsAncestor(L, b)
  BY Zenon DEF Stale
<1>2. ~IsAncestor(M, b)
  BY Zenon, <1>1, AncestorOrder DEF Blocks
<1>3. ~IsAncestor(b, M)
  <2>1. Len(b) \in Nat /\ Len(L) \in Nat
    BY <1>1 DEF Blocks
  <2>2. CASE Len(b) <= Len(L)
    BY Zenon, <1>1, <2>2, AncestorOrder DEF Blocks
  <2>3. CASE Len(L) <= Len(b)
    BY Zenon, <1>1, <2>3, AncestorOrder DEF Blocks
  <2> QED
    BY <2>1, <2>2, <2>3
<1> QED
  BY Zenon, <1>1, <1>2, <1>3 DEF Stale

\* A stale block is below no block that descends from the LIB.
LEMMA StaleNotInHistory ==
  ASSUME NEW L \in Blocks, NEW T, T \subseteq Blocks, \A x \in T : IsAncestor(L, x),
         NEW b, Stale(L, b)
  PROVE  b \notin History(T)
<1> SUFFICES ASSUME NEW x \in T, b \in Canonical(x) PROVE FALSE
  BY Zenon DEF History
<1>1. b \in Blocks /\ IsAncestor(b, x)
  BY Zenon, CanonicalIsAncestors
<1>2. Stale(x, b)
  BY Zenon, StaleStays
<1> QED
  BY Zenon, <1>1, <1>2 DEF Stale

------------------------------------------------------------------------------
\* What update_lib leaves and reports, when the tree T was rooted at L

Advanced(T, L, e, pruned) ==
  /\ EngineOK(e) /\ e.lib \in T /\ IsAncestor(L, e.lib)
  /\ e.branches = {x \in T : IsAncestor(e.lib, x)}
  /\ pruned.stale = {x \in T : ~IsAncestor(x, e.lib) /\ ~IsAncestor(e.lib, x)}
  /\ pruned.immutable = {x \in T : IsAncestor(x, e.lib) /\ x # e.lib}

\* update_lib advances the LIB.
LEMMA UpdateLibAdvances ==
  ASSUME NEW e, EngineOK(e)
  PROVE  Advanced(e.branches, e.lib, UpdateLib(e).engine, UpdateLib(e).pruned)
<1> DEFINE f == UpdateLib(e).engine
           pruned == UpdateLib(e).pruned
           T == e.branches
<1>1. EngineOK(f)
  BY Zenon, UpdateLibOK
<1>2. /\ f.lib \in T /\ IsAncestor(e.lib, f.lib)
      /\ f.branches = {x \in T : IsAncestor(f.lib, x)}
      /\ pruned.stale = {x \in T : ~IsAncestor(x, f.lib) /\ ~IsAncestor(f.lib, x)}
  BY Zenon, UpdateLibEffect
<1>3. pruned.immutable = {x \in T \ f.branches : IsAncestor(x, f.lib)}
  BY Zenon, PrunedExact
<1> HIDE DEF f, pruned
<1>4. ASSUME NEW x \in T, IsAncestor(x, f.lib)
      PROVE  x \notin f.branches <=> x # f.lib
  BY Zenon, <1>2, <1>4, AncestorOrder DEF EngineOK, EngineType, Blocks
<1>5. pruned.immutable = {x \in T : IsAncestor(x, f.lib) /\ x # f.lib}
  BY Zenon, <1>2, <1>3, <1>4
<1> QED
  BY Zenon, <1>1, <1>2, <1>5 DEF Advanced, f, pruned

\* So does a block that is received, ...
LEMMA ReceiveAdvances ==
  ASSUME NEW e, EngineOK(e), NEW p \in e.branches, NEW h \in Headers,
         Append(p, h) \notin e.branches, SlotOf(p) < SlotOf(Append(p, h)),
         NEW r \in ReceiveOutcomes(e, Append(p, h))
  PROVE  /\ Advanced(e.branches \cup {Append(p, h)}, e.lib, r.engine, r.pruned)
         /\ Rooted(e.branches \cup {Append(p, h)}, e.lib)
         /\ e.branches \cup {Append(p, h)} \subseteq Blocks
<1> DEFINE b == Append(p, h)
<1>0. PICK a, c, tip : ReceivedVia(e, b, r, a, c, tip)
  BY Zenon, ReceiveSteps
<1>1. /\ EngineOK(c) /\ a.branches = e.branches \cup {b} /\ c.branches = a.branches
      /\ c.lib = e.lib
      /\ r.engine = UpdateLib(c).engine /\ r.pruned = UpdateLib(c).pruned
  BY Zenon, <1>0 DEF ReceivedVia
<1>2. Advanced(c.branches, c.lib, r.engine, r.pruned)
  BY Zenon, <1>1, UpdateLibAdvances
<1>3. c.branches = e.branches \cup {b} /\ c.lib = e.lib
  BY Zenon, <1>1
<1>4. Rooted(c.branches, c.lib) /\ c.branches \subseteq Blocks
  BY Zenon, <1>1 DEF EngineOK, EngineType, RootedAtLib
<1> QED
  BY Zenon, <1>2, <1>3, <1>4

\* ... and the switch to Online.
LEMMA OnlineAdvances ==
  ASSUME NEW e, EngineOK(e)
  PROVE  Advanced(e.branches, e.lib, GoOnline(e).engine, GoOnline(e).pruned)
<1> DEFINE c == [e EXCEPT !.state = "Online"]
<1>1. EngineOK(c) /\ c.branches = e.branches /\ c.lib = e.lib
  BY Zenon, OnlineReady
<1> HIDE DEF c
<1>2. Advanced(c.branches, c.lib, UpdateLib(c).engine, UpdateLib(c).pruned)
  BY Zenon, <1>1, UpdateLibAdvances
<1> QED
  BY Zenon, <1>1, <1>2 DEF GoOnline, c

\* Forgetting the ledger states of the pruned blocks leaves those of the tree.
LEMMA AdvanceLedger ==
  ASSUME NEW T, T \subseteq Blocks, NEW L, NEW e, NEW pruned, Advanced(T, L, e, pruned)
  PROVE  LedgerAfter(T, pruned) = e.branches
<1>1. /\ e.lib \in Blocks /\ e.branches = {x \in T : IsAncestor(e.lib, x)}
      /\ pruned.stale = {x \in T : ~IsAncestor(x, e.lib) /\ ~IsAncestor(e.lib, x)}
      /\ pruned.immutable = {x \in T : IsAncestor(x, e.lib) /\ x # e.lib}
  BY Zenon DEF Advanced
<1>2. ASSUME NEW x \in T
      PROVE  /\ IsAncestor(x, e.lib) /\ IsAncestor(e.lib, x) => x = e.lib
             /\ x = e.lib => IsAncestor(e.lib, x)
  BY <1>1, AncestorOrder DEF Blocks
<1> QED
  BY Zenon, <1>1, <1>2 DEF LedgerAfter

\* What leaves the history of the tree is reported as stale.
LEMMA AdvanceHistory ==
  ASSUME NEW T, T \subseteq Blocks, NEW L \in Blocks, Rooted(T, L),
         NEW e, NEW pruned, Advanced(T, L, e, pruned)
  PROVE  /\ History(e.branches) \subseteq History(T)
         /\ History(T) \subseteq History(e.branches) \cup pruned.stale
<1>1. /\ e.lib \in Blocks /\ e.lib \in T /\ IsAncestor(L, e.lib)
      /\ e.branches = {x \in T : IsAncestor(e.lib, x)}
      /\ pruned.stale = {x \in T : ~IsAncestor(x, e.lib) /\ ~IsAncestor(e.lib, x)}
      /\ e.lib \in e.branches
  BY AncestorOrder DEF Advanced, Blocks
<1>2. History(e.branches) \subseteq History(T)
  BY Zenon, <1>1 DEF History
<1>3. ASSUME NEW y \in History(T)
      PROVE  y \in History(e.branches) \cup pruned.stale
  <2>1. PICK x \in T : y \in Canonical(x)
    BY Zenon, <1>3 DEF History
  <2>2. y \in Blocks /\ IsAncestor(y, x) /\ x \in Blocks
    BY Zenon, <2>1, CanonicalIsAncestors
  <2>3. CASE IsAncestor(y, e.lib)
    <3>1. y \in Canonical(e.lib)
      BY Zenon, <1>1, <2>2, <2>3, CanonicalIsAncestors
    <3> QED
      BY Zenon, <1>1, <3>1 DEF History
  <2>4. CASE ~IsAncestor(y, e.lib)
    <3>1. IsAncestor(L, x) /\ \A n \in Len(L)..Len(x) : AtLength(x, n) \in T
      BY Zenon, <2>1 DEF Rooted
    <3>2. Len(L) \in Nat /\ Len(y) \in Nat /\ Len(x) \in Nat
      BY <2>2 DEF Blocks
    <3>3. Len(L) <= Len(y)
      <4> SUFFICES ASSUME Len(y) <= Len(L) PROVE FALSE
        BY <3>2
      <4>1. IsAncestor(y, L)
        BY Zenon, <2>2, <3>1, AncestorOrder DEF Blocks
      <4> QED
        BY <1>1, <2>2, <2>4, <4>1, AncestorOrder DEF Blocks
    <3>4. y \in T
      <4>1. Len(y) \in 0..Len(x) /\ y = AtLength(x, Len(y))
        BY Zenon, <2>2, AncestorByLength DEF Blocks
      <4> QED
        BY <3>1, <3>2, <3>3, <4>1
    <3>5. y \in Canonical(y)
      BY Zenon, <2>2, CanonicalIsAncestors, AncestorOrder DEF Blocks
    <3> QED
      BY Zenon, <1>1, <2>4, <3>4, <3>5 DEF History
  <2> QED
    BY Zenon, <2>3, <2>4
<1> QED
  BY Zenon, <1>2, <1>3

\* An index with the chain up to the LIB has it up to the new LIB once what was
\* pruned is written, and the new LIB where it differs.
LEMMA AdvanceIndex ==
  ASSUME NEW T, T \subseteq Blocks, NEW L \in Blocks, Rooted(T, L),
         NEW e, NEW pruned, Advanced(T, L, e, pruned),
         SlotsRise(Canonical(e.lib)), Canonical(L) \ {Genesis} \subseteq index,
         NEW changed \in BOOLEAN, e.lib # L => changed
  PROVE  Canonical(e.lib) \ {Genesis} \subseteq
           Reindexed(ImmutableBlocksIndex(pruned, changed, e.lib))
<1> DEFINE ids == ImmutableBlocksIndex(pruned, changed, e.lib)
<1>1. /\ e.lib \in Blocks /\ e.lib \in T /\ IsAncestor(L, e.lib)
      /\ pruned.immutable = {x \in T : IsAncestor(x, e.lib) /\ x # e.lib}
      /\ \A x \in T : IsAncestor(L, x)
      /\ \A n \in Len(L)..Len(e.lib) : AtLength(e.lib, n) \in T
  BY Zenon DEF Advanced, Rooted
<1>2. /\ pruned.immutable \subseteq ids
      /\ changed => e.lib \in ids
      /\ \A c \in ids : c \in T /\ IsAncestor(c, e.lib)
  BY ZenonT(30), <1>1, AncestorOrder DEF ImmutableBlocksIndex, Blocks
<1>3. Reindexed(ids) = {b \in index : \A c \in ids : SlotOf(b) # SlotOf(c)} \cup ids
  BY Zenon DEF Reindexed
<1>4. ~changed => ids = {}
  <2> SUFFICES ASSUME ~changed PROVE pruned.immutable = {}
    BY Zenon DEF ImmutableBlocksIndex
  <2>1. e.lib = L
    BY Zenon
  <2> QED
    BY <1>1, <2>1, AncestorOrder DEF Blocks
<1>5. /\ Canonical(e.lib) = {x \in Blocks : IsAncestor(x, e.lib)}
      /\ Canonical(L) = {x \in Blocks : IsAncestor(x, L)}
  BY Zenon, <1>1, CanonicalIsAncestors
<1> HIDE DEF ids
<1> SUFFICES ASSUME NEW x \in Canonical(e.lib), x # Genesis
             PROVE  x \in Reindexed(ids)
  BY Zenon DEF ids
<1>6. /\ x \in Blocks /\ IsAncestor(x, e.lib)
      /\ Len(x) \in Nat /\ Len(L) \in Nat /\ Len(e.lib) \in Nat
  BY <1>1, <1>5 DEF Blocks
<1>7. CASE ~changed
  BY Zenon, <1>3, <1>4, <1>7
<1>8. CASE changed /\ Len(L) <= Len(x)
  <2>1. Len(x) \in 0..Len(e.lib) /\ x = AtLength(e.lib, Len(x))
    BY Zenon, <1>1, <1>6, AncestorByLength DEF Blocks
  <2>2. x \in T
    BY <1>1, <1>6, <1>8, <2>1
  <2> QED
    BY ZenonT(30), <1>1, <1>2, <1>3, <1>6, <1>8, <2>2
<1>9. CASE Len(x) < Len(L)
  <2>1. IsAncestor(x, L)
    BY <1>1, <1>6, <1>9, AncestorOrder DEF Blocks
  <2>2. x \in index
    BY Zenon, <1>5, <1>6, <2>1
  <2>3. ASSUME NEW c \in ids PROVE SlotOf(x) # SlotOf(c)
    <3>1. c \in Blocks /\ IsAncestor(L, c) /\ IsAncestor(c, e.lib)
      BY Zenon, <1>1, <1>2
    <3>2. IsAncestor(x, c) /\ c \in Canonical(e.lib)
      BY ZenonT(30), <1>5, <1>6, <2>1, <3>1, AncestorOrder DEF Blocks
    <3>3. x # c
      BY <1>6, <1>9, <3>1 DEF IsAncestor
    <3>4. SlotOf(x) < SlotOf(c)
      BY Zenon, <3>2, <3>3 DEF SlotsRise
    <3> QED
      BY <1>6, <3>1, <3>4, SecurityParamAtBlock
  <2> QED
    BY Zenon, <1>3, <2>2, <2>3
<1> QED
  BY <1>6, <1>7, <1>8, <1>9

------------------------------------------------------------------------------
\* Replaying a chain

\* A block other than genesis is its parent with a header appended.
LEMMA BlockIsChild ==
  ASSUME NEW b \in Blocks, b # Genesis
  PROVE  /\ ParentOf(b) \in Blocks /\ b[Len(b)] \in Headers
         /\ b = Append(ParentOf(b), b[Len(b)])
<1>1. Len(b) \in Nat /\ Len(b) # 0 /\ b[Len(b)] \in Headers
  BY DEF Blocks, Genesis
<1> DEFINE n == Len(b) - 1
           p == AtLength(b, n)
           c == Append(p, b[Len(b)])
<1>2. n \in 0..Len(b)
  BY <1>1
<1>3. p \in Seq(Headers) /\ Len(p) = n /\ \A i \in 1..n : p[i] = b[i]
  BY Zenon, <1>2, AtLengthProperties DEF Blocks
<1>4. c \in Seq(Headers) /\ Len(c) = n + 1 /\ c[n + 1] = b[Len(b)]
      /\ \A i \in 1..n : c[i] = p[i]
  BY <1>1, <1>3
<1>5. Len(c) = Len(b) /\ \A i \in 1..Len(b) : c[i] = b[i]
  BY <1>1, <1>3, <1>4
<1>6. c = b
  BY Zenon, <1>4, <1>5, SameSequence DEF Blocks
<1> QED
  BY Zenon, <1>1, <1>3, <1>6 DEF ParentOf, Blocks

\* A queue that is a chain from b begins with a child of b, and the rest is a
\* chain from that child.
LEMMA ChainTail ==
  ASSUME NEW b, NEW q, ChainFrom(b, q), q # <<>>
  PROVE  /\ Head(q) \in Blocks /\ Head(q) # Genesis /\ ParentOf(Head(q)) = b
         /\ SlotOf(b) < SlotOf(Head(q))
         /\ ChainFrom(Head(q), Tail(q))
<1>1. q \in Seq(Blocks) /\ Len(q) \in Nat /\ Len(q) # 0
  BY DEF ChainFrom
<1>2. Head(q) = q[1] /\ q[1] \in Blocks
  BY <1>1
<1>3. q[1] # Genesis /\ ParentOf(q[1]) = b /\ SlotOf(b) < SlotOf(q[1])
  BY <1>1 DEF ChainFrom
<1>4. /\ Tail(q) \in Seq(Blocks) /\ Len(Tail(q)) = Len(q) - 1
      /\ \A i \in 1..Len(Tail(q)) : Tail(q)[i] = q[i + 1]
  BY <1>1
<1> DEFINE t == Tail(q)
<1>5. ASSUME NEW i \in 1..Len(t)
      PROVE  /\ t[i] # Genesis
             /\ ParentOf(t[i]) = IF i = 1 THEN q[1] ELSE t[i - 1]
             /\ SlotOf(ParentOf(t[i])) < SlotOf(t[i])
  <2>1. i \in Nat /\ i + 1 \in 1..Len(q) /\ i + 1 # 1 /\ (i + 1) - 1 = i /\ t[i] = q[i + 1]
    BY <1>1, <1>4
  <2>2. /\ q[i + 1] # Genesis /\ ParentOf(q[i + 1]) = q[i]
        /\ SlotOf(ParentOf(q[i + 1])) < SlotOf(q[i + 1])
    BY Zenon, <2>1 DEF ChainFrom
  <2>3. i # 1 => i - 1 \in 1..Len(t) /\ t[i - 1] = q[i]
    BY <1>1, <1>4
  <2> QED
    BY Zenon, <2>1, <2>2, <2>3
<1>6. ChainFrom(Head(q), Tail(q))
  BY Zenon, <1>2, <1>4, <1>5 DEF ChainFrom
<1> QED
  BY Zenon, <1>2, <1>3, <1>6

\* The blocks of a chain, one below the other.
LEMMA ParentAtLength ==
  ASSUME NEW b \in Blocks, NEW n \in 1..Len(b)
  PROVE  ParentOf(AtLength(b, n)) = AtLength(b, n - 1)
<1> DEFINE c == AtLength(b, n)
           d == AtLength(b, n - 1)
<1>1. Len(b) \in Nat /\ n \in 0..Len(b) /\ n - 1 \in 0..Len(b)
  BY DEF Blocks
<1>2. /\ c \in Seq(Headers) /\ Len(c) = n /\ \A i \in 1..n : c[i] = b[i]
      /\ d \in Seq(Headers) /\ Len(d) = n - 1 /\ \A i \in 1..(n - 1) : d[i] = b[i]
  BY Zenon, <1>1, AtLengthProperties DEF Blocks
<1> HIDE DEF c, d
<1>3. n - 1 \in 0..Len(c)
  BY <1>1, <1>2
<1>4. /\ AtLength(c, n - 1) \in Seq(Headers) /\ Len(AtLength(c, n - 1)) = n - 1
      /\ \A i \in 1..(n - 1) : AtLength(c, n - 1)[i] = c[i]
  BY ZenonT(30), <1>2, <1>3, AtLengthProperties
<1>5. \A i \in 1..(n - 1) : AtLength(c, n - 1)[i] = d[i]
  BY <1>1, <1>2, <1>4
<1>6. AtLength(c, n - 1) = d
  BY ZenonT(30), <1>2, <1>4, <1>5, SameSequence
<1> QED
  BY Zenon, <1>2, <1>6 DEF ParentOf, c, d

\* What is loaded from storage at start is a chain from the LIB.
LEMMA RecoveryChain ==
  ASSUME NEW s, SnapshotOK(s)
  PROVE  ChainFrom(s.lib, RecoveryBlocks(s))
<1> DEFINE tip == s.tip
           L == s.lib
           n == Len(tip) - Len(L)
           q == RecoveryBlocks(s)
<1>1. /\ tip \in Blocks /\ L \in Blocks /\ IsAncestor(L, tip) /\ SlotsRise(Canonical(tip))
  BY Zenon DEF SnapshotOK, SnapshotType
<1>2. Len(tip) \in Nat /\ Len(L) \in 0..Len(tip) /\ L = AtLength(tip, Len(L)) /\ n \in Nat
  BY <1>1, AncestorByLength DEF Blocks
<1>3. q = [i \in 1..n |-> AtLength(tip, Len(L) + i)]
  BY Zenon DEF RecoveryBlocks, Length
<1> HIDE DEF q, n
<1>4. ASSUME NEW i \in 1..n
      PROVE  /\ q[i] = AtLength(tip, Len(L) + i)
             /\ Len(L) + i \in 1..Len(tip) /\ (Len(L) + i) - 1 \in 0..Len(tip)
             /\ q[i] \in Blocks /\ Len(q[i]) = Len(L) + i
  <2>1. q[i] = AtLength(tip, Len(L) + i)
    BY Zenon, <1>3
  <2>2. Len(L) + i \in 1..Len(tip) /\ Len(L) + i \in 0..Len(tip) /\ (Len(L) + i) - 1 \in 0..Len(tip)
    BY <1>2 DEF n
  <2> QED
    BY SMTT(20), <1>1, <2>1, <2>2, AtLengthProperties DEF Blocks
<1>5. q \in Seq(Blocks) /\ Len(q) = n
  <2>1. q \in [1..n -> Blocks]
    BY Zenon, <1>3, <1>4
  <2> QED
    BY <1>2, <2>1
<1>6. ASSUME NEW i \in 1..n
      PROVE  /\ q[i] # Genesis
             /\ ParentOf(q[i]) = IF i = 1 THEN L ELSE q[i - 1]
             /\ SlotOf(ParentOf(q[i])) < SlotOf(q[i])
  <2> DEFINE m == Len(L) + i
             p == AtLength(tip, m - 1)
  <2>1. /\ q[i] = AtLength(tip, m) /\ m \in 1..Len(tip) /\ m - 1 \in 0..Len(tip)
        /\ q[i] \in Blocks /\ Len(q[i]) = m
    BY Zenon, <1>4
  <2>2. ParentOf(q[i]) = p
    BY Zenon, <1>1, <2>1, ParentAtLength
  <2>3. p \in Blocks /\ Len(p) = m - 1 /\ IsAncestor(p, tip)
    BY Zenon, <1>1, <2>1, AtLengthProperties DEF Blocks
  <2>4. IsAncestor(q[i], tip)
    <3>1. m \in 0..Len(tip)
      BY <2>1
    <3> QED
      BY ZenonT(30), <1>1, <2>1, <3>1, AtLengthProperties DEF Blocks
  <2>5. p \in Canonical(tip) /\ q[i] \in Canonical(tip)
    BY ZenonT(30), <1>1, <2>1, <2>3, <2>4, CanonicalIsAncestors
  <2>6. IsAncestor(p, q[i]) /\ p # q[i]
    BY SMTT(20), <1>1, <2>1, <2>3, <2>4, AncestorOrder DEF Blocks
  <2>7. SlotOf(p) < SlotOf(q[i])
    BY Zenon, <1>1, <2>5, <2>6 DEF SlotsRise
  <2>8. p = IF i = 1 THEN L ELSE q[i - 1]
    <3>1. CASE i = 1
      <4>1. m - 1 = Len(L)
        BY <1>2, <3>1
      <4> QED
        BY ZenonT(30), <1>2, <3>1, <4>1
    <3>2. CASE i # 1
      <4>1. i - 1 \in 1..n /\ Len(L) + (i - 1) = m - 1
        BY <1>2, <3>2 DEF n
      <4> QED
        BY ZenonT(30), <1>4, <3>2, <4>1
    <3> QED
      BY Zenon, <3>1, <3>2
  <2>9. q[i] # Genesis
    BY <2>1, <2>3 DEF Genesis
  <2> QED
    BY ZenonT(30), <2>2, <2>7, <2>8, <2>9
<1> QED
  BY Zenon, <1>5, <1>6 DEF ChainFrom, q

\* A chain that is extended at its tip stays the only chain, and is followed.
LEMMA LinearReceive ==
  ASSUME NEW e, EngineOK(e), e.tips = {e.local_chain}, NEW h \in Headers,
         Append(e.local_chain, h) \notin e.branches,
         SlotOf(e.local_chain) < SlotOf(Append(e.local_chain, h)),
         NEW r \in ReceiveOutcomes(e, Append(e.local_chain, h))
  PROVE  /\ r.engine.local_chain = Append(e.local_chain, h)
         /\ r.engine.tips = {Append(e.local_chain, h)}
<1> DEFINE p == e.local_chain
           b == Append(p, h)
<1>1. p \in e.branches /\ p \in Blocks /\ e.branches \subseteq Blocks
  BY Zenon DEF EngineOK, EngineType, RootedAtLib
<1>0. PICK a, c, tip : ReceivedVia(e, b, r, a, c, tip)
  BY Zenon, <1>1, ReceiveSteps
<1>2. /\ EngineOK(a) /\ a.branches = e.branches \cup {b}
      /\ tip \in a.tips
      /\ EngineOK(c) /\ c.tips = a.tips /\ c.local_chain = tip
      /\ r.engine = UpdateLib(c).engine
  BY Zenon, <1>0 DEF ReceivedVia
<1>3. b \in Blocks /\ IsAncestor(p, b) /\ IsAncestor(b, b)
  <2>1. b \in Blocks /\ IsAncestor(p, b)
    BY Zenon, <1>1, ChildAncestors DEF Blocks
  <2> HIDE DEF b
  <2> QED
    BY Zenon, <2>1, AncestorOrder DEF Blocks
<1>4. \A x \in e.branches : IsAncestor(x, p)
  <2>1. \A x \in e.branches : \E t \in e.tips : IsAncestor(x, t)
    BY Zenon DEF EngineOK, TipsLeaves
  <2> QED
    BY Zenon, <2>1
<1> HIDE DEF b, p
<1>5. \A x \in a.branches : IsAncestor(x, b)
  BY ZenonT(30), <1>1, <1>2, <1>3, <1>4, AncestorOrder DEF Blocks
<1>6. \A t \in a.tips : t = b
  BY Zenon, <1>2, <1>5 DEF EngineOK, TipsLeaves
<1>7. c.tips = {b} /\ c.local_chain = b
  BY Zenon, <1>2, <1>6
<1> DEFINE f == UpdateLib(c).engine
<1>8. /\ f.tips = {t \in c.tips : IsAncestor(f.lib, t)}
      /\ f.local_chain = c.local_chain /\ IsAncestor(f.lib, c.local_chain)
  BY Zenon, <1>2, UpdateLibEffect
<1> HIDE DEF f
<1>9. f.tips = {b} /\ f.local_chain = b
  BY Zenon, <1>7, <1>8
<1> QED
  BY Zenon, <1>2, <1>9 DEF f, b, p

------------------------------------------------------------------------------
\* The steps of the service

\* What applying a block leads to, once the block is stored.
LEMMA ApplyingAdvances ==
  ASSUME NEW e, EngineOK(e), \A x \in e.branches : SlotsRise(Canonical(x)),
         NEW p \in e.branches, NEW h \in Headers,
         Append(p, h) \notin e.branches, SlotOf(p) < SlotOf(Append(p, h)),
         NEW r \in ReceiveOutcomes(e, Append(p, h))
  PROVE  LET T == e.branches \cup {Append(p, h)}
         IN  /\ Advanced(T, e.lib, r.engine, r.pruned)
             /\ Rooted(T, e.lib) /\ T \subseteq Blocks
             /\ History(T) = History(e.branches) \cup {Append(p, h)}
             /\ \A x \in T : SlotsRise(Canonical(x))
             /\ SlotsRise(Canonical(r.engine.lib))
             /\ e.lib \in Blocks /\ r.engine.lib \in Blocks
<1> DEFINE b == Append(p, h)
           T == e.branches \cup {b}
<1>1. Advanced(T, e.lib, r.engine, r.pruned) /\ Rooted(T, e.lib) /\ T \subseteq Blocks
  BY Zenon, ReceiveAdvances
<1>2. p \in Blocks /\ e.lib \in Blocks
  BY Zenon DEF EngineOK, EngineType
<1>3. b \in Blocks /\ IsAncestor(p, b) /\ IsAncestor(b, b)
      /\ \A a \in Blocks : IsAncestor(a, b) => a = b \/ IsAncestor(a, p)
  BY Zenon, <1>2, ChildAncestors, AncestorOrder DEF Blocks
<1>4. SlotsRise(Canonical(b))
  BY Zenon, <1>2, SlotsRiseToChild
<1> HIDE DEF b
<1>5. Canonical(b) = Canonical(p) \cup {b}
  <2>1. /\ Canonical(p) = {x \in Blocks : IsAncestor(x, p)}
        /\ Canonical(b) = {x \in Blocks : IsAncestor(x, b)}
    BY ZenonT(30), <1>2, <1>3, CanonicalIsAncestors
  <2>2. \A x \in Blocks : IsAncestor(x, p) => IsAncestor(x, b)
    BY ZenonT(30), <1>2, <1>3, AncestorOrder DEF Blocks
  <2> QED
    BY ZenonT(30), <1>3, <2>1, <2>2
<1>6. History(T) = History(e.branches) \cup {b}
  BY Zenon, <1>5 DEF History
<1>7. \A x \in T : SlotsRise(Canonical(x))
  BY Zenon, <1>4
<1>8. r.engine.lib \in T
  BY Zenon, <1>1 DEF Advanced
<1> QED
  BY ZenonT(30), <1>1, <1>2, <1>6, <1>7, <1>8 DEF b

\* The service is in the state that StoreBlock needs: the block that is
\* accepted extends the tree.
LEMMA TryApplyExtends ==
  ASSUME MemoryOK, Running, NEW b \in Blocks, b # Genesis, NEW r \in TryApply(b)
  PROVE  LET p == ParentOf(b)
             h == b[Len(b)]
         IN  /\ p \in engine.branches /\ h \in Headers /\ b = Append(p, h)
             /\ b \notin engine.branches /\ SlotOf(p) < SlotOf(b)
             /\ r \in ReceiveOutcomes(engine, b)
<1>1. /\ b \notin ledger /\ ParentOf(b) \in ledger /\ SlotOf(ParentOf(b)) < SlotOf(b)
      /\ r \in ReceiveOutcomes(engine, b)
  BY Zenon DEF TryApply
<1>2. ledger = engine.branches
  BY Zenon DEF MemoryOK
<1> QED
  BY Zenon, <1>1, <1>2, BlockIsChild

\* Storing a block keeps all of the invariant but the phases.
LEMMA StoreKeeps ==
  ASSUME ServiceInv, step \in {"idle", "replay"}, NEW b \in Blocks, b # Genesis, StoreBlock(b),
         UNCHANGED <<engine, outcome, ledger, to_remove, start, todo, failed, updater, saved,
                     ghosts>>
  PROVE  /\ MemoryOK' /\ RecoveryOK' /\ IndexOK' /\ StorageOK'
         /\ step' = "stored" /\ \E r : candidate' = {[block |-> b, result |-> r]}
<1>1. Running /\ candidate = {} /\ step # "online"
  BY Zenon DEF ServiceInv, PhaseOK, Running
<1>2. PICK r \in TryApply(b) :
        /\ candidate' = {[block |-> b, result |-> r]}
        /\ store' = store \cup {b}
        /\ index' = Reindexed(ImmutableBlocksIndex(r.pruned, r.engine.lib # engine.lib,
                                                   r.engine.lib))
        /\ step' = "stored"
  BY Zenon DEF StoreBlock
<1> DEFINE p == ParentOf(b)
           h == b[Len(b)]
<1>3. /\ p \in engine.branches /\ h \in Headers /\ b = Append(p, h)
      /\ b \notin engine.branches /\ SlotOf(p) < SlotOf(b)
      /\ r \in ReceiveOutcomes(engine, b)
  BY ZenonT(30), <1>1, <1>2, TryApplyExtends DEF ServiceInv
<1>4. /\ EngineOK(engine) /\ ledger = engine.branches
      /\ \A x \in engine.branches : SlotsRise(Canonical(x))
      /\ History(engine.branches) \ {Genesis} \subseteq store
      /\ \A x \in to_remove \cup todo \cup failed : Stale(engine.lib, x)
  BY Zenon, <1>1 DEF ServiceInv, MemoryOK
<1> DEFINE T == engine.branches \cup {b}
<1>5. /\ Advanced(T, engine.lib, r.engine, r.pruned) /\ Rooted(T, engine.lib) /\ T \subseteq Blocks
      /\ SlotsRise(Canonical(r.engine.lib))
      /\ engine.lib \in Blocks /\ r.engine.lib \in Blocks
  BY ZenonT(30), <1>3, <1>4, ApplyingAdvances
<1> HIDE DEF p, h
<1>6. Running'
  BY Zenon, <1>2 DEF Running
<1>7. MemoryOK'
  <2>1. ASSUME NEW c \in candidate' PROVE CandidateOK(c)'
    <3>1. c.block = b /\ c.result = r
      BY <1>2, <2>1
    <3>2. b \in store'
      BY Zenon, <1>2
    <3> QED
      BY ZenonT(30), <1>3, <3>1, <3>2 DEF CandidateOK, p
  <2> QED
    BY ZenonT(30), <1>2, <1>4, <1>6, <2>1 DEF MemoryOK
<1>8. RecoveryOK'
  <2>1. RecoveryOK
    BY Zenon DEF ServiceInv
  <2>2. step = "replay" => start # "done"
    BY Zenon DEF ServiceInv, PhaseOK
  <2> QED
    BY ZenonT(30), <1>1, <1>2, <1>6, <2>1, <2>2 DEF RecoveryOK, SnapshotOK
<1>9. IndexOK'
  <2> SUFFICES ASSUME ~index_lost PROVE IndexOK'
    BY Zenon DEF IndexOK, ghosts
  <2>1. Canonical(engine.lib) \ {Genesis} \subseteq index
    BY Zenon, <1>1 DEF ServiceInv, IndexOK
  <2>2. Canonical(r.engine.lib) \ {Genesis} \subseteq index'
    BY ZenonT(30), <1>2, <1>5, <2>1, AdvanceIndex
  <2>3. /\ IsAncestor(saved.lib, updater.lib) /\ IsAncestor(updater.lib, engine.lib)
        /\ saved.lib \in Blocks /\ updater.lib \in Blocks
    BY Zenon, <1>1 DEF ServiceInv, RecoveryOK, SnapshotOK, SnapshotType
  <2>4. IsAncestor(engine.lib, r.engine.lib)
    BY Zenon, <1>5 DEF Advanced
  <2>5. /\ Canonical(saved.lib) \subseteq Canonical(r.engine.lib)
        /\ Canonical(updater.lib) \subseteq Canonical(r.engine.lib)
        /\ Canonical(engine.lib) \subseteq Canonical(r.engine.lib)
    <3>1. /\ Canonical(saved.lib) \subseteq Canonical(updater.lib)
          /\ Canonical(updater.lib) \subseteq Canonical(engine.lib)
          /\ Canonical(engine.lib) \subseteq Canonical(r.engine.lib)
      BY ZenonT(30), <1>5, <2>3, <2>4, CanonicalGrows
    <3> QED
      BY Zenon, <3>1
  <2>6. \A c \in candidate' : c.result = r
    BY <1>2
  <2> QED
    BY ZenonT(30), <1>2, <2>2, <2>5, <2>6 DEF IndexOK
<1>10. StorageOK'
  <2>1. /\ crashes' = crashes /\ crashes \in Nat
        /\ crashes = 0 =>
             /\ store \subseteq History(engine.branches) \cup todo \cup failed \cup to_remove
             /\ step = "replay" => to_remove \subseteq todo
    BY Zenon, <1>1 DEF ServiceInv, StorageOK, ghosts
  <2>2. {c.block : c \in candidate'} = {b}
    BY <1>2
  <2>3. step = "idle" => start = "done"
    BY Zenon DEF ServiceInv, PhaseOK
  <2> QED
    BY ZenonT(30), <1>2, <2>1, <2>2, <2>3 DEF StorageOK, History
<1> QED
  BY ZenonT(30), <1>2, <1>7, <1>8, <1>9, <1>10

\* ConsensusMsg::ApplyBlock
LEMMA ApplyKeeps ==
  ASSUME ServiceInv, NEW parent \in ledger, NEW header \in Headers, ApplyBlock(parent, header)
  PROVE  ServiceInv'
<1> DEFINE b == Append(parent, header)
<1>1. step = "idle" /\ StoreBlock(b) /\ Running /\ start = "done"
  BY Zenon DEF ApplyBlock, ServiceInv, PhaseOK, Running
<1>2. parent \in Blocks
  BY Zenon, <1>1 DEF ServiceInv, MemoryOK, EngineOK, EngineType
<1>3. b \in Blocks /\ b # Genesis
  <2>1. b \in Blocks /\ Len(b) = Len(parent) + 1 /\ Len(parent) \in Nat
    BY <1>2, ChildAncestors DEF Blocks
  <2> QED
    BY <2>1 DEF Genesis
<1>4. UNCHANGED <<engine, outcome, ledger, to_remove, queue, start, todo, failed, updater, saved,
                  ghosts>>
  BY Zenon DEF ApplyBlock
<1> HIDE DEF b
<1>5. /\ MemoryOK' /\ RecoveryOK' /\ IndexOK' /\ StorageOK'
      /\ step' = "stored" /\ \E r : candidate' = {[block |-> b, result |-> r]}
  BY ZenonT(30), <1>1, <1>3, <1>4, StoreKeeps
<1>6. PhaseOK'
  <2>1. start' = "done" /\ step' = "stored" /\ \A c, d \in candidate' : c = d
    BY Zenon, <1>1, <1>4, <1>5
  <2> QED
    BY Zenon, <2>1 DEF PhaseOK, Steps, Starts
<1> QED
  BY Zenon, <1>5, <1>6 DEF ServiceInv

\* The next block of the recovered chain.
LEMMA ReplayKeeps ==
  ASSUME ServiceInv, ReplayBlock
  PROVE  ServiceInv'
<1> DEFINE b == Head(queue)
<1>1. /\ step = "replay" /\ queue # <<>> /\ StoreBlock(b) /\ queue' = Tail(queue)
      /\ UNCHANGED <<engine, outcome, ledger, to_remove, start, todo, failed, updater, saved,
                     ghosts>>
  BY Zenon DEF ReplayBlock
<1>2. start = "recovered"
  BY Zenon, <1>1 DEF ServiceInv, PhaseOK, Running, Starts
<1>3. engine.tips = {engine.local_chain} /\ ChainFrom(engine.local_chain, queue)
  BY Zenon, <1>1, <1>2 DEF ServiceInv, PhaseOK
<1>4. /\ b \in Blocks /\ b # Genesis /\ ParentOf(b) = engine.local_chain
      /\ ChainFrom(b, Tail(queue))
  BY Zenon, <1>1, <1>3, ChainTail
<1> HIDE DEF b
<1>5. /\ MemoryOK' /\ RecoveryOK' /\ IndexOK' /\ StorageOK'
      /\ step' = "stored" /\ \E r : candidate' = {[block |-> b, result |-> r]}
  BY ZenonT(30), <1>1, <1>4, StoreKeeps
<1>6. PhaseOK'
  <2>1. /\ start' = "recovered" /\ step' = "stored" /\ \A c, d \in candidate' : c = d
        /\ \A c \in candidate' : c.block = b
    BY <1>1, <1>2, <1>5
  <2>2. engine' = engine /\ queue' = Tail(queue)
    BY Zenon, <1>1
  <2>3. \A c \in candidate' : ParentOf(c.block) = engine'.local_chain /\ ChainFrom(c.block, queue')
    BY ZenonT(30), <1>4, <2>1, <2>2
  <2>4. engine'.tips = {engine'.local_chain}
    BY Zenon, <1>3, <2>2
  <2> QED
    BY ZenonT(30), <2>1, <2>3, <2>4 DEF PhaseOK, Steps, Starts
<1> QED
  BY Zenon, <1>5, <1>6 DEF ServiceInv

\* What becomes due for removal when the LIB advances is stale, and stays so.
LEMMA RemovalsStayStale ==
  ASSUME NEW T, T \subseteq Blocks, NEW L \in Blocks, NEW e, NEW pruned, Advanced(T, L, e, pruned),
         NEW S, \A x \in S : Stale(L, x)
  PROVE  \A x \in S \cup pruned.stale : Stale(e.lib, x)
<1>1. /\ e.lib \in Blocks /\ IsAncestor(L, e.lib)
      /\ pruned.stale = {x \in T : ~IsAncestor(x, e.lib) /\ ~IsAncestor(e.lib, x)}
  BY Zenon DEF Advanced
<1>2. \A x \in S : Stale(e.lib, x)
  BY ZenonT(30), <1>1, StaleStays
<1>3. \A x \in pruned.stale : Stale(e.lib, x)
  BY Zenon, <1>1 DEF Stale
<1> QED
  BY Zenon, <1>2, <1>3

\* The candidate becomes the state.
LEMMA CommitKeeps ==
  ASSUME ServiceInv, Commit
  PROVE  ServiceInv'
<1>1. step = "stored" /\ Running
  BY Zenon DEF Commit, Running
<1>2. PICK c \in candidate :
        /\ engine' = c.result.engine
        /\ ledger' = LedgerAfter(ledger \cup {c.block}, c.result.pruned)
        /\ todo' = todo \cup StaleIn(c.result.pruned) \cup to_remove
  BY Zenon DEF Commit
<1>3. /\ candidate' = {} /\ step' = IF start = "done" THEN "delete" ELSE "replay"
      /\ UNCHANGED <<to_remove, queue, start, failed, updater, store, index, saved, index_lost,
                     crashes>>
  BY Zenon DEF Commit, NoCandidate, storage
<1> DEFINE b == c.block
           r == c.result
<1>4. /\ EngineOK(engine) /\ ledger = engine.branches
      /\ \A x \in engine.branches : SlotsRise(Canonical(x))
      /\ History(engine.branches) \ {Genesis} \subseteq store
      /\ \A x \in to_remove \cup todo \cup failed : Stale(engine.lib, x)
      /\ CandidateOK(c)
  BY Zenon, <1>1 DEF ServiceInv, MemoryOK
<1>5. PICK p \in engine.branches, h \in Headers : b = Append(p, h)
  BY Zenon, <1>4 DEF CandidateOK
<1>6. /\ b \notin engine.branches /\ SlotOf(ParentOf(b)) < SlotOf(b) /\ b \in store
      /\ r \in ReceiveOutcomes(engine, b)
  BY Zenon, <1>4 DEF CandidateOK
<1>7. ParentOf(b) = p
  BY <1>4, <1>5, ChildAncestors DEF EngineOK, EngineType, Blocks
<1> HIDE DEF b, r
<1> DEFINE T == engine.branches \cup {b}
<1>8. /\ Advanced(T, engine.lib, r.engine, r.pruned) /\ Rooted(T, engine.lib) /\ T \subseteq Blocks
      /\ History(T) = History(engine.branches) \cup {b}
      /\ \A x \in T : SlotsRise(Canonical(x))
      /\ engine.lib \in Blocks /\ r.engine.lib \in Blocks
  <2>1. /\ Append(p, h) \notin engine.branches /\ SlotOf(p) < SlotOf(Append(p, h))
        /\ r \in ReceiveOutcomes(engine, Append(p, h))
    BY ZenonT(30), <1>5, <1>6, <1>7
  <2> DEFINE U == engine.branches \cup {Append(p, h)}
  <2>2. /\ Advanced(U, engine.lib, r.engine, r.pruned) /\ Rooted(U, engine.lib) /\ U \subseteq Blocks
        /\ History(U) = History(engine.branches) \cup {Append(p, h)}
        /\ \A x \in U : SlotsRise(Canonical(x))
        /\ engine.lib \in Blocks /\ r.engine.lib \in Blocks
    BY ZenonT(30), <1>4, <2>1, ApplyingAdvances
  <2> QED
    BY Zenon, <1>5, <2>2
<1>9. /\ History(r.engine.branches) \subseteq History(T)
      /\ History(T) \subseteq History(r.engine.branches) \cup r.pruned.stale
  BY Zenon, <1>8, AdvanceHistory
<1>10. /\ engine' = r.engine /\ ledger' = LedgerAfter(T, r.pruned)
       /\ todo' = todo \cup r.pruned.stale \cup to_remove
  BY Zenon, <1>2, <1>4 DEF StaleIn, r, b
<1>11. Running'
  BY Zenon, <1>3 DEF Running
<1>12. EngineOK(r.engine) /\ IsAncestor(engine.lib, r.engine.lib)
       /\ r.engine.branches \subseteq T
  BY Zenon, <1>8 DEF Advanced
<1>13. MemoryOK'
  <2>1. ledger' = engine'.branches
    BY ZenonT(30), <1>8, <1>10, AdvanceLedger
  <2>2. \A x \in engine'.branches : SlotsRise(Canonical(x))
    BY Zenon, <1>8, <1>10, <1>12
  <2>3. History(engine'.branches) \ {Genesis} \subseteq store'
    BY Zenon, <1>3, <1>4, <1>6, <1>8, <1>9, <1>10
  <2>4. \A x \in (to_remove \cup todo \cup failed) \cup r.pruned.stale : Stale(r.engine.lib, x)
    <3>1. PICK S : S = to_remove \cup todo \cup failed
      BY Zenon
    <3>2. /\ T \subseteq Blocks /\ engine.lib \in Blocks
          /\ Advanced(T, engine.lib, r.engine, r.pruned) /\ \A x \in S : Stale(engine.lib, x)
      BY ZenonT(30), <1>4, <1>8, <3>1
    <3> HIDE DEF T
    <3>3. \A x \in S \cup r.pruned.stale : Stale(r.engine.lib, x)
      BY SMTT(20), <3>2, RemovalsStayStale
    <3> QED
      BY ZenonT(30), <3>1, <3>3
  <2>5. \A x \in to_remove' \cup todo' \cup failed' : Stale(engine'.lib, x)
    BY ZenonT(30), <1>3, <1>10, <2>4
  <2>6. EngineOK(engine')
    BY Zenon, <1>10, <1>12
  <2> QED
    BY ZenonT(30), <1>3, <2>1, <2>2, <2>3, <2>5, <2>6 DEF MemoryOK, History
<1>14. RecoveryOK'
  <2>1. /\ RecoveryOK /\ updater.lib \in Blocks /\ IsAncestor(updater.lib, engine.lib)
    BY Zenon, <1>1 DEF ServiceInv, RecoveryOK, SnapshotOK, SnapshotType
  <2>2. IsAncestor(updater.lib, engine'.lib)
    <3>1. IsAncestor(updater.lib, r.engine.lib)
      BY ZenonT(30), <1>8, <1>12, <2>1, BelowBelow
    <3> QED
      BY ZenonT(30), <1>10, <3>1
  <2> QED
    BY ZenonT(30), <1>3, <1>11, <2>1, <2>2 DEF RecoveryOK, SnapshotOK
<1>15. PhaseOK'
  <2>1. start \in Starts /\ start # "fell_back"
    BY Zenon, <1>1 DEF ServiceInv, PhaseOK
  <2>2. CASE start = "done"
    BY Zenon, <1>3, <2>2 DEF PhaseOK, Steps, Starts
  <2>3. CASE start = "recovered"
    <3>1. engine.tips = {engine.local_chain} /\ p = engine.local_chain /\ ChainFrom(b, queue)
      BY ZenonT(30), <1>1, <1>2, <1>7, <2>3 DEF ServiceInv, PhaseOK, b
    <3>2. r.engine.local_chain = b /\ r.engine.tips = {b}
      BY ZenonT(30), <1>4, <1>5, <1>6, <1>7, <3>1, LinearReceive
    <3>3. engine'.tips = {engine'.local_chain} /\ ChainFrom(engine'.local_chain, queue')
      BY ZenonT(30), <1>3, <1>10, <3>1, <3>2
    <3> QED
      BY ZenonT(30), <1>3, <2>3, <3>3 DEF PhaseOK, Steps, Starts
  <2> QED
    BY ZenonT(30), <2>1, <2>2, <2>3 DEF Starts
<1>16. IndexOK'
  <2>1. ~index_lost => Canonical(r.engine.lib) \ {Genesis} \subseteq index
    BY Zenon, <1>2 DEF ServiceInv, IndexOK, r
  <2> QED
    BY ZenonT(30), <1>3, <1>10, <2>1 DEF ServiceInv, IndexOK
<1>17. StorageOK'
  <2>1. \A d \in candidate : d = c
    BY Zenon, <1>2 DEF ServiceInv, PhaseOK
  <2>2. {d.block : d \in candidate} = {b}
    BY Zenon, <1>2, <2>1 DEF b
  <2>3. /\ crashes \in Nat
        /\ crashes = 0 => store \subseteq History(engine.branches) \cup todo \cup failed
                                            \cup to_remove \cup {b}
    BY Zenon, <1>1, <2>2 DEF ServiceInv, StorageOK
  <2>4. crashes = 0 => store \subseteq History(engine'.branches) \cup todo' \cup failed
    BY ZenonT(30), <1>8, <1>9, <1>10, <2>3
  <2> QED
    BY ZenonT(30), <1>3, <1>10, <2>3, <2>4 DEF StorageOK, History
<1> QED
  BY ZenonT(30), <1>13, <1>14, <1>15, <1>16, <1>17 DEF ServiceInv

==============================================================================
