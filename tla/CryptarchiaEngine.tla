-------------------------- MODULE CryptarchiaEngine --------------------------
(***************************************************************************)
(* The consensus engine, consensus/cryptarchia-engine/src/lib.rs: a tree   *)
(* of blocks, the local chain chosen by the fork choice rule, and the      *)
(* latest immutable block (LIB) behind which the tree is pruned.           *)
(*                                                                         *)
(* The operators work on an engine value (struct Cryptarchia), so that the *)
(* modules of the services that own an engine can use them; the state      *)
(* machine at the end is the engine on its own.                            *)
(***************************************************************************)
EXTENDS BlockTree

CONSTANTS
  Headers,        \* what a block can add to its parent: records with a slot
  SecurityParam,  \* k of the era of a slot
  SGen,           \* s_gen of the era of a slot, the density window in slots
  RecoveredLibs,  \* the blocks an engine may be started from
  MaxBlocks,      \* bound on the number of blocks of the tree
  MaxLength       \* bound on the length of a chain

\* Every era has a positive k and a positive density window; the engine is
\* asked about the slots of headers and about genesis only.
ASSUME EngineAssumption ==
  /\ \A h \in Headers : h.slot \in Nat
  /\ RecoveredLibs \subseteq Seq(Headers)
  /\ \A s \in {h.slot : h \in Headers} \cup {0} :
       SecurityParam[s] \in Nat \ {0} /\ SGen[s] \in Nat \ {0}
  /\ MaxBlocks \in Nat /\ MaxLength \in Nat

Blocks == Seq(Headers)

States == {"Bootstrapping", "Online"}

\* struct Cryptarchia.  local_chain is a copy of a Branch, not a reference.
FromLib(lib, state) ==
  [branches |-> {lib}, tips |-> {lib}, lib |-> lib,
   local_chain |-> lib, state |-> state]

------------------------------------------------------------------------------
\* Fork choice

\* One iteration of maxvalid_bg: does the candidate chain replace cmax?
ReplacesBg(T, cmax, chain) ==
  LET lca     == Lca(T, cmax, chain)
      m       == Length(cmax) - Length(lca)
      limit   == SlotOf(lca) + SGen[SlotOf(lca)]
      density(b) == Length(WalkBackBefore(T, b, limit))
  IN  IF m <= SecurityParam[SlotOf(lca)]
      THEN Length(cmax) < Length(chain)
      ELSE density(cmax) < density(chain)

\* Variants of the code with a plausible fault are named "...Faulty": they are
\* used only to see that the properties below notice the fault.
ReplacesMcFaultyDeep(T, cmax, chain) == Length(cmax) < Length(chain)
ReplacesMcFaultySkipsOne(T, cmax, chain) == Length(cmax) + 1 < Length(chain)

\* One iteration of maxvalid_mc.
ReplacesMc(T, cmax, chain) ==
  LET lca == Lca(T, cmax, chain)
      m   == Length(cmax) - Length(lca)
  IN  /\ m <= SecurityParam[SlotOf(lca)]
      /\ Length(cmax) < Length(chain)

Replaces(e, cmax, chain) ==
  IF e.state = "Bootstrapping" THEN ReplacesBg(e.branches, cmax, chain)
                               ELSE ReplacesMc(e.branches, cmax, chain)

\* One iteration of the loop over the tips: x has the best chain so far and the
\* tips still to visit.
Visit(e, x, t) == [cmax |-> IF Replaces(e, x.cmax, t) THEN t ELSE x.cmax,
                   left |-> x.left \ {t}]

\* The tips are iterated in the order of a hash set, so any order is possible:
\* what the loop may hold after i of its n iterations.
Visited(e, n) ==
  LET visited[i \in 0..n] ==
        IF i = 0 THEN {[cmax |-> e.local_chain, left |-> e.tips]}
        ELSE UNION {{Visit(e, x, t) : t \in x.left} : x \in visited[i - 1]}
  IN  visited

\* State::fork_choice: the chains it may answer.
ForkChoices(e) ==
  LET n == Cardinality(e.tips)
  IN  {x.cmax : x \in Visited(e, n)[n]}

------------------------------------------------------------------------------
\* Latest immutable block and pruning

\* The block is looked up by its height only.
LibOfFaulty(e) ==
  IF e.state = "Bootstrapping" THEN e.lib
  ELSE Lowest({b \in e.branches :
                 Length(e.local_chain) - Length(b) <= SecurityParam[SlotOf(b)]})

\* State::lib
LibOf(e) ==
  LET tip == e.local_chain
      withinK == {b \in LibToTip(e.branches, e.lib, tip) :
                    Length(tip) - Length(b) <= SecurityParam[SlotOf(b)]}
  IN  IF e.state = "Bootstrapping" THEN e.lib ELSE Lowest(withinK)

PrunableForksFaulty(e) ==
  {t \in e.tips \ {e.local_chain} :
     Length(Lca(e.branches, e.local_chain, t)) + 1 < Length(e.lib)}

\* Cryptarchia::prunable_forks, for a depth that is the depth of the LIB:
\* the non-canonical tips whose fork left the local chain below the LIB.
PrunableForks(e) ==
  {t \in e.tips \ {e.local_chain} :
     Length(Lca(e.branches, e.local_chain, t)) < Length(e.lib)}

\* Cryptarchia::prune_fork for every prunable fork: the blocks above the
\* common ancestor with the local chain.
StaleBlocks(e) ==
  UNION {WalkBackTo(e.branches, t, Lca(e.branches, e.local_chain, t))
          : t \in PrunableForks(e)}

\* Cryptarchia::prune_immutable_blocks: the blocks below the LIB.
ImmutableBlocks(e) == Walk(e.branches, e.lib) \ {e.lib}

\* PrunedBlocks::immutable_blocks is a map from slots to blocks, filled from
\* the LIB downwards: of two blocks with the same slot it keeps the lower.
OnePerSlot(S) ==
  {b \in S : \A c \in S : SlotOf(c) = SlotOf(b) => Length(b) <= Length(c)}

NothingPruned == [stale |-> {}, immutable |-> {}]

\* Cryptarchia::update_lib: the new engine and the PrunedBlocks.
UpdateLib(e) ==
  LET moved == [e EXCEPT !.lib = LibOf(e)]
      stale == StaleBlocks(moved)
      immutable == ImmutableBlocks(moved)
  IN  IF moved.lib = e.lib
      THEN [engine |-> e, pruned |-> NothingPruned]
      ELSE [engine |-> [moved EXCEPT
                          !.branches = (@ \ stale) \ immutable,
                          !.tips = @ \ PrunableForks(moved)],
            pruned |-> [stale |-> stale, immutable |-> OnePerSlot(immutable)]]

\* Cryptarchia::online
GoOnline(e) == UpdateLib([e EXCEPT !.state = "Online"])

------------------------------------------------------------------------------
\* Receiving a block

\* Branches::apply_header, once the parent is known and the slot is valid.
ApplyHeader(e, b) ==
  [e EXCEPT !.branches = @ \cup {b},
            !.tips = (@ \ {ParentOf(b)}) \cup {b}]

ParentMissing(e, b) == ParentOf(b) \notin e.branches
InvalidSlot(e, b)   == SlotOf(ParentOf(b)) > SlotOf(b)

\* The new chain is followed down to the old one instead of to the common
\* ancestor.
OutcomeFaulty(e, applied, tip) ==
  LET T       == applied.branches
      updated == UpdateLib([applied EXCEPT !.local_chain = tip])
  IN  [engine |-> updated.engine, pruned |-> updated.pruned,
       reorged |-> WalkBackTo(T, e.local_chain, Lca(T, e.local_chain, tip)),
       newly_canonical |-> WalkBackTo(T, tip, e.local_chain)]

\* Cryptarchia::receive_block_with_canonical_change after apply_header, when
\* fork choice answers tip: the new engine and the ReceiveBlockOutcome.
Outcome(e, applied, tip) ==
  LET T       == applied.branches
      lca     == Lca(T, e.local_chain, tip)
      updated == UpdateLib([applied EXCEPT !.local_chain = tip])
  IN  [engine |-> updated.engine,
       pruned |-> updated.pruned,
       reorged |-> IF tip = e.local_chain THEN {}
                   ELSE WalkBackTo(T, e.local_chain, lca),
       newly_canonical |-> IF tip = e.local_chain THEN {}
                           ELSE WalkBackTo(T, tip, lca)]

ReceiveOutcomes(e, b) ==
  LET applied == ApplyHeader(e, b)
  IN  {Outcome(e, applied, tip) : tip \in ForkChoices(applied)}

------------------------------------------------------------------------------
\* The engine on its own

VARIABLES
  engine,   \* struct Cryptarchia
  outcome   \* the block given to the last call, and what the call returned

vars == <<engine, outcome>>

NoOutcome == [received |-> {}, pruned |-> NothingPruned, reorged |-> {}, newly_canonical |-> {}]

ReportOf(b, r) == [received |-> {b}, pruned |-> r.pruned, reorged |-> r.reorged,
                   newly_canonical |-> r.newly_canonical]

Init ==
  /\ \E lib \in RecoveredLibs, state \in States : engine = FromLib(lib, state)
  /\ outcome = NoOutcome

\* The ledger lets a block have the slot of its parent.
ReceiveBlockFaulty(parent, header) ==
  LET b == Append(parent, header)
  IN  /\ b \notin engine.branches /\ SlotOf(parent) <= SlotOf(b)
      /\ Length(b) <= MaxLength /\ Cardinality(engine.branches) < MaxBlocks
      /\ \E r \in ReceiveOutcomes(engine, b) :
           engine' = r.engine /\ outcome' = ReportOf(b, r)

\* receive_block of a block that extends the tree.  The owner of the engine
\* (chain-service, try_apply_block_with_state_retention) never hands over a
\* block twice, and asks the ledger first, which accepts a block only if its
\* slot is after the slot of its parent.
ReceiveBlock(parent, header) ==
  LET b == Append(parent, header)
  IN  /\ b \notin engine.branches
      /\ SlotOf(parent) < SlotOf(b)
      /\ ~ParentMissing(engine, b)
      /\ ~InvalidSlot(engine, b)
      /\ Length(b) <= MaxLength /\ Cardinality(engine.branches) < MaxBlocks
      /\ \E r \in ReceiveOutcomes(engine, b) :
           /\ engine' = r.engine
           /\ outcome' = ReportOf(b, r)

\* online(), called once the bootstrap period is over.
Online ==
  /\ engine.state = "Bootstrapping"
  /\ LET r == GoOnline(engine)
     IN  /\ engine' = r.engine
         /\ outcome' = [NoOutcome EXCEPT !.pruned = r.pruned]

Next ==
  \/ \E parent \in engine.branches, header \in Headers :
       ReceiveBlock(parent, header)
  \/ Online

Spec == Init /\ [][Next]_vars

------------------------------------------------------------------------------
\* Properties

EngineType ==
  [branches : SUBSET Blocks, tips : SUBSET Blocks, lib : Blocks,
   local_chain : Blocks, state : States]

PrunedType == [stale : SUBSET Blocks, immutable : SUBSET Blocks]

OutcomeType ==
  [received : SUBSET Blocks, pruned : PrunedType,
   reorged : SUBSET Blocks, newly_canonical : SUBSET Blocks]

\* Every component of the engine and of the outcome has its type.
TypeOK == engine \in EngineType /\ outcome \in OutcomeType

\* The tree is one tree, rooted at the LIB: every block descends from the LIB
\* through blocks of the tree.  update_lib must prune all forks that left the
\* chain before the new LIB, and nothing else, or a later lca would find no
\* common ancestor and panic.
RootedAtLib(e) == Rooted(e.branches, e.lib) /\ e.local_chain \in e.branches

TreeRootedAtLib == RootedAtLib(engine)

\* The tips are the leaves of the tree.  apply_header and prune_fork maintain
\* the set incrementally, and fork choice looks at no other block.
TipsLeaves(e) ==
  /\ e.tips \subseteq e.branches
  /\ \A t \in e.tips : \A b \in e.branches : IsAncestor(t, b) => b = t
  /\ \A b \in e.branches : \E t \in e.tips : IsAncestor(b, t)

TipsAreLeaves == TipsLeaves(engine)

\* The bookkeeping of the tree is right: what apply_header and update_lib add
\* and remove one block at a time leaves one tree, rooted at the LIB, with the
\* local chain in it, whose leaves are the tips.
TreeIsSound == TreeRootedAtLib /\ TipsAreLeaves

\* Finality: the chain up to the LIB is a log that only grows, whatever forks,
\* reorgs and era changes the engine goes through.
Finality == INSTANCE FinalizedLog WITH Entries <- Headers, log <- engine.lib

LibIsFinal == Finality!Spec

\* In state Online a reorg goes to a longer chain and undoes at most the k blocks
\* of the era of its fork point; fork choice undoes more only if it passed through
\* another chain, that is shorter than the new one and that it could accept.
ReorgBounded ==
  LET T    == engine.branches \cup outcome'.received
      old  == engine.local_chain
      new  == engine'.local_chain
      undone(c)   == Length(old) - Length(Lca(T, old, c))
      accepted(c) == /\ Length(old) < Length(c)
                     /\ undone(c) <= SecurityParam[SlotOf(Lca(T, old, c))]
  IN  engine.state = "Online" /\ new # old =>
        /\ Cardinality(outcome'.reorged) = undone(new)
        /\ accepted(new) \/ \E c \in T : accepted(c) /\ Length(c) < Length(new)

OnlineReorgBounded == [][ReorgBounded]_vars

\* No block of the tree has a larger k than a block above it.
KNeverFalls(T) ==
  \A a, b \in T : IsAncestor(a, b) => SecurityParam[SlotOf(a)] <= SecurityParam[SlotOf(b)]

\* One pass of fork choice over the tips is enough, in whatever order they are
\* visited and although each is compared with the best chain so far and not
\* with the last one: the local chain ends in a tip, and in state Online, unless
\* an era lowers k, every tip that is longer left it more than k blocks ago.
OnePassSettles ==
  outcome'.received # {} =>
    LET local == engine'.local_chain
    IN  /\ local \in engine'.tips
        /\ engine.state = "Online" /\ KNeverFalls(engine.branches \cup outcome'.received) =>
             \A t \in engine'.tips :
               LET lca == Lca(engine'.branches, local, t)
               IN  Length(t) > Length(local) =>
                     Length(local) - Length(lca) > SecurityParam[SlotOf(lca)]

ForkChoiceSettled == [][OnePassSettles]_vars

\* What receive_block reports of a canonical change is exact: dropping the
\* reorged blocks from the old chain and adding the newly canonical ones
\* gives the new chain, whatever was pruned by the same call.
Canonical(b) == {AtLength(b, n) : n \in 0..Length(b)}

ReportsChange ==
  /\ outcome'.reorged \subseteq Canonical(engine.local_chain)
  /\ outcome'.newly_canonical \cap Canonical(engine.local_chain) = {}
  /\ Canonical(engine'.local_chain) =
       (Canonical(engine.local_chain) \ outcome'.reorged) \cup outcome'.newly_canonical

CanonicalChangeExact == [][ReportsChange]_vars

\* Every block that leaves the tree is reported as pruned, as immutable if it
\* is behind the new LIB and as stale if it was on a fork (the chain service
\* indexes the former and deletes the latter), and nothing else is reported.
ReportsPruned ==
  LET gone == (engine.branches \cup outcome'.received) \ engine'.branches
  IN  /\ outcome'.pruned.immutable = {b \in gone : IsAncestor(b, engine'.lib)}
      /\ outcome'.pruned.stale = {b \in gone : ~IsAncestor(b, engine'.lib)}

PruningExact == [][ReportsPruned]_vars

==============================================================================
