------------------------------- MODULE Uncles --------------------------------
(***************************************************************************)
(* Uncle references: which blocks of forks a new block may reference.  The *)
(* leader selects them (Cryptarchia::select_uncles of the engine), and the *)
(* chain service of every node checks them against the chain the block     *)
(* extends (chain-service/src/uncle.rs).  The headers of this module have  *)
(* a field uncle_slots, the slots of the uncles the block references.      *)
(***************************************************************************)
EXTENDS CryptarchiaEngine

CONSTANTS
  UncleWindow,   \* uncle_reference_window_in_slot of the era of a slot
  MaxUncles,     \* max_uncles of the era of a slot
  EraStart       \* first_slot of the era of a slot

\* No slot is referenced twice along the chain of b, by a block or by an uncle.
ReferencedOnce(b) ==
  \A m, n \in 1..Len(b) :
    /\ b[m].slot \notin b[n].uncle_slots
    /\ m # n => b[m].uncle_slots \cap b[n].uncle_slots = {}

\* What the chain of a block looks like if its blocks follow the rules below.
ChainIsProposed(b) ==
  /\ ReferencedOnce(b)
  /\ \A m, n \in 1..Len(b) : m < n => b[m].slot < b[n].slot
  /\ \A n \in 1..Len(b) : \A s \in b[n].uncle_slots : s < b[n].slot

\* The slots of uncles are slots, and the chains an engine is started from were
\* proposed by the rules below.
ASSUME UncleAssumption ==
  /\ \A s \in {h.slot : h \in Headers} :
       UncleWindow[s] \in Nat /\ MaxUncles[s] \in Nat /\ EraStart[s] \in Nat
  /\ \A h \in Headers : h.uncle_slots \subseteq Nat
  /\ \A lib \in RecoveredLibs : ChainIsProposed(lib)

UncleSlotsOf(b) == IF b = Genesis THEN {} ELSE b[Len(b)].uncle_slots

WindowStart(slot) ==
  IF UncleWindow[slot] < slot THEN slot - UncleWindow[slot] ELSE 0

------------------------------------------------------------------------------
\* Selection

\* Cryptarchia::collect_chain_within_window, the chain
ChainInWindow(e, parent, start) ==
  {a \in Walk(e.branches, parent) : SlotOf(a) >= start}

\* The uncles of the chain are forgotten.
OccupiedSlotsFaulty(chain, start) == {SlotOf(a) : a \in chain}

\* Cryptarchia::collect_chain_within_window, the slots
OccupiedSlots(chain, start) ==
  {SlotOf(a) : a \in chain}
    \cup {s \in UNION {UncleSlotsOf(a) : a \in chain} : s >= start}

\* Cryptarchia::uncle_candidates, and the era filter of select_uncles: the
\* first blocks of the forks that leave the chain of parent in the window.
UncleCandidates(e, parent, slot) ==
  LET start == WindowStart(slot)
      chain == ChainInWindow(e, parent, start)
  IN  {b \in e.branches \ chain :
         /\ SlotOf(b) >= start /\ SlotOf(b) < slot
         /\ ParentOf(b) \in chain
         /\ SlotOf(b) \notin OccupiedSlots(chain, start)
         /\ SlotOf(b) >= EraStart[slot]}

\* The order of the candidates, up to the order of ids.
Before(u, v) ==
  \/ SlotOf(ParentOf(u)) < SlotOf(ParentOf(v))
  \/ SlotOf(ParentOf(u)) = SlotOf(ParentOf(v)) /\ SlotOf(u) < SlotOf(v)

\* Cryptarchia::select_uncles: the first candidates in this order, one per
\* slot, at most MaxUncles of them.  There are several answers, because the
\* order of ids, which are hashes, is not known.
SelectUncles(e, parent, slot) ==
  LET C == UncleCandidates(e, parent, slot)
      slots == {SlotOf(c) : c \in C}
      firsts == {c \in C : \A d \in C : SlotOf(d) = SlotOf(c) => ~Before(d, c)}
  IN  {U \in SUBSET firsts :
         /\ \A u, v \in U : SlotOf(u) = SlotOf(v) => u = v
         /\ Cardinality(U) = IF Cardinality(slots) <= MaxUncles[slot]
                             THEN Cardinality(slots) ELSE MaxUncles[slot]
         /\ \A u \in U : \A c \in firsts :
              Before(c, u) => \E v \in U : SlotOf(v) = SlotOf(c)}

------------------------------------------------------------------------------
\* Verification, in chain-service

\* Cryptarchia::verify_uncles_ancestry
UnclesAncestryValid(e, uncles, parent, start) ==
  LET chain == ChainInWindow(e, parent, start)
  IN  /\ uncles \cap chain = {}
      /\ \A u \in uncles : ParentOf(u) \in chain

\* Cryptarchia::verify_uncle_count and Cryptarchia::verify_uncles, for uncles
\* with valid signatures and leadership proofs.
UnclesValid(e, uncles, parent, slot) ==
  /\ Cardinality(uncles) <= MaxUncles[slot]
  /\ \A u \in uncles : SlotOf(u) < slot /\ SlotOf(u) >= EraStart[slot]
  /\ UnclesAncestryValid(e, uncles, parent, WindowStart(slot))

------------------------------------------------------------------------------
\* A chain whose blocks are all proposed by leaders that run select_uncles on
\* the tree of the model, or find no uncle in their storage.

UncleSlotChoices(e, parent, slot) ==
  {{SlotOf(u) : u \in U} : U \in SelectUncles(e, parent, slot)} \cup {{}}

ReceiveProposed(parent, header) ==
  /\ header.uncle_slots \in UncleSlotChoices(engine, parent, header.slot)
  /\ ReceiveBlock(parent, header)

UncleNext ==
  \/ \E parent \in engine.branches, header \in Headers : ReceiveProposed(parent, header)
  \/ Online

UncleSpec == Init /\ [][UncleNext]_vars

\* Whatever the leader selects, the rules of the chain service accept, for
\* every parent in the tree and every slot: the two are written separately, in
\* two crates, and a leader whose uncles are refused loses its block.
SelectedUnclesAreValid ==
  \A parent \in engine.branches : \A slot \in {h.slot : h \in Headers} :
    SlotOf(parent) < slot =>
      \A U \in SelectUncles(engine, parent, slot) :
        UnclesValid(engine, U, parent, slot)

\* A slot is referenced at most once along a chain, by a block of the chain or
\* by an uncle: select_uncles looks at the ancestors inside the window only,
\* "because their uncles must be older than the window".
SlotsReferencedOnce == \A b \in engine.branches : ReferencedOnce(b)

\* Leaders and verifiers agree on uncles, and no slot counts twice.
UnclesAreSound == SelectedUnclesAreValid /\ SlotsReferencedOnce

==============================================================================
