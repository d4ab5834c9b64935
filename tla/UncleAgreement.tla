--------------------------- MODULE UncleAgreement ----------------------------
(***************************************************************************)
(* Uncle references between two nodes.  The leader's node has the engine   *)
(* of module Uncles; the peer has an engine of its own and receives the    *)
(* published blocks in an order of its own, so its LIB can be ahead of the *)
(* LIB of the leader's node.                                               *)
(***************************************************************************)
EXTENDS Uncles

VARIABLES
  peer,        \* the engine of the peer
  published    \* the blocks with the uncles they carry

allVars == <<engine, outcome, peer, published>>

AgreementInit ==
  /\ engine = FromLib(Genesis, "Online") /\ peer = engine
  /\ outcome = NoOutcome
  /\ published = {}

\* The leader of the node proposes on its local chain, with the uncles that
\* select_uncles finds.  The other leaders have seen only the chain they
\* extend, so their blocks, which the node receives, have no uncles.
Propose(parent, header) ==
  /\ SlotOf(parent) < header.slot
  /\ \E U \in {{}} \cup (IF parent = engine.local_chain
                          THEN SelectUncles(engine, parent, header.slot) ELSE {}) :
       LET h == [header EXCEPT !.uncle_slots = {SlotOf(u) : u \in U}]
       IN  /\ ReceiveBlock(parent, h)
           /\ published' = published \cup {[block |-> Append(parent, h), uncles |-> U]}
  /\ UNCHANGED peer

\* try_apply_block_with_state_retention at the peer.
Deliver(p) ==
  /\ p.block \notin peer.branches
  /\ ~ParentMissing(peer, p.block)
  /\ UnclesValid(peer, p.uncles, ParentOf(p.block), SlotOf(p.block))
  /\ \E r \in ReceiveOutcomes(peer, p.block) : peer' = r.engine
  /\ UNCHANGED <<engine, outcome, published>>

AgreementNext ==
  \/ \E parent \in engine.branches, header \in Headers :
       header.uncle_slots = {} /\ Propose(parent, header)
  \/ \E p \in published : Deliver(p)

AgreementSpec == AgreementInit /\ [][AgreementNext]_allVars

\* "Keeping the uncle reference window within the finalization window ensures
\* the parent of any uncle a block may reference is still above LIB"
\* (max_allowed_uncle_reference_window_in_block, config.rs): a peer that can
\* receive a block also has the parents of the uncles of the block.
UncleParentsAboveLib ==
  \A p \in published :
    p.block \notin peer.branches /\ ~ParentMissing(peer, p.block) =>
      \A u \in p.uncles : ParentOf(u) \in peer.branches

------------------------------------------------------------------------------
(* The instance for TLC: parameters derived from k, f and W by the formulas
   of config.rs. *)

CONSTANTS
  MaxSlot,   \* the slots of blocks are 1..MaxSlot
  K,         \* k
  FInverse,  \* 1 / f
  W          \* uncle_reference_window_in_block, at most 60 % of k

MCHeaders == [slot : 1..MaxSlot, uncle_slots : SUBSET (1..MaxSlot)]
FromGenesis == {Genesis}
AllK     == [s \in 0..MaxSlot |-> K]
AllSGen  == [s \in 0..MaxSlot |-> (K * FInverse) \div 4]
AllWindow == [s \in 0..MaxSlot |-> W * FInverse]
OneUncle == [s \in 0..MaxSlot |-> 1]
OneEra   == [s \in 0..MaxSlot |-> 0]

==============================================================================
