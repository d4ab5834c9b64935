------------------------------ MODULE MCEngine -------------------------------
(***************************************************************************)
(* Two small instances of the engine and of the uncle rules in one: early  *)
(* blocks, with two candidates for every slot and the uncles their leaders *)
(* select, and late blocks, on an engine that was started from a recovered *)
(* LIB, where k has dropped and forks are longer than the new k.  Beside   *)
(* them, the epochs of one chain: a behaviour moves the engine or extends  *)
(* that chain.                                                             *)
(***************************************************************************)
EXTENDS Uncles, EpochLedger, TLC

CONSTANTS
  MaxSlot,    \* the slots of early blocks are 1..MaxSlot
  EarlyBlocks, EarlyLength,  \* MaxBlocks and MaxLength of the early instance
  FirstLate,  \* the slot of the recovered LIB; it is the last slot of its era
  LastLate,   \* the last slot of a late block
  Tags,       \* tell apart early blocks with the same parent and slot
  Late        \* the tag of late blocks

VARIABLE part

Slots == 0..MaxSlot \cup FirstLate..LastLate

MCHeaders ==
  [slot : 1..MaxSlot, tag : Tags, uncle_slots : SUBSET (1..MaxSlot)]
    \cup [slot : FirstLate..LastLate, tag : {Late}, uncle_slots : {{}}]

RecoveredLib == << [slot |-> FirstLate, tag |-> Late, uncle_slots |-> {}] >>
GenesisOrRecovered == {Genesis, RecoveredLib}

\* k rises from 1 to 2 at slot 3, and drops from 3 to 1 after the recovered LIB.
KVaries ==
  [s \in Slots |-> IF s < 3 THEN 1 ELSE IF s < FirstLate THEN 2
                    ELSE IF s = FirstLate THEN 3 ELSE 1]
SGenOne == [s \in Slots |-> 1]
\* A window shorter than the chain, and an era change at slot 2.
WindowThree == [s \in Slots |-> 3]
TwoUncles   == [s \in Slots |-> 2]
TwoEras     == [s \in Slots |-> IF s < 2 THEN 0 ELSE 2]

EngineIsLate == IsAncestor(RecoveredLib, engine.lib)

EngineNext ==
  \/ \E parent \in engine.branches, header \in Headers :
       /\ ~EngineIsLate /\ header.slot <= MaxSlot
       /\ Cardinality(engine.branches) < EarlyBlocks /\ Length(parent) < EarlyLength
       /\ ReceiveProposed(parent, header)
  \/ \E parent \in engine.branches, header \in Headers :
       /\ EngineIsLate /\ header.slot > MaxSlot
       /\ ReceiveProposed(parent, header)
  \/ Online

Era(first, length, duration, contribution) ==
  [first_epoch |-> first, epoch_length |-> length, slot_duration |-> duration,
   contribution |-> contribution]

\* One era; longer epochs and slots first; longer epochs and slots later.
MCSchedules == {<<Era(0, 3, 1, 2)>>,
                <<Era(0, 4, 2, 2), Era(1, 3, 1, 1)>>,
                <<Era(0, 3, 1, 2), Era(2, 5, 2, 3)>>}

ConsensusInit ==
  /\ part \in {"engine", "epochs"}
  /\ Init /\ EpochInit
  /\ part = "engine" => schedule = Resolve(<<Era(0, 3, 1, 2)>>)
  /\ part = "epochs" => engine = FromLib(Genesis, "Online")

ConsensusNext ==
  \/ part = "engine" /\ EngineNext /\ UNCHANGED <<epochVars, part>>
  \/ part = "epochs" /\ EpochNext /\ UNCHANGED <<vars, part>>

ConsensusSpec == ConsensusInit /\ [][ConsensusNext]_<<vars, epochVars, part>>

TagSymmetry == Permutations(Tags)

==============================================================================
