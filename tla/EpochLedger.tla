---------------------------- MODULE EpochLedger ----------------------------
(***************************************************************************)
(* The epoch states of the ledger (ledger/src/cryptarchia/mod.rs): which   *)
(* nonce, stake distribution, set of service providers, total stake and    *)
(* Blend difficulty a block of an epoch is judged by.  The ledger computes *)
(* them incrementally, block by block, and skips epochs without blocks;    *)
(* here the result is compared with what the chain's history says.         *)
(*                                                                         *)
(* What only depends on the chain up to a block is modelled by the number  *)
(* of blocks up to it: the nonce, the UTXOs and the SDP ledger of a state  *)
(* are its height.  A total stake is the sequence of the densities it was  *)
(* inferred from, a storage price the sequence of the gas it followed, a   *)
(* Blend difficulty the sequence of the loads it was retargeted by.        *)
(***************************************************************************)
EXTENDS Eras, FiniteSets, Maps

CONSTANTS
    EraSchedules,   \* the deployments to consider: sequences of era entries
    LastSlot,       \* bound: the last slot of a block
    UncleReach      \* how many slots back the one uncle of a block may be

VARIABLES
    schedule,       \* the resolved eras, fixed
    blocks,         \* the chain: the slot and the uncle slots of every block
    ledger          \* LedgerState of the last block

epochVars == <<schedule, blocks, ledger>>

\* Config::nonce_contribution_period: the slots of the first two of the three
\* phases of an epoch, a parameter of its era.
NonceContributionPeriod(epoch) ==
    AtEpoch(schedule, epoch).parameters.contribution

Starts(epoch) == StartingSlotForEpoch(schedule, epoch)

\* config.rs: nonce_snapshot, stake_distribution_snapshot.
NonceSnapshot(epoch) ==
    Starts(epoch - 1) + NonceContributionPeriod(epoch - 1)

StakeDistributionSnapshot(epoch) == Starts(epoch - 1)

-----------------------------------------------------------------------------
(* BlockDensity (cryptarchia/block_density.rs).                            *)

DensityPeriod(epoch) == Starts(epoch) .. NonceSnapshot(epoch + 1) - 1

MarkOccupiedSlots(density, epoch, slot, uncles) ==
    IF slot \in DensityPeriod(epoch)
    THEN density \cup {slot} \cup (uncles \cap DensityPeriod(epoch))
    ELSE density

-----------------------------------------------------------------------------
(* The SDP and PoW ledgers as far as epoch states read them: the height of *)
(* the SDP ledger and TxDensity, whose totals close once per epoch crossed.*)

NoLoad == << >>

CloseEpochs(load, count) ==
    IF count = 0 THEN load
    ELSE [current |-> 0, closed |-> << IF count = 1 THEN load.current ELSE 0 >>]

\* compute_epoch_blend_difficulty, or the difficulty in effect while no epoch
\* has closed.
Retarget(difficulty, load) ==
    IF load.closed = NoLoad THEN difficulty ELSE Append(difficulty, load.closed[1])

ActiveDeclarations(sdp, epoch) == [height |-> sdp, epoch |-> epoch]

\* The snapshot follows the chain for one slot too long.
UpdateFromLedgerFaulty(next, l) ==
    [next EXCEPT
        !.nonce = IF l.slot <= NonceSnapshot(next.epoch) THEN l.height ELSE @,
        !.difficulty = IF l.slot <= NonceSnapshot(next.epoch)
                       THEN Retarget(l.epoch_state.difficulty, l.load) ELSE @,
        !.utxos = IF l.slot < StakeDistributionSnapshot(next.epoch)
                  THEN l.height ELSE @,
        !.declarations = IF l.slot < StakeDistributionSnapshot(next.epoch)
                         THEN ActiveDeclarations(l.height, next.epoch) ELSE @]

\* EpochState::update_from_ledger.
UpdateFromLedger(next, l) ==
    LET open == l.slot < NonceSnapshot(next.epoch)
        staking == l.slot < StakeDistributionSnapshot(next.epoch)
    IN  [next EXCEPT
            !.nonce = IF open THEN l.height ELSE @,
            !.difficulty =
                IF open THEN Retarget(l.epoch_state.difficulty, l.load) ELSE @,
            !.utxos = IF staking THEN l.height ELSE @,
            !.declarations =
                IF staking THEN ActiveDeclarations(l.height, next.epoch) ELSE @]

\* The snapshot of an epoch that reads everything from the state l.
SnapshotOf(l, epoch, stake, difficulty) ==
    [epoch |-> epoch, nonce |-> l.height, utxos |-> l.height, stake |-> stake,
     declarations |-> ActiveDeclarations(l.height, epoch),
     difficulty |-> difficulty]

\* What an epoch left behind, then nothing for each epoch without blocks: the
\* inferences of the total stake, the updates of the storage market.
Settled(history, value, skipped) ==
    Append(history, value) \o [i \in 1 .. skipped |-> 0]

\* LedgerState::update_epoch_state, for a slot after l's: the same epoch, the
\* next one, or one after epochs without blocks.
UpdateEpochState(l, slot) ==
    LET current  == EpochForSlot(schedule, l.slot)
        new      == EpochForSlot(schedule, slot)
        next     == UpdateFromLedger(l.next_epoch_state, l)
        skipped  == new - next.epoch
        stake    == Settled(l.epoch_state.stake, Cardinality(l.density), skipped)
        storage  == Settled(l.storage, l.gas, skipped)
        entered  == IF skipped = 0
                    THEN [next EXCEPT !.stake = stake]
                    ELSE SnapshotOf(l, new, stake, l.epoch_state.difficulty)
    IN  IF new = current
        THEN [l EXCEPT !.slot = slot, !.next_epoch_state = next]
        ELSE [l EXCEPT
                !.slot = slot,
                !.epoch_state = entered,
                !.next_epoch_state =
                    SnapshotOf(l, new + 1, stake, entered.difficulty),
                !.previous_epoch_nonce =
                    IF skipped = 0 THEN l.epoch_state.nonce ELSE l.height,
                !.density = {},
                !.storage = storage,
                !.gas = 0]

\* epoch_state_for_slot: what the leader election, the wallet and the Blend
\* service read for a slot to come.
EpochStateForSlot(slot) == UpdateEpochState(ledger, slot).epoch_state

EpochInit ==
    /\ \E entries \in EraSchedules : schedule = Resolve(entries)
    /\ blocks = << >>
    /\ ledger =
        LET genesis == [height |-> 0]
        IN  [slot |-> 0, height |-> 0, density |-> {}, storage |-> << >>, gas |-> 0,
             load |-> [current |-> 0, closed |-> NoLoad],
             previous_epoch_nonce |-> 0,
             epoch_state |-> SnapshotOf(genesis, 0, << >>, << >>),
             next_epoch_state |-> SnapshotOf(genesis, 1, << >>, << >>)]

\* LedgerState::try_update of a block with one transaction: the header
\* (update_epoch_state, the nonce, the occupied slots; then the PoW ledger
\* closes the epochs crossed), then the contents.  A slot that is not after
\* the parent's is InvalidSlot and applies nothing.
ApplyBlock(slot, uncles) ==
    LET entered == UpdateEpochState(ledger, slot)
        crossed == entered.epoch_state.epoch - ledger.epoch_state.epoch
        load    == CloseEpochs(ledger.load, crossed)
    IN  /\ slot > ledger.slot
        /\ blocks' = Append(blocks, [slot |-> slot, uncles |-> uncles])
        /\ ledger' = [entered EXCEPT
                !.height = @ + 1,
                !.density =
                    MarkOccupiedSlots(@, entered.epoch_state.epoch, slot, uncles),
                !.load = [load EXCEPT !.current = @ + 1],
                !.gas = @ + 1]
        /\ UNCHANGED schedule

EpochNext ==
    \E slot \in 1 .. LastSlot :
        \/ ApplyBlock(slot, {})
        \/ \E uncle \in slot - UncleReach .. slot - 1 :
               uncle > 0 /\ ApplyBlock(slot, {uncle})

EpochSpec == EpochInit /\ [][EpochNext]_epochVars

-----------------------------------------------------------------------------
(* What the history of the chain says.                                     *)

\* The height of the last block before a slot.
HeightBefore(slot) == Cardinality({i \in DOMAIN blocks : blocks[i].slot < slot})

EpochOf(i) == EpochForSlot(schedule, blocks[i].slot)

\* The slots that blocks of the first phases of the epoch, and the uncles they
\* reference, occupy in those phases.
OccupiedIn(epoch) ==
    {s \in DensityPeriod(epoch) :
        \E i \in DOMAIN blocks :
            /\ blocks[i].slot \in DensityPeriod(epoch)
            /\ s \in {blocks[i].slot} \cup blocks[i].uncles}

\* The snapshot of an epoch the chain has reached the start of: the nonce of
\* the last block before the last phase of the epoch before it, the stake and
\* the providers of the last block before that epoch, and a stake inferred
\* once per epoch, from the density of each.
Snapshot(epoch) ==
    LET nonce == IF epoch = 0 THEN 0 ELSE HeightBefore(NonceSnapshot(epoch))
        stake == IF epoch = 0 THEN 0
                 ELSE HeightBefore(StakeDistributionSnapshot(epoch))
    IN  [epoch |-> epoch, nonce |-> nonce, utxos |-> stake,
         declarations |-> ActiveDeclarations(stake, epoch),
         stake |-> [e \in 1 .. epoch |-> Cardinality(OccupiedIn(e - 1))]]

Fields(state) ==
    [epoch |-> state.epoch, nonce |-> state.nonce, utxos |-> state.utxos,
     declarations |-> state.declarations, stake |-> state.stake]

\* For every slot to come, the epoch state synthesized for it, through any
\* number of epochs without blocks, is the snapshot the history defines: a
\* leader and the node that verifies its block agree on it.
EpochStatesMatchHistory ==
    \A slot \in ledger.slot + 1 .. LastSlot :
        Fields(EpochStateForSlot(slot)) = Snapshot(EpochForSlot(schedule, slot))

\* The storage price has followed the gas of every past epoch, once each.
StorageFollowsEveryEpoch ==
    ledger.storage =
        [e \in 1 .. ledger.epoch_state.epoch |->
            Cardinality({i \in DOMAIN blocks : EpochOf(i) = e - 1})]

\* A block from the nonce snapshot on moves nothing of the state of the next
\* epoch, whichever uncles it references and whether it is still of this epoch
\* or already of the next: what leaders and Blend provers computed ahead from
\* the block before it stays valid.
EpochStateIsFrozen ==
    [][\A slot \in ledger'.slot + 1 .. LastSlot :
          LET epoch == EpochForSlot(schedule, slot)
          IN  /\ epoch = ledger.epoch_state.epoch + 1
              /\ ledger'.slot >= NonceSnapshot(epoch)
              => EpochStateForSlot(slot)' = EpochStateForSlot(slot)]_epochVars

\* Slots, epochs and time tile around the slot of every block.
ErasTile == Tiles(schedule, ledger.slot)

\* Epoch states follow the history of the chain and freeze when they should,
\* whatever eras, empty epochs and uncles the chain has.
EpochsFollowHistory ==
    /\ [](EpochStatesMatchHistory /\ StorageFollowsEveryEpoch /\ ErasTile)
    /\ EpochStateIsFrozen
=============================================================================
