----------------------------- MODULE RewardPools -----------------------------
(***************************************************************************)
(* The pools block rewards are paid from.  A block's fees are split        *)
(* between a refill of the proof-of-work pool, the Blend income and the    *)
(* leaders' pending rewards.  A leader's reward is claimed with a voucher  *)
(* of an earlier epoch; a proof-of-work reward with a puzzle solution      *)
(* anchored to a recent block, whose nullifier is forgotten once the       *)
(* anchor leaves the acceptance window of its era.                         *)
(*                                                                         *)
(* A block is its header, its claims, then the rewards it earns; a block   *)
(* refused at any point leaves no state, so only accepted prefixes are     *)
(* steps.  A voucher is the number of the block that carries it and stands *)
(* for its nullifier too; a solution is the block it is anchored to, the   *)
(* epoch whose nonce it hashes and a counter, and stands for its ticket.   *)
(***************************************************************************)
EXTENDS Integers, FiniteSets, Functions, Maps

CONSTANTS
    EpochSlots,     \* slots per epoch
    SlotWindow(_),  \* the acceptance window of the era of a slot
    FeeWindowSize,  \* WINDOW_SIZE
    GenesisPool,    \* the proof-of-work pool of the genesis block
    Payout,         \* [num, den] of the pool paid per claim in an epoch
    PowShare,       \* [num, den] of the fees diverted to that pool
    Emission,       \* [num, den, scale, target, average]: block_rewards
    BlendShare,     \* [num, den] of a block's reward
    TotalStake,     \* inferred total stake of the epochs
    BlockFees,      \* possible <<fees burned, tips>> of a block
    Attempts,       \* solutions found per anchor and nonce
    MaxHeadSlot,    \* bound on slots
    MaxClaims       \* bound on the solutions paid

\* NonZero denominators, ProperFraction::new and RewardPoWConfig::validate.
ASSUME RewardAssumption ==
    /\ EpochSlots \in Nat \ {0} /\ FeeWindowSize \in Nat \ {0} /\ GenesisPool \in Nat
    /\ MaxHeadSlot \in Nat /\ \A slot \in 0..MaxHeadSlot : SlotWindow(slot) \in Nat
    /\ Payout.num \in Nat /\ Payout.den \in Nat \ {0}
    /\ PowShare.den \in Nat \ {0} /\ PowShare.num \in 0..PowShare.den
    /\ Emission.num \in Nat /\ Emission.den \in Nat \ {0} /\ Emission.scale \in Nat \ {0}
    /\ Emission.target \in Nat /\ Emission.average \in Nat
    /\ BlendShare.den \in Nat \ {0} /\ BlendShare.num \in 0..BlendShare.den
    /\ TotalStake \in Nat
    /\ \A f \in BlockFees : f[1] \in Nat /\ f[2] \in Nat

VARIABLES head, leaders, pow, feeWindow, paid
rewardVars == <<head, leaders, pow, feeWindow, paid>>

EpochAt(slot) == slot \div EpochSlots
EpochReward(pool) == (pool * Payout.num) \div Payout.den
Solutions ==
    [anchor : 1..MaxHeadSlot, nonce : 0..EpochAt(MaxHeadSlot), attempt : Attempts]

RewardInit ==
    /\ head = [number |-> 0, slot |-> 0, epoch |-> 0, previous |-> 0, open |-> FALSE]
    /\ leaders = [vouchers |-> {}, snapshot |-> {}, nfs |-> {},
                  pending |-> 0, claimable |-> 0]
    /\ pow = [pool |-> GenesisPool, refill |-> 0, reward |-> EpochReward(GenesisPool),
              blocks |-> <<>>, nullifiers |-> <<>>]
    /\ feeWindow = [i \in 0..(FeeWindowSize - 1) |-> 0]
    /\ paid = [earned |-> 0, leaders |-> 0, refilled |-> 0, pow |-> 0,
               times |-> <<>>]

-----------------------------------------------------------------------------
(* The header. *)

\* The first block of an epoch freezes the vouchers of the blocks before it
\* and makes what they earned claimable.
LeadersEnter(l) ==
    [l EXCEPT !.snapshot = l.vouchers, !.claimable = l.claimable + l.pending,
              !.pending = 0]

AddVoucher(l, number) == [l EXCEPT !.vouchers = l.vouchers \cup {number}]

PowEnter(p) ==
    LET pool == p.pool + p.refill
    IN  [p EXCEPT !.pool = pool, !.refill = 0, !.reward = EpochReward(pool)]

WithinSlotWindow(anchor, current) == SatSub(current, anchor) <= SlotWindow(anchor)

Pruned(slots, current) ==
    [x \in {y \in DOMAIN slots : WithinSlotWindow(slots[y], current)} |-> slots[x]]

SeenBlockFaulty(p, number, slot) ==
    [p EXCEPT !.blocks = Pruned(With(p.blocks, number, slot), slot),
              !.nullifiers = [n \in {x \in DOMAIN p.nullifiers :
                  SatSub(slot, p.nullifiers[x]) <= SlotWindow(slot)} |-> p.nullifiers[n]]]
SeenBlock(p, number, slot) ==
    [p EXCEPT !.blocks = Pruned(With(p.blocks, number, slot), slot),
              !.nullifiers = Pruned(p.nullifiers, slot)]

\* previous_epoch_nonce, named by the epoch it belongs to: after a jump over
\* empty epochs the ledger keeps the new epoch's own nonce.
PreviousNonce(epoch) ==
    IF epoch = head.epoch THEN head.previous
    ELSE IF epoch = head.epoch + 1 THEN head.epoch ELSE epoch

Header(slot) ==
    LET epoch  == EpochAt(slot)
        enters == epoch > head.epoch
        number == head.number + 1
    IN  /\ ~head.open
        /\ slot > head.slot
        /\ head' = [number |-> number, slot |-> slot, epoch |-> epoch, open |-> TRUE,
                    previous |-> PreviousNonce(epoch)]
        /\ leaders' = AddVoucher(IF enters THEN LeadersEnter(leaders) ELSE leaders, number)
        /\ pow' = SeenBlock(IF enters THEN PowEnter(pow) ELSE pow, number, slot)
        /\ UNCHANGED <<feeWindow, paid>>

-----------------------------------------------------------------------------
(* Claims. *)

RewardAmount(l) ==
    LET unclaimed == SatSub(Cardinality(l.snapshot), Cardinality(l.nfs))
    IN  IF unclaimed = 0 THEN 0 ELSE l.claimable \div unclaimed

LeaderClaim(voucher) ==
    /\ head.open
    /\ voucher \in leaders.snapshot
    /\ voucher \notin leaders.nfs
    /\ leaders' = [leaders EXCEPT !.nfs = @ \cup {voucher},
                                  !.claimable = @ - RewardAmount(leaders)]
    /\ paid' = [paid EXCEPT !.leaders = @ + RewardAmount(leaders)]
    /\ UNCHANGED <<head, pow, feeWindow>>

PowRewardEnabled == pow.reward > 0 /\ pow.pool >= pow.reward

EpochNonceAccepted(solution) == solution.nonce \in {head.epoch, head.previous}

AcceptClaim(solution) ==
    /\ solution.anchor \in DOMAIN pow.blocks
    /\ pow.blocks[solution.anchor] <= head.slot
    /\ head.slot - pow.blocks[solution.anchor] <= SlotWindow(pow.blocks[solution.anchor])

\* How often a solution was paid (history).
TimesPaid(solution) == IF solution \in DOMAIN paid.times THEN paid.times[solution] ELSE 0

\* A solution cannot be anchored to the block that contains its claim, whose
\* id is the hash of its contents.
PowClaim(solution) ==
    /\ head.open
    /\ solution.anchor < head.number
    /\ PowRewardEnabled
    /\ EpochNonceAccepted(solution)
    /\ AcceptClaim(solution)
    /\ solution \notin DOMAIN pow.nullifiers
    /\ Cardinality(DOMAIN paid.times) < MaxClaims
    /\ pow' = [pow EXCEPT !.nullifiers = With(@, solution, pow.blocks[solution.anchor]),
                          !.pool = @ - pow.reward]
    /\ paid' = [paid EXCEPT !.pow = @ + pow.reward,
                            !.times = With(@, solution, TimesPaid(solution) + 1)]
    /\ UNCHANGED <<head, leaders, feeWindow>>

-----------------------------------------------------------------------------
(* The rewards of a block. *)

PowFeeShare(burned) == (burned * PowShare.num) \div PowShare.den

BlockRewards(pooled, fee) ==
    LET excess      == SatSub(Emission.target + Emission.average * pooled, TotalStake)
        weight      == IF excess < Emission.scale THEN excess ELSE Emission.scale
        reward      == Emission.num * weight + Emission.den * (Emission.scale - weight) * fee
        denominator == Emission.den * Emission.scale * BlendShare.den
    IN  [blend  |-> (reward * BlendShare.num) \div denominator,
         leader |-> (reward * (BlendShare.den - BlendShare.num)) \div denominator]

ComputeBlockRewards(burned, tip) ==
    LET index   == head.number % FeeWindowSize
        refill  == PowFeeShare(burned)
        window  == [feeWindow EXCEPT ![index] = burned - refill]
        rewards == BlockRewards(FoldFunction(+, 0, window), window[index])
    IN  /\ head.open
        /\ head' = [head EXCEPT !.open = FALSE]
        /\ feeWindow' = window
        /\ leaders' = [leaders EXCEPT !.pending = @ + rewards.leader + tip]
        /\ pow' = [pow EXCEPT !.refill = @ + refill]
        /\ paid' = [paid EXCEPT !.earned = @ + rewards.leader + tip,
                                !.refilled = @ + refill]

RewardNext ==
    \/ \E slot \in 1..MaxHeadSlot : Header(slot)
    \/ \E voucher \in leaders.vouchers : LeaderClaim(voucher)
    \/ \E solution \in Solutions : PowClaim(solution)
    \/ \E f \in BlockFees : ComputeBlockRewards(f[1], f[2])

RewardSpec == RewardInit /\ [][RewardNext]_rewardVars

-----------------------------------------------------------------------------
(* Properties. *)

\* Nothing leaders earn is lost or paid twice: rewards and tips are pending,
\* claimable or claimed, across epoch changes that move them and claims that
\* round down.
LeaderRewardsConserved ==
    paid.earned = leaders.pending + leaders.claimable + paid.leaders

\* The order of the claims of an epoch does not matter beyond rounding: a
\* claim leaves the next claimant the same reward, or one unit more.
ClaimOrderIsFair ==
    [][ (leaders'.nfs # leaders.nfs /\ leaders'.nfs # leaders'.snapshot)
          => RewardAmount(leaders') \in {RewardAmount(leaders), RewardAmount(leaders) + 1} ]_rewardVars

\* A puzzle solution is paid at most once, though its nullifier is forgotten
\* when its anchor leaves the window and windows differ between eras.
SolutionsPaidOnce == \A s \in DOMAIN paid.times : paid.times[s] = 1

\* The proof-of-work pool pays only what it holds: its first content and the
\* fees diverted to it are in the pool, in the refill or paid.
PowPoolConserved ==
    /\ pow.pool >= 0
    /\ GenesisPool + paid.refilled = pow.pool + pow.refill + paid.pow

\* A block's reward is at most the larger of the full emission and its fee,
\* as the conversion of each share back to 64 bits expects.
RewardIsBounded ==
    \A i \in DOMAIN feeWindow :
        LET rewards == BlockRewards(FoldFunction(+, 0, feeWindow), feeWindow[i])
            total   == rewards.blend + rewards.leader
        IN  total * Emission.den <= Emission.num \/ total <= feeWindow[i]

\* The pools of the leaders and of the proof of work pay what entered them,
\* once, and fairly.
PoolsPayWhatTheyHold ==
    /\ [](/\ LeaderRewardsConserved /\ PowPoolConserved
          /\ SolutionsPaidOnce /\ RewardIsBounded)
    /\ ClaimOrderIsFair
=============================================================================
