------------------------------- MODULE Markets -------------------------------
(***************************************************************************)
(* The controllers of the ledger: the execution base fee, updated by every *)
(* block from a moving average of the gas used; the storage gas price,     *)
(* updated by the first block of an epoch from the storage gas of the      *)
(* epoch before; and the target of the proof-of-work rewards, retargeted   *)
(* by every block from the claims it holds.  All three are integer         *)
(* arithmetic with chosen roundings.                                       *)
(***************************************************************************)
EXTENDS Integers, Maps

CONSTANTS
    GasTarget,       \* half of the gas limit of a block
    Smoothing,       \* [num, den]: q, the weight of the old execution average
    FeeRate,         \* [num, den]: phi, how fast the base fee follows
    StorageSmoothing,\* [num, den]: beta, the weight of the last epoch
    StorageStep,     \* [num, den]: alpha, the largest change of the price
    ClaimTarget,     \* target_claims_per_block
    ClaimFactor, ClaimPrecision,  \* F and P of the retarget
    GenesisTarget,   \* the target of the minimum difficulty, the largest one
    Gas, StorageGas, Claims,      \* what a block may use and hold
    MaxPrice         \* bound on the fee and the price

CeilDiv(a, b) == (a + b - 1) \div b

\* RewardPoWConfig::validate, and the ratios' own checks.
Ratio == [num : Nat, den : Nat \ {0}]
ASSUME MarketAssumption ==
    /\ {Smoothing, FeeRate, StorageSmoothing, StorageStep} \subseteq Ratio
    /\ {GasTarget, ClaimTarget, ClaimFactor, ClaimPrecision, GenesisTarget} \subseteq Nat
    /\ Gas \subseteq Nat /\ StorageGas \subseteq Nat /\ Claims \subseteq Nat
    /\ GasTarget > 0 /\ Smoothing.num <= Smoothing.den /\ FeeRate.num < FeeRate.den
    /\ StorageSmoothing.num <= StorageSmoothing.den /\ StorageStep.num < StorageStep.den
    /\ ClaimTarget > 0 /\ ClaimFactor < ClaimPrecision
    /\ GenesisTarget > CeilDiv(ClaimFactor, ClaimPrecision - ClaimFactor)

VARIABLES execution, storage, rewardTarget
marketVars == <<execution, storage, rewardTarget>>

MarketInit ==
    /\ execution = [average |-> 0, fee |-> 1]
    /\ storage = [price |-> 1, ema |-> 0, consumed |-> 0]
    /\ rewardTarget = GenesisTarget

-----------------------------------------------------------------------------

AverageGas(gas) ==
    ((Smoothing.den - Smoothing.num) * gas + Smoothing.num * execution.average)
        \div Smoothing.den

BaseFeeStale(average) ==
    CeilDiv(execution.fee
                * ((FeeRate.den - FeeRate.num) * GasTarget + FeeRate.num * execution.average),
            FeeRate.den * GasTarget)
BaseFee(average) ==
    CeilDiv(execution.fee * ((FeeRate.den - FeeRate.num) * GasTarget + FeeRate.num * average),
            FeeRate.den * GasTarget)

\* REWARD_TARGET_FLOOR
RewardTargetFloor ==
    LET floor == CeilDiv(ClaimFactor, ClaimPrecision - ClaimFactor)
    IN  IF floor > 1 THEN floor ELSE 1

NewRewardTarget(claims) ==
    LET demand  == (ClaimPrecision - ClaimFactor) * claims + ClaimFactor * ClaimTarget
        target  == (ClaimTarget * rewardTarget * ClaimPrecision)
                       \div (IF demand > 1 THEN demand ELSE 1)
        floored == IF target > RewardTargetFloor THEN target ELSE RewardTargetFloor
    IN  IF floored < GenesisTarget THEN floored ELSE GenesisTarget

StorageEma ==
    (StorageSmoothing.num * storage.consumed
        + (StorageSmoothing.den - StorageSmoothing.num) * storage.ema)
        \div StorageSmoothing.den

StoragePrice(ema) ==
    LET down == StorageStep.den - StorageStep.num
        up   == StorageStep.den + StorageStep.num
    IN  IF ema = 0
        THEN storage.price
        ELSE IF StorageStep.den * storage.consumed <= down * ema
        THEN CeilDiv(storage.price * down, StorageStep.den)
        ELSE IF StorageStep.den * storage.consumed >= up * ema
        THEN CeilDiv(storage.price * up, StorageStep.den)
        ELSE CeilDiv(storage.price * storage.consumed, ema)

\* The end of a block that used the given gas and held the given claims.
MarketBlock(gas, storageGas, claims) ==
    LET average == AverageGas(gas)
    IN  /\ BaseFee(average) <= MaxPrice
        /\ storage.consumed + storageGas <= 2 * MaxPrice
        /\ execution' = [average |-> average, fee |-> BaseFee(average)]
        /\ storage' = [storage EXCEPT !.consumed = @ + storageGas]
        /\ rewardTarget' = NewRewardTarget(claims)

\* The first block of the next epoch.
MarketEpoch ==
    /\ StoragePrice(StorageEma) <= MaxPrice
    /\ storage' = [price |-> StoragePrice(StorageEma), ema |-> StorageEma, consumed |-> 0]
    /\ UNCHANGED <<execution, rewardTarget>>

MarketNext ==
    \/ \E gas \in Gas, sg \in StorageGas, claims \in Claims : MarketBlock(gas, sg, claims)
    \/ MarketEpoch

MarketSpec == MarketInit /\ [][MarketNext]_marketVars

-----------------------------------------------------------------------------
(* Properties. *)

\* Prices never reach zero, from where multiplication never raises them, and
\* the reward target never leaves its range.
PricesStayPositive ==
    /\ execution.fee >= 1 /\ storage.price >= 1
    /\ rewardTarget \in RewardTargetFloor..GenesisTarget

\* The base fee never falls while blocks average at least the target, and
\* never rises while they average at most the target.
FeeFollowsLoad ==
    [][ /\ execution'.average >= GasTarget => execution'.fee >= execution.fee
        /\ execution'.average <= GasTarget => execution'.fee <= execution.fee ]_marketVars

\* At an epoch change the storage price moves with usage against its moving
\* average, by at most alpha up to rounding, and holds with no usage at all.
StoragePriceStep ==
    [][ LET p == storage.price  q == storage'.price
            a == StorageStep.num  d == StorageStep.den
        IN  /\ q * d >= p * (d - a) /\ q * d < p * (d + a) + d
            /\ (q # p) => (q > p <=> storage.consumed > storage'.ema)
            /\ (storage.consumed = 0 /\ storage'.ema = 0) => q = p ]_marketVars

\* The reward target recovers: with no claims it eases strictly with every
\* block until it is the genesis target; with at least the target number of
\* claims it does not ease.
TargetRecovers ==
    /\ NewRewardTarget(0) > rewardTarget \/ rewardTarget = GenesisTarget
    /\ \A c \in Claims : c >= ClaimTarget => NewRewardTarget(c) <= rewardTarget

\* The markets follow their load, by bounded steps, and never get stuck.
MarketsFollowLoad ==
    [](PricesStayPositive /\ TargetRecovers) /\ FeeFollowsLoad /\ StoragePriceStep
=============================================================================
