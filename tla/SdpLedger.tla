----------------------------- MODULE SdpLedger -----------------------------
(***************************************************************************)
(* The service declaration protocol (SDP) in the ledger: ledger/src/mantle/ *)
(* sdp/mod.rs, core/src/sdp/service_notes.rs and the SDP operations of      *)
(* core/src/mantle/ops/sdp, with the rewards of the one service there is,   *)
(* the Blend network (ledger/src/mantle/sdp/rewards/blend).                 *)
(*                                                                          *)
(* A provider declares itself by locking a note, serves in the epochs whose *)
(* snapshot has its declaration, reports its activity of one epoch during   *)
(* the next, and withdraws.  The snapshot of an epoch is taken two epochs   *)
(* ahead (EpochLedger), so declarations, snapshots, locks and rewards move  *)
(* at different times.                                                      *)
(*                                                                          *)
(* A declaration id is the hash of the service and the provider's zk_id, so *)
(* with one service a declaration is named by its zk_id.  Signatures and    *)
(* activity proofs are inputs that verified; an operation that fails fails  *)
(* its block, which changes nothing.                                        *)
(***************************************************************************)
EXTENDS Naturals, FiniteSets, Functions, Maps

CONSTANTS
    ZkIds, ProviderIds, Notes,
    StakeNotes,         \* the notes worth at least the minimum stake
    Genesis,            \* the declarations of the genesis block, by zk_id
    InactivityPeriod,
    MinimumNetworkSize,
    Distances,          \* the Hamming distances of activity proofs
    BlockIncome,        \* the Blend share of one block's rewards
    MaxEpoch,           \* bound on the epochs
    MaxSequence,        \* bound on the sequence of a nonce
    MaxIncome           \* bound on the income of all blocks

SNAPSHOT_FINALIZATION_DELAY == 2

\* InactivityPeriod::new refuses a shorter period, and from_genesis verifies the
\* declarations of the genesis block like any others.
ASSUME SdpAssumption ==
    /\ DOMAIN Genesis \subseteq ZkIds
    /\ \A z \in DOMAIN Genesis :
            /\ Genesis[z].provider_id \in ProviderIds
            /\ Genesis[z].note \in Notes
            /\ \A y \in DOMAIN Genesis \ {z} :
                    /\ Genesis[y].provider_id # Genesis[z].provider_id
                    /\ Genesis[y].note # Genesis[z].note
    /\ InactivityPeriod \in Nat
    /\ InactivityPeriod >= SNAPSHOT_FINALIZATION_DELAY
    /\ MinimumNetworkSize \in Nat \ {0}
    /\ BlockIncome \in Nat /\ Distances \subseteq Nat
    /\ MaxEpoch \in Nat /\ MaxSequence \in Nat

VARIABLES
    epoch,          \* of the last block
    utxos,          \* the notes of the ledger
    declarations,   \* ServiceState::declarations, by zk_id
    provider_index,
    service_notes,  \* the note of a declaration -> the declaration
    active_declarations,        \* of the epoch state: the declarations serving
    next_active_declarations,   \* of the next epoch state
    target,         \* the epoch that is reported on, or NoTarget
    tracker,        \* TargetEpochTracker
    epoch_income,   \* CurrentEpochTracker
    history         \* what properties need to remember

registryVars == <<utxos, declarations, provider_index, service_notes>>
snapshotVars == <<active_declarations, next_active_declarations>>
incomeVars   == <<target, tracker, epoch_income>>
sdpVars      == <<epoch, registryVars, snapshotVars, incomeVars, history>>

NoTarget  == [epoch |-> 0, providers |-> << >>, income |-> 0]
HasTarget == DOMAIN target.providers # {}
NoReports == [proofs |-> << >>, min_distance |-> 0, premium |-> {}]
Never     == MaxEpoch + SNAPSHOT_FINALIZATION_DELAY + 1  \* no withdraw_at yet

-----------------------------------------------------------------------------
(* Snapshots.                                                              *)

\* is_active.
IsActive(d, e) == d.active + InactivityPeriod >= e /\ d.withdraw_at > e

\* SdpLedger::active_declarations.
Active(e) == [z \in {z \in DOMAIN declarations : IsActive(declarations[z], e)}
                |-> declarations[z]]

-----------------------------------------------------------------------------
(* Rewards.                                                                *)

\* MinHammingDistance::with_update: the providers at the least distance.
WithUpdate(t, provider, distance) ==
    CASE t.premium = {} \/ distance < t.min_distance ->
            [t EXCEPT !.min_distance = distance, !.premium = {provider}]
      [] t.premium # {} /\ distance = t.min_distance ->
            [t EXCEPT !.premium = @ \cup {provider}]
      [] OTHER -> t

\* TargetEpochTracker::finalize: a share for each report, two for a report at
\* the least distance; zk_id -> amount.
Finalize(t) ==
    LET shares == Cardinality(DOMAIN t.proofs) + Cardinality(t.premium)
    IN  [z \in {target.providers[p] : p \in DOMAIN t.proofs} |->
            LET p == CHOOSE p \in DOMAIN t.proofs : target.providers[p] = z
            IN  (target.income \div shares) * (IF p \in t.premium THEN 2 ELSE 1)]

\* CurrentEpochTracker::finalize when the chain enters epoch e: the epoch that
\* ends becomes the target, unless epochs were skipped or too few served in it.
NewTarget(e) ==
    IF e > epoch + 1 \/ Cardinality(DOMAIN active_declarations) < MinimumNetworkSize
    THEN NoTarget
    ELSE [epoch |-> epoch,
          providers |->
            [p \in {active_declarations[z].provider_id : z \in DOMAIN active_declarations}
                |-> CHOOSE z \in DOMAIN active_declarations :
                        active_declarations[z].provider_id = p],
          income |-> epoch_income]

-----------------------------------------------------------------------------
(* Blocks.                                                                 *)

\* Declaration::new.
NewDeclaration(e, provider, note) ==
    [provider_id |-> provider, note |-> note, created |-> e,
     active |-> e + SNAPSHOT_FINALIZATION_DELAY, withdraw_at |-> Never,
     sequence |-> 0]

\* SdpLedger::from_genesis, then with_genesis_sdp: the declarations of the
\* genesis block serve from epoch 0 on.
SdpInit ==
    /\ epoch = 0
    /\ utxos = Notes
    /\ declarations = [z \in DOMAIN Genesis |->
            NewDeclaration(0, Genesis[z].provider_id, Genesis[z].note)]
    /\ provider_index = [p \in {Genesis[z].provider_id : z \in DOMAIN Genesis} |->
            CHOOSE z \in DOMAIN Genesis : Genesis[z].provider_id = p]
    /\ service_notes = [n \in {Genesis[z].note : z \in DOMAIN Genesis} |->
            CHOOSE z \in DOMAIN Genesis : Genesis[z].note = n]
    /\ active_declarations = declarations
    /\ next_active_declarations = declarations
    /\ target = NoTarget
    /\ tracker = NoReports
    /\ epoch_income = 0
    /\ history = [accepted |-> {}, idle |-> {}, income |-> 0, paid |-> 0]

\* remove_withdrawn_declarations.  unlock returns an error, and the caller
\* panics, for a declaration that does not hold its note: Unlockable.
Expired(e) == {z \in DOMAIN declarations : e > declarations[z].withdraw_at}

RemoveWithdrawn(e) ==
    /\ declarations' = Without(declarations, Expired(e))
    /\ provider_index' = Without(provider_index,
                            {declarations[z].provider_id : z \in Expired(e)})
    /\ service_notes' = Without(service_notes,
                            {declarations[z].note : z \in Expired(e)})

Total(amounts) == FoldFunction(+, 0, amounts)

\* A declaration that served in the target epoch, or would have.
ReportDue(z) ==
    \/ declarations[z].provider_id \in DOMAIN target.providers
    \/ epoch > declarations[z].created + SNAPSHOT_FINALIZATION_DELAY

\* The header of the first block of an epoch: the epoch state moves on
\* (update_epoch_state), from the registry before the block; then the rewards
\* of the target epoch are paid and a new target set (Rewards::update_epoch);
\* then what has been withdrawn is removed.
EnterEpoch(e) ==
    /\ e > epoch
    /\ epoch' = e
    /\ active_declarations' =
            IF e = epoch + 1 THEN next_active_declarations ELSE Active(e)
    /\ next_active_declarations' = Active(e + 1)
    /\ target' = NewTarget(e)
    /\ tracker' = NoReports
    /\ epoch_income' = 0
    /\ RemoveWithdrawn(e)
    /\ history' = [history EXCEPT
            !.paid = @ + Total(Finalize(tracker)),
            !.idle = {z \in DOMAIN declarations' :
                        \/ z \in history.idle
                        \/ e > epoch + 1
                        \/ ReportDue(z) /\ declarations[z].provider_id
                                              \notin DOMAIN tracker.proofs}]
    /\ UNCHANGED utxos

\* add_blend_income, at the end of a block.
AddIncome ==
    /\ history.income + BlockIncome <= MaxIncome
    /\ epoch_income' = epoch_income + BlockIncome
    /\ history' = [history EXCEPT !.income = @ + BlockIncome]
    /\ UNCHANGED <<epoch, registryVars, snapshotVars, target, tracker>>

-----------------------------------------------------------------------------
(* Operations.                                                             *)

\* SDPDeclareOp::validate and execute; the note must exist and be worth the
\* minimum stake.
Declare(zk, provider, note) ==
    /\ note \in utxos
    /\ zk \notin DOMAIN declarations
    /\ provider \notin DOMAIN provider_index
    /\ note \in StakeNotes
    /\ note \notin DOMAIN service_notes
    /\ declarations' = With(declarations, zk, NewDeclaration(epoch, provider, note))
    /\ provider_index' = With(provider_index, provider, zk)
    /\ service_notes' = With(service_notes, note, zk)
    /\ UNCHANGED <<epoch, utxos, snapshotVars, incomeVars, history>>

\* A nonce of any life of the declaration.
ValidateNonceFaulty(zk, nonce) == nonce.sequence > declarations[zk].sequence

\* validate_nonce: of this life of the declaration, and increasing.
ValidateNonce(zk, nonce) ==
    /\ nonce.lifecycle_epoch = declarations[zk].created
    /\ nonce.sequence > declarations[zk].sequence

Accept(zk, nonce) ==
    history' = [history EXCEPT !.accepted = @ \cup {<<zk, nonce>>}]

\* SDPActiveOp::verify and execute, then Rewards::update_active, whose error
\* fails the operation as well: no target, a provider that did not serve in
\* the target epoch (verify_proof), a second report (insert).
SendActive(zk, nonce, distance) ==
    LET d == declarations[zk]
    IN  /\ zk \in DOMAIN declarations
        /\ d.withdraw_at >= epoch
        /\ ValidateNonce(zk, nonce)
        /\ HasTarget
        /\ d.provider_id \in DOMAIN target.providers
        /\ d.provider_id \notin DOMAIN tracker.proofs
        /\ declarations' = [declarations EXCEPT
                ![zk].active = epoch, ![zk].sequence = nonce.sequence]
        /\ tracker' = [WithUpdate(tracker, d.provider_id, distance) EXCEPT
                !.proofs = With(@, d.provider_id, distance)]
        /\ Accept(zk, nonce)
        /\ UNCHANGED <<epoch, utxos, provider_index, service_notes, snapshotVars,
                       target, epoch_income>>

\* One epoch, and no delay at all.
WithdrawAtEarly(e) == e + 1
WithdrawAt(e) == e + SNAPSHOT_FINALIZATION_DELAY

\* SDPWithdrawOp::verify and execute.
Withdraw(zk, nonce) ==
    LET d == declarations[zk]
    IN  /\ zk \in DOMAIN declarations
        /\ d.withdraw_at = Never
        /\ d.note \in DOMAIN service_notes
        /\ service_notes[d.note] = zk
        /\ ValidateNonce(zk, nonce)
        /\ declarations' = [declarations EXCEPT
                ![zk].withdraw_at = WithdrawAt(epoch),
                ![zk].sequence = nonce.sequence]
        /\ Accept(zk, nonce)
        /\ UNCHANGED <<epoch, utxos, provider_index, service_notes, snapshotVars,
                       incomeVars>>

\* A transfer spends a note that no service holds (Inputs::validate).
Spend(note) ==
    /\ note \in utxos
    /\ note \notin DOMAIN service_notes
    /\ utxos' = utxos \ {note}
    /\ UNCHANGED <<epoch, declarations, provider_index, service_notes,
                   snapshotVars, incomeVars, history>>

Nonces == [lifecycle_epoch : 0 .. MaxEpoch, sequence : 1 .. MaxSequence]

SdpNext ==
    \/ \E e \in 1 .. MaxEpoch : EnterEpoch(e)
    \/ AddIncome
    \/ \E zk \in ZkIds, provider \in ProviderIds, note \in Notes :
            Declare(zk, provider, note)
    \/ \E zk \in ZkIds, nonce \in Nonces :
            \/ \E distance \in Distances : SendActive(zk, nonce, distance)
            \/ Withdraw(zk, nonce)
    \/ \E note \in Notes : Spend(note)

SdpSpec == SdpInit /\ [][SdpNext]_sdpVars

-----------------------------------------------------------------------------

\* The registry, the index that keeps provider ids unique and the locks on the
\* notes name the same declarations, and a locked note is unspent: removing a
\* withdrawn declaration never panics and frees what it held.
RegistryIsConsistent ==
    /\ \A z \in DOMAIN declarations :
            /\ declarations[z].provider_id \in DOMAIN provider_index
            /\ provider_index[declarations[z].provider_id] = z
            /\ declarations[z].note \in DOMAIN service_notes
            /\ service_notes[declarations[z].note] = z
            /\ declarations[z].note \in utxos
    /\ \A p \in DOMAIN provider_index : provider_index[p] \in DOMAIN declarations
    /\ \A n \in DOMAIN service_notes : service_notes[n] \in DOMAIN declarations

\* A declaration that serves in this epoch, or is to serve in the next, is the
\* one in the registry, so its note stays locked: no "stake-less service
\* provision", although the snapshots are two epochs old.
Backed(snapshot) ==
    \A z \in DOMAIN snapshot :
        /\ z \in DOMAIN declarations
        /\ declarations[z].created = snapshot[z].created

ProvidersAreStaked == Backed(active_declarations) /\ Backed(next_active_declarations)

\* A provider of the target epoch, withdrawn since or not, can report all
\* through this epoch, and its report credits the zk_id it served under.
ProvidersCanReport ==
    \A p \in DOMAIN target.providers :
        /\ p \in DOMAIN provider_index
        /\ provider_index[p] = target.providers[p]
        /\ declarations[provider_index[p]].withdraw_at >= epoch

\* A signed Active or Withdraw that was applied is refused for ever after, also
\* when its declaration was removed and made again.
NoReplay ==
    \A m \in history.accepted :
        m[1] \in DOMAIN declarations => ~ ValidateNonce(m[1], m[2])

\* All that was ever paid, and is yet to be paid, is income of the service.
RewardsAreCovered ==
    /\ Total(Finalize(tracker)) <= target.income
    /\ history.paid + target.income + epoch_income <= history.income

\* A declaration that reported whenever a report was due, and is not
\* withdrawn, serves in every epoch from the second after its own on: its
\* report is in time for the snapshot that would drop it.
ReportingKeepsOnesPlace ==
    \A z \in DOMAIN declarations :
        \/ z \in history.idle
        \/ declarations[z].withdraw_at # Never
        \/ epoch < declarations[z].created + SNAPSHOT_FINALIZATION_DELAY
        \/ z \in DOMAIN active_declarations

\* Providers serve with a stake, can report for the epoch they served in, and
\* keep their place while they do.
ProvidersAreSound ==
    /\ RegistryIsConsistent
    /\ ProvidersAreStaked
    /\ ProvidersCanReport
    /\ ReportingKeepsOnesPlace

\* A signed message counts once and rewards are paid out of income.
ReportsPayOnce == NoReplay /\ RewardsAreCovered
=============================================================================
