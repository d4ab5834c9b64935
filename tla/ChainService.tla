---------------------------- MODULE ChainService -----------------------------
(***************************************************************************)
(* The chain service, services/chain/chain-service: it owns the engine and *)
(* the ledger states of the blocks of the tree, stores every block it      *)
(* applies, keeps an index of the immutable ones, deletes the stale ones   *)
(* and records a recovery state, from which it starts again after a crash. *)
(*                                                                         *)
(* The service is one task.  Its awaits on the storage service, and the    *)
(* task that saves the recovery state, make the steps below: the process   *)
(* may crash between any two of them.  Storage keeps what was written.     *)
(***************************************************************************)
EXTENDS CryptarchiaEngine

CONSTANT MaxCrashes   \* bound on the number of crashes

ASSUME CrashAssumption == MaxCrashes \in Nat

VARIABLES
  ledger,     \* the blocks whose ledger state is in memory
  to_remove,  \* storage_blocks_to_remove
  step,       \* where the task is
  queue,      \* the stored blocks that are still to be replayed at start
  start,      \* how far the start of the service is
  candidate,  \* what the block being processed leads to, while it is stored
  todo,       \* the blocks that are being deleted from storage
  failed,     \* the blocks whose deletion failed
  updater,    \* the recovery state last given to the state updater
  store,      \* storage: the blocks, each with its parent
  index,      \* storage: the immutable blocks, by slot
  saved,      \* storage: the recovery state
  published,  \* the LIBs that subscribers were told of
  index_lost, \* whether a write of the index failed, which is only logged
  crashes

memory  == <<engine, outcome, ledger, to_remove, queue, start, candidate, todo, failed>>
storage == <<store, index, saved>>
ghosts  == <<published, index_lost, crashes>>
svars   == <<memory, step, updater, storage, ghosts>>

\* In "down" nothing runs; in "replay" the service starts; in "stored" a block
\* was stored and the candidate is not yet the state; in "online" the engine
\* has just been switched; in "delete" stale blocks are deleted; in "idle" the
\* service waits for a message.
Steps == {"down", "replay", "stored", "online", "delete", "idle"}

\* While the service starts, it has found the recovered chain in storage, or
\* fell back to the recovered LIB.
Starts == {"recovered", "fell_back", "done"}

\* CryptarchiaConsensusState; the ledger state of the LIB follows from the LIB.
Snapshot(e, removals) ==
  [tip |-> e.local_chain, lib |-> e.lib, state |-> e.state,
   storage_blocks_to_remove |-> removals]

\* CryptarchiaConsensusState::from_settings
Fresh == Snapshot(FromLib(Genesis, "Bootstrapping"), {})

NoCandidate == {}

\* The memory of a service that does not run.
Blank ==
  /\ engine' = FromLib(Genesis, "Bootstrapping") /\ outcome' = NoOutcome
  /\ ledger' = {} /\ to_remove' = {} /\ queue' = <<>> /\ start' = "done"
  /\ candidate' = NoCandidate /\ todo' = {} /\ failed' = {}

ServiceInit ==
  /\ engine = FromLib(Genesis, "Bootstrapping") /\ outcome = NoOutcome
  /\ ledger = {} /\ to_remove = {} /\ queue = <<>> /\ start = "done"
  /\ candidate = NoCandidate /\ todo = {} /\ failed = {}
  /\ step = "down" /\ updater = Fresh /\ saved = Fresh
  /\ store = {} /\ index = {} /\ published = {}
  /\ index_lost = FALSE /\ crashes = 0

------------------------------------------------------------------------------
\* Applying a block

\* Cryptarchia::try_apply_block_with_state_retention, for a valid block whose
\* slot has begun: the answers of the engine, none if the block is refused.
TryApply(b) ==
  IF /\ b \notin ledger /\ ParentOf(b) \in ledger
     /\ SlotOf(ParentOf(b)) < SlotOf(b)
     /\ ~ParentMissing(engine, b)
  THEN ReceiveOutcomes(engine, b) ELSE {}

\* The new LIB is indexed only when it is pruned.
ImmutableBlocksIndexFaulty(pruned, changed, new_lib) == pruned.immutable

\* immutable_blocks_index
ImmutableBlocksIndex(pruned, changed, new_lib) ==
  pruned.immutable \cup (IF changed THEN {new_lib} ELSE {})

\* A write to the index replaces what was there for the slot.
Reindexed(ids) ==
  {b \in index : \A c \in ids : SlotOf(b) # SlotOf(c)} \cup ids

\* process_block up to store_block_data, which writes the block and the index
\* in one batch.  When it fails nothing has changed.
StoreBlock(b) ==
  \E r \in TryApply(b) :
    /\ candidate' = {[block |-> b, result |-> r]}
    /\ store' = store \cup {b}
    /\ index' = Reindexed(ImmutableBlocksIndex(r.pruned, r.engine.lib # engine.lib,
                                               r.engine.lib))
    /\ step' = "stored"

\* ConsensusMsg::ApplyBlock
ApplyBlock(parent, header) ==
  /\ step = "idle"
  /\ Length(parent) < MaxLength /\ Cardinality(engine.branches) < MaxBlocks
  /\ StoreBlock(Append(parent, header))
  /\ UNCHANGED <<engine, outcome, ledger, to_remove, queue, start, todo,
                 failed, updater, saved, ghosts>>

\* The service starts: the next stored block is applied again.
ReplayBlock ==
  /\ step = "replay" /\ queue # <<>>
  /\ StoreBlock(Head(queue))
  /\ queue' = Tail(queue)
  /\ UNCHANGED <<engine, outcome, ledger, to_remove, start, todo, failed,
                 updater, saved, ghosts>>

\* Every pruned block is deleted.
StaleInFaulty(pruned) == pruned.stale \cup pruned.immutable

\* PrunedBlocks::stale_blocks, the blocks that are deleted from storage
StaleIn(pruned) == pruned.stale

\* prune_ledger_states
LedgerAfter(states, pruned) == (states \ pruned.stale) \ pruned.immutable

\* The rest of process_block: the candidate becomes the state, and the LIB is
\* published if it has moved.  The stale blocks are deleted next, and those
\* that could not be deleted before; at start, once all blocks are replayed.
Commit ==
  /\ step = "stored"
  /\ \E c \in candidate :
       /\ engine' = c.result.engine
       /\ outcome' = ReportOf(c.block, c.result)
       /\ ledger' = LedgerAfter(ledger \cup {c.block}, c.result.pruned)
       /\ published' = IF c.result.engine.lib = engine.lib THEN published
                       ELSE published \cup {c.result.engine.lib}
       /\ todo' = todo \cup StaleIn(c.result.pruned) \cup to_remove
  /\ candidate' = NoCandidate
  /\ step' = IF start = "done" THEN "delete" ELSE "replay"
  /\ UNCHANGED <<to_remove, queue, start, failed, updater, storage,
                 index_lost, crashes>>

\* switch_to_online up to the write of the index: the engine is switched at
\* the end of the prolonged bootstrap period, whatever it has received.
SwitchToOnline ==
  /\ step = "idle" /\ engine.state = "Bootstrapping"
  /\ LET r == GoOnline(engine)
     IN  /\ engine' = r.engine
         /\ outcome' = [NoOutcome EXCEPT !.pruned = r.pruned]
         /\ ledger' = LedgerAfter(ledger, r.pruned)
         /\ todo' = StaleIn(r.pruned) \cup to_remove
  /\ step' = "online"
  /\ UNCHANGED <<to_remove, queue, start, candidate, failed, updater, storage,
                 ghosts>>

\* store_immutable_blocks_index, always with the LIB.  An error is logged.
StoreIndex ==
  /\ step = "online"
  /\ \/ /\ index' = Reindexed(ImmutableBlocksIndex(outcome.pruned, TRUE, engine.lib))
        /\ UNCHANGED index_lost
     \/ index_lost' = TRUE /\ UNCHANGED index
  /\ step' = "delete"
  /\ UNCHANGED <<memory, updater, store, saved, published, crashes>>

------------------------------------------------------------------------------
\* Deleting stale blocks and recording the recovery state

\* delete_blocks_from_storage: the requests are answered one by one.
RemoveBlock(b) ==
  /\ step = "delete" /\ b \in todo
  /\ todo' = todo \ {b}
  /\ \/ store' = store \ {b} /\ UNCHANGED failed
     \/ failed' = failed \cup {b} /\ UNCHANGED store
  /\ UNCHANGED <<engine, outcome, ledger, to_remove, queue, start, candidate,
                 step, updater, index, saved, ghosts>>

\* The blocks that could not be deleted are forgotten.
DeletedFaultyForgets ==
  /\ step = "delete" /\ todo = {}
  /\ to_remove' = {} /\ failed' = {} /\ outcome' = NoOutcome
  /\ updater' = IF start = "recovered" THEN updater ELSE Snapshot(engine, {})
  /\ start' = "done" /\ step' = "idle"
  /\ UNCHANGED <<engine, ledger, queue, candidate, todo, storage, ghosts>>

\* The service waits until every block is deleted.
DeletedFaultyWaits ==
  /\ step = "delete" /\ todo = {} /\ failed = {}
  /\ to_remove' = {} /\ outcome' = NoOutcome
  /\ updater' = IF start = "recovered" THEN updater ELSE Snapshot(engine, {})
  /\ start' = "done" /\ step' = "idle"
  /\ UNCHANGED <<engine, ledger, queue, candidate, todo, failed, storage, ghosts>>

\* delete_stale_blocks_from_storage has returned; then record_recovery_state,
\* except that a start records only a fall back to the LIB.
Deleted ==
  /\ step = "delete" /\ todo = {}
  /\ to_remove' = failed /\ failed' = {} /\ outcome' = NoOutcome
  /\ updater' = IF start = "recovered" THEN updater ELSE Snapshot(engine, failed)
  /\ start' = "done" /\ step' = "idle"
  /\ UNCHANGED <<engine, ledger, queue, candidate, todo, storage, ghosts>>

\* state_recording_timer: record_recovery_state
RecordState ==
  /\ step = "idle"
  /\ updater' = Snapshot(engine, to_remove)
  /\ UNCHANGED <<memory, step, storage, ghosts>>

\* The task of the state updater saves the last recovery state it was given.
SaveState ==
  /\ step # "down" /\ saved # updater
  /\ saved' = updater
  /\ UNCHANGED <<memory, step, updater, store, index, ghosts>>

------------------------------------------------------------------------------
\* Crash and start

Crash ==
  /\ step # "down" /\ crashes < MaxCrashes
  /\ Blank
  /\ step' = "down" /\ updater' = saved /\ crashes' = crashes + 1
  /\ UNCHANGED <<storage, published, index_lost>>

\* choose_engine_state: the recorded state, or Bootstrapping if the node was
\* offline for too long or is told to bootstrap.
StartStates(recovered) ==
  IF recovered.lib = Genesis THEN {"Bootstrapping"}
  ELSE {"Bootstrapping", recovered.state}

\* The LIB is not skipped.
RecoveryBlocksFaulty(recovered) ==
  [i \in 1..Length(recovered.tip) - Length(recovered.lib) |->
     AtLength(recovered.tip, Length(recovered.lib) + i - 1)]

\* load_recovery_blocks_from_storage: the blocks after lib up to tip
RecoveryBlocks(recovered) ==
  [i \in 1..Length(recovered.tip) - Length(recovered.lib) |->
     AtLength(recovered.tip, Length(recovered.lib) + i)]

InStorage(blocks) == \A i \in DOMAIN blocks : blocks[i] \in store

\* initialize_cryptarchia up to the replay.  Without the LIB in storage, where
\* its parent is looked up, the service panics and stays down.
Start ==
  /\ step = "down"
  /\ saved.lib # Genesis => saved.lib \in store
  /\ \E state \in StartStates(saved) : engine' = FromLib(saved.lib, state)
  /\ ledger' = {saved.lib}
  /\ to_remove' = saved.storage_blocks_to_remove
  /\ todo' = saved.storage_blocks_to_remove
  /\ IF InStorage(RecoveryBlocks(saved))
     THEN queue' = RecoveryBlocks(saved) /\ start' = "recovered"
     ELSE queue' = <<>> /\ start' = "fell_back"
  /\ step' = "replay"
  /\ UNCHANGED <<outcome, candidate, failed, updater, storage, ghosts>>

\* All blocks are replayed.
Replayed ==
  /\ step = "replay" /\ queue = <<>>
  /\ step' = "delete"
  /\ UNCHANGED <<memory, updater, storage, ghosts>>

------------------------------------------------------------------------------
\* What the running service does by itself
ServiceStep ==
  \/ ReplayBlock \/ Replayed \/ Commit \/ StoreIndex \/ Deleted
  \/ \E b \in todo : RemoveBlock(b)

ServiceNext ==
  \/ \E parent \in ledger, header \in Headers : ApplyBlock(parent, header)
  \/ ServiceStep
  \/ SwitchToOnline \/ RecordState \/ SaveState \/ Crash \/ Start

ServiceSpec == ServiceInit /\ [][ServiceNext]_svars

\* The operator starts the node again after a crash, and the task of the
\* service runs on; neither blocks nor the end of the bootstrap period must
\* ever come.
FairServiceSpec ==
  ServiceSpec /\ WF_svars(ServiceStep) /\ WF_svars(Start)

------------------------------------------------------------------------------
\* Properties

Running == step # "down"

SnapshotType ==
  [tip : Blocks, lib : Blocks, state : States,
   storage_blocks_to_remove : SUBSET Blocks]

\* The service keeps the types of its state: the candidate is one block with
\* an outcome of the engine exactly while that block is being stored.
ServiceTypeOK ==
  /\ engine \in EngineType /\ outcome \in OutcomeType
  /\ step \in Steps /\ start \in Starts
  /\ updater \in SnapshotType /\ saved \in SnapshotType
  /\ queue \in Seq(Blocks)
  /\ \A S \in {ledger, to_remove, todo, failed, store, index, published} :
       S \subseteq Blocks
  /\ index_lost \in BOOLEAN /\ crashes \in 0..MaxCrashes
  /\ (candidate # {}) <=> (step = "stored")
  /\ \A c \in candidate : c.block \in Blocks /\ c.result.engine \in EngineType

\* The ledger states in memory are those of the blocks of the tree.  The
\* service takes a ledger state as the sign that a block was applied, and asks
\* for the states of the tip and of the LIB without a check.
LedgerMatchesEngine == Running => ledger = engine.branches

\* The blocks of the tree and all their ancestors are in storage, although
\* stale blocks are deleted late, again after a failure, and again after a
\* restart from an older state: peers are served from storage, and the
\* transactions of reorged blocks are read from it.
HistoryStored ==
  Running => \A b \in engine.branches : Canonical(b) \ {Genesis} \subseteq store

\* A start never fails: the LIB of the saved state is in storage, and the
\* block that is replayed next is accepted.
RecoverySucceeds ==
  /\ saved.lib # Genesis => saved.lib \in store
  /\ step = "replay" /\ queue # <<>> => TryApply(Head(queue)) # {}

\* The saved state is never ahead of the running service nor on another
\* chain: a restart loses at most a suffix of the immutable chain.
SavedLibOnChain ==
  /\ Running => IsAncestor(saved.lib, engine.lib)
  /\ IsAncestor(saved.lib, updater.lib) /\ IsAncestor(saved.lib, saved.tip)

\* What the service holds in memory is backed: every block of the tree has its
\* ledger state, and the chain below it is in storage.
TreeIsBacked == LedgerMatchesEngine /\ HistoryStored

\* A restart is safe at any moment: it never fails, and what it comes back
\* with is a prefix of what the service had.
RestartIsSafe == RecoverySucceeds /\ SavedLibOnChain

\* When the service is idle, every immutable block is in the index, unless the
\* write of the index was lost when the engine was switched to Online.
IndexComplete ==
  step = "idle" /\ ~index_lost => Canonical(engine.lib) \ {Genesis} \subseteq index

\* Without a crash, nothing is left behind: when the service is idle, a block
\* in storage is an ancestor of a block of the tree, or is due for removal.
NothingLeaks ==
  step = "idle" /\ crashes = 0 =>
    store \subseteq (UNION {Canonical(b) : b \in engine.branches}) \cup to_remove

\* The LIBs that subscribers were told of are on one chain.
PublishedLibsAgree ==
  \A a, b \in published : IsAncestor(a, b) \/ IsAncestor(b, a)

\* Whatever the state it crashed in, the service is ready again in the end.
EventuallyReady == []<>(step = "idle")

==============================================================================
