------------------------- MODULE ChainServiceTheorems -------------------------
(***************************************************************************)
(* The chain service keeps its tree, its storage, its index and its        *)
(* recovery state consistent, through crashes at any moment, for every set *)
(* of headers, every era schedule and any number of crashes.               *)
(***************************************************************************)
EXTENDS ChainServiceInvariant

\* switch_to_online
LEMMA SwitchKeeps ==
  ASSUME ServiceInv, SwitchToOnline
  PROVE  ServiceInv'
<1> DEFINE r == GoOnline(engine)
           T == engine.branches
<1>1. /\ step = "idle" /\ engine' = r.engine /\ outcome' = [NoOutcome EXCEPT !.pruned = r.pruned]
      /\ ledger' = LedgerAfter(ledger, r.pruned) /\ todo' = r.pruned.stale \cup to_remove
      /\ step' = "online"
      /\ UNCHANGED <<to_remove, queue, start, candidate, failed, updater, store, index, saved,
                     index_lost, crashes>>
  BY Zenon DEF SwitchToOnline, StaleIn, storage, ghosts
<1>2. Running /\ Running' /\ start = "done" /\ candidate = {}
  BY Zenon, <1>1 DEF ServiceInv, PhaseOK, Running
<1>3. /\ EngineOK(engine) /\ ledger = T
      /\ \A x \in T : SlotsRise(Canonical(x))
      /\ History(T) \ {Genesis} \subseteq store
      /\ \A x \in to_remove \cup failed : Stale(engine.lib, x)
  BY Zenon, <1>2 DEF ServiceInv, MemoryOK
<1>4. Advanced(T, engine.lib, r.engine, r.pruned)
  BY Zenon, <1>3, OnlineAdvances
<1>5. Rooted(T, engine.lib) /\ T \subseteq Blocks /\ engine.lib \in Blocks
  BY Zenon, <1>3 DEF EngineOK, EngineType, RootedAtLib
<1> HIDE DEF r
<1>6. /\ History(r.engine.branches) \subseteq History(T)
      /\ History(T) \subseteq History(r.engine.branches) \cup r.pruned.stale
  BY Zenon, <1>4, <1>5, AdvanceHistory
<1>7. /\ EngineOK(r.engine) /\ IsAncestor(engine.lib, r.engine.lib) /\ r.engine.lib \in T
      /\ r.engine.branches \subseteq T /\ r.engine.lib \in Blocks
  BY Zenon, <1>4, <1>5 DEF Advanced
<1>8. MemoryOK'
  <2>1. ledger' = engine'.branches
    BY ZenonT(30), <1>1, <1>3, <1>4, <1>5, AdvanceLedger
  <2>2. \A x \in (to_remove \cup failed) \cup r.pruned.stale : Stale(r.engine.lib, x)
    BY <1>3, <1>4, <1>5, RemovalsStayStale
  <2>3. \A x \in to_remove' \cup todo' \cup failed' : Stale(engine'.lib, x)
    BY Zenon, <1>1, <2>2
  <2>4. History(engine'.branches) \ {Genesis} \subseteq store'
    BY Zenon, <1>1, <1>3, <1>6
  <2>5. EngineOK(engine') /\ \A x \in engine'.branches : SlotsRise(Canonical(x))
    BY Zenon, <1>1, <1>3, <1>7
  <2> QED
    BY ZenonT(30), <1>1, <1>2, <2>1, <2>3, <2>4, <2>5 DEF MemoryOK, History
<1>9. RecoveryOK'
  <2>1. RecoveryOK /\ updater.lib \in Blocks /\ IsAncestor(updater.lib, engine.lib)
    BY Zenon, <1>2 DEF ServiceInv, RecoveryOK, SnapshotOK, SnapshotType
  <2>2. IsAncestor(updater.lib, engine'.lib)
    BY Zenon, <1>1, <1>5, <1>7, <2>1, BelowBelow
  <2> QED
    BY Zenon, <1>1, <1>2, <2>1, <2>2 DEF RecoveryOK, SnapshotOK
<1>10. PhaseOK'
  BY Zenon, <1>1, <1>2 DEF PhaseOK, ServiceInv, Steps, Starts
<1>11. IndexOK'
  <2> SUFFICES ASSUME ~index_lost PROVE IndexOK'
    BY Zenon, <1>1 DEF IndexOK
  <2>1. Canonical(engine.lib) \ {Genesis} \subseteq index
    BY Zenon, <1>1, <1>2 DEF ServiceInv, IndexOK
  <2>2. Canonical(r.engine.lib) \ {Genesis} \subseteq
          Reindexed(ImmutableBlocksIndex(r.pruned, TRUE, r.engine.lib))
    BY Zenon, <1>3, <1>4, <1>5, <1>7, <2>1, AdvanceIndex
  <2>3. outcome'.pruned = r.pruned
    BY Zenon, <1>1 DEF NoOutcome
  <2>4. Canonical(engine'.lib) \ {Genesis} \subseteq
          Reindexed(ImmutableBlocksIndex(outcome.pruned, TRUE, engine.lib))'
    BY Zenon, <1>1, <2>2, <2>3 DEF Reindexed, ImmutableBlocksIndex
  <2>5. /\ Canonical(saved.lib) \ {Genesis} \subseteq index
        /\ Canonical(updater.lib) \ {Genesis} \subseteq index
    BY Zenon DEF ServiceInv, IndexOK
  <2> QED
    BY Zenon, <1>1, <1>2, <2>4, <2>5 DEF IndexOK
<1>12. StorageOK'
  <2>1. /\ crashes \in Nat
        /\ crashes = 0 => store \subseteq History(T) \cup to_remove
    BY Zenon, <1>1, <1>2 DEF ServiceInv, StorageOK
  <2>2. crashes = 0 => store \subseteq History(engine'.branches) \cup todo'
    BY ZenonT(30), <1>1, <1>6, <2>1
  <2> QED
    BY Zenon, <1>1, <1>2, <2>1, <2>2 DEF StorageOK, History
<1> QED
  BY Zenon, <1>8, <1>9, <1>10, <1>11, <1>12 DEF ServiceInv

\* store_immutable_blocks_index
LEMMA StoreIndexKeeps ==
  ASSUME ServiceInv, StoreIndex
  PROVE  ServiceInv'
<1>1. /\ step = "online" /\ step' = "delete"
      /\ UNCHANGED <<engine, outcome, ledger, to_remove, queue, start, candidate, todo, failed,
                     updater, store, saved, crashes>>
  BY Zenon DEF StoreIndex, memory
<1>2. Running /\ Running' /\ start = "done" /\ candidate = {}
  BY Zenon, <1>1 DEF ServiceInv, PhaseOK, Running
<1>3. MemoryOK'
  BY Zenon, <1>1, <1>2 DEF ServiceInv, MemoryOK, History
<1>4. RecoveryOK'
  BY Zenon, <1>1, <1>2 DEF ServiceInv, RecoveryOK, SnapshotOK
<1>5. PhaseOK'
  BY Zenon, <1>1, <1>2 DEF ServiceInv, PhaseOK, Steps, Starts
<1>6. IndexOK'
  <2> SUFFICES ASSUME ~index_lost' PROVE IndexOK'
    BY Zenon DEF IndexOK
  <2>1. /\ index' = Reindexed(ImmutableBlocksIndex(outcome.pruned, TRUE, engine.lib))
        /\ ~index_lost
    <3>1. ASSUME index_lost' = TRUE PROVE FALSE
      BY Zenon, <3>1
    <3>2. /\ index' = Reindexed(ImmutableBlocksIndex(outcome.pruned, TRUE, engine.lib))
          /\ index_lost' = index_lost
      BY Zenon, <3>1 DEF StoreIndex
    <3>3. ~index_lost
      BY Zenon, <3>2
    <3> QED
      BY Zenon, <3>2, <3>3
  <2>2. Canonical(engine.lib) \ {Genesis} \subseteq index'
    BY Zenon, <1>1, <2>1 DEF ServiceInv, IndexOK
  <2>3. /\ IsAncestor(saved.lib, updater.lib) /\ IsAncestor(updater.lib, engine.lib)
        /\ saved.lib \in Blocks /\ updater.lib \in Blocks /\ engine.lib \in Blocks
    BY Zenon, <1>2 DEF ServiceInv, MemoryOK, EngineOK, EngineType, RecoveryOK, SnapshotOK, SnapshotType
  <2>4. /\ Canonical(saved.lib) \subseteq Canonical(updater.lib)
        /\ Canonical(updater.lib) \subseteq Canonical(engine.lib)
    BY Zenon, <2>3, CanonicalGrows
  <2> QED
    BY Zenon, <1>1, <1>2, <2>2, <2>4 DEF IndexOK
<1>7. StorageOK'
  BY Zenon, <1>1, <1>2 DEF ServiceInv, StorageOK, History
<1> QED
  BY Zenon, <1>3, <1>4, <1>5, <1>6, <1>7 DEF ServiceInv

\* A stale block is deleted, or not.
LEMMA RemoveKeeps ==
  ASSUME ServiceInv, NEW b \in todo, RemoveBlock(b)
  PROVE  ServiceInv'
<1>1. /\ step = "delete" /\ todo' = todo \ {b}
      /\ \/ store' = store \ {b} /\ failed' = failed
         \/ failed' = failed \cup {b} /\ store' = store
      /\ UNCHANGED <<engine, outcome, ledger, to_remove, queue, start, candidate, step, updater,
                     index, saved, index_lost, crashes>>
  BY Zenon DEF RemoveBlock, ghosts
<1>2. Running /\ Running' /\ candidate = {}
  BY Zenon, <1>1 DEF ServiceInv, PhaseOK, Running
<1>3. /\ EngineOK(engine) /\ ledger = engine.branches
      /\ \A x \in engine.branches : SlotsRise(Canonical(x))
      /\ History(engine.branches) \ {Genesis} \subseteq store
      /\ \A x \in to_remove \cup todo \cup failed : Stale(engine.lib, x)
  BY Zenon, <1>2 DEF ServiceInv, MemoryOK
<1>4. /\ engine.lib \in Blocks /\ engine.branches \subseteq Blocks /\ engine.lib \in engine.branches
      /\ \A x \in engine.branches : IsAncestor(engine.lib, x)
  BY Zenon, <1>3 DEF EngineOK, EngineType, RootedAtLib, Rooted
<1>5. b \notin History(engine.branches)
  BY Zenon, <1>3, <1>4, StaleNotInHistory
<1>6. History(engine.branches) \ {Genesis} \subseteq store'
  BY Zenon, <1>1, <1>3, <1>5
<1>7. MemoryOK'
  <2>1. \A x \in to_remove' \cup todo' \cup failed' : Stale(engine.lib, x)
    BY Zenon, <1>1, <1>3
  <2> QED
    BY ZenonT(30), <1>1, <1>2, <1>3, <1>6, <2>1 DEF MemoryOK, History
<1>8. RecoveryOK'
  <2>1. /\ RecoveryOK /\ saved.lib \in Blocks /\ updater.lib \in Blocks
        /\ IsAncestor(saved.lib, updater.lib) /\ IsAncestor(updater.lib, engine.lib)
    BY Zenon, <1>2 DEF ServiceInv, RecoveryOK, SnapshotOK, SnapshotType
  <2>2. /\ Canonical(saved.lib) \subseteq Canonical(updater.lib)
        /\ Canonical(updater.lib) \subseteq Canonical(engine.lib)
    BY Zenon, <1>4, <2>1, CanonicalGrows
  <2>3. Canonical(engine.lib) \subseteq History(engine.branches)
    BY Zenon, <1>4 DEF History
  <2>4. Canonical(saved.lib) \ {Genesis} \subseteq store'
    BY Zenon, <1>6, <2>2, <2>3
  <2> QED
    BY ZenonT(30), <1>1, <1>2, <2>1, <2>4 DEF RecoveryOK, SnapshotOK
<1>9. PhaseOK'
  BY Zenon, <1>1, <1>2 DEF ServiceInv, PhaseOK
<1>10. IndexOK'
  BY Zenon, <1>1, <1>2 DEF ServiceInv, IndexOK
<1>11. StorageOK'
  <2>1. /\ crashes \in Nat
        /\ crashes = 0 => store \subseteq History(engine.branches) \cup todo \cup failed
    BY Zenon, <1>1, <1>2 DEF ServiceInv, StorageOK
  <2>2. crashes = 0 => store' \subseteq History(engine.branches) \cup todo' \cup failed'
    BY Zenon, <1>1, <2>1
  <2> QED
    BY ZenonT(30), <1>1, <1>2, <2>1, <2>2 DEF StorageOK, History
<1> QED
  BY ZenonT(30), <1>7, <1>8, <1>9, <1>10, <1>11 DEF ServiceInv

\* A recovery state of the running service can be started from.
LEMMA SnapshotOfEngine ==
  ASSUME ServiceInv, Running, NEW S, \A x \in S : Stale(engine.lib, x)
  PROVE  /\ SnapshotOK(Snapshot(engine, S))
         /\ Snapshot(engine, S).lib = engine.lib
         /\ engine.lib \in Blocks /\ IsAncestor(engine.lib, engine.lib)
         /\ IsAncestor(saved.lib, engine.lib)
<1>1. EngineOK(engine) /\ \A x \in engine.branches : SlotsRise(Canonical(x))
  BY Zenon DEF ServiceInv, MemoryOK
<1>2. /\ engine.lib \in Blocks /\ engine.local_chain \in Blocks /\ engine.state \in States
      /\ engine.local_chain \in engine.branches /\ engine.lib \in engine.branches
      /\ IsAncestor(engine.lib, engine.local_chain)
  BY Zenon, <1>1 DEF EngineOK, EngineType, RootedAtLib, Rooted
<1>3. S \subseteq Blocks
  BY Zenon DEF Stale
<1> DEFINE s == Snapshot(engine, S)
<1>4. /\ s.tip = engine.local_chain /\ s.lib = engine.lib /\ s.storage_blocks_to_remove = S
      /\ s \in SnapshotType
  BY Zenon, <1>2, <1>3 DEF Snapshot, SnapshotType
<1>5. SnapshotOK(s)
  BY Zenon, <1>1, <1>2, <1>4 DEF SnapshotOK
<1>6. IsAncestor(saved.lib, engine.lib) /\ IsAncestor(engine.lib, engine.lib)
  <2>1. /\ saved.lib \in Blocks /\ updater.lib \in Blocks
        /\ IsAncestor(saved.lib, updater.lib) /\ IsAncestor(updater.lib, engine.lib)
    BY ZenonT(30) DEF ServiceInv, RecoveryOK, SnapshotOK, SnapshotType
  <2> QED
    BY Zenon, <1>2, <2>1, AncestorOrder DEF Blocks
<1> QED
  BY ZenonT(30), <1>2, <1>4, <1>5, <1>6

\* The deletions are done; the recovery state is recorded.
LEMMA DeletedKeeps ==
  ASSUME ServiceInv, Deleted
  PROVE  ServiceInv'
<1>1. /\ step = "delete" /\ todo = {} /\ to_remove' = failed /\ failed' = {}
      /\ updater' = IF start = "recovered" THEN updater ELSE Snapshot(engine, failed)
      /\ start' = "done" /\ step' = "idle"
      /\ UNCHANGED <<engine, ledger, queue, candidate, todo, store, index, saved, index_lost,
                     crashes>>
  BY Zenon DEF Deleted, storage, ghosts
<1>2. Running /\ Running' /\ candidate = {}
  BY Zenon, <1>1 DEF ServiceInv, PhaseOK, Running
<1>3. \A x \in failed : Stale(engine.lib, x)
  BY Zenon, <1>2 DEF ServiceInv, MemoryOK
<1>4. MemoryOK'
  BY Zenon, <1>1, <1>2, <1>3 DEF ServiceInv, MemoryOK, History
<1> DEFINE s == Snapshot(engine, failed)
<1>5. /\ SnapshotOK(s) /\ s.lib = engine.lib /\ IsAncestor(engine.lib, engine.lib)
      /\ IsAncestor(saved.lib, engine.lib)
  BY Zenon, <1>2, <1>3, SnapshotOfEngine
<1> HIDE DEF s
<1>6. \/ updater' = updater
      \/ updater' = s
  BY Zenon, <1>1 DEF s
<1>7. RecoveryOK'
  <2>1. RecoveryOK
    BY Zenon DEF ServiceInv
  <2>2. /\ SnapshotOK(saved) /\ SnapshotOK(updater') /\ IsAncestor(saved.lib, updater'.lib)
        /\ IsAncestor(updater'.lib, engine.lib)
    BY Zenon, <1>2, <1>5, <1>6, <2>1 DEF RecoveryOK
  <2>3. SnapshotOK(saved)' /\ SnapshotOK(updater)'
    BY Zenon, <1>1, <2>2 DEF SnapshotOK
  <2> QED
    BY Zenon, <1>1, <2>1, <2>2, <2>3 DEF RecoveryOK
<1>8. PhaseOK'
  BY Zenon, <1>1, <1>2 DEF PhaseOK, Steps, Starts
<1>9. IndexOK'
  BY ZenonT(30), <1>1, <1>2, <1>5, <1>6 DEF ServiceInv, IndexOK
<1>10. StorageOK'
  BY ZenonT(30), <1>1, <1>2 DEF ServiceInv, StorageOK, History
<1> QED
  BY Zenon, <1>4, <1>7, <1>8, <1>9, <1>10 DEF ServiceInv

\* The timer records the recovery state.
LEMMA RecordKeeps ==
  ASSUME ServiceInv, RecordState
  PROVE  ServiceInv'
<1> DEFINE s == Snapshot(engine, to_remove)
<1>1. /\ step = "idle" /\ updater' = s
      /\ UNCHANGED <<engine, outcome, ledger, to_remove, queue, start, candidate, todo, failed,
                     step, store, index, saved, index_lost, crashes>>
  BY Zenon DEF RecordState, memory, storage, ghosts
<1>2. Running /\ Running' /\ start = "done" /\ candidate = {}
  BY Zenon, <1>1 DEF ServiceInv, PhaseOK, Running
<1>3. \A x \in to_remove : Stale(engine.lib, x)
  BY Zenon, <1>2 DEF ServiceInv, MemoryOK
<1>4. MemoryOK'
  BY Zenon, <1>1, <1>2 DEF ServiceInv, MemoryOK, History
<1>5. /\ SnapshotOK(s) /\ s.lib = engine.lib /\ IsAncestor(engine.lib, engine.lib)
      /\ IsAncestor(saved.lib, engine.lib)
  BY Zenon, <1>2, <1>3, SnapshotOfEngine
<1> HIDE DEF s
<1>6. RecoveryOK'
  <2>1. SnapshotOK(saved) /\ Canonical(saved.lib) \ {Genesis} \subseteq store
    BY Zenon DEF ServiceInv, RecoveryOK
  <2>2. SnapshotOK(saved)' /\ SnapshotOK(updater)'
    BY Zenon, <1>1, <1>5, <2>1 DEF SnapshotOK
  <2> QED
    BY Zenon, <1>1, <1>2, <1>5, <2>1, <2>2 DEF RecoveryOK
<1>7. PhaseOK'
  BY Zenon, <1>1, <1>2 DEF ServiceInv, PhaseOK
<1>8. IndexOK'
  BY ZenonT(30), <1>1, <1>2, <1>5 DEF ServiceInv, IndexOK
<1>9. StorageOK'
  BY ZenonT(30), <1>1, <1>2 DEF ServiceInv, StorageOK, History
<1> QED
  BY Zenon, <1>4, <1>6, <1>7, <1>8, <1>9 DEF ServiceInv

\* The recovery state is saved.
LEMMA SaveKeeps ==
  ASSUME ServiceInv, SaveState
  PROVE  ServiceInv'
<1>1. /\ step # "down" /\ saved # updater /\ saved' = updater
      /\ UNCHANGED <<engine, outcome, ledger, to_remove, queue, start, candidate, todo, failed,
                     step, updater, store, index, index_lost, crashes>>
  BY Zenon DEF SaveState, memory, ghosts
<1>2. Running /\ Running' /\ start = "done"
  BY Zenon, <1>1 DEF ServiceInv, RecoveryOK, Running
<1>3. MemoryOK'
  BY Zenon, <1>1, <1>2 DEF ServiceInv, MemoryOK, History, CandidateOK
<1>4. RecoveryOK'
  <2>1. /\ SnapshotOK(updater) /\ updater.lib \in Blocks /\ IsAncestor(updater.lib, engine.lib)
    BY Zenon, <1>2 DEF ServiceInv, RecoveryOK, SnapshotOK, SnapshotType
  <2>2. engine.lib \in Blocks /\ Canonical(engine.lib) \ {Genesis} \subseteq store
    <3>1. EngineOK(engine) /\ History(engine.branches) \ {Genesis} \subseteq store
      BY Zenon, <1>2 DEF ServiceInv, MemoryOK
    <3>2. engine.lib \in Blocks /\ engine.lib \in engine.branches
      BY Zenon, <3>1 DEF EngineOK, EngineType, RootedAtLib, Rooted
    <3> QED
      BY Zenon, <3>1, <3>2 DEF History
  <2>3. Canonical(updater.lib) \subseteq Canonical(engine.lib)
    BY Zenon, <2>1, <2>2, CanonicalGrows
  <2>4. IsAncestor(updater.lib, updater.lib)
    BY Zenon, <2>1, AncestorOrder DEF Blocks
  <2>5. SnapshotOK(saved)' /\ SnapshotOK(updater)'
    BY Zenon, <1>1, <2>1 DEF SnapshotOK
  <2> QED
    BY ZenonT(30), <1>1, <1>2, <2>1, <2>2, <2>3, <2>4, <2>5 DEF RecoveryOK
<1>5. PhaseOK'
  BY Zenon, <1>1, <1>2 DEF ServiceInv, PhaseOK, ChainFrom, Running
<1>6. IndexOK'
  BY Zenon, <1>1, <1>2 DEF ServiceInv, IndexOK, Reindexed
<1>7. StorageOK'
  BY ZenonT(30), <1>1, <1>2 DEF ServiceInv, StorageOK, History, Running
<1> QED
  BY Zenon, <1>3, <1>4, <1>5, <1>6, <1>7 DEF ServiceInv

\* Memory is lost.
LEMMA CrashKeeps ==
  ASSUME ServiceInv, Crash
  PROVE  ServiceInv'
<1>1. /\ step' = "down" /\ updater' = saved /\ crashes' = crashes + 1
      /\ start' = "done" /\ failed' = {} /\ candidate' = {} /\ ~Running'
      /\ UNCHANGED <<store, index, saved, index_lost>>
  BY Zenon DEF Crash, Blank, NoCandidate, storage, Running
<1>2. MemoryOK'
  BY Zenon, <1>1 DEF MemoryOK
<1>3. RecoveryOK'
  <2>1. /\ SnapshotOK(saved) /\ Canonical(saved.lib) \ {Genesis} \subseteq store
        /\ saved.lib \in Blocks
    BY Zenon DEF ServiceInv, RecoveryOK, SnapshotOK, SnapshotType
  <2>2. IsAncestor(saved.lib, saved.lib)
    BY Zenon, <2>1, AncestorOrder DEF Blocks
  <2>3. SnapshotOK(saved)' /\ SnapshotOK(updater)'
    BY Zenon, <1>1, <2>1 DEF SnapshotOK
  <2> QED
    BY Zenon, <1>1, <2>1, <2>2, <2>3 DEF RecoveryOK
<1>4. PhaseOK'
  BY Zenon, <1>1 DEF PhaseOK, Steps, Starts
<1>5. IndexOK'
  BY Zenon, <1>1 DEF ServiceInv, IndexOK
<1>6. StorageOK'
  BY <1>1 DEF ServiceInv, StorageOK
<1> QED
  BY Zenon, <1>2, <1>3, <1>4, <1>5, <1>6 DEF ServiceInv

\* The service starts from the saved recovery state.
LEMMA StartKeeps ==
  ASSUME ServiceInv, Start
  PROVE  ServiceInv'
<1>1. PICK state \in StartStates(saved) : engine' = FromLib(saved.lib, state)
  BY Zenon DEF Start
<1>2. /\ step = "down" /\ ledger' = {saved.lib} /\ step' = "replay"
      /\ to_remove' = saved.storage_blocks_to_remove
      /\ todo' = saved.storage_blocks_to_remove
      /\ \/ queue' = RecoveryBlocks(saved) /\ start' = "recovered"
         \/ queue' = <<>> /\ start' = "fell_back"
      /\ UNCHANGED <<outcome, candidate, failed, updater, store, index, saved, index_lost, crashes>>
  BY Zenon DEF Start, storage, ghosts
<1>3. Running' /\ ~Running /\ candidate = {} /\ failed = {} /\ updater = saved
  BY Zenon, <1>2 DEF ServiceInv, PhaseOK, RecoveryOK, Running
<1>4. /\ SnapshotOK(saved) /\ saved.lib \in Blocks /\ saved.tip \in Blocks
      /\ saved.state \in States /\ IsAncestor(saved.lib, saved.tip)
      /\ SlotsRise(Canonical(saved.tip))
      /\ \A x \in saved.storage_blocks_to_remove : Stale(saved.lib, x)
      /\ Canonical(saved.lib) \ {Genesis} \subseteq store
  BY Zenon DEF ServiceInv, RecoveryOK, SnapshotOK, SnapshotType
<1>5. state \in States
  BY Zenon, <1>4 DEF StartStates, States
<1>6. /\ EngineOK(engine') /\ engine'.lib = saved.lib /\ engine'.branches = {saved.lib}
      /\ engine'.tips = {saved.lib} /\ engine'.local_chain = saved.lib
  BY Zenon, <1>1, <1>4, <1>5, FromLibOK DEF FromLib
<1>7. MemoryOK'
  <2>1. SlotsRise(Canonical(saved.lib))
    <3>1. Canonical(saved.lib) \subseteq Canonical(saved.tip)
      BY Zenon, <1>4, CanonicalGrows
    <3> QED
      BY Zenon, <1>4, <3>1 DEF SlotsRise
  <2>2. History(engine'.branches) = Canonical(saved.lib)
    BY Zenon, <1>6 DEF History
  <2>3. \A x \in to_remove' \cup todo' \cup failed' : Stale(engine'.lib, x)
    BY Zenon, <1>2, <1>3, <1>4, <1>6
  <2>4. History(engine'.branches) \ {Genesis} \subseteq store'
    BY Zenon, <1>2, <1>4, <2>2
  <2>5. ledger' = engine'.branches /\ \A x \in engine'.branches : SlotsRise(Canonical(x))
    BY Zenon, <1>2, <1>6, <2>1
  <2> QED
    BY ZenonT(30), <1>2, <1>3, <1>6, <2>3, <2>4, <2>5 DEF MemoryOK, History
<1>8. RecoveryOK'
  <2>1. IsAncestor(saved.lib, saved.lib)
    BY Zenon, <1>4, AncestorOrder DEF Blocks
  <2>2. SnapshotOK(saved)' /\ SnapshotOK(updater)'
    BY Zenon, <1>2, <1>3, <1>4 DEF SnapshotOK
  <2> QED
    BY ZenonT(30), <1>2, <1>3, <1>4, <1>6, <2>1, <2>2 DEF RecoveryOK
<1>9. PhaseOK'
  <2>1. ChainFrom(saved.lib, RecoveryBlocks(saved))
    BY Zenon, <1>4, RecoveryChain
  <2>2. CASE queue' = RecoveryBlocks(saved) /\ start' = "recovered"
    <3>1. ChainFrom(engine'.local_chain, queue')
      BY Zenon, <1>6, <2>1, <2>2
    <3> QED
      BY ZenonT(30), <1>2, <1>3, <1>6, <2>2, <3>1 DEF PhaseOK, Steps, Starts
  <2>3. CASE queue' = <<>> /\ start' = "fell_back"
    BY Zenon, <1>2, <1>3, <2>3 DEF PhaseOK, Steps, Starts
  <2> QED
    BY Zenon, <1>2, <2>2, <2>3
<1>10. IndexOK'
  BY Zenon, <1>2, <1>3, <1>6 DEF ServiceInv, IndexOK
<1>11. StorageOK'
  BY ZenonT(30), <1>2, <1>3 DEF ServiceInv, StorageOK, History
<1> QED
  BY ZenonT(30), <1>7, <1>8, <1>9, <1>10, <1>11 DEF ServiceInv

\* The replay is over.
LEMMA ReplayedKeeps ==
  ASSUME ServiceInv, Replayed
  PROVE  ServiceInv'
<1>1. /\ step = "replay" /\ queue = <<>> /\ step' = "delete"
      /\ UNCHANGED <<engine, outcome, ledger, to_remove, queue, start, candidate, todo, failed,
                     updater, store, index, saved, index_lost, crashes>>
  BY Zenon DEF Replayed, memory, storage, ghosts
<1>2. Running /\ Running' /\ candidate = {} /\ start # "done"
  BY Zenon, <1>1 DEF ServiceInv, PhaseOK, Running
<1>3. MemoryOK'
  BY Zenon, <1>1, <1>2 DEF ServiceInv, MemoryOK, History
<1>4. RecoveryOK'
  BY Zenon, <1>1, <1>2 DEF ServiceInv, RecoveryOK, SnapshotOK
<1>5. PhaseOK'
  BY Zenon, <1>1, <1>2 DEF ServiceInv, PhaseOK, Steps
<1>6. IndexOK'
  BY Zenon, <1>1, <1>2 DEF ServiceInv, IndexOK
<1>7. StorageOK'
  BY Zenon, <1>1, <1>2 DEF ServiceInv, StorageOK, History
<1> QED
  BY Zenon, <1>3, <1>4, <1>5, <1>6, <1>7 DEF ServiceInv

\* A step that changes nothing.
LEMMA StutterKeeps ==
  ASSUME ServiceInv, UNCHANGED svars
  PROVE  ServiceInv'
<1>1. UNCHANGED <<engine, outcome, ledger, to_remove, queue, start, candidate, todo, failed, step,
                  updater, store, index, saved, index_lost, crashes>>
  BY Zenon DEF svars, memory, storage, ghosts
<1>2. MemoryOK'
  BY Zenon, <1>1 DEF ServiceInv, MemoryOK, History, CandidateOK, Running
<1>3. RecoveryOK'
  BY Zenon, <1>1 DEF ServiceInv, RecoveryOK, SnapshotOK, Running
<1>4. PhaseOK'
  BY ZenonT(30), <1>1 DEF ServiceInv, PhaseOK, ChainFrom, Running
<1>5. IndexOK'
  BY Zenon, <1>1 DEF ServiceInv, IndexOK, Reindexed, Running
<1>6. StorageOK'
  BY Zenon, <1>1 DEF ServiceInv, StorageOK, History, Running
<1> QED
  BY Zenon, <1>2, <1>3, <1>4, <1>5, <1>6 DEF ServiceInv

\* The service starts out consistent, ...
LEMMA ServiceInitInv == ServiceInit => ServiceInv
<1> SUFFICES ASSUME ServiceInit PROVE ServiceInv
  BY Zenon
<1>1. /\ step = "down" /\ start = "done" /\ failed = {} /\ candidate = {} /\ ~Running
      /\ updater = Fresh /\ saved = Fresh /\ store = {} /\ index = {} /\ crashes = 0
  BY Zenon DEF ServiceInit, NoCandidate, Running
<1>2. Genesis \in Blocks
  BY DEF Genesis, Blocks
<1>3. /\ Fresh.lib = Genesis /\ Fresh.tip = Genesis /\ Fresh.storage_blocks_to_remove = {}
      /\ Fresh \in SnapshotType
  BY Zenon, <1>2 DEF Fresh, Snapshot, FromLib, SnapshotType, States
<1>4. IsAncestor(Genesis, Genesis)
  BY Zenon, <1>2, AncestorOrder DEF Blocks
<1>5. Canonical(Genesis) = {Genesis}
  <2>1. ASSUME NEW x \in Blocks, IsAncestor(x, Genesis) PROVE x = Genesis
    <3>1. Len(x) \in Nat /\ Len(x) <= 0
      BY <2>1 DEF IsAncestor, Genesis, Blocks
    <3> QED
      BY <3>1 DEF Genesis, Blocks
  <2>2. Canonical(Genesis) = {x \in Blocks : IsAncestor(x, Genesis)}
    BY Zenon, <1>2, CanonicalIsAncestors
  <2> QED
    BY ZenonT(30), <1>2, <1>4, <2>1, <2>2
<1>6. SnapshotOK(Fresh)
  BY <1>3, <1>4, <1>5 DEF SnapshotOK, SlotsRise
<1>7. MemoryOK
  BY Zenon, <1>1 DEF MemoryOK
<1>8. RecoveryOK
  BY ZenonT(30), <1>1, <1>3, <1>4, <1>5, <1>6 DEF RecoveryOK
<1>9. PhaseOK
  BY Zenon, <1>1 DEF PhaseOK, Steps, Starts
<1>10. IndexOK
  BY Zenon, <1>1, <1>3, <1>5 DEF IndexOK
<1>11. StorageOK
  BY Zenon, <1>1 DEF StorageOK
<1> QED
  BY ZenonT(30), <1>7, <1>8, <1>9, <1>10, <1>11 DEF ServiceInv

\* ... and every step keeps it so.
LEMMA ServiceNextInv == ServiceInv /\ [ServiceNext]_svars => ServiceInv'
<1> SUFFICES ASSUME ServiceInv, [ServiceNext]_svars PROVE ServiceInv'
  BY Zenon
<1>1. ASSUME NEW parent \in ledger, NEW header \in Headers, ApplyBlock(parent, header)
      PROVE  ServiceInv'
  BY Zenon, <1>1, ApplyKeeps
<1>2. CASE ReplayBlock
  BY Zenon, <1>2, ReplayKeeps
<1>3. CASE Replayed
  BY ZenonT(30), <1>3, ReplayedKeeps
<1>4. CASE Commit
  BY Zenon, <1>4, CommitKeeps
<1>5. CASE StoreIndex
  BY Zenon, <1>5, StoreIndexKeeps
<1>6. CASE Deleted
  BY Zenon, <1>6, DeletedKeeps
<1>7. ASSUME NEW b \in todo, RemoveBlock(b)
      PROVE  ServiceInv'
  BY ZenonT(30), <1>7, RemoveKeeps
<1>8. CASE SwitchToOnline
  BY Zenon, <1>8, SwitchKeeps
<1>9. CASE RecordState
  BY Zenon, <1>9, RecordKeeps
<1>10. CASE SaveState
  BY Zenon, <1>10, SaveKeeps
<1>11. CASE Crash
  BY Zenon, <1>11, CrashKeeps
<1>12. CASE Start
  BY Zenon, <1>12, StartKeeps
<1>13. CASE UNCHANGED svars
  BY Zenon, <1>13, StutterKeeps
<1> QED
  BY ZenonT(30), <1>1, <1>2, <1>3, <1>4, <1>5, <1>6, <1>7, <1>8, <1>9, <1>10, <1>11, <1>12, <1>13
     DEF ServiceNext, ServiceStep

\* The invariant holds throughout.
THEOREM ServiceIsConsistent == ServiceSpec => []ServiceInv
  BY ServiceInitInv, ServiceNextInv, PTL DEF ServiceSpec

\* The block that is replayed next is accepted: it extends the only chain of the
\* tree, and fork choice always has an answer.
LEMMA ReplayIsAccepted ==
  ASSUME ServiceInv, step = "replay", queue # <<>>
  PROVE  TryApply(Head(queue)) # {}
<1> DEFINE b == Head(queue)
           p == engine.local_chain
           a == ApplyHeader(engine, b)
<1>1. Running /\ start = "recovered"
  BY Zenon DEF ServiceInv, PhaseOK, Running, Starts
<1>2. engine.tips = {p} /\ ChainFrom(p, queue)
  BY Zenon, <1>1 DEF ServiceInv, PhaseOK
<1>3. b \in Blocks /\ b # Genesis /\ ParentOf(b) = p /\ SlotOf(p) < SlotOf(b)
  BY Zenon, <1>2, ChainTail
<1>4. EngineOK(engine) /\ ledger = engine.branches
  BY Zenon, <1>1 DEF ServiceInv, MemoryOK
<1>5. p \in engine.branches /\ p \in Blocks /\ engine.branches \subseteq Blocks
  BY Zenon, <1>4 DEF EngineOK, EngineType, RootedAtLib
<1> HIDE DEF b
<1>6. PICK h \in Headers : b = Append(p, h)
  BY Zenon, <1>3, BlockIsChild
<1>7. b \notin engine.branches
  <2>1. Len(b) = Len(p) + 1 /\ Len(p) \in Nat
    BY <1>5, <1>6, ChildAncestors DEF Blocks
  <2>2. \A x \in engine.branches : \E t \in engine.tips : IsAncestor(x, t)
    BY Zenon, <1>4 DEF EngineOK, TipsLeaves
  <2>3. \A x \in engine.branches : IsAncestor(x, p)
    BY Zenon, <1>2, <2>2
  <2> QED
    BY <2>1, <2>3 DEF IsAncestor
<1>8. EngineOK(a)
  <2>1. Append(p, h) \notin engine.branches /\ SlotOf(p) < SlotOf(Append(p, h))
    BY Zenon, <1>3, <1>6, <1>7
  <2>2. EngineOK(ApplyHeader(engine, Append(p, h)))
    BY Zenon, <1>4, <1>5, <2>1, ApplyHeaderOK
  <2> QED
    BY Zenon, <1>6, <2>2
<1>9. ForkChoices(a) # {}
  BY Zenon, <1>8, ForkChoicesOK
<1>10. ReceiveOutcomes(engine, b) # {}
  BY Zenon, <1>9 DEF ReceiveOutcomes
<1>11. TryApply(b) = ReceiveOutcomes(engine, b)
  BY Zenon, <1>3, <1>4, <1>5, <1>7 DEF TryApply, ParentMissing
<1> QED
  BY Zenon, <1>10, <1>11 DEF b

\* Every block of the tree has its ledger state in memory, and the chain below
\* it is in storage, whatever was deleted late, again, or after a restart.
THEOREM TreeStaysBacked == ServiceSpec => []TreeIsBacked
<1>1. ServiceInv => TreeIsBacked
  <2> SUFFICES ASSUME ServiceInv, Running
               PROVE  /\ ledger = engine.branches
                      /\ \A b \in engine.branches : Canonical(b) \ {Genesis} \subseteq store
    BY Zenon DEF TreeIsBacked, LedgerMatchesEngine, HistoryStored
  <2> QED
    BY Zenon DEF ServiceInv, MemoryOK, History
<1> QED
  BY <1>1, ServiceIsConsistent, PTL

\* A restart at any moment succeeds, and comes back with a prefix of the chain.
THEOREM RestartStaysSafe == ServiceSpec => []RestartIsSafe
<1>1. ServiceInv => RestartIsSafe
  <2> SUFFICES ASSUME ServiceInv PROVE RestartIsSafe
    BY Zenon
  <2>1. /\ SnapshotOK(saved) /\ IsAncestor(saved.lib, updater.lib)
        /\ Canonical(saved.lib) \ {Genesis} \subseteq store
        /\ saved.lib \in Blocks /\ updater.lib \in Blocks
        /\ Running => IsAncestor(updater.lib, engine.lib)
        /\ IsAncestor(saved.lib, saved.tip)
    BY Zenon DEF ServiceInv, RecoveryOK, SnapshotOK, SnapshotType
  <2>2. saved.lib \in Canonical(saved.lib)
    BY Zenon, <2>1, CanonicalIsAncestors, AncestorOrder DEF Blocks
  <2>3. RecoverySucceeds
    BY Zenon, <2>1, <2>2, ReplayIsAccepted DEF RecoverySucceeds
  <2>4. Running => IsAncestor(saved.lib, engine.lib)
    <3> SUFFICES ASSUME Running PROVE IsAncestor(saved.lib, engine.lib)
      BY Zenon
    <3>1. engine.lib \in Blocks
      BY Zenon DEF ServiceInv, MemoryOK, EngineOK, EngineType
    <3> QED
      BY Zenon, <2>1, <3>1, AncestorOrder DEF Blocks
  <2> QED
    BY Zenon, <2>1, <2>3, <2>4 DEF RestartIsSafe, SavedLibOnChain
<1> QED
  BY <1>1, ServiceIsConsistent, PTL

\* Every immutable block is in the index when the service is idle, unless the
\* one write whose failure is only logged was lost.
THEOREM IndexStaysComplete == ServiceSpec => []IndexComplete
<1>1. ServiceInv => IndexComplete
  BY Zenon DEF ServiceInv, IndexOK, IndexComplete, Running
<1> QED
  BY <1>1, ServiceIsConsistent, PTL

\* Until the first crash, storage holds nothing but the history of the tree and
\* what is due for removal.
THEOREM NothingIsLeaked == ServiceSpec => []NothingLeaks
<1>1. ServiceInv => NothingLeaks
  <2> SUFFICES ASSUME ServiceInv, step = "idle", crashes = 0
               PROVE  store \subseteq History(engine.branches) \cup to_remove
    BY Zenon DEF NothingLeaks, History
  <2>1. Running /\ candidate = {}
    BY Zenon DEF ServiceInv, PhaseOK, Running
  <2> QED
    BY Zenon, <2>1 DEF ServiceInv, StorageOK
<1> QED
  BY <1>1, ServiceIsConsistent, PTL

===============================================================================
