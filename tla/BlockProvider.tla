---------------------------- MODULE BlockProvider ----------------------------
(***************************************************************************)
(* The block provider, services/chain/chain-service/src/sync: what the     *)
(* chain service answers a peer that asks for the blocks which lead from   *)
(* one of the blocks it knows to a target.  The path is put together from  *)
(* two sources, the tree of the engine, which begins at the LIB, and the   *)
(* index of immutable blocks in storage, which ends with the LIB.          *)
(***************************************************************************)
EXTENDS ChainService

LOCAL INSTANCE SequencesExt

CONSTANT BatchSize   \* the most blocks of one answer

ASSUME BatchAssumption == BatchSize \in Nat \ {0}

\* load_immutable_block.  The body of genesis is not in storage.
LoadImmutable(b) == b \in store /\ b \in index

\* max_lca: where the target leaves the chains of the known blocks in the tree
MaxLca(target, known) ==
  LET lcas == {Lca(engine.branches, k, target) : k \in known \cap engine.branches}
  IN  IF lcas = {} THEN {} ELSE {Highest(lcas)}

\* find_optimal_start_block_from_storage
StartInStorage(known) ==
  LET immutable == {k \in known : LoadImmutable(k)}
      latest    == {k \in immutable : \A c \in immutable : SlotOf(c) <= SlotOf(k)}
  IN  IF immutable # {} THEN latest ELSE known \cap index \cap {Genesis}

\* compute_path_from_engine: the first limit blocks of the path
EnginePath(start_block, target, limit) ==
  LET n == Length(target) - Length(start_block) + 1
  IN  [i \in 1..(IF n <= limit THEN n ELSE limit) |->
         AtLength(target, Length(start_block) + i - 1)]

\* scan_immutable_block_ids: the first limit blocks of the index in the range
ScanImmutable(first, last, limit) ==
  LET found == SetToSortSeq({b \in index : SlotOf(b) \in first..last},
                            LAMBDA a, b : SlotOf(a) < SlotOf(b))
  IN  SubSeq(found, 1, IF Len(found) <= limit THEN Len(found) ELSE limit)

\* The rest of the path is given a full limit of its own.
StoragePathFaulty(start_block, target, limit) ==
  LET scanned == ScanImmutable(SlotOf(start_block), SlotOf(target), limit)
  IN  IF scanned = << >> THEN << >>
      ELSE IF Last(scanned) = target THEN scanned
      ELSE scanned \o EnginePath(engine.lib, target, limit)

\* compute_path_from_storage_and_engine.  Nothing is scanned if the start is
\* after the target, which then is not in the tree: an error.
StoragePath(start_block, target, limit) ==
  LET scanned == ScanImmutable(SlotOf(start_block), SlotOf(target), limit)
  IN  IF scanned = << >> THEN << >>
      ELSE IF Last(scanned) = target \/ Len(scanned) = limit THEN scanned
      ELSE scanned \o EnginePath(engine.lib, target, limit - Len(scanned))

\* find_path for a target of the tree or of the index; << >> stands for an
\* error.  One more block than a batch is looked up, for the one to skip.
FindPath(target, known) ==
  LET limit == BatchSize + 1
      lca   == IF target \in engine.branches THEN MaxLca(target, known) ELSE {}
      start_block == CHOOSE b \in StartInStorage(known) : TRUE
  IN  IF lca # {} THEN EnginePath(Highest(lca), target, limit)
      ELSE IF StartInStorage(known) = {} THEN << >>
      ELSE StoragePath(start_block, target, limit)

\* stream_blocks_from_path: the block that the requester knows is skipped.
BlockStream(target, known) ==
  LET path == FindPath(target, known)
  IN  IF path = << >> THEN << >> ELSE Tail(path)

------------------------------------------------------------------------------
\* Properties

\* What can be asked of a service: a block that it can serve, by a peer that
\* knows one or two blocks, its tip and its LIB.
Targets == {b \in engine.branches \cup index : b # Genesis}

Requesters ==
  {{a, b} : a, b \in engine.branches \cup index}

\* A peer that knows a block knows its ancestors.
KnownTo(known) == UNION {Canonical(k) : k \in known}

\* Requests are answered between two messages and only once the engine is
\* Online, in the phase Following.  A crash may leave blocks of a lost fork in
\* storage and in the index, which are no targets.
Serves(P(_, _, _)) ==
  step = "idle" /\ engine.state = "Online" /\ ~index_lost /\ crashes = 0 =>
    \A target \in Targets, known \in Requesters :
      P(BlockStream(target, known), target, known)

\* An answer is usable whatever the service has pruned, indexed and reorged
\* before: it has at most a batch of blocks, it begins at a child of a block
\* that the peer knows, every block is followed by its child on the way to the
\* target (only the LIB may come twice, where the two sources meet), and
\* unless the peer knows the target it holds a block that is new to the peer,
\* so that repeated requests reach the target.
StreamLeadsToTarget ==
  Serves(LAMBDA S, target, known :
    /\ Len(S) <= BatchSize
    /\ S # << >> => ParentOf(S[1]) \in KnownTo(known)
    /\ \A i \in DOMAIN S : IsAncestor(S[i], target)
    /\ \A i \in 2..Len(S) : \/ ParentOf(S[i]) = S[i - 1]
                            \/ S[i] = S[i - 1] /\ S[i] = engine.lib
    /\ target \in KnownTo(known) \/ \E i \in DOMAIN S : S[i] \notin KnownTo(known))

==============================================================================
