---------------------------- MODULE WalletService ----------------------------
(***************************************************************************)
(* The wallet service, services/wallet and wallet/src/lib.rs: one state    *)
(* per block it has applied, the leader's vouchers with their paths in the *)
(* accumulator of all vouchers, and reservations of vouchers that are      *)
(* being claimed.  It follows the chain service through two broadcast      *)
(* streams, of new blocks and of LIB updates, which it reads in any order  *)
(* and may fall behind on, and asks for headers when it has missed blocks. *)
(* Its recovery state is saved by another task.                            *)
(*                                                                         *)
(* A block is its number.  It carries one voucher, ours or Others, and     *)
(* claims of ours.  The notes of the wallet are in WalletNotes; notes that *)
(* fund a transaction are reserved like vouchers and left out.             *)
(***************************************************************************)
EXTENDS Integers, FiniteSets, Sequences, SequencesExt, Maps

CONSTANTS
    SecurityParam,    \* blocks below the tip that are not yet immutable
    StreamCapacity,   \* of the broadcast channels
    MaxChainBlocks,   \* bound on the blocks of the tree
    MaxForkBlocks,    \* bound on the blocks that do not extend the tip
    ChainEpochs,      \* the epochs a block of each height may be in
    MaxVouchers,      \* bound on the vouchers generated
    MaxClaimsBuilt,   \* bound on the claims built
    MaxNodeRestarts   \* bound on the restarts of the node

VARIABLES
    node,      \* the chain service: [blocks, tip, lib, online]; external
    streams,   \* [blocks, libs]: what the wallet has yet to read
    leader,    \* [vouchers, claims]: vouchers it may still put in a block and
               \* claims it has submitted; external
    wallet,    \* what the service has in memory, by phase
    updater,   \* the recovery state last given to the state updater
    disk,      \* the recovery state saved
    gaps       \* history: [lagged, silent, restarts]
walletVars == <<node, streams, leader, wallet, updater, disk, gaps>>

Root   == 0
Others == 0
Down   == [phase |-> "down"]
Failed == [phase |-> "failed"]
Running == wallet.phase = "running"
Following == wallet.phase \in {"subscribed", "running"}
NoStreams == [blocks |-> <<>>, libs |-> <<>>]

-----------------------------------------------------------------------------
(* The chain service and the ledger, external. *)

ChainIds == 1..Len(node.blocks)
\* The blocks from b down to the root.
Chain(b) == IF b = Root THEN {Root} ELSE node.blocks[b].chain
ParentBlock(b) == node.blocks[b].parent
Height(b) == Cardinality(Chain(b)) - 1
BlockEpoch(b) == IF b = Root THEN 0 ELSE node.blocks[b].epoch

\* The ledger's claimable vouchers are those of the earlier epochs of the
\* branch.  Their number stands for the root of their accumulator.
Earlier(chain, epoch) == {a \in chain \ {Root} : BlockEpoch(a) < epoch}
VouchersIn(blocks) == {node.blocks[a].voucher : a \in blocks} \ {Others}
ClaimsIn(blocks) == UNION {node.blocks[a].claims : a \in blocks \ {Root}}
SnapshotSize(b) == Cardinality(Earlier(Chain(b), BlockEpoch(b)))

\* Stale blocks are deleted from storage.
Alive(b) == node.lib \in Chain(b) \/ b \in Chain(node.lib)
\* The blocks of the engine's tree, which have a ledger state.
InTree(b) == node.lib \in Chain(b)

\* A broadcast channel drops its oldest item for a receiver that is behind.
Broadcast(s, item) ==
    IF Len(s) < StreamCapacity THEN Append(s, item) ELSE Append(Tail(s), item)

\* PrunedBlocks: the old LIB and the blocks up to the new one, and the forks.
LibUpdate(old, new) ==
    [new_lib |-> new,
     immutable |-> (Chain(new) \ (Chain(old) \ {old})) \ {new},
     stale |-> {b \in ChainIds : new \notin Chain(b) /\ b \notin Chain(new)}]

\* A claim is valid in the epoch of its root, once on a branch.
Claimable(parent, epoch) ==
    LET earlier == Earlier(Chain(parent), epoch)
    IN  {c.voucher : c \in {c \in leader.claims :
            /\ c.root = Cardinality(earlier)
            /\ c.voucher \in VouchersIn(earlier) \ ClaimsIn(Chain(parent))}}

\* A block joins the tree; the LIB follows the tip of a chain that is online.
NewBlock(parent, epoch, voucher, claims) ==
    LET id     == Len(node.blocks) + 1
        chain  == Chain(parent) \cup {id}
        block  == [parent |-> parent, epoch |-> epoch, voucher |-> voucher,
                   claims |-> claims, chain |-> chain]
        longer == Height(parent) >= Height(node.tip)
        deep   == {a \in Chain(parent) :
                      /\ longer /\ node.online
                      /\ Height(a) = Height(parent) + 1 - SecurityParam
                      /\ Height(a) > Height(node.lib)}
    IN  /\ id <= MaxChainBlocks
        /\ InTree(parent)
        /\ node' = [node EXCEPT !.blocks = Append(@, block),
                                !.tip = IF longer THEN id ELSE @,
                                !.lib = IF deep = {} THEN @ ELSE CHOOSE a \in deep : TRUE]
        /\ streams' =
             IF ~Following THEN streams
             ELSE [blocks |-> Broadcast(streams.blocks, id),
                   libs |-> IF deep = {} THEN streams.libs
                            ELSE Broadcast(streams.libs,
                                           LibUpdate(node.lib, CHOOSE a \in deep : TRUE))]
        /\ gaps' = [gaps EXCEPT !.lagged = @ \/ /\ Following
                                                /\ \/ Len(streams.blocks) = StreamCapacity
                                                   \/ /\ deep # {}
                                                      /\ Len(streams.libs) = StreamCapacity]

ChainGrows(parent, epoch, voucher, claims) ==
    /\ epoch \in ChainEpochs[Height(parent) + 1] /\ epoch >= BlockEpoch(parent)
    /\ \/ parent = node.tip
       \/ Cardinality({b \in ChainIds : b \notin Chain(node.tip)}) < MaxForkBlocks
    /\ voucher # Others => node.online
    /\ NewBlock(parent, epoch, voucher, claims)
    /\ leader' = [leader EXCEPT !.vouchers = @ \ {voucher}]
    /\ UNCHANGED <<wallet, updater, disk>>

\* The chain goes online: the LIB moves and no update is sent.
ChainOnline ==
    LET deep == {a \in Chain(node.tip) : /\ Height(a) = Height(node.tip) - SecurityParam
                                         /\ Height(a) > Height(node.lib)}
    IN  /\ ~node.online
        /\ node' = [node EXCEPT !.online = TRUE,
                                !.lib = IF deep = {} THEN @ ELSE CHOOSE a \in deep : TRUE]
        /\ gaps' = [gaps EXCEPT !.silent = @ \/ deep # {}]
        /\ UNCHANGED <<streams, leader, wallet, updater, disk>>

-----------------------------------------------------------------------------
(* The wallet: blocks. *)

\* WalletState::from_ledger, for what concerns vouchers.
VouchersFromLedger(b) ==
    [epoch |-> BlockEpoch(b), size |-> Height(b), paths |-> {}, snapshot |-> <<>>]

\* WalletState::apply_voucher.  The paths of all tracked vouchers are those of
\* the accumulator after the block; a snapshot is from before it.
ApplyVoucher(state, known, block) ==
    [epoch |-> block.epoch, size |-> state.size + 1,
     paths |-> (state.paths \cup {block.voucher}) \cap known,
     snapshot |-> IF block.epoch > state.epoch THEN [v \in state.paths |-> state.size]
                  ELSE state.snapshot]

\* Wallet::apply_block
Processed(w, b) == b \in DOMAIN w.states
ApplyBlockTo(w, b) ==
    IF Processed(w, b) \/ ~Processed(w, ParentBlock(b)) THEN w
    ELSE [w EXCEPT !.states = With(@, b, ApplyVoucher(@[ParentBlock(b)], w.known, node.blocks[b]))]

\* backfill_missing_blocks: the headers from b down to the wallet's LIB are
\* asked for, and the blocks that are not known applied from the oldest.
Reachable(w, b) == w.lib \in Chain(b) /\ Alive(b)
BackfillFaulty(w, b) == IF Reachable(w, b) THEN ApplyBlockTo(w, b) ELSE w
Backfill(w, b) ==
    IF Reachable(w, b)
    THEN FoldLeft(ApplyBlockTo, w,
                  SelectSeq([i \in ChainIds |-> i], LAMBDA a : a \in Chain(b) \ Chain(w.lib)))
    ELSE w

\* ServiceState::update_state.  It expects a state at the LIB and panics
\* without one.
RecoveryState(w) ==
    [next |-> w.next, known |-> w.known, pending |-> w.pending,
     lib |-> {[block |-> b, state |-> w.states[b]] : b \in {w.lib} \cap DOMAIN w.states}]

\* Every block that is applied updates the recovery state.
Remember(w) == updater' = IF w = wallet THEN updater ELSE RecoveryState(w)

\* handle_new_block
NewBlockApplied(w, b) ==
    IF ~Alive(b) THEN w
    ELSE IF Processed(w, ParentBlock(b)) THEN ApplyBlockTo(w, b)
    ELSE Backfill(w, b)
HandleNewBlock ==
    /\ Running /\ streams.blocks # <<>>
    /\ streams' = [streams EXCEPT !.blocks = Tail(@)]
    /\ wallet' = NewBlockApplied(wallet, Head(streams.blocks))
    /\ Remember(wallet')
    /\ UNCHANGED <<node, leader, disk, gaps>>

-----------------------------------------------------------------------------
(* The wallet: LIB updates. *)

\* PendingClaims::evict_expired
EvictExpired(pending, count) ==
    LET aged == [v \in DOMAIN pending |-> pending[v] + count]
    IN  [v \in {v \in DOMAIN aged : aged[v] < SecurityParam} |-> aged[v]]

\* ServiceState::advance_lib
AdvanceLib(w, update, claimed) ==
    IF ~Processed(w, update.new_lib) THEN w
    ELSE [w EXCEPT !.lib = update.new_lib,
                   !.states = Without(@, update.immutable \cup update.stale),
                   !.known = @ \ claimed,
                   !.pending = EvictExpired(@, Cardinality(update.immutable))]

\* handle_lib_update: the wallet may not have applied the new LIB yet.
LibUpdateApplied(w, update) ==
    LET caught  == IF Processed(w, update.new_lib) THEN w ELSE Backfill(w, update.new_lib)
        claimed == ClaimsIn(update.immutable)
    IN  IF ~Processed(w, update.new_lib) /\ ~Reachable(w, update.new_lib) THEN w
        ELSE AdvanceLib([caught EXCEPT !.pending = Without(@, claimed)], update, claimed)
HandleLibUpdate ==
    /\ Running /\ streams.libs # <<>>
    /\ streams' = [streams EXCEPT !.libs = Tail(@)]
    /\ wallet' = LibUpdateApplied(wallet, Head(streams.libs))
    /\ Remember(wallet')
    /\ UNCHANGED <<node, leader, disk, gaps>>

-----------------------------------------------------------------------------
(* The wallet: messages.  A message without a tip is for the current one; the
   wallet first catches up with the tip of a message. *)

\* generate_new_voucher_secret, asked for by a leader that has won a slot
GenerateNewVoucher ==
    /\ Running /\ node.online /\ wallet.next <= MaxVouchers
    /\ LET w == Backfill(wallet, node.tip)
       IN  /\ wallet' = [w EXCEPT !.next = @ + 1, !.known = @ \cup {w.next}]
           /\ updater' = RecoveryState(wallet')
           /\ leader' = [leader EXCEPT !.vouchers = @ \cup {w.next}]
    /\ UNCHANGED <<node, streams, disk, gaps>>

\* ServiceState::claimable_vouchers, those that are available
Available(w, tip) ==
    IF ~Processed(w, tip) THEN {}
    ELSE {v \in w.known \ DOMAIN w.pending : v \in DOMAIN w.states[tip].snapshot}

\* build_leader_claim_tx, with a tip the leader has read before.  The claim
\* proves the voucher's path against the root of the ledger at the tip.  The
\* reservation is not given to the state updater.
BuildLeaderClaim(tip, v) ==
    LET w == Backfill(wallet, tip)
    IN  /\ Running /\ Cardinality(leader.claims) < MaxClaimsBuilt
        /\ InTree(tip)
        /\ v \in Available(w, tip)
        /\ wallet' = [w EXCEPT !.pending = With(@, v, 0)]
        /\ Remember(w)
        /\ leader' = [leader EXCEPT !.claims = @ \cup
                         {[voucher |-> v, root |-> SnapshotSize(tip),
                           path |-> w.states[tip].snapshot[v]]}]
        /\ UNCHANGED <<node, streams, disk, gaps>>

-----------------------------------------------------------------------------
(* Restarts. *)

SaveWallet ==
    /\ Running /\ disk # updater
    /\ disk' = updater
    /\ UNCHANGED <<node, streams, leader, wallet, updater, gaps>>

\* The node stops.  Its chain may have to bootstrap again; vouchers that are
\* in no block are forgotten, transactions are not.
StopNode ==
    /\ gaps.restarts < MaxNodeRestarts
    /\ wallet' = Down /\ streams' = NoStreams /\ updater' = disk
    /\ \E online \in {FALSE, node.online} : node' = [node EXCEPT !.online = online]
    /\ leader' = [leader EXCEPT !.vouchers = {}]
    /\ gaps' = [gaps EXCEPT !.restarts = @ + 1]
    /\ UNCHANGED disk

\* WalletService::run: the tip and the LIB are read ...
ReadInfo ==
    /\ wallet = Down
    /\ wallet' = [phase |-> "starting", tip |-> node.tip, lib |-> node.lib]
    /\ UNCHANGED <<node, streams, leader, updater, disk, gaps>>

\* ... the streams are subscribed to ...
Subscribe ==
    /\ wallet.phase = "starting"
    /\ wallet' = [wallet EXCEPT !.phase = "subscribed"]
    /\ UNCHANGED <<node, streams, leader, updater, disk, gaps>>

\* ... and then the two are used: the service ends if the ledger state of that
\* LIB is gone.
StartWallet ==
    LET old   == disk.lib
        start == IF old = {}
                 THEN [block |-> wallet.lib, state |-> VouchersFromLedger(wallet.lib)]
                 ELSE CHOOSE s \in old : TRUE
        w     == [phase |-> "running", lib |-> start.block,
                  states |-> With(<<>>, start.block, start.state),
                  known |-> disk.known, next |-> disk.next, pending |-> disk.pending]
    IN  /\ wallet.phase = "subscribed"
        /\ IF InTree(wallet.lib) /\ Reachable(w, wallet.tip)
           THEN /\ wallet' = Backfill(w, wallet.tip)
                /\ updater' = IF wallet' = w THEN updater ELSE RecoveryState(wallet')
           ELSE wallet' = Failed /\ UNCHANGED updater
        /\ UNCHANGED <<node, streams, leader, disk, gaps>>

-----------------------------------------------------------------------------
WalletInit ==
    /\ node = [blocks |-> <<>>, tip |-> Root, lib |-> Root, online |-> FALSE]
    /\ streams = NoStreams
    /\ leader = [vouchers |-> {}, claims |-> {}]
    /\ wallet = Down
    /\ disk = [next |-> 1, known |-> {}, pending |-> <<>>, lib |-> {}]
    /\ updater = disk
    /\ gaps = [lagged |-> FALSE, silent |-> FALSE, restarts |-> 0]

Handle == HandleNewBlock \/ HandleLibUpdate

WalletNext ==
    \/ \E parent \in {Root} \cup ChainIds, epoch \in UNION Range(ChainEpochs),
          voucher \in {Others} \cup leader.vouchers :
          \E claims \in SUBSET Claimable(parent, epoch) :
            ChainGrows(parent, epoch, voucher, claims)
    \/ ChainOnline
    \/ Handle
    \/ GenerateNewVoucher
    \/ \E tip \in {Root} \cup ChainIds, v \in 1..MaxVouchers : BuildLeaderClaim(tip, v)
    \/ SaveWallet \/ StopNode \/ ReadInfo \/ Subscribe \/ StartWallet

WalletSpec == WalletInit /\ [][WalletNext]_walletVars

-----------------------------------------------------------------------------
(* Properties. *)

\* The wallet always has a state at its LIB, which update_state expects and
\* every backfill starts from, although states are pruned with the blocks of a
\* chain that is ahead of it.
LibStateHeld == Running => Processed(wallet, wallet.lib)

\* What the wallet can prove is what the ledger will accept: the paths kept at
\* a block are of vouchers the ledger has in its snapshot at that block, and of
\* the accumulator of that very snapshot, whatever the wallet has missed,
\* backfilled or recovered.
PathsAreProvable ==
    Running =>
      \A b \in DOMAIN wallet.states :
        LET snapshot == wallet.states[b].snapshot
        IN  \A v \in DOMAIN snapshot :
              /\ v \in VouchersIn(Earlier(Chain(b), BlockEpoch(b)))
              /\ snapshot[v] = SnapshotSize(b)

\* Every voucher the wallet knows and the ledger has in its snapshot can be
\* claimed.  After a crash that lost its index a voucher may be generated
\* again, and what was in the tree for it before is not tracked.
VouchersAreTracked ==
    (Running /\ gaps.restarts = 0) =>
      \A b \in DOMAIN wallet.states :
        wallet.known \cap VouchersIn(Earlier(Chain(b), BlockEpoch(b)))
            \subseteq DOMAIN wallet.states[b].snapshot

\* A voucher claimed below the LIB of the wallet is not known any more, if no
\* LIB update was missed.
ClaimedAreForgotten ==
    (Running /\ ~gaps.lagged /\ ~gaps.silent /\ gaps.restarts = 0) =>
        wallet.known \cap ClaimsIn(Chain(wallet.lib) \ {wallet.lib}) = {}

\* The newest block is applied, or has become stale or immutable.
NewestApplied ==
    LET b == Len(node.blocks)
    IN  Processed(wallet, b) \/ ~Alive(b) \/ b \in Chain(wallet.lib)

\* Once the wallet has read what was announced to it, the newest block is
\* applied, even if announcements were dropped or the wallet started late.
NewestIsApplied ==
    [][ (Running /\ Running' /\ streams.blocks # <<>> /\ streams'.blocks = <<>>)
            => NewestApplied' ]_walletVars

\* The wallet keeps up with the chain, whatever it misses, and can claim what
\* the ledger pays.
VouchersAreClaimable ==
    /\ [](LibStateHeld /\ PathsAreProvable /\ VouchersAreTracked /\ ClaimedAreForgotten)
    /\ NewestIsApplied
=============================================================================
