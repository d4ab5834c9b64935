--------------------------- MODULE ZoneSequencer ---------------------------
(***************************************************************************)
(* The zone SDK's sequencer (zone-sdk/src/sequencer): the transactions a   *)
(* sequencer publishes on its channel, the blocks it reads back from its   *)
(* node, and the updates by which the zone above it keeps its own copy of  *)
(* the channel.                                                            *)
(*                                                                         *)
(* A message id is a hash of its content and its parent, so a message is   *)
(* written as the path of payloads from the root of the channel: its       *)
(* parent is the path without its last payload.  Configurations form a     *)
(* lineage of their own and are written the same way.  A transaction is a  *)
(* message or a configuration together with the number of times it was     *)
(* funded anew: funding changes the hash and not the message.              *)
(*                                                                         *)
(* The node is external: a tree of blocks, the longest branch, a last      *)
(* irreversible block Depth blocks below the tip, and one event per block. *)
(* A block holds at most one transaction of the channel, valid on its      *)
(* branch.  Its slot is its number.  Other sequencers' transactions appear *)
(* in blocks.  The stream may skip events and may be dropped and reopened. *)
(*                                                                         *)
(* Bundles (withdrawals, pinned deposits) and opaque custom transactions   *)
(* are left out, and with them the channel's notes.  Whose turn it is and  *)
(* the limit on unmined posts decide only when a transaction is posted;    *)
(* here any prefix of what is due may be accepted by the node.             *)
(***************************************************************************)
EXTENDS Integers, FiniteSets, Sequences, SequencesExt, Maps

CONSTANTS
    OwnPayloads,     \* what the zone above this sequencer wants inscribed
    OtherPayloads,   \* what other sequencers inscribe
    OwnConfigs,      \* configurations submitted here
    OtherConfigs,    \* configurations submitted elsewhere
    Depth,           \* blocks between the node's tip and its LIB
    StaleSlots,      \* stale_refund_slots
    MaxL1Blocks, MaxFundings,   \* bounds
    MaxBreaks        \* bound on lost connections and restarts together

VARIABLES
    chain,       \* the node's blocks: branch, transaction, and the event sent
    posted,      \* transactions the node accepted
    sequencer,   \* the sequencer's state
    link,        \* its connection: phase, next event, backfill, breaks so far,
                 \* and whether an event ever set the LIB back
    zone         \* the zone's copy of the channel

zoneVars == <<chain, posted, sequencer, link, zone>>

NoTip == -1
NoSlot == -1
Root == <<>>

Tx(kind, id, fund) == [kind |-> kind, id |-> id, fund |-> fund]
Ids(txs) == {t.id : t \in txs}
Parent(t) == Front(t.id)
Of(kind, txs) == {t \in txs : t.kind = kind}

-----------------------------------------------------------------------------
(* The node.                                                               *)

BranchOf(b) == IF b = 0 THEN <<>> ELSE chain[b].branch
On(a, b) == a = 0 \/ a \in Range(BranchOf(b))
TxOf(b) == chain[b].tx

\* The channel's transactions in a sequence of blocks, oldest first.
TxsIn(blocks) ==
    LET full == SelectSeq(blocks, LAMBDA b : TxOf(b) # {})
    IN  [i \in 1..Len(full) |-> CHOOSE t \in TxOf(full[i]) : TRUE]

LastId(txs, kind, default) ==
    LET some == SelectSeq(txs, LAMBDA t : t.kind = kind)
    IN  IF some = <<>> THEN default ELSE Last(some).id

NodeTip == IF chain = <<>> THEN 0 ELSE Last(chain).tip
NodeLib == IF chain = <<>> THEN 0 ELSE Last(chain).lib

\* A node accepts a transaction that continues its lineage on the branch.
Minable(parent, t) ==
    Parent(t) = LastId(TxsIn(BranchOf(parent)), t.kind, Root)

Mine(parent, txs) ==
    LET n == Len(chain) + 1
        branch == Append(BranchOf(parent), n)
        tip == IF Len(branch) > Len(BranchOf(NodeTip)) THEN n ELSE NodeTip
        best == IF tip = n THEN branch ELSE BranchOf(tip)
        lib == IF Len(best) > Depth THEN best[Len(best) - Depth] ELSE 0
    IN  /\ n <= MaxL1Blocks
        /\ On(NodeLib, parent)
        /\ \A t \in txs : Minable(parent, t)
        /\ chain' = Append(chain, [branch |-> branch, tx |-> txs,
                                   tip |-> tip, lib |-> lib])
        /\ UNCHANGED <<posted, sequencer, link, zone>>

\* What another sequencer may put on a branch: a continuation of its lineage.
Foreign(parent) ==
    LET txs == TxsIn(BranchOf(parent))
        tip == LastId(txs, "msg", Root)
        config == LastId(txs, "cfg", Root)
    IN  {Tx("msg", Append(tip, p), 0) : p \in OtherPayloads \ Range(tip)}
        \cup {Tx("cfg", Append(config, c), 0) : c \in OtherConfigs \ Range(config)}

-----------------------------------------------------------------------------
(* BlockStates: the unfinalized window.                                    *)

\* The blocks of the window on the branch of a block the window holds.
Held(s, b) ==
    IF b \in s.store
    THEN SelectSeq(BranchOf(b), LAMBDA c : c \in s.store \ {s.base})
    ELSE <<>>
HasBlock(s, b) == b \in s.store
SafeAt(s, b) == Range(TxsIn(Held(s, b)))
ChannelTipAt(s, b) == LastId(TxsIn(Held(s, b)), "msg", s.finalized.msg)
ConfigTipAt(s, b) == LastId(TxsIn(Held(s, b)), "cfg", s.finalized.config)

AdvanceLib(s, lib) ==
    LET txs == TxsIn(Held(s, lib))
        msg == LastId(txs, "msg", Root)
        config == LastId(txs, "cfg", Root)
    IN  [s EXCEPT
            !.lib = lib,
            !.finalized = [msg |-> IF msg # Root THEN msg ELSE @.msg,
                           matched |-> msg # Root \/ @.matched,
                           config |-> IF config # Root THEN config ELSE @.config],
            !.store = {b \in @ : On(lib, b)}]

ProcessBlock(s, b, lib) ==
    LET inserted == [s EXCEPT !.store = @ \cup {b},
                              !.base = IF @ = b THEN NoTip ELSE @]
    IN  IF lib = s.lib THEN inserted ELSE AdvanceLib(inserted, lib)

-----------------------------------------------------------------------------
(* TxState: what is pending.                                               *)

\* The pending entries chained, without a gap, from an id of a lineage.
Chained(pending, kind, from) ==
    LET ids == Ids(Of(kind, DOMAIN pending))
    IN  {t \in Of(kind, DOMAIN pending) :
            /\ IsStrictPrefix(from, t.id)
            /\ \A n \in (Len(from) + 1)..Len(t.id) : SubSeq(t.id, 1, n) \in ids}

Ordered(txs) == SetToSortSeq(txs, LAMBDA t, u : Len(t.id) < Len(u.id))

\* The pending entry that holds a position and everything chained on it.
DisplaceChain(s, heads) ==
    LET gone == heads \cup UNION {Chained(s.pending, t.kind, t.id) : t \in heads}
    IN  [s EXCEPT !.pending = Without(@, gone), !.displaced = @ \cup gone]

\* Entries whose id is on chain are done, whatever hash carried it there.
Landed(s, ids) == {t \in DOMAIN s.pending : t.id \in ids}
TakeLanded(s, ids) == [s EXCEPT !.pending = Without(@, Landed(s, ids))]

\* observe_channel_inscription and observe_other_tx: a mined transaction
\* takes its position from whatever was pending there.
Observe(s, t) ==
    LET before == Landed(s, {t.id})
        record == IF before = {} THEN [own |-> FALSE, at |-> NoSlot]
                  ELSE s.pending[CHOOSE u \in before : TRUE]
        retired == TakeLanded(s, {t.id})
        siblings == {u \in Of(t.kind, DOMAIN retired.pending) : Parent(u) = Parent(t)}
    IN  IF t \in DOMAIN s.pending THEN s
        ELSE [DisplaceChain(retired, siblings) EXCEPT !.pending = With(@, t, record)]

ObserveAll(s, txs) == FoldLeft(Observe, s, txs)

\* The channel as the sequencer sees it at a tip: what is mined on the
\* branch, then what is pending on top of it.
ChannelLineage(s, tip) ==
    LET mined == TxsIn(Held(s, tip))
        pending == Ordered(Chained(s.pending, "msg", ChannelTipAt(s, tip)))
                   \o Ordered(Chained(s.pending, "cfg", ConfigTipAt(s, tip)))
    IN  mined \o SelectSeq(pending, LAMBDA t : t.id \notin Ids(Range(mined)))

\* The part of a lineage at or below the finalized message or configuration.
FinalizedPrefix(s, lineage) ==
    LET ends == {i \in 1..Len(lineage) :
                    \/ lineage[i].kind = "msg" /\ s.finalized.matched
                       /\ lineage[i].id = s.finalized.msg
                    \/ lineage[i].id = s.finalized.config}
    IN  {lineage[i].id : i \in {j \in 1..Len(lineage) : \E e \in ends : j <= e}}

PublishParent(s, tip) ==
    LET from == ChannelTipAt(s, tip)
        chained == Ordered(Chained(s.pending, "msg", from))
    IN  IF chained = <<>> THEN from ELSE Last(chained).id

\* pending_txs: what is due for posting, parents before children.
PendingTxs(s, tip) ==
    LET safe == SafeAt(s, tip)
        due(txs) == Ordered({t \in txs : t \notin safe})
    IN  due(Chained(s.pending, "msg", ChannelTipAt(s, tip)))
        \o due(Of("cfg", DOMAIN s.pending))

Expired(s, t) ==
    /\ s.pending[t].at # NoSlot
    /\ SatSub(s.libSlot, s.pending[t].at) > StaleSlots

-----------------------------------------------------------------------------
(* Shedding: what can no longer land leaves the pending set and is         *)
(* reported.  Each operator returns the state and what it shed.            *)

Shed(s, txs) == [s EXCEPT !.pending = Without(@, txs)]

ShedOffBranchFaulty(s, tip) ==
    LET reached == Chained(s.pending, "msg", ChannelTipAt(s, tip))
        off == Of("msg", DOMAIN s.pending) \ (reached \cup SafeAt(s, tip))
    IN  [state |-> [Shed(s, off) EXCEPT !.displaced = {}], shed |-> off]
ShedOffBranch(s, tip) ==
    LET reached == Chained(s.pending, "msg", ChannelTipAt(s, tip))
        off == Of("msg", DOMAIN s.pending) \ (reached \cup SafeAt(s, tip))
    IN  [state |-> [Shed(s, off) EXCEPT !.displaced = {}],
         shed |-> s.displaced \cup off]

ShedStaleConfigs(s, tip) ==
    LET from == ConfigTipAt(s, tip)
        landable == {from} \cup Ids(Chained(s.pending, "cfg", from))
        stale == {t \in Of("cfg", DOMAIN s.pending) :
                     /\ t \notin SafeAt(s, tip)
                     /\ t.id \notin landable
                     /\ Parent(t) \notin landable}
    IN  [state |-> Shed(s, stale), shed |-> stale]

ShedOnConfig(s, tip) ==
    LET config == ConfigTipAt(s, tip)
        off == IF config = s.observed THEN {}
               ELSE Of("msg", DOMAIN s.pending) \ SafeAt(s, tip)
    IN  [state |-> [Shed(s, off) EXCEPT !.observed = config], shed |-> off]

ShedExpired(s, tip) ==
    LET expired == {t \in DOMAIN s.pending :
                       ~s.pending[t].own /\ t \notin SafeAt(s, tip) /\ Expired(s, t)}
        gone == expired \cup UNION {Chained(s.pending, t.kind, t.id) : t \in expired}
        off == IF HasBlock(s, tip) THEN gone ELSE {}
    IN  [state |-> Shed(s, off), shed |-> off]

-----------------------------------------------------------------------------
(* A block event.                                                          *)

\* The zone applies an update: the finalized entries leave its open view; an
\* extension adds to the view, a conflict replaces it.  diff is the copy of a
\* zone that reverts what is orphaned and applies what is adopted, rebuilt
\* that of one that starts again from the canonical chain on a conflict.
ZoneApplies(update) ==
    LET landed == update.finalized
    IN  zone' = [zone EXCEPT
            !.final = @ \cup landed,
            !.diff = ((@ \ update.orphaned) \cup update.adopted) \ landed,
            !.rebuilt = (IF update.orphaned = {} THEN @ \cup update.adopted
                         ELSE update.prefix \cup update.adopted) \ landed]

\* The blocks up to the event's LIB that were not finalized here yet; each
\* becomes the LIB as it is applied.
ToFinalize(from, lib) == SelectSeq(BranchOf(lib), LAMBDA b : b > from)
Finalize(s, blocks) == FoldLeft(LAMBDA t, b : ProcessBlock(t, b, b), s, blocks)

\* walk_back_to_known: the unknown blocks of a branch above its last known
\* one, oldest first; the walk fails when it runs past the first block.
Unknown(known, branch) ==
    LET last == SelectLastInSeq(branch, LAMBDA c : c \in known)
    IN  SubSeq(branch, last + 1, Len(branch))
Reaches(known, b) == 0 \in known \/ Range(BranchOf(b)) \cap known # {}

Backfill(s, blocks) == FoldLeft(LAMBDA t, b : ProcessBlock(t, b, s.lib), s, blocks)

\* The entries of a view that were in it before a restart: those that are
\* pending, and what they chain on.
LineageUnder(s, tip, tracked) ==
    SelectSeq(ChannelLineage(s, tip),
              LAMBDA t : \E u \in Range(ChannelLineage(s, tip)) :
                            u.kind = t.kind /\ u.id \in Ids(tracked) /\ IsPrefix(t.id, u.id))

\* The blocks an event finalizes.
Batch(s, event) ==
    IF event.lib # s.lib THEN ToFinalize(s.libSlot, event.lib) ELSE <<>>

\* apply_finalized_blocks, then the slot of the event's LIB.
FinalizeEvent(s, event) ==
    IF event.lib = s.lib THEN s
    ELSE [Finalize(s, Batch(s, event)) EXCEPT !.libSlot = event.lib]

\* canonical_backfill and tip_backfill: the unknown blocks of a branch.
BackfillTo(s, branch) == Backfill(s, Unknown(s.store \cup {s.lib}, branch))

\* The block itself, observed first when it is the tip.
ProcessEvent(s, b, event) ==
    ProcessBlock(IF b = event.tip THEN ObserveAll(s, TxsIn(<<b>>)) ELSE s, b, event.lib)

\* The new tip: what is final is no longer pending, and what its branch
\* carries is observed.
ObserveCanonical(s, event, landed) ==
    LET removed == [TakeLanded(s, landed) EXCEPT !.tip = event.tip]
    IN  ObserveAll(removed, TxsIn(SelectSeq(Held(removed, event.tip),
                                            LAMBDA c : c # removed.lib)))

\* How the lineage moved, from before to the lineage of the state.
LineageMove(s, before, landed, state) ==
    LET after == ChannelLineage(state, state.tip)
        masked == FinalizedPrefix(state, before) \cup FinalizedPrefix(state, after)
                  \cup landed
        moved(from, to) == {t \in Range(to) : t.id \notin Ids(Range(from)) \cup masked}
        adopted == moved(before, after)
        orphaned == moved(after, before)
    IN  [state |-> state,
         landed |-> landed,
         before |-> Ids(Range(before)),
         changed |-> adopted \cup orphaned # {},
         orphaned |-> orphaned,
         adopted |-> IF orphaned = {} THEN adopted \ DOMAIN s.pending ELSE adopted]

MovedTo(s, dated, landed, state) ==
    LineageMove(s, IF s.tip = NoTip
                   THEN LineageUnder(state, state.tip, DOMAIN s.pending)
                   ELSE ChannelLineage(dated, s.tip),
                landed, state)

ReadEvent(s, b, event, landed) ==
    ObserveCanonical(
        BackfillTo(ProcessEvent(BackfillTo(s, Front(event.branch)), b, event),
                   BranchOf(event.tip)),
        event, landed)

\* apply_prepared_block_event: the state after the event, before anything is
\* shed, and how the lineage moved.
AppliedOn(s, b, dated, landed) ==
    MovedTo(s, dated, landed, ReadEvent(dated, b, chain[b], landed))

Applied(s, b) ==
    AppliedOn(s, b, FinalizeEvent(s, chain[b]), Ids(Range(TxsIn(Batch(s, chain[b])))))

\* apply_block_result: the shed passes, and the update the zone receives.
Passed(r, p, last) ==
    [r EXCEPT !.state = [p.state EXCEPT !.last = last], !.orphaned = @ \cup p.shed]

OffBranchPass(r) ==
    LET p == ShedOffBranch(r.state, r.state.tip)
    IN  IF r.changed THEN Passed(r, p, PublishParent(p.state, r.state.tip)) ELSE r

StalePass(r) == Passed(r, ShedStaleConfigs(r.state, r.state.tip), r.state.last)

ConfigPass(r) ==
    LET p == ShedOnConfig(r.state, r.state.tip)
    IN  Passed(r, p, IF p.shed = {} THEN r.state.last
                     ELSE ChannelTipAt(p.state, r.state.tip))

ExpiryPass(r) ==
    LET p == ShedExpired(r.state, r.state.tip)
    IN  Passed(r, p, IF p.shed = {} THEN r.state.last
                     ELSE PublishParent(p.state, r.state.tip))

Update(r, lineage) ==
    LET view == Ids(Range(lineage)) \ (FinalizedPrefix(r.state, lineage) \cup r.landed)
    IN  [state |-> r.state,
         update |-> [orphaned |-> Ids(r.orphaned), adopted |-> Ids(r.adopted),
                     prefix |-> view \cap r.before, finalized |-> r.landed]]

Reported(r) == Update(r, ChannelLineage(r.state, r.state.tip))

BlockResult(r) == Reported(ExpiryPass(ConfigPass(StalePass(OffBranchPass(r)))))

\* Every block the event needs can be fetched.
Fetchable(s, b) ==
    LET known == s.store \cup {s.lib} \cup Range(ToFinalize(s.libSlot, chain[b].lib))
    IN  Reaches(known, b) /\ Reaches(known \cup {b}, chain[b].tip)

\* process_pending_block_event.  The stream may have skipped events since
\* the last; an event that cannot be completed drops the stream.
BlockEvent(b) ==
    /\ link.phase = "open" /\ link.target = NoSlot
    /\ b \in link.next..Len(chain)
    /\ IF Fetchable(sequencer, b)
       THEN LET result == BlockResult(Applied(sequencer, b))
            IN  /\ sequencer' = result.state
                /\ ZoneApplies(result.update)
                /\ link' = [link EXCEPT !.next = b + 1, !.live = TRUE,
                                        !.rewound = @ \/ chain[b].lib < sequencer.libSlot]
       ELSE /\ link' = [link EXCEPT !.phase = "closed", !.live = FALSE]
            /\ UNCHANGED <<sequencer, zone>>
    /\ UNCHANGED <<chain, posted>>

-----------------------------------------------------------------------------
(* The connection.                                                         *)

\* handle_stream_disconnect, or a request that failed while a block was
\* being read.
Disconnect ==
    /\ link.phase # "closed" /\ link.target = NoSlot
    /\ link.breaks < MaxBreaks
    /\ link' = [link EXCEPT !.phase = "closed", !.live = FALSE, !.breaks = @ + 1]
    /\ UNCHANGED <<chain, posted, sequencer, zone>>

\* open_block_stream: events from here on.
OpenStream ==
    /\ link.phase = "closed"
    /\ link' = [link EXCEPT !.phase = "opened", !.next = Len(chain) + 1]
    /\ UNCHANGED <<chain, posted, sequencer, zone>>

\* setup_backfill_range: what became final while the stream was down is read
\* first.
SetupBackfill ==
    /\ link.phase = "opened"
    /\ link' = [link EXCEPT !.phase = "open",
                            !.target = IF sequencer.libSlot < NodeLib
                                       THEN NodeLib ELSE NoSlot]
    /\ UNCHANGED <<chain, posted, sequencer, zone>>

\* process_incremental_backfill, in one batch.
IncrementalBackfill ==
    LET batch == ToFinalize(sequencer.libSlot, link.target)
        txs == TxsIn(batch)
        final == Finalize(sequencer, batch)
        msg == LastId(txs, "msg", Root)
        config == LastId(txs, "cfg", Root)
        marked == [final EXCEPT
            !.last = IF msg # Root THEN msg ELSE @,
            !.finalized = [msg |-> IF msg # Root THEN msg ELSE @.msg,
                           matched |-> msg # Root \/ @.matched,
                           config |-> IF config # Root THEN config ELSE @.config],
            !.observed = IF config # Root THEN config ELSE @,
            !.libSlot = link.target]
    IN  /\ link.target # NoSlot
        /\ sequencer' = TakeLanded(marked, Ids(Range(txs)))
        /\ ZoneApplies([orphaned |-> {}, adopted |-> {}, prefix |-> {},
                        finalized |-> Ids(Range(txs))])
        /\ link' = [link EXCEPT !.target = NoSlot]
        /\ UNCHANGED <<chain, posted>>

\* The process stops and init_with_config restores its last checkpoint: the
\* pending transactions, the LIB and the finalized configuration.  The
\* finalized message is taken to be the parent of a pending one that is not
\* itself pending.
Restart ==
    LET s == sequencer
        msgs == Of("msg", DOMAIN s.pending)
        roots == {Parent(t) : t \in msgs} \ Ids(msgs)
        pending == [t \in DOMAIN s.pending |->
                       [s.pending[t] EXCEPT !.at = IF @ = NoSlot THEN s.libSlot ELSE @]]
    IN  /\ link.breaks < MaxBreaks
        /\ \E root \in IF roots = {} THEN {s.last} ELSE roots :
              sequencer' = [s EXCEPT
                  !.pending = pending,
                  !.displaced = {},
                  !.store = {s.lib}, !.base = s.lib, !.tip = NoTip,
                  !.finalized = [msg |-> root, matched |-> FALSE, config |-> @.config],
                  !.observed = s.finalized.config]
        /\ link' = [link EXCEPT !.phase = "closed", !.live = FALSE, !.target = NoSlot,
                                !.breaks = @ + 1]
        /\ UNCHANGED <<chain, posted, zone>>

-----------------------------------------------------------------------------
(* Publishing.                                                             *)

Track(t, own) ==
    sequencer' = [sequencer EXCEPT
        !.pending = With(@, t, [own |-> own, at |-> sequencer.libSlot]),
        !.last = IF t.kind = "msg" THEN t.id ELSE @]

\* The zone publishes what its copy of the channel does not hold, and again
\* what was orphaned.  do_publish chains it on the pending tail; the entry is
\* in the zone's copy from then on.
Publish(payload) ==
    LET id == Append(PublishParent(sequencer, sequencer.tip), payload)
    IN  /\ link.live
        /\ \A held \in zone.final \cup zone.diff : payload \notin Range(held)
        /\ Track(Tx("msg", id, 0), TRUE)
        /\ zone' = [zone EXCEPT !.diff = @ \cup {id}, !.rebuilt = @ \cup {id}]
        /\ UNCHANGED <<chain, posted, link>>

\* do_channel_config, refused when a configuration is pending on the tip.
ChannelConfig(config) ==
    LET tip == ConfigTipAt(sequencer, sequencer.tip)
        id == Append(tip, config)
    IN  /\ link.live
        /\ \A held \in zone.final \cup zone.diff : config \notin Range(held)
        /\ \A t \in Of("cfg", DOMAIN sequencer.pending) : Parent(t) # tip
        /\ Track(Tx("cfg", id, 0), FALSE)
        /\ zone' = [zone EXCEPT !.diff = @ \cup {id}, !.rebuilt = @ \cup {id}]
        /\ UNCHANGED <<chain, posted, link>>

\* resubmit_pending and the posts of new publishes: the node accepts the
\* first transactions of a batch and the batch stops at the first error.
Post(n) ==
    LET due == PendingTxs(sequencer, sequencer.tip)
        accepted == Range(SubSeq(due, 1, n))
    IN  /\ link.live
        /\ n \in 1..Len(due)
        /\ ~ accepted \subseteq posted
        /\ posted' = posted \cup accepted
        /\ UNCHANGED <<chain, sequencer, link, zone>>

\* refund_stale_pending: a stale publish gets a new hash for the same message.
RefundStale(t) ==
    LET funded == [t EXCEPT !.fund = @ + 1]
    IN  /\ link.live
        /\ t \in DOMAIN sequencer.pending
        /\ HasBlock(sequencer, sequencer.tip)
        /\ t \notin SafeAt(sequencer, sequencer.tip)
        /\ sequencer.pending[t].own /\ Expired(sequencer, t)
        /\ t.fund < MaxFundings
        /\ sequencer' = [sequencer EXCEPT
               !.pending = With(Without(@, {t}), funded,
                                [own |-> TRUE, at |-> sequencer.libSlot])]
        /\ UNCHANGED <<chain, posted, link, zone>>

-----------------------------------------------------------------------------
ZoneInit ==
    /\ chain = <<>> /\ posted = {}
    /\ sequencer = [pending |-> <<>>, displaced |-> {}, store |-> {0}, base |-> 0,
                    lib |-> 0, libSlot |-> 0, tip |-> NoTip, last |-> Root,
                    finalized |-> [msg |-> Root, matched |-> FALSE, config |-> Root],
                    observed |-> Root]
    /\ link = [phase |-> "closed", live |-> FALSE, next |-> 1, target |-> NoSlot,
               breaks |-> 0, rewound |-> FALSE]
    /\ zone = [final |-> {}, diff |-> {}, rebuilt |-> {}]

ZoneNext ==
    \/ \E parent \in 0..Len(chain) :
          \E txs \in {{}} \cup {{t} : t \in posted \cup Foreign(parent)} : Mine(parent, txs)
    \/ \E b \in 1..Len(chain) : BlockEvent(b)
    \/ Disconnect \/ OpenStream \/ SetupBackfill \/ IncrementalBackfill \/ Restart
    \/ \E p \in OwnPayloads : Publish(p)
    \/ \E c \in OwnConfigs : ChannelConfig(c)
    \/ \E n \in 1..Cardinality(DOMAIN sequencer.pending) : Post(n)
    \/ \E t \in DOMAIN sequencer.pending : RefundStale(t)

ZoneSpec == ZoneInit /\ [][ZoneNext]_zoneVars

-----------------------------------------------------------------------------
(* Properties.                                                             *)

ChannelView ==
    Ids(Range(ChannelLineage(sequencer, sequencer.tip))) \ zone.final

\* Once a live block has been processed, the two copies of the channel a zone
\* may keep by folding its updates (reverting and applying, or rebuilding on
\* a conflict) hold what the sequencer's view of the channel holds above what
\* is final, and besides only what is still pending: forks, skipped events,
\* jumps of the LIB, new funding, configurations and restarts in between do
\* not make them drift.  (An event sent between the opening of the stream and
\* the reading of the LIB the backfill goes to sets the LIB back: nothing is
\* said after that.)
ZoneFollowsChannel ==
    link.live /\ ~ link.rewound =>
        LET waiting == Ids(DOMAIN sequencer.pending \cup sequencer.displaced)
        IN  /\ zone.diff = ChannelView \cup (waiting \ zone.final)
            /\ ChannelView \subseteq zone.rebuilt
            /\ zone.rebuilt \subseteq ChannelView \cup waiting

\* A position of a lineage has one pending continuation: what is mined takes
\* the position from what was waiting for it, whatever the order in which
\* forks and publishes arrive.
OnePendingPerParent ==
    \A t, u \in DOMAIN sequencer.pending :
        t.kind = u.kind /\ Parent(t) = Parent(u) => t = u

\* A zone that publishes again only what it was told is orphaned never has a
\* payload twice on one branch.
NoPayloadTwice ==
    \A b \in 1..Len(chain) :
        \A t \in Range(TxsIn(BranchOf(b))) : Cardinality(Range(t.id)) = Len(t.id)

\* The zone, the sequencer and the channel agree.
ZoneIsSound == ZoneFollowsChannel /\ OnePendingPerParent /\ NoPayloadTwice
=============================================================================
