------------------------------ MODULE Mempool ------------------------------
(***************************************************************************)
(* The transaction pool (services/tx-service): pending transactions, the   *)
(* retired ones it keeps resolvable (removed: no canonical block carries   *)
(* them; included: one does that is not yet immutable), the prefix index,  *)
(* the bodies in storage, the evictor's two policies (TTL and PoW-claim    *)
(* deadlines), and what a restart recovers.                                *)
(*                                                                         *)
(* Prefixes are unique, so the index is the set of indexed keys.  The      *)
(* chain is the environment: a canonical chain and one side branch; what   *)
(* the chain-network service reports of every block it applied reaches the *)
(* pool as the two messages of Reconcile.                                  *)
(***************************************************************************)
EXTENDS Integers, Sequences, FiniteSets, SequencesExt, FiniteSetsExt, Maps

CONSTANTS
    Txs,             \* transactions
    Anchors,         \* [Txs -> SUBSET PoolBlocks]: blocks its PoW claims name
    Fits, Digests,   \* [eras -> SUBSET Txs]: within the era's size limits;
                     \* with a fork digest the era accepts
    PoolBlocks,      \* blocks the chain may process
    SlotOf,          \* [PoolBlocks -> Nat]
    TxsOf,           \* [PoolBlocks -> SUBSET Txs]: what a block carries
    SlotStart,       \* [PoolBlocks -> Nat]: clock time when its slot starts
    TxTtl, Grace,    \* tx_ttl and RETIREMENT_GRACE
    SlotWindow,      \* PowClaimEvictionSettings.slot_window
    SecurityDepth,   \* how many blocks stay mutable
    MaxNow,          \* bound: the clock shows 0..MaxNow
    MaxPoolFaults    \* bound: failed storage calls, crashes, clock steps back

ASSUME MempoolAssumption ==
    /\ Anchors \in [Txs -> SUBSET PoolBlocks] /\ SlotOf \in [PoolBlocks -> Nat]
    /\ SlotStart \in [PoolBlocks -> Nat]
    /\ TxsOf \in [PoolBlocks -> SUBSET Txs]
    /\ TxTtl \in Nat /\ Grace \in Nat /\ SlotWindow \in Nat \ {0}

VARIABLES
    pool,            \* the pool, its evictor and the bodies it stored
    updater,         \* the state last handed to the state updater
    recovery,        \* the state the recovery backend has persisted
    now,             \* what the wall clock shows
    poolEra,         \* era_in_force
    canon, libIndex, \* canonical chain; its first libIndex blocks are final
    side,            \* [base, blocks]: a branch off canon after base blocks
    processed,       \* the blocks processed so far
    poolFaults,      \* faults so far
    restarted        \* a crash happened

poolVars == <<pool, updater, recovery, now, poolEra, canon, libIndex, side,
              processed, poolFaults, restarted>>
chainVars == <<canon, libIndex, side, processed>>

-----------------------------------------------------------------------------
(* Operations on the pool's record.                                        *)

PendingKeys(p) == {p.pending[i].key : i \in DOMAIN p.pending}
RetiredKeys(p) == DOMAIN p.removed \cup DOMAIN p.included
HeldKeys(p) == PendingKeys(p) \cup RetiredKeys(p)

\* Admission time of a held key.
AdmittedAt(p, k) ==
    CASE k \in DOMAIN p.removed -> p.removed[k]
      [] k \in DOMAIN p.included -> p.included[k].at
      [] OTHER -> (CHOOSE e \in ToSet(p.pending) : e.key = k).at

EmptyPool ==
    [pending |-> <<>>, removed |-> <<>>, included |-> <<>>, index |-> {},
     deadline |-> <<>>, parked |-> <<>>, slot |-> -1, bodies |-> {}]

\* What save() keeps of it.
Snapshot(p) == [pending |-> p.pending, removed |-> p.removed,
                included |-> p.included]

InsertPendingFaulty(pending, k, at) == Append(pending, [key |-> k, at |-> at])

\* insert_pending: after the entries admitted no later.
InsertPending(pending, k, at) ==
    LET before == Cardinality({i \in DOMAIN pending : pending[i].at <= at})
    IN InsertAt(pending, before + 1, [key |-> k, at |-> at])

\* PowClaimPolicy::deadline_for.
DeadlineFor(anchorSlot) == anchorSlot + SlotWindow + 1 + 2 * SlotWindow

\* PowClaimPolicy::past_deadline.
PastDeadline(p) == {k \in DOMAIN p.deadline : p.deadline[k] <= p.slot}

\* PowClaimPolicy::track: the earliest deadline of the transaction's claims.
Track(p, k, d) ==
    IF k \in DOMAIN p.deadline /\ p.deadline[k] <= d
    THEN p ELSE [p EXCEPT !.deadline = With(@, k, d)]

\* Evictor::on_add: claims whose anchor storage knew are tracked, the rest wait
\* for the anchor to be processed.
OnAdd(p, k, known) ==
    LET unknown == Anchors[k] \ known
        tracked == IF Anchors[k] \cap known = {} THEN p
                   ELSE Track(p, k, Min({DeadlineFor(SlotOf[b]) :
                                            b \in Anchors[k] \cap known}))
        parked == IF k \in DOMAIN p.parked THEN p.parked[k] ELSE {}
    IN IF unknown = {} THEN tracked
       ELSE [tracked EXCEPT !.parked = With(@, k, parked \cup unknown)]

\* Evictor::on_processed_block: the slot never moves back, and the claims that
\* waited for this anchor get their deadline.
OnProcessed(p, b) ==
    LET woken == {k \in DOMAIN p.parked : b \in p.parked[k]}
        left == [k \in DOMAIN p.parked |-> p.parked[k] \ {b}]
        q == [p EXCEPT !.slot = IF @ > SlotOf[b] THEN @ ELSE SlotOf[b],
                       !.parked = Without(left, {k \in woken : left[k] = {}})]
    IN FoldSet(LAMBDA k, acc : Track(acc, k, DeadlineFor(SlotOf[b])), q, woken)

\* TtlPolicy::expired: pending is oldest first, so the scan stops at the first
\* entry that is young enough.
TtlExpired(p, t) ==
    {p.pending[i].key : i \in {j \in DOMAIN p.pending :
        \A h \in 1 .. j : SatSub(t, p.pending[h].at) >= TxTtl}}

SelectRetirements(p, t) == TtlExpired(p, t) \cup PastDeadline(p)

\* retire: pending keys only; they stay indexed, with their bodies.
Retire(p, keys) ==
    LET gone == keys \cap PendingKeys(p)
    IN [p EXCEPT !.pending = SelectSeq(@, LAMBDA e : e.key \notin gone),
                 !.removed = [k \in DOMAIN @ \cup gone |->
                                IF k \in gone THEN AdmittedAt(p, k) ELSE @[k]]]

\* select_releases: retired keys past the TTL and its grace that no canonical
\* block carries, and retired claims past their deadline.
SelectReleases(p, t) ==
    {k \in DOMAIN p.removed : SatSub(t, p.removed[k]) >= TxTtl + Grace}
        \cup (PastDeadline(p) \cap RetiredKeys(p))

\* delete_retained, then the keys leave the retired maps.  A failed deletion
\* leaves everything in place.
DeleteRetained(p, keys, fails) ==
    IF fails THEN p
    ELSE [p EXCEPT !.bodies = @ \ keys, !.index = @ \ keys,
                   !.deadline = Without(@, keys), !.parked = Without(@, keys),
                   !.removed = Without(@, keys), !.included = Without(@, keys)]

ReleaseRetained(p, t, fails) == DeleteRetained(p, SelectReleases(p, t), fails)

\* release_immutable.
Immutable(p, libSlot) ==
    {k \in DOMAIN p.included : p.included[k].slot <= libSlot}
ReleaseImmutable(p, libSlot, fails) ==
    DeleteRetained(p, Immutable(p, libSlot), fails)

\* The anchors storage knows the slot of; a failed lookup leaves any of them
\* out.  Expired: the deadline of a known anchor is already reached.
Expired(p, k, known) ==
    \E b \in Anchors[k] \cap known : DeadlineFor(SlotOf[b]) <= p.slot

\* What can go wrong in a handler's calls to storage.
NoFault == [release |-> FALSE, store |-> {}, lookup |-> {}]
Fault == {NoFault, [NoFault EXCEPT !.release = TRUE],
          [NoFault EXCEPT !.store = Txs],
          [NoFault EXCEPT !.lookup = PoolBlocks]}

\* add_item: size, release, duplicates, fork digest, expiry, store the body; then the
\* transaction is indexed, tracked and pending, under its first admission time
\* if it was retired before.
AddItem(p, k, t, known, fault) ==
    LET r == IF k \in Fits[poolEra] THEN ReleaseRetained(p, t, fault.release)
             ELSE p
        at == IF k \in DOMAIN r.removed THEN r.removed[k] ELSE t
        added == OnAdd([r EXCEPT !.bodies = @ \cup {k}, !.index = @ \cup {k},
                                 !.removed = Without(@, {k})], k, known)
        refused == \/ k \notin Fits[poolEra]
                   \/ k \in PendingKeys(r) \/ k \in DOMAIN r.included
                   \/ k \notin Digests[poolEra]
                   \/ Expired(r, k, known)
                   \/ k \in fault.store
    IN IF refused THEN [pool |-> r, ok |-> FALSE]
       ELSE [pool |-> [added EXCEPT !.pending = InsertPending(@, k, at)],
             ok |-> TRUE]

\* on_canonical_chain_updated, first half: reorged transactions leave included;
\* then the entered ones become included, at the slot of their (new) block.
Reorged(p, reorged) ==
    LET back == reorged \cap DOMAIN p.included
    IN [p EXCEPT !.included = Without(@, back),
                 !.removed = [k \in DOMAIN @ \cup back |->
                     IF k \in back THEN p.included[k].at ELSE @[k]]]

EnteredFaulty(p, entered) ==
    LET moved == (DOMAIN entered \cap HeldKeys(p)) \ DOMAIN p.included
    IN [p EXCEPT !.pending = SelectSeq(@, LAMBDA e : e.key \notin moved),
                 !.removed = Without(@, moved),
                 !.included = [k \in DOMAIN @ \cup moved |->
                     IF k \in moved
                     THEN [slot |-> entered[k], at |-> AdmittedAt(p, k)]
                     ELSE @[k]]]

Entered(p, entered) ==
    LET moved == DOMAIN entered \cap HeldKeys(p)
    IN [p EXCEPT !.pending = SelectSeq(@, LAMBDA e : e.key \notin moved),
                 !.removed = Without(@, moved),
                 !.included = [k \in DOMAIN @ \cup moved |->
                     IF k \in moved
                     THEN [slot |-> entered[k], at |-> AdmittedAt(p, k)]
                     ELSE @[k]]]

\* Second half: each reorged transaction not older than the TTL is added again,
\* dated by its first admission, or, if the pool does not hold it, by the
\* start of the slot of its block.
Readmit(p, reorged, t, known, fault) ==
    LET AgeOf(acc, item) ==
            SatSub(t, IF item.key \in DOMAIN acc.removed
                      THEN acc.removed[item.key] ELSE SlotStart[item.block])
    IN FoldLeft(LAMBDA acc, item :
                    IF AgeOf(acc, item) > TxTtl THEN acc
                    ELSE AddItem(acc, item.key, t, known, fault).pool,
                p, reorged)

OnCanonicalChainUpdated(p, entered, reorged, t, known, fault) ==
    Readmit(Entered(Reorged(p, {item.key : item \in ToSet(reorged)}), entered),
            reorged, t, known, fault)

\* on_processed_block.
OnProcessedBlock(p, b, libSlot, t, fault) ==
    LET q == OnProcessed(ReleaseImmutable(p, libSlot, fault.release), b)
    IN ReleaseRetained(Retire(q, SelectRetirements(q, t)), t, fault.release)

-----------------------------------------------------------------------------
PoolInit ==
    /\ pool = EmptyPool
    /\ updater = Snapshot(EmptyPool) /\ recovery = Snapshot(EmptyPool)
    /\ now = 0 /\ poolEra = 1
    /\ canon = <<>> /\ libIndex = 0 /\ side = [base |-> 0, blocks |-> <<>>]
    /\ processed = {}
    /\ poolFaults = 0 /\ restarted = FALSE

\* A handler meets no fault, or one of the budget.
SomeFault(fault) ==
    /\ poolFaults' = poolFaults + (IF fault = NoFault THEN 0 ELSE 1)
    /\ poolFaults' <= MaxPoolFaults

\* MempoolMsg::Add and items from the network: saved only when it was added.
Add(k) ==
    \E fault \in Fault :
        /\ SomeFault(fault)
        /\ LET res == AddItem(pool, k, now, processed \ fault.lookup, fault)
           IN /\ pool' = res.pool
              /\ updater' = IF res.ok THEN Snapshot(res.pool) ELSE updater
        /\ UNCHANGED <<recovery, now, poolEra, chainVars, restarted>>

\* MempoolMsg::Remove: a leader found these inapplicable.
RemoveItems(keys) ==
    \E fault \in Fault :
        /\ SomeFault(fault) /\ fault.store = {} /\ fault.lookup = {}
        /\ LET p == Retire(pool, keys)
               q == ReleaseRetained(Retire(p, SelectRetirements(p, now)), now,
                                    fault.release)
           IN pool' = q /\ updater' = Snapshot(q)
        /\ UNCHANGED <<recovery, now, poolEra, chainVars, restarted>>

\* The slot of the block of the branch that carries each transaction, and the
\* transactions of a branch in order.
TxSlots(blocks) ==
    [k \in UNION {TxsOf[blocks[i]] : i \in DOMAIN blocks} |->
        SlotOf[CHOOSE b \in ToSet(blocks) : k \in TxsOf[b]]]
TxSeq(blocks) ==
    FlattenSeq([i \in DOMAIN blocks |->
        SetToSeq({[key |-> k, block |-> blocks[i]] :
                     k \in TxsOf[blocks[i]]})])

\* A block carries no transaction of its ancestors, and a later slot.
ValidOn(b, ancestors) ==
    /\ b \notin processed
    /\ TxsOf[b] \cap UNION {TxsOf[c] : c \in ToSet(ancestors)} = {}
    /\ ancestors # <<>> => SlotOf[Last(ancestors)] < SlotOf[b]

\* apply_block_and_reconcile_mempool: block b was applied and the canonical
\* chain is now chain.  The pool gets CanonicalChainUpdated if transactions
\* entered or left the canonical chain, and then ProcessedBlock.
Reconcile(b, chain, entered, reorged) ==
    \E fault \in Fault :
        LET lib == Max({libIndex, Len(chain) - SecurityDepth})
            libSlot == IF lib = 0 THEN 0 ELSE SlotOf[chain[lib]]
            known == (processed \cup {b}) \ fault.lookup
            updated == IF DOMAIN entered = {} /\ reorged = <<>> THEN pool
                       ELSE OnCanonicalChainUpdated(pool, entered, reorged,
                                                    now, known, fault)
        IN /\ SomeFault(fault)
           /\ pool' = OnProcessedBlock(updated, b, libSlot, now, fault)
           /\ updater' = Snapshot(pool')
           /\ canon' = chain /\ libIndex' = lib
           /\ processed' = processed \cup {b}
           /\ UNCHANGED <<recovery, now, poolEra, restarted>>

ExtendCanonical(b) ==
    /\ ValidOn(b, canon)
    /\ Reconcile(b, Append(canon, b),
                 TxSlots(<<b>>), <<>>)
    /\ UNCHANGED side

\* The side branch grows; the fork choice, which is not the pool's business,
\* may make it canonical, and the old blocks become the side branch.
ExtendSide(b, base) ==
    LET branch == Append(side.blocks, b)
        prefix == SubSeq(canon, 1, base)
        old == SubSeq(canon, base + 1, Len(canon))
        entered == TxSlots(branch)
        reorged == SelectSeq(TxSeq(old),
                             LAMBDA item : item.key \notin DOMAIN entered)
    IN /\ base \in libIndex .. Len(canon) - 1
       /\ side.blocks # <<>> => base = side.base
       /\ ValidOn(b, prefix \o side.blocks)
       /\ \/ /\ Reconcile(b, prefix \o branch, entered, reorged)
             /\ side' = [base |-> base, blocks |-> old]
          \/ /\ Reconcile(b, canon, <<>>, <<>>)
             /\ side' = [base |-> base, blocks |-> branch]

\* Eras: what the pool admits from now on.
RotateEra ==
    /\ poolEra + 1 \in DOMAIN Digests
    /\ poolEra' = poolEra + 1
    /\ UNCHANGED <<pool, updater, recovery, now, chainVars, poolFaults,
                   restarted>>

\* The clock moves on; stepping back counts as a fault.
Clock(t) ==
    /\ t # now /\ now' = t
    /\ poolFaults' = poolFaults + (IF t < now THEN 1 ELSE 0)
    /\ poolFaults' <= MaxPoolFaults
    /\ UNCHANGED <<pool, updater, recovery, poolEra, chainVars, restarted>>

\* The recovery backend writes the state it was last handed (which matters
\* only while a crash is still possible).
PersistState ==
    /\ poolFaults < MaxPoolFaults /\ recovery # updater /\ recovery' = updater
    /\ UNCHANGED <<pool, updater, now, poolEra, chainVars, poolFaults,
                   restarted>>

\* A crash and a restart from the persisted state: the index is rebuilt, the
\* recovered items whose body can be loaded are given to the evictor, and the
\* chain-network service reports the highest block (with the genesis slot as
\* the LIB, which releases nothing).
Restart ==
    /\ restarted' = TRUE
    /\ poolFaults < MaxPoolFaults /\ poolFaults' = poolFaults + 1
    /\ LET held == HeldKeys([EmptyPool EXCEPT !.pending = recovery.pending,
                              !.removed = recovery.removed,
                              !.included = recovery.included])
           base == [EmptyPool EXCEPT !.pending = recovery.pending,
                       !.removed = recovery.removed,
                       !.included = recovery.included,
                       !.index = held, !.bodies = pool.bodies]
           loaded == FoldSet(LAMBDA k, p : OnAdd(p, k, processed), base,
                             held \cap pool.bodies)
           seen == IF canon = <<>> THEN loaded
                   ELSE OnProcessedBlock(loaded, Last(canon), 0, now, NoFault)
       IN pool' = seen /\ updater' = Snapshot(seen)
    /\ UNCHANGED <<recovery, now, poolEra, chainVars>>

PoolNext ==
    \/ \E k \in Txs : Add(k)
    \/ \E keys \in SUBSET Txs : keys # {} /\ RemoveItems(keys)
    \/ \E b \in PoolBlocks :
           \/ ExtendCanonical(b)
           \/ \E base \in 0 .. Cardinality(PoolBlocks) :
                  ExtendSide(b, base)
    \/ RotateEra
    \/ \E t \in 0 .. MaxNow : Clock(t)
    \/ PersistState
    \/ Restart

PoolSpec == PoolInit /\ [][PoolNext]_poolVars

-----------------------------------------------------------------------------
\* A transaction is pending, retired or included, never two of these; pending
\* is ordered by admission time, which is what lets the TTL scan stop early.
PoolIsOrdered ==
    /\ PendingKeys(pool) \cap RetiredKeys(pool) = {}
    /\ DOMAIN pool.removed \cap DOMAIN pool.included = {}
    /\ \A i, j \in DOMAIN pool.pending :
           i < j => /\ pool.pending[i].key # pool.pending[j].key
                    /\ pool.pending[i].at <= pool.pending[j].at

\* A proposal's reference resolves exactly when the pool holds the transaction.
\* Without a crash its body is there too, and storage holds no other body; a
\* body that a crash left unlisted is one whose release was already due.
HeldIsResolvable ==
    /\ pool.index = HeldKeys(pool)
    /\ ~restarted => pool.bodies = HeldKeys(pool)
    /\ \A k \in HeldKeys(pool) \ pool.bodies :
           \/ \E b \in ToSet(SubSeq(canon, 1, libIndex)) : k \in TxsOf[b]
           \/ \E b \in Anchors[k] \cap processed, c \in processed :
                  DeadlineFor(SlotOf[b]) <= SlotOf[c]
           \/ MaxNow >= AdmittedAt(pool, k) + TxTtl + Grace

\* Without a crash, what the pool counts as included is what the
\* canonical chain carries, at the slot of the block that carries it now: a
\* reorg neither strands a transaction nor releases it too early.
IncludedMatchesChain ==
    ~restarted =>
        \A k \in DOMAIN pool.included :
            \E b \in ToSet(canon) : /\ k \in TxsOf[b]
                                    /\ SlotOf[b] = pool.included[k].slot

\* The pool's maps, its index, the stored bodies and the chain agree, through
\* reorgs, evictions, failed writes and restarts.
PoolIsConsistent == PoolIsOrdered /\ HeldIsResolvable /\ IncludedMatchesChain

ReleaseDue(p, k, t) ==
    SatSub(t, AdmittedAt(p, k)) >= TxTtl + Grace \/ k \in PastDeadline(p)

\* No step of the running pool makes a held transaction younger: retiring it
\* and admitting it again after a reorg keep its first admission time, until
\* its release is due.
AgeNeverReset ==
    [][\A k \in HeldKeys(pool) \cap HeldKeys(pool') :
           \/ AdmittedAt(pool', k) <= AdmittedAt(pool, k)
           \/ ReleaseDue(pool, k, now)
           \/ Restart]_poolVars

\* Once a block is processed, nothing pending is past its TTL or past the
\* deadline of one of its claims, as far as the evictor was told of the anchor.
SweepIsComplete ==
    [][processed' # processed =>
           \A i \in DOMAIN pool'.pending :
               /\ SatSub(now, pool'.pending[i].at) < TxTtl
               /\ pool'.pending[i].key \notin PastDeadline(pool')]_poolVars

\* Eviction goes by the time of first admission, and misses nothing.
EvictionIsByAge == AgeNeverReset /\ SweepIsComplete
=============================================================================
