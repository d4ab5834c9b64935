----------------------------- MODULE PowService -----------------------------
(***************************************************************************)
(* The proof-of-work reward service, services/pow: a generator that        *)
(* searches every recent block for winning tickets, and the run loop that  *)
(* holds them, publishes claim transactions from them, and retires them    *)
(* when their reward is paid or their window closes.                       *)
(*                                                                         *)
(* The chain is external: a tree of blocks, each with the tickets paid on  *)
(* its chain.  Both the generator and the loop read new blocks from their  *)
(* own broadcast stream, which drops the oldest event when it is full.  A  *)
(* winning ticket is the block it is anchored to and a number; a claim     *)
(* transaction is the set of tickets it claims.  Fees and addresses are    *)
(* left out: building or publishing may fail.                              *)
(***************************************************************************)
EXTENDS Integers, FiniteSets, Sequences, SequencesExt, Maps

CONSTANTS
    RewardWindow,      \* slot |-> the reward window of the era of that slot
    InitialPool,       \* reward pool of the genesis block
    EpochReward,       \* paid for one claim
    MaxClaimsPerTx,    \* what the ops and the Blend payload allow
    FeedCapacity,      \* of the streams of new blocks
    BlockSlots,        \* bound: for every block of the tree, the slots it may have
    MaxPowRestarts     \* bound on the restarts of the node

VARIABLES
    tree,     \* the blocks: [slot, chain, paid, claims], genesis first
    best,     \* the tip
    sent,     \* claim transactions published: [tickets, tip]
    feeds,    \* unread new blocks: [miner, claims]
    search,   \* the generator's searches, the winners each may still yield: [streams, inputs]
    holder,   \* the loop: [mining, armed, ready, pending, pool, once]
    backup,   \* the tickets last saved
    ghost     \* history: [budget, opened, spent, restarts]
powVars == <<tree, best, sent, feeds, search, holder, backup, ghost>>

PowBlocks == DOMAIN BlockSlots
Anchor(ticket) == ticket[1]
NoRun == -1
SlotOf(ticket) == tree[Anchor(ticket)].slot

\* is_within_reward_window: the ledger counts the window the same way.
InWindow(block, slot) == tree[block].slot + RewardWindow[tree[block].slot] >= slot
Pool(b) == InitialPool - EpochReward * Cardinality(tree[b].paid)
\* block_slots of the ledger of `b`: the blocks a claim may be anchored to.
KnownBlocks(b) == {c \in tree[b].chain : InWindow(c, tree[b].slot)}

Tickets == [ready |-> holder.ready, pending |-> holder.pending]
Outstanding == Len(holder.ready) + Cardinality(holder.pending)
Held == Range(holder.ready) \cup holder.pending

-----------------------------------------------------------------------------
(* The chain, external. *)

Acceptable(t, parent, slot) ==
    /\ \A x \in t.tickets : /\ Anchor(x) \in tree[parent].chain
                            /\ InWindow(Anchor(x), slot)
    /\ t.tickets \cap tree[parent].paid = {}
    /\ EpochReward * Cardinality(t.tickets) <= Pool(parent)

Announced(feed, event) ==
    IF Len(feed) < FeedCapacity THEN Append(feed, event)
    ELSE Append(Tail(feed), event)

\* A block on the tip or on the tip's parent.
NewPowBlock ==
    /\ Len(tree) < Len(BlockSlots)
    /\ \E parent \in DOMAIN tree, slot \in BlockSlots[Len(tree) + 1],
          claims \in {{}} \cup {t.tickets : t \in sent} :
        /\ Cardinality(tree[best].chain \ tree[parent].chain) <= 1
        /\ slot > tree[parent].slot
        /\ claims # {} => \E t \in sent : t.tickets = claims /\ Acceptable(t, parent, slot)
        /\ LET b == Len(tree) + 1
               tip == IF Cardinality(tree[parent].chain) >= Cardinality(tree[best].chain)
                      THEN b ELSE best
               event == [block |-> b, tip |-> tip]
           IN  /\ tree' = Append(tree, [slot |-> slot, chain |-> tree[parent].chain \cup {b},
                                        paid |-> tree[parent].paid \cup claims, claims |-> claims])
               /\ best' = tip
               /\ feeds' = [miner |-> Announced(feeds.miner, event),
                            claims |-> Announced(feeds.claims, event)]
    /\ UNCHANGED <<sent, search, holder, backup, ghost>>

-----------------------------------------------------------------------------
(* TicketGenerator, polled only while mining. *)

BlockTicketLimit(pool) == SatSub(pool \div EpochReward, Outstanding)

FrontierSlot(tipSlot, slot) == SatSub(tipSlot, RewardWindow[slot])

PruneOutOfWindow(searches, tipSlot) ==
    Without(searches, {b \in DOMAIN searches :
                       tree[b].slot < FrontierSlot(tipSlot, tree[b].slot)})

\* The next processed block starts a search.  `known` says whether the ledger
\* state of the block could be fetched: the event is dropped otherwise.
IngestBlock(known) ==
    /\ holder.mining /\ holder.pool = NoRun /\ feeds.miner # <<>>
    /\ LET e == Head(feeds.miner)
           limit == BlockTicketLimit(Pool(e.block))
           starts == limit > 0 /\ FrontierSlot(tree[e.tip].slot, tree[e.block].slot)
                                  < tree[e.block].slot
           Add(f) == IF starts THEN With(f, e.block, limit) ELSE f
       IN  IF known
           THEN /\ search' = [streams |-> PruneOutOfWindow(Add(search.streams), tree[e.tip].slot),
                              inputs |-> PruneOutOfWindow(Add(search.inputs), tree[e.tip].slot)]
                /\ ghost' = [ghost EXCEPT !.budget = Add(@)]
           ELSE UNCHANGED <<search, ghost>>
    /\ feeds' = [feeds EXCEPT !.miner = Tail(@)]
    /\ UNCHANGED <<tree, best, sent, holder, backup>>

Decremented(f, b) ==
    CASE b \notin DOMAIN f -> f
      [] f[b] = 1 -> Without(f, {b})
      [] OTHER -> [f EXCEPT ![b] = @ - 1]

RecordWinner(s, b) ==
    [s EXCEPT !.streams = Decremented(@, b), !.inputs = Decremented(@, b)]

\* Every search is restarted from its inputs.
Reconfigure ==
    /\ holder.pool = NoRun
    /\ search' = [search EXCEPT !.streams = search.inputs]
    /\ UNCHANGED <<tree, best, sent, feeds, holder, backup, ghost>>

-----------------------------------------------------------------------------
(* The run loop. *)

PruneExpired(s, slot) ==
    LET Claimable(x) == InWindow(Anchor(x), slot)
    IN  [ready |-> SelectSeq(s.ready, Claimable), pending |-> {x \in s.pending : Claimable(x)}]

Hold(s) == [holder EXCEPT !.ready = s.ready, !.pending = s.pending]

\* A search found a winner.
Win(b) ==
    /\ holder.mining /\ holder.pool = NoRun /\ b \in DOMAIN search.streams
    /\ holder' = Hold(PruneExpired([Tickets EXCEPT !.ready = Append(@, <<b, ghost.budget[b]>>)],
                                   tree[b].slot))
    /\ search' = RecordWinner(search, b)
    /\ ghost' = [ghost EXCEPT !.budget[b] = @ - 1]
    /\ UNCHANGED <<tree, best, sent, feeds, backup>>

\* `found`: the events of the block could be read.
RetireSettled(e, found) ==
    LET s == PruneExpired(Tickets, tree[e.tip].slot)
    IN  [s EXCEPT !.pending = IF found THEN @ \ tree[e.block].claims ELSE @]

ProcessedBlock(found) ==
    /\ holder.pool = NoRun /\ feeds.claims # <<>>
    /\ holder' = Hold(RetireSettled(Head(feeds.claims), found))
    /\ feeds' = [feeds EXCEPT !.claims = Tail(@)]
    /\ UNCHANGED <<tree, best, sent, search, backup, ghost>>

StartMining ==
    /\ holder.pool = NoRun /\ ~holder.mining
    /\ holder' = [holder EXCEPT !.mining = TRUE]
    /\ UNCHANGED <<tree, best, sent, feeds, search, backup, ghost>>

StopMining ==
    /\ holder.pool = NoRun /\ holder.mining
    /\ holder' = [holder EXCEPT !.mining = FALSE]
    /\ UNCHANGED <<tree, best, sent, feeds, search, backup, ghost>>

SetAutoClaim(armed) ==
    /\ holder.pool = NoRun /\ holder.armed # armed
    /\ holder' = [holder EXCEPT !.armed = armed]
    /\ UNCHANGED <<tree, best, sent, feeds, search, backup, ghost>>

\* A run of claims opens with the pool of the tip.  `once` is a claim on demand.
OpenRun(once) ==
    /\ holder.ready # <<>>
    /\ holder' = [holder EXCEPT !.pool = Pool(best), !.once = once]
    /\ ghost' = [ghost EXCEPT !.opened = Pool(best), !.spent = 0]

\* A tick of auto-claim with a target below its threshold.
AutoClaim ==
    /\ holder.pool = NoRun /\ holder.armed
    /\ OpenRun(FALSE)
    /\ UNCHANGED <<tree, best, sent, feeds, search, backup>>

\* A tick that finds every target funded disarms, and stops mining.
TargetsFunded ==
    /\ holder.pool = NoRun /\ holder.armed
    /\ holder' = [holder EXCEPT !.armed = FALSE, !.mining = FALSE]
    /\ UNCHANGED <<tree, best, sent, feeds, search, backup, ghost>>

ManualClaim ==
    /\ holder.pool = NoRun
    /\ OpenRun(TRUE)
    /\ UNCHANGED <<tree, best, sent, feeds, search, backup>>

\* The tickets anchored to a block of the canonical chain, in order.
Canonical(ready) == SelectSeq(ready, LAMBDA x : Anchor(x) \in KnownBlocks(best))

\* The first tickets leave, whether or not they are the ones claimed.
RemainingFaulty(ready, claimed) == SubSeq(ready, Cardinality(claimed) + 1, Len(ready))

Remaining(ready, claimed) == SelectSeq(ready, LAMBDA x : x \notin claimed)

\* The pool left to the run after a transaction of `count` claims.
RemainingPool(count) == holder.pool - count * EpochReward

\* One claim_ready_rewards of the run.  `ok`: the ledger state of the tip, the
\* transaction and its publication all succeed.
ClaimRound(ok) ==
    /\ holder.pool # NoRun
    /\ LET s == PruneExpired(Tickets, tree[best].slot)
           tickets == Canonical(s.ready)
           count == Min({Len(tickets), holder.pool \div EpochReward, MaxClaimsPerTx})
           claimed == Range(SubSeq(tickets, 1, count))
           left == [ready |-> Remaining(s.ready, claimed), pending |-> s.pending \cup claimed]
           over == ~ok \/ count = 0
       IN  /\ sent' = IF over THEN sent ELSE sent \cup {[tickets |-> claimed, tip |-> best]}
           /\ holder' = [(IF over THEN Hold(s) ELSE Hold(left)) EXCEPT
                            !.pool = IF over \/ holder.once THEN NoRun ELSE RemainingPool(count),
                            !.once = FALSE]
           /\ ghost' = [ghost EXCEPT !.opened = IF over \/ holder.once THEN 0 ELSE @,
                                     !.spent = IF over \/ holder.once THEN 0
                                               ELSE @ + count * EpochReward]
    /\ UNCHANGED <<tree, best, feeds, search, backup>>

\* respond_claimable_rewards.
ClaimableRewards ==
    /\ holder.pool = NoRun
    /\ holder' = Hold(PruneExpired(Tickets, tree[best].slot))
    /\ UNCHANGED <<tree, best, sent, feeds, search, backup, ghost>>

\* The state updater is given the tickets at every change; its task saves the
\* latest at some later time.  What is saved after the last restart of the
\* bound is never read.
SaveTickets ==
    /\ ghost.restarts < MaxPowRestarts /\ backup # Tickets
    /\ backup' = Tickets
    /\ UNCHANGED <<tree, best, sent, feeds, search, holder, ghost>>

-----------------------------------------------------------------------------
NoSearch == [streams |-> <<>>, inputs |-> <<>>]
NoTickets == [ready |-> <<>>, pending |-> {}]
Starting(s) ==
    [mining |-> FALSE, armed |-> TRUE, ready |-> s.ready, pending |-> s.pending,
     pool |-> NoRun, once |-> FALSE]

PowInit ==
    /\ tree = <<[slot |-> 0, chain |-> {1}, paid |-> {}, claims |-> {}]>>
    /\ best = 1
    /\ sent = {}
    /\ feeds = [miner |-> <<>>, claims |-> <<>>]
    /\ search = NoSearch
    /\ holder = Starting(NoTickets)
    /\ backup = NoTickets
    /\ ghost = [budget |-> <<>>, opened |-> 0, spent |-> 0, restarts |-> 0]

\* The node stops and starts again with the tickets last saved.
RestartPow ==
    /\ ghost.restarts < MaxPowRestarts
    /\ feeds' = [miner |-> <<>>, claims |-> <<>>]
    /\ search' = NoSearch
    /\ holder' = Starting(backup)
    /\ ghost' = [ghost EXCEPT !.restarts = @ + 1, !.opened = 0, !.spent = 0]
    /\ UNCHANGED <<tree, best, sent, backup>>

Mine == (\E known \in BOOLEAN : IngestBlock(known)) \/ (\E b \in PowBlocks : Win(b))
Retire == \E found \in BOOLEAN : ProcessedBlock(found)
Claim == \E ok \in BOOLEAN : ClaimRound(ok)
Operate ==
    \/ StartMining \/ StopMining \/ (\E armed \in BOOLEAN : SetAutoClaim(armed))
    \/ Reconfigure \/ ManualClaim \/ ClaimableRewards

PowNext ==
    \/ NewPowBlock \/ Mine \/ Retire \/ AutoClaim \/ TargetsFunded \/ Claim
    \/ Operate \/ SaveTickets \/ RestartPow

PowSpec == PowInit /\ [][PowNext]_powVars

\* The loop reads its stream, auto-claim keeps ticking, and a claim is not
\* refused forever by the chain service or by Blend.  The two implications are
\* strong fairness of AutoClaim and of ClaimRound(TRUE), with what enables them
\* spelled out.
FairPowSpec ==
    /\ PowSpec
    /\ WF_powVars(Retire)
    /\ []<>(holder.pool = NoRun /\ holder.armed /\ holder.ready # <<>>)
        => []<><<AutoClaim>>_powVars
    /\ []<>(holder.pool # NoRun) => []<><<ClaimRound(TRUE)>>_powVars

-----------------------------------------------------------------------------
(* Properties *)

Published(x) == \E t \in sent : x \in t.tickets

\* Every claim transaction is one the ledger of the tip it was built for can
\* accept, but for the funds: its tickets are anchored to blocks of that
\* chain, within their windows.  (claim_ready_rewards prunes and filters "so
\* an expired ticket never poisons the tx".)
ClaimsAreAnchored ==
    \A t \in sent : \A x \in t.tickets : Anchor(x) \in KnownBlocks(t.tip)

\* No ticket is claimed by two transactions, and none that is already paid is
\* claimed again, unless the node restarted from a state saved before the
\* claim: the second would make the whole transaction invalid.
NoTicketTwice ==
    ghost.restarts = 0 =>
        /\ \A t, u \in sent : t # u => t.tickets \cap u.tickets = {}
        /\ \A x \in Range(holder.ready) : ~Published(x)

\* A run of claims commits no more than the pool it opened with, however many
\* transactions it takes, although the tip still shows the whole pool.
RunWithinPool == ghost.spent <= ghost.opened

\* A search yields no more winners than it was started for, across any number
\* of reconfigurations of the generator.
WinnersBounded ==
    \A b \in DOMAIN ghost.budget : ghost.budget[b] >= 0

\* A pending ticket whose window is closed at the tip is dropped by the time
\* the loop has read the blocks it was told of, until a restart brings back
\* tickets saved before: otherwise it would count against the reward pool, and
\* stall the search, for good.
ExpiredAreDropped ==
    (ghost.restarts = 0 /\ feeds.claims = <<>>) =>
        \A x \in holder.pending : InWindow(Anchor(x), tree[best].slot)

\* While auto-claim is armed and the pool of the tip pays, the ready tickets of
\* the canonical chain are claimed, whatever tickets lie before them.
ReadyIsClaimed ==
    LET Waiting == /\ \E x \in Range(holder.ready) : Anchor(x) \in KnownBlocks(best)
                   /\ holder.armed /\ Pool(best) >= EpochReward
    IN  Waiting ~> ~Waiting

\* Claims are valid and made once, within the pool; tickets that cannot be
\* claimed are dropped and those that can are claimed.
TicketsAreClaimedOnce ==
    /\ [](/\ ClaimsAreAnchored /\ NoTicketTwice /\ RunWithinPool
          /\ WinnersBounded /\ ExpiredAreDropped)
    /\ ReadyIsClaimed
=============================================================================
