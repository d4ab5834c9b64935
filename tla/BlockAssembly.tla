---------------------------- MODULE BlockAssembly ----------------------------
(***************************************************************************)
(* A leader's block: services/chain/chain-leader.  In a slot it has won the *)
(* leader reads the tip and its ledger state, then the mempool's view,     *)
(* selects transactions in rounds, removes from the mempool what it finds  *)
(* invalid, and cuts the selection to the limits of a block.  Meanwhile    *)
(* blocks of other leaders extend the tip and the mempool drops what they  *)
(* hold.  The block the leader then applies is checked by the ledger's own *)
(* rules (ledger/src/lib.rs, try_apply_block_contents).                    *)
(*                                                                         *)
(* A transaction is the notes it spends and makes, its size and its gas.   *)
(* The mempool is its pending list here; Mempool has the rest of it.       *)
(***************************************************************************)
EXTENDS Integers, FiniteSets, Sequences, SequencesExt

CONSTANTS
    Transactions,        \* [spends, makes, size, gas]
    GenesisUnspent,      \* the notes at the start
    MaxTransactions,     \* max_transactions of a block
    MaxTransactionsSize, \* max_transactions_size of a block
    MaxGasPerBlock,      \* max_gas_per_block
    MaxBlocksByOthers    \* bound on the blocks of other leaders

VARIABLES
    head,      \* the node's tip: its unspent notes, and the blocks by others, which
               \* tell whether the tip has moved in the course of a slot
    pending,   \* the mempool's view, in its order
    seen,      \* transactions that have been in the mempool
    round,     \* the slot being worked on: its phase, the tip and view it read
    proposal   \* the last block proposed and what its selection did
assemblyVars == <<head, pending, seen, round, proposal>>

Idle == [phase |-> "idle"]
NoProposal == [made |-> FALSE]

-----------------------------------------------------------------------------
(* The ledger. *)

\* try_apply_transaction
Applicable(unspent, t) == t.spends \subseteq unspent
Applying(unspent, t) == (unspent \ t.spends) \cup t.makes
Unspent(unspent, txs) == FoldLeft(Applying, unspent, txs)

SizeOf(txs) == FoldLeft(LAMBDA sum, t : sum + t.size, 0, txs)
GasOf(txs) == FoldLeft(LAMBDA sum, t : sum + t.gas, 0, txs)

\* try_apply_block_contents accepts these transactions.
AcceptsContents(unspent, txs) ==
    /\ Len(txs) <= MaxTransactions
    /\ SizeOf(txs) <= MaxTransactionsSize
    /\ \A i \in 1..Len(txs) : Applicable(Unspent(unspent, SubSeq(txs, 1, i - 1)), txs[i])
    /\ GasOf(txs) <= MaxGasPerBlock

-----------------------------------------------------------------------------
(* select_transactions *)

\* try_add_transaction, and what its result does to the assembly.
TryAdd(b, t) ==
    IF b.full THEN b
    ELSE IF t.size > MaxTransactionsSize THEN [b EXCEPT !.invalid = @ \cup {t}]
    ELSE IF ~Applicable(b.unspent, t) THEN [b EXCEPT !.retry = Append(@, t)]
    ELSE IF t.gas > MaxGasPerBlock THEN [b EXCEPT !.invalid = @ \cup {t}]
    ELSE IF b.gas + t.gas > MaxGasPerBlock THEN [b EXCEPT !.full = TRUE]
    ELSE [b EXCEPT !.unspent = Applying(@, t), !.gas = @ + t.gas,
                   !.selected = Append(@, t), !.progress = TRUE]

\* What failed is retried while a round adds something.
SelectionRound(b, n) ==
    IF b.full \/ ~b.progress THEN b
    ELSE FoldLeft(TryAdd, [b EXCEPT !.retry = <<>>, !.progress = FALSE], b.retry)

SelectTransactions(unspent, candidates) ==
    LET start == [unspent |-> unspent, gas |-> 0, selected |-> <<>>, retry |-> candidates,
                  invalid |-> {}, progress |-> TRUE, full |-> FALSE]
        \* every round but the last adds a transaction
        done  == FoldLeft(SelectionRound, start, [n \in 1..(Len(candidates) + 1) |-> n])
    IN  [selected |-> done.selected, full |-> done.full,
         invalid |-> done.invalid \cup (IF done.full THEN {} ELSE Range(done.retry))]

\* txs_for_block: the longest prefix within the limits.
TxsForBlockFaulty(txs) ==
    FoldLeft(LAMBDA kept, t :
                 IF Len(kept) < MaxTransactions /\ SizeOf(kept) + t.size <= MaxTransactionsSize
                 THEN Append(kept, t) ELSE kept,
             <<>>, txs)
TxsForBlock(txs) ==
    LET fits == {n \in 0..Len(txs) : /\ n <= MaxTransactions
                                     /\ SizeOf(SubSeq(txs, 1, n)) <= MaxTransactionsSize}
    IN  SubSeq(txs, 1, CHOOSE n \in fits : \A m \in fits : m <= n)

-----------------------------------------------------------------------------
(* The node around the leader, external. *)

WithoutTxs(view, txs) == SelectSeq(view, LAMBDA t : t \notin txs)

SubmitTransaction(t) ==
    /\ t \in Transactions \ seen
    /\ pending' = Append(pending, t) /\ seen' = seen \cup {t}
    /\ UNCHANGED <<head, round, proposal>>

\* Another leader's block extends the tip.
BlockByOther(t) ==
    /\ head.others < MaxBlocksByOthers
    /\ AcceptsContents(head.unspent, <<t>>)
    /\ head' = [unspent |-> Applying(head.unspent, t), others |-> head.others + 1]
    /\ pending' = WithoutTxs(pending, {t})
    /\ seen' = seen \cup {t}
    /\ UNCHANGED <<round, proposal>>

-----------------------------------------------------------------------------
(* The leader. *)

\* A slot tick: the tip and its ledger state are read; the slot is won.
SlotTick ==
    /\ round.phase = "idle"
    /\ round' = [phase |-> "won", others |-> head.others, unspent |-> head.unspent]
    /\ UNCHANGED <<head, pending, seen, proposal>>

\* propose_block, first: the mempool's view is collected.
CollectTransactions ==
    /\ round.phase = "won"
    /\ round' = [phase |-> "view", others |-> round.others, unspent |-> round.unspent,
                 view |-> pending]
    /\ UNCHANGED <<head, pending, seen, proposal>>

\* Then: the transactions are selected, the invalid removed, the block made
\* and applied.  A block on a tip that has moved is a fork and stays one.
Proposed(unspent, view) ==
    LET selection == SelectTransactions(unspent, view)
    IN  [made |-> TRUE, parent |-> unspent, txs |-> TxsForBlock(selection.selected),
         selected |-> selection.selected, invalid |-> selection.invalid]
ProposeBlock ==
    LET extends == /\ AcceptsContents(round.unspent, proposal'.txs)
                   /\ round.others = head.others
    IN  /\ round.phase = "view"
        /\ proposal' = Proposed(round.unspent, round.view)
        /\ head' = IF extends THEN [head EXCEPT !.unspent = Unspent(@, proposal'.txs)] ELSE head
        /\ pending' = WithoutTxs(pending, proposal'.invalid
                                          \cup (IF extends THEN Range(proposal'.txs) ELSE {}))
        /\ round' = Idle
        /\ UNCHANGED seen

-----------------------------------------------------------------------------
AssemblyInit ==
    /\ head = [unspent |-> GenesisUnspent, others |-> 0]
    /\ pending = <<>> /\ seen = {} /\ round = Idle /\ proposal = NoProposal

Propose == SlotTick \/ CollectTransactions \/ ProposeBlock

AssemblyNext ==
    \/ \E t \in Transactions : SubmitTransaction(t) \/ BlockByOther(t)
    \/ Propose

AssemblySpec == AssemblyInit /\ [][AssemblyNext]_assemblyVars

-----------------------------------------------------------------------------
(* Properties. *)

\* The ledger accepts the block a leader has put together: the transactions
\* apply in the order of the selection whatever was cut from its end, within
\* the limits on count, size and gas.
OwnBlockIsAccepted == proposal.made => AcceptsContents(proposal.parent, proposal.txs)

\* A transaction the leader removes from the mempool could be in no block on
\* this parent with the selection before it: either no block can carry it, or
\* it does not apply after the whole selection.  What was left out only for
\* want of gas, or waited for another of the selection, is not removed.
RemovedAreInvalid ==
    proposal.made =>
        \A t \in proposal.invalid :
            \/ t.size > MaxTransactionsSize \/ t.gas > MaxGasPerBlock
            \/ ~Applicable(Unspent(proposal.parent, proposal.selected), t)

\* What the leader selects and what it removes are both right, whatever the
\* mempool and the tip did in the course of the slot.
SelectionIsSound == OwnBlockIsAccepted /\ RemovedAreInvalid
=============================================================================
