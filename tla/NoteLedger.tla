------------------------------ MODULE NoteLedger ------------------------------
(***************************************************************************)
(* The notes of the ledger and the three ways a note is held: freely, by a *)
(* channel, or as the stake of a service declaration.  A transaction's     *)
(* operations are verified and executed one after the other, each against  *)
(* the state its predecessors left, and a single operation may take out    *)
(* more than it puts in: only the balance of the whole transaction has to  *)
(* cover its gas.  A transaction that fails leaves no trace.               *)
(*                                                                         *)
(* Signatures, keys and channel thresholds are left out: whoever may       *)
(* authorise an operation does.  The id of a note hashes the operation     *)
(* that creates it, and every operation consumes a note or a nullifier     *)
(* that can be consumed once, so a new note has a number never used.       *)
(***************************************************************************)
EXTENDS Integers, FiniteSets, Sequences, Functions, Maps

CONSTANTS
    NoteChannels,  \* the channels that exist
    GenesisNotes,  \* the values of the genesis notes, a sequence
    MinStake,      \* least value of a service note
    GasCosts,      \* what a transaction may have to pay for its gas
    Rewards,       \* values of the rewards that may be claimed
    OutputValues,  \* possible outputs of an operation: sequences of values
    MaxNoteId,     \* bound on the notes created
    MaxOps         \* bound on the operations of a transaction

ASSUME NoteAssumption ==
    /\ MinStake \in Nat /\ GasCosts \subseteq Nat /\ Rewards \subseteq Nat
    /\ GenesisNotes \in Seq(Nat) /\ OutputValues \subseteq Seq(Nat)

VARIABLES
    notes,    \* [utxos, channel, service, next]: the ledger's notes
    tx,       \* the open transaction: its operations so far, balance, start
    totals    \* history: [minted, fees, inflow]
noteVars == <<notes, tx, totals>>

TotalValue(ids, utxos) == FoldFunctionOnSet(+, 0, utxos, ids)
NoTx == [open |-> FALSE]
NoFlow == [c \in NoteChannels |-> 0]

NoteInit ==
    /\ notes = [utxos |-> [n \in 1..Len(GenesisNotes) |-> GenesisNotes[n]],
                channel |-> <<>>, service |-> {}, next |-> Len(GenesisNotes) + 1]
    /\ tx = NoTx
    /\ totals = [minted |-> 0, fees |-> 0, inflow |-> NoFlow]

-----------------------------------------------------------------------------
(* Inputs and outputs. *)

\* Inputs::validate_not_in_channel
Spendable(inputs) ==
    /\ inputs # {}
    /\ inputs \cap notes.service = {}
    /\ inputs \subseteq DOMAIN notes.utxos
    /\ inputs \cap DOMAIN notes.channel = {}

\* Inputs::validate_in_channel
SpendableIn(c, inputs) ==
    /\ inputs # {}
    /\ inputs \cap notes.service = {}
    /\ inputs \subseteq DOMAIN notes.utxos
    /\ \A n \in inputs : n \in DOMAIN notes.channel /\ notes.channel[n] = c

\* Outputs::validate
OutputsValid(outputs) == \A i \in DOMAIN outputs : outputs[i] > 0

NewIds(count) == notes.next..(notes.next + count - 1)
Created(outputs) == [n \in NewIds(Len(outputs)) |-> outputs[n - notes.next + 1]]
OutputTotal(outputs) == FoldFunction(+, 0, outputs)

\* Every id of S maps to c: the notes are registered to the channel.
Registered(ids, c) == [n \in ids |-> c]
Merge(f, g) == [x \in DOMAIN f \cup DOMAIN g |-> IF x \in DOMAIN g THEN g[x] ELSE f[x]]

Exchange(inputs, outputs) == Merge(Without(notes.utxos, inputs), Created(outputs))

-----------------------------------------------------------------------------
(* Transactions and their operations. *)

BeginTx ==
    /\ ~tx.open
    /\ tx' = [open |-> TRUE, ops |-> 0, balance |-> 0, start |-> notes, totals |-> totals]
    /\ UNCHANGED <<notes, totals>>

\* Every operation is one more of the open transaction.
Operation(balance) ==
    /\ tx.open /\ tx.ops < MaxOps
    /\ tx' = [tx EXCEPT !.ops = @ + 1, !.balance = @ + balance]

Transfer(inputs, outputs) ==
    /\ OutputsValid(outputs)
    /\ Spendable(inputs)
    /\ notes.next + Len(outputs) <= MaxNoteId
    /\ Operation(TotalValue(inputs, notes.utxos) - OutputTotal(outputs))
    /\ notes' = [notes EXCEPT !.utxos = Exchange(inputs, outputs),
                              !.next = @ + Len(outputs)]
    /\ UNCHANGED totals

\* The notes are removed and created again, in the order of the inputs, as
\* notes of the channel: the i-th smallest input becomes the i-th new note.
Recreated(inputs, n) == notes.next + Cardinality({m \in inputs : m < n})
DepositOutputs(inputs) ==
    [id \in {Recreated(inputs, n) : n \in inputs} |->
        notes.utxos[CHOOSE n \in inputs : Recreated(inputs, n) = id]]

Deposit(c, inputs) ==
    LET outputs == DepositOutputs(inputs)
    IN  /\ Spendable(inputs)
        /\ notes.next + Cardinality(inputs) <= MaxNoteId
        /\ Operation(0)
        /\ notes' = [notes EXCEPT
                        !.utxos = Merge(Without(@, inputs), outputs),
                        !.channel = Merge(@, Registered(DOMAIN outputs, c)),
                        !.next = @ + Cardinality(inputs)]
        /\ totals' = [totals EXCEPT !.inflow[c] = @ + TotalValue(inputs, notes.utxos)]

\* The notes keep their ids and leave the channel.
ChannelWithdraw(c, inputs) ==
    /\ SpendableIn(c, inputs)
    /\ Operation(0)
    /\ notes' = [notes EXCEPT !.channel = Without(@, inputs)]
    /\ totals' = [totals EXCEPT !.inflow[c] = @ - TotalValue(inputs, notes.utxos)]

BalancedFaulty(inputs, outputs) == TotalValue(inputs, notes.utxos) >= OutputTotal(outputs)
Balanced(inputs, outputs) == TotalValue(inputs, notes.utxos) = OutputTotal(outputs)

ChannelTransfer(c, inputs, outputs) ==
    /\ OutputsValid(outputs)
    /\ SpendableIn(c, inputs)
    /\ Balanced(inputs, outputs)
    /\ notes.next + Len(outputs) <= MaxNoteId
    /\ Operation(0)
    /\ notes' = [notes EXCEPT
                    !.utxos = Exchange(inputs, outputs),
                    !.channel = Merge(Without(@, inputs), Registered(NewIds(Len(outputs)), c)),
                    !.next = @ + Len(outputs)]
    /\ UNCHANGED totals

\* SDPDeclareOp: a free note becomes the stake of a declaration ...
Stakeable(n) ==
    /\ n \in DOMAIN notes.utxos
    /\ n \notin DOMAIN notes.channel
    /\ notes.utxos[n] >= MinStake

DeclareNote(n) ==
    /\ Stakeable(n)
    /\ n \notin notes.service
    /\ Operation(0)
    /\ notes' = [notes EXCEPT !.service = @ \cup {n}]
    /\ UNCHANGED totals

\* ... and is released, between transactions, by the header of the first block
\* of the epoch the declaration ends with.
ReleaseNote(n) ==
    /\ ~tx.open
    /\ n \in notes.service
    /\ notes' = [notes EXCEPT !.service = @ \ {n}]
    /\ UNCHANGED <<tx, totals>>

\* LeaderClaimOp and ClaimPowRewardOp: a note of the reward's value.
ClaimReward(value) ==
    /\ notes.next + 1 <= MaxNoteId
    /\ Operation(0)
    /\ notes' = [notes EXCEPT !.utxos = Merge(@, Created(<<value>>)), !.next = @ + 1]
    /\ totals' = [totals EXCEPT !.minted = @ + value]

CoversGas(cost) == tx.balance >= cost

CommitTx(cost) ==
    /\ tx.open /\ tx.ops > 0
    /\ CoversGas(cost)
    /\ totals' = [totals EXCEPT !.fees = @ + tx.balance]
    /\ tx' = NoTx
    /\ UNCHANGED notes

\* An operation or the balance check fails.
RefuseTx ==
    /\ tx.open /\ tx.ops > 0
    /\ notes' = tx.start
    /\ totals' = tx.totals
    /\ tx' = NoTx

NoteNext ==
    \/ BeginTx
    \/ \E inputs \in SUBSET DOMAIN notes.utxos, outputs \in OutputValues :
            Transfer(inputs, outputs)
    \/ \E c \in NoteChannels, inputs \in SUBSET DOMAIN notes.utxos : Deposit(c, inputs)
    \/ \E c \in NoteChannels, inputs \in SUBSET DOMAIN notes.utxos : ChannelWithdraw(c, inputs)
    \/ \E c \in NoteChannels, inputs \in SUBSET DOMAIN notes.utxos,
          outputs \in OutputValues : ChannelTransfer(c, inputs, outputs)
    \/ \E n \in DOMAIN notes.utxos : DeclareNote(n)
    \/ \E n \in DOMAIN notes.utxos : ReleaseNote(n)
    \/ \E value \in Rewards : ClaimReward(value)
    \/ \E cost \in GasCosts : CommitTx(cost)
    \/ RefuseTx

NoteSpec == NoteInit /\ [][NoteNext]_noteVars

-----------------------------------------------------------------------------
(* Properties. *)

\* A note is held one way: notes of channels and stakes exist, and no note is
\* both.
HeldOneWay ==
    /\ DOMAIN notes.channel \subseteq DOMAIN notes.utxos
    /\ notes.service \subseteq DOMAIN notes.utxos
    /\ notes.service \cap DOMAIN notes.channel = {}

\* Value is conserved by every transaction: notes and the fees collected are
\* worth the genesis notes and the rewards claimed, and no transaction pays
\* less than nothing.
ValueConserved ==
    /\ totals.fees >= 0
    /\ ~tx.open => TotalValue(DOMAIN notes.utxos, notes.utxos) + totals.fees
                    = OutputTotal(GenesisNotes) + totals.minted

\* A channel holds what was deposited and not withdrawn, whatever transfers
\* happen inside it or around it.
ChannelFundsKept ==
    \A c \in NoteChannels :
        TotalValue({n \in DOMAIN notes.channel : notes.channel[n] = c}, notes.utxos)
            = totals.inflow[c]

\* No note is created, lost or held twice.
NotesAreSound == HeldOneWay /\ ValueConserved /\ ChannelFundsKept
=============================================================================
