----------------------------- MODULE WalletNotes -----------------------------
(***************************************************************************)
(* The notes of a wallet, wallet/src/lib.rs.  The wallet never asks the    *)
(* ledger for its notes once it has started: it replays the operations of  *)
(* every block on its own sets, which must stay what the ledger has for    *)
(* its keys.  The module follows one branch; the wallet has one such view  *)
(* per block.                                                              *)
(***************************************************************************)
EXTENDS NoteLedger

VARIABLES
    owned,    \* the notes whose key is one of the wallet's known_keys
    view,     \* WalletState: [utxos, service_notes, channel_notes]
    missed,   \* history: PoW rewards for the wallet, which it does not track
    before    \* owned, view and missed before the open transaction
walletNoteVars == <<noteVars, owned, view, missed, before>>

\* WalletState::from_ledger
FromLedger(ids) ==
    [utxos |-> ids \cap DOMAIN notes.utxos,
     service_notes |-> ids \cap notes.service,
     channel_notes |-> ids \cap DOMAIN notes.channel]

WalletNotesInit ==
    /\ NoteInit
    /\ \E mine \in SUBSET DOMAIN notes.utxos : owned = mine
    /\ view = FromLedger(owned)
    /\ missed = {}
    /\ before = <<owned, view, missed>>

-----------------------------------------------------------------------------
(* The operations of a block, WalletState::apply_block. *)

\* The notes that an operation creates, those for the wallet being mine.
Fresh(mine) == owned' = owned \cup mine

WalletTransfer(inputs, outputs) ==
    /\ Transfer(inputs, outputs)
    /\ \E mine \in SUBSET NewIds(Len(outputs)) :
         /\ Fresh(mine)
         /\ view' = [view EXCEPT !.utxos = (@ \ inputs) \cup mine]
    /\ UNCHANGED <<missed, before>>

\* A deposited note keeps its key.  Those the wallet does not track are skipped.
DepositViewFaulty(inputs) ==
    [view EXCEPT !.utxos = @ \ inputs]
DepositView(inputs) ==
    LET ours == {Recreated(inputs, n) : n \in inputs \cap view.utxos}
    IN  [view EXCEPT !.utxos = (@ \ inputs) \cup ours, !.channel_notes = @ \cup ours]

WalletDeposit(c, inputs) ==
    /\ Deposit(c, inputs)
    /\ Fresh({Recreated(inputs, n) : n \in inputs \cap owned})
    /\ view' = DepositView(inputs)
    /\ missed' = missed \cup {Recreated(inputs, n) : n \in inputs \cap missed}
    /\ UNCHANGED before

ChannelTransferView(inputs, mine) ==
    [view EXCEPT !.utxos = (@ \ inputs) \cup mine,
                 !.channel_notes = (@ \ inputs) \cup mine]

WalletChannelTransfer(c, inputs, outputs) ==
    /\ ChannelTransfer(c, inputs, outputs)
    /\ \E mine \in SUBSET NewIds(Len(outputs)) :
         Fresh(mine) /\ view' = ChannelTransferView(inputs, mine)
    /\ UNCHANGED <<missed, before>>

WalletChannelWithdraw(c, inputs) ==
    /\ ChannelWithdraw(c, inputs)
    /\ view' = [view EXCEPT !.channel_notes = @ \ inputs]
    /\ UNCHANGED <<owned, missed, before>>

\* WalletOp::Lock
Locked(n) == IF n \in view.utxos THEN [view EXCEPT !.service_notes = @ \cup {n}] ELSE view

WalletDeclare(n) ==
    /\ DeclareNote(n)
    /\ view' = Locked(n)
    /\ UNCHANGED <<owned, missed, before>>

\* HeaderOp::Unlock
WalletRelease(n) ==
    /\ ReleaseNote(n)
    /\ view' = [view EXCEPT !.service_notes = @ \ {n}]
    /\ UNCHANGED <<owned, missed, before>>

\* transform_op: the reward of a leader arrives in an event, a PoW reward is
\* not tracked.
WalletReward(value) ==
    /\ ClaimReward(value)
    /\ \E mine \in SUBSET {notes.next}, op \in {"LeaderClaim", "ClaimPowReward"} :
         /\ Fresh(mine)
         /\ IF op = "LeaderClaim"
            THEN view' = [view EXCEPT !.utxos = @ \cup mine] /\ UNCHANGED missed
            ELSE missed' = missed \cup mine /\ UNCHANGED view
    /\ UNCHANGED before

\* A transaction that is refused is in no block.
WalletBegin  == BeginTx /\ before' = <<owned, view, missed>> /\ UNCHANGED <<owned, view, missed>>
WalletCommit(cost) == CommitTx(cost) /\ UNCHANGED <<owned, view, missed, before>>
WalletRefuse ==
    /\ RefuseTx
    /\ owned' = before[1] /\ view' = before[2] /\ missed' = before[3]
    /\ UNCHANGED before

WalletNotesNext ==
    \/ WalletBegin
    \/ \E inputs \in SUBSET DOMAIN notes.utxos, outputs \in OutputValues :
            WalletTransfer(inputs, outputs)
    \/ \E c \in NoteChannels, inputs \in SUBSET DOMAIN notes.utxos : WalletDeposit(c, inputs)
    \/ \E c \in NoteChannels, inputs \in SUBSET DOMAIN notes.utxos :
            WalletChannelWithdraw(c, inputs)
    \/ \E c \in NoteChannels, inputs \in SUBSET DOMAIN notes.utxos,
          outputs \in OutputValues : WalletChannelTransfer(c, inputs, outputs)
    \/ \E n \in DOMAIN notes.utxos : WalletDeclare(n)
    \/ \E n \in DOMAIN notes.utxos : WalletRelease(n)
    \/ \E value \in Rewards : WalletReward(value)
    \/ \E cost \in GasCosts : WalletCommit(cost)
    \/ WalletRefuse

WalletNotesSpec == WalletNotesInit /\ [][WalletNotesNext]_walletNoteVars

-----------------------------------------------------------------------------
(* Properties. *)

\* Replaying blocks gives the wallet what the ledger has for its keys, with
\* the marks that keep stakes and channel notes from being spent, except for
\* PoW rewards and the channel notes they become: apply_block agrees with
\* from_ledger.
ViewMatchesLedger == view = FromLedger(owned \ missed)

\* WalletState::fund_tx offers the notes that are neither marked as stakes nor
\* as channel notes.
Fundable == (view.utxos \ view.service_notes) \ view.channel_notes

\* The wallet funds a transaction only with notes the ledger lets it spend.
FundsAreSpendable == \A n \in Fundable : Spendable({n})

\* The wallet knows its notes and offers only those it can spend.
WalletKnowsItsNotes == ViewMatchesLedger /\ FundsAreSpendable
=============================================================================
