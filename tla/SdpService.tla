----------------------------- MODULE SdpService -----------------------------
(***************************************************************************)
(* The SDP service, services/sdp: a provider's declaration, withdrawal and *)
(* activity reports.  A report is posted to the mempool and tracked on the *)
(* chain until it is final: it is posted again when it is not in the       *)
(* ledger of the tip, because the mempool lost it or a reorganisation took *)
(* it out.  What is tracked survives a restart through a recovery state    *)
(* that another task saves.                                                *)
(*                                                                         *)
(* The chain is external: the ledger states of the canonical blocks from   *)
(* the last irreversible one to the tip, as far as they concern this       *)
(* provider's declaration.  A report attests the epoch before the one it   *)
(* is accepted in.                                                         *)
(***************************************************************************)
EXTENDS Integers, FiniteSets, Sequences, SequencesExt

CONSTANTS
    ConfirmationDepth,   \* blocks between the tip and the LIB
    CheckInterval,       \* status_check_interval_in_tip_changes
    EventCapacity,       \* of the stream of new blocks
    SettingsDeclared,    \* whether the settings name the declaration
    MaxReportEpoch,      \* bound on the epochs
    MaxMishaps           \* bound on lost transactions, reorganisations and restarts

VARIABLES
    window,    \* the ledger from the LIB to the tip: [id, epoch, active, nonce, withdrawn, tx]
    txpool,    \* this provider's transactions in the mempool
    events,    \* blocks the service has yet to read
    provider,  \* the service: [up, declared, tracker]
    recovery,  \* [given, saved]: the state given to the updater, and saved
    past       \* history: [posted, gone, mishaps, crashed]
sdpServiceVars == <<window, txpool, events, provider, recovery, past>>

Tip == Last(window)
Lib == Head(window)
NoTx == [kind |-> "none"]
ReportTx(proof, nonce) == [kind |-> "active", proof |-> proof, nonce |-> nonce]
WithdrawTx(nonce) == [kind |-> "withdraw", nonce |-> nonce]
SubmissionEpoch(proof) == proof + 1

-----------------------------------------------------------------------------
(* The chain and the mempool, external. *)

\* A tip no one holds on to.
FreshTip ==
    LET held == {Tip.id} \cup {e.tip.id : e \in Range(events)}
                \cup UNION {t.last : t \in provider.tracker}
    IN  CHOOSE i \in 0..(EventCapacity + 2) : i \notin held

Accepts(state, epoch, t) ==
    /\ t.nonce > state.nonce /\ ~state.withdrawn
    /\ t.kind = "active" => /\ epoch = SubmissionEpoch(t.proof)
                            /\ state.active < epoch

BlockOn(state, id, epoch, t) ==
    [id |-> id, epoch |-> epoch, tx |-> t,
     active |-> IF t.kind = "active" THEN epoch ELSE state.active,
     nonce |-> IF t = NoTx THEN state.nonce ELSE t.nonce,
     withdrawn |-> state.withdrawn \/ t.kind = "withdraw"]

Trimmed(states) ==
    IF Len(states) > ConfirmationDepth + 1
    THEN SubSeq(states, Len(states) - ConfirmationDepth, Len(states)) ELSE states

Announce(states) ==
    events' = IF ~provider.up THEN events
              ELSE LET s == Append(events, [tip |-> Last(states), lib |-> Head(states)])
                   IN  IF Len(s) > EventCapacity THEN Tail(s) ELSE s

Extend(epoch, t) ==
    /\ window' = Trimmed(Append(window, BlockOn(Tip, FreshTip, epoch, t)))
    /\ Announce(window')
    /\ UNCHANGED <<provider, recovery, past>>

EmptyBlock == Extend(Tip.epoch, NoTx) /\ UNCHANGED txpool
NewEpoch == Tip.epoch < MaxReportEpoch /\ Extend(Tip.epoch + 1, NoTx) /\ UNCHANGED txpool
BlockWith(t) ==
    /\ Accepts(Tip, Tip.epoch, t)
    /\ Extend(Tip.epoch, t)
    /\ txpool' = txpool \ {t}

\* The last n blocks give way to as many and one more; the mempool takes their
\* transactions back.
Reorg(n) ==
    LET base  == SubSeq(window, 1, Len(window) - n)
        out   == SubSeq(window, Len(window) - n + 1, Len(window))
        taken == {b.tx : b \in Range(out)} \ {NoTx}
        block == BlockOn(Last(base), FreshTip, Tip.epoch, NoTx)
    IN  /\ n < Len(window) /\ past.mishaps < MaxMishaps
        /\ window' = Trimmed(base \o [i \in 1..(n + 1) |-> block])
        /\ Announce(window')
        /\ txpool' = txpool \cup taken
        /\ past' = [past EXCEPT !.mishaps = @ + 1]
        /\ UNCHANGED <<provider, recovery>>

\* A full mempool, its lifetime limit or a leader's selection drop it.
LoseTx(t) ==
    /\ past.mishaps < MaxMishaps
    /\ txpool' = txpool \ {t}
    /\ past' = [past EXCEPT !.mishaps = @ + 1]
    /\ UNCHANGED <<window, events, provider, recovery>>

-----------------------------------------------------------------------------
(* The service. *)

\* update_state.  A state without a declaration is not marked as updated.
State(p) == [declared |-> p.declared, pending |-> {t.proof : t \in p.tracker}]
UpdateState == recovery' = [recovery EXCEPT !.given = State(provider')]

\* submit_activity and the posting of a withdrawal: the nonce follows the one
\* in the ledger of the tip; the wallet or the mempool may refuse.
Submitted(t, ok) == txpool' = IF ok THEN txpool \cup {t} ELSE txpool

\* handle_post_activity
PostActivity(ok) ==
    LET proof == Tip.epoch - 1
    IN  /\ provider.up /\ provider.declared
        /\ proof > past.posted
        /\ Submitted(ReportTx(proof, Tip.nonce + 1), ok)
        /\ provider' = [provider EXCEPT !.tracker =
               {[proof |-> proof, last |-> IF ok THEN {Tip.id} ELSE {}, changes |-> 0]}]
        /\ UpdateState
        /\ past' = [past EXCEPT !.posted = proof, !.gone = FALSE]
        /\ UNCHANGED <<window, events>>

\* handle_post_declaration, for a declaration that is in the ledger already
PostDeclaration(ok) ==
    /\ provider.up /\ ~provider.declared
    /\ provider' = [provider EXCEPT !.declared = ok]
    /\ IF ok THEN UpdateState ELSE UNCHANGED recovery
    /\ UNCHANGED <<window, txpool, events, past>>

\* handle_post_withdrawal
PostWithdrawal(ok) ==
    /\ provider.up /\ ~past.gone
    /\ Submitted(WithdrawTx(Tip.nonce + 1), ok)
    /\ IF ok THEN /\ provider' = [provider EXCEPT !.declared = FALSE, !.tracker = {}]
                  /\ UpdateState
                  /\ past' = [past EXCEPT !.gone = TRUE]
       ELSE UNCHANGED <<provider, recovery, past>>
    /\ UNCHANGED <<window, events>>

\* handle_set_current_declaration_id
SetCurrentDeclaration(declared) ==
    /\ provider.up
    /\ provider' = [provider EXCEPT !.declared = declared]
    /\ UpdateState
    /\ UNCHANGED <<window, txpool, events, past>>

\* Activity::status
AppliedIn(state, proof) == state.active >= SubmissionEpoch(proof)

\* IntentTracker::handle_tip.  The ledger of an event that is not the newest
\* may be gone: gone names the states that are.
HandleTipFaulty(t, event, gone) ==
    IF AppliedIn(event.tip, t.proof) THEN [outcome |-> "finalized", tracker |-> t]
    ELSE IF t.last = {event.tip.id} THEN [outcome |-> "waiting", tracker |-> t]
    ELSE [outcome |-> "resubmit", tracker |-> [t EXCEPT !.last = {event.tip.id}, !.changes = 0]]
HandleTip(t, event, gone) ==
    LET seen    == [t EXCEPT !.last = {event.tip.id}]
        counted == [seen EXCEPT !.changes = @ + 1]
        reset   == [seen EXCEPT !.changes = 0]
    IN  IF "lib" \notin gone /\ AppliedIn(event.lib, t.proof)
        THEN [outcome |-> "finalized", tracker |-> t]
        ELSE IF t.last = {event.tip.id} THEN [outcome |-> "waiting", tracker |-> seen]
        ELSE IF counted.changes < CheckInterval
        THEN [outcome |-> "waiting", tracker |-> counted]
        ELSE IF "tip" \in gone THEN [outcome |-> "failed", tracker |-> reset]
        ELSE [outcome |-> IF AppliedIn(event.tip, t.proof) THEN "applied" ELSE "resubmit",
              tracker |-> reset]

\* handle_new_block
SdpHandleNewBlock(gone, ok) ==
    /\ provider.up /\ events # <<>>
    /\ gone # {} => Len(events) > 1
    /\ events' = Tail(events)
    /\ IF provider.tracker = {} THEN UNCHANGED <<txpool, provider, recovery>>
       ELSE LET t == CHOOSE u \in provider.tracker : TRUE
                r == HandleTip(t, Head(events), gone)
            IN  /\ provider' = [provider EXCEPT !.tracker =
                                   IF r.outcome = "finalized" THEN {} ELSE {r.tracker}]
                /\ IF r.outcome = "finalized" THEN UpdateState ELSE UNCHANGED recovery
                /\ IF r.outcome = "resubmit"
                   THEN Submitted(ReportTx(t.proof, Tip.nonce + 1), ok)
                   ELSE UNCHANGED txpool
    /\ UNCHANGED <<window, past>>

SaveState ==
    /\ provider.up /\ recovery.saved # recovery.given
    /\ recovery' = [recovery EXCEPT !.saved = recovery.given]
    /\ UNCHANGED <<window, txpool, events, provider, past>>

StopSdp ==
    /\ provider.up /\ past.mishaps < MaxMishaps
    /\ provider' = [up |-> FALSE, declared |-> FALSE, tracker |-> {}]
    /\ events' = <<>>
    /\ past' = [past EXCEPT !.mishaps = @ + 1, !.crashed = TRUE]
    /\ UNCHANGED <<window, txpool, recovery>>

\* init and restore_active_message_tracker: a state without a declaration gives
\* way to the settings; a report whose epoch has passed, or without its
\* declaration, is dropped.
StartSdp ==
    LET declared == recovery.saved.declared \/ SettingsDeclared
        kept == {p \in recovery.saved.pending :
                    declared /\ SubmissionEpoch(p) >= Tip.epoch}
    IN  /\ ~provider.up
        /\ provider' = [up |-> TRUE, declared |-> declared,
                        tracker |-> {[proof |-> p, last |-> {}, changes |-> 0] : p \in kept}]
        /\ recovery' = [recovery EXCEPT !.given =
               IF kept # recovery.saved.pending THEN State(provider') ELSE recovery.saved]
        /\ UNCHANGED <<window, txpool, events, past>>

-----------------------------------------------------------------------------
SdpServiceInit ==
    /\ window = <<[id |-> 0, epoch |-> 0, active |-> 0, nonce |-> 0, withdrawn |-> FALSE,
                   tx |-> NoTx]>>
    /\ txpool = {} /\ events = <<>>
    /\ provider = [up |-> FALSE, declared |-> FALSE, tracker |-> {}]
    /\ recovery = [given |-> [declared |-> FALSE, pending |-> {}],
                   saved |-> [declared |-> FALSE, pending |-> {}]]
    /\ past = [posted |-> -1, gone |-> FALSE, mishaps |-> 0, crashed |-> FALSE]

Include == \E t \in txpool : BlockWith(t)
ReadBlock == \E gone \in SUBSET {"tip", "lib"}, ok \in BOOLEAN : SdpHandleNewBlock(gone, ok)
CheckWell == /\ \E t \in provider.tracker : t.changes + 1 >= CheckInterval
             /\ SdpHandleNewBlock({}, TRUE)

SdpServiceNext ==
    \/ EmptyBlock \/ NewEpoch \/ Include
    \/ \E n \in 1..ConfirmationDepth : Reorg(n)
    \/ \E t \in txpool : LoseTx(t)
    \/ \E ok \in BOOLEAN : PostActivity(ok) \/ PostDeclaration(ok) \/ PostWithdrawal(ok)
    \/ \E declared \in BOOLEAN : SetCurrentDeclaration(declared)
    \/ ReadBlock \/ SaveState \/ StopSdp \/ StartSdp

SdpServiceSpec == SdpServiceInit /\ [][SdpServiceNext]_sdpServiceVars

\* Blocks keep coming and take what is pending and valid; the service reads
\* its stream, is restarted, and not every check of a report's status or
\* posting of it again fails.
FairSdpServiceSpec ==
    /\ SdpServiceSpec
    /\ WF_sdpServiceVars(EmptyBlock)
    /\ SF_sdpServiceVars(Include)
    /\ WF_sdpServiceVars(ReadBlock)
    /\ SF_sdpServiceVars(CheckWell)
    /\ WF_sdpServiceVars(StartSdp)

-----------------------------------------------------------------------------
(* Properties. *)

\* A report that is not tracked any more, with its declaration neither
\* withdrawn nor lost in a crash, is in the ledger of the LIB: being in the
\* ledger of some tip is not enough for the tracker to let go of it.
UntrackedIsFinal ==
    (provider.up /\ past.posted >= 0 /\ provider.tracker = {} /\ ~past.gone
        /\ ~past.crashed)
        => AppliedIn(Lib, past.posted)

\* A report that has been saved becomes final, or its epoch passes, or the
\* declaration is withdrawn or put aside: lost transactions, reorganisations
\* that take it out of the chain, refused postings, skipped blocks and
\* restarts only delay it.
ReportsBecomeFinal ==
    \A p \in 0..(MaxReportEpoch - 1) :
        (recovery.saved.pending = {p}) ~>
            (AppliedIn(Lib, p) \/ Tip.epoch > SubmissionEpoch(p) \/ Tip.withdrawn \/ past.gone
                \/ (provider.up /\ ~provider.declared))

\* Reports are delivered for good.
ReportsAreDelivered == [][UntrackedIsFinal']_sdpServiceVars /\ ReportsBecomeFinal
=============================================================================
