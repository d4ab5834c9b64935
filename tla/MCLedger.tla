------------------------------ MODULE MCLedger ------------------------------
(***************************************************************************)
(* The ledger: service providers, channels, reward pools, markets, notes   *)
(* with the wallet's view of them, the tree of the vouchers and the wallet *)
(* service that follows it.  The parts share no state: a behaviour moves   *)
(* one of them.                                                            *)
(***************************************************************************)
EXTENDS SdpLedger, Channels, RewardPools, Markets, WalletNotes, Mmr, WalletService

CONSTANTS z1, z2, p1, p2, n1, n2, k1, k2, k3

CONSTANT RestartBlocks   \* bound: the blocks of a chain whose wallet restarts

VARIABLE part

MCDeclarations == [z \in {z1} |-> [provider_id |-> p1, note |-> n1]]

MCChannelConfig(keys, frame, timeout) ==
    [accredited_keys |-> keys, posting_timeframe |-> frame, posting_timeout |-> timeout,
     configuration_threshold |-> 2, transfer_threshold |-> 2]
MCConfigs ==
    {MCChannelConfig(keys, frame, timeout) :
        keys \in {<<k1, k2>>, <<k3, k1, k2>>}, frame \in {0, 2, 3}, timeout \in {0, 2, 3}}
    \cup {MCChannelConfig(<<k1>>, 0, 0)}

MCRatio(num, den) == [num |-> num, den |-> den]
MCEighth     == MCRatio(1, 8)
MCThird      == MCRatio(1, 3)
MCHalf       == MCRatio(1, 2)
MCTwoThirds  == MCRatio(2, 3)
MCMost       == MCRatio(3, 4)
MCEmission   == [num |-> 9, den |-> 2, scale |-> 4, target |-> 3, average |-> 1]
MCFees       == {<<0, 0>>, <<7, 1>>}
MCWindow(slot) == IF slot < 3 THEN 3 ELSE 1

MCGenesisNotes == <<2, 1>>
MCOutputs      == {<<1>>, <<3>>, <<1, 1>>}

\* The first block is of epoch 0, the others of epoch 1.
MCEpochs == <<{0}, {1}, {1}, {1}, {1}, {1}>>

ledgerVars == <<sdpVars, channelVars, rewardVars, marketVars,
                walletNoteVars, mmrVars, walletVars>>

\* A part that does not move has one initial state.
LedgerInit ==
    /\ part \in {"sdp", "channels", "rewards", "markets", "notes", "mmr", "wallet"}
    /\ SdpInit /\ ChannelsInit /\ RewardInit /\ MarketInit
    /\ WalletNotesInit /\ MmrInit /\ WalletInit
    /\ part = "notes" \/ owned = {}

LedgerNext ==
    /\ UNCHANGED part
    /\ \/ /\ part = "sdp" /\ SdpNext
          /\ UNCHANGED <<channelVars, rewardVars, marketVars, walletNoteVars, mmrVars, walletVars>>
       \/ /\ part = "channels" /\ ChannelsNext
          /\ UNCHANGED <<sdpVars, rewardVars, marketVars, walletNoteVars, mmrVars, walletVars>>
       \/ /\ part = "rewards" /\ RewardNext
          /\ UNCHANGED <<sdpVars, channelVars, marketVars, walletNoteVars, mmrVars, walletVars>>
       \/ /\ part = "markets" /\ MarketNext
          /\ UNCHANGED <<sdpVars, channelVars, rewardVars, walletNoteVars, mmrVars, walletVars>>
       \/ /\ part = "notes" /\ WalletNotesNext
          /\ UNCHANGED <<sdpVars, channelVars, rewardVars, marketVars, mmrVars, walletVars>>
       \/ /\ part = "mmr" /\ MmrNext
          /\ UNCHANGED <<sdpVars, channelVars, rewardVars, marketVars, walletNoteVars, walletVars>>
       \/ /\ part = "wallet" /\ WalletNext
          /\ gaps'.restarts = 0 \/ Len(node'.blocks) <= RestartBlocks
          /\ UNCHANGED <<sdpVars, channelVars, rewardVars, marketVars, walletNoteVars, mmrVars>>

LedgerSpec == LedgerInit /\ [][LedgerNext]_<<ledgerVars, part>>
=============================================================================
