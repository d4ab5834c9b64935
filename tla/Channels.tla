------------------------------ MODULE Channels ------------------------------
(***************************************************************************)
(* Channels of the ledger: who may write in which slot.  Translated from   *)
(* core/src/mantle/channel.rs and the operations ChannelInscribe and        *)
(* ChannelConfig of core/src/mantle/ops/channel.                            *)
(*                                                                          *)
(* A channel has accredited keys that take turns.  The turn moves with the  *)
(* slots: every posting_timeframe slots, or, once nobody has written for    *)
(* posting_timeout slots, every posting_timeout slots; 0 switches either    *)
(* off.  An inscription rebases the rotation on its slot.                   *)
(*                                                                          *)
(* The id of a message is a hash over its parent, so the number of messages *)
(* names the tip.  A signature is valid: the inputs are who signed.         *)
(***************************************************************************)
EXTENDS Integers, FiniteSets, Sequences, Maps

CONSTANTS
    ChannelIds,
    Keys,
    Configs,        \* the configurations that are proposed
    MaxBlockSlot,   \* bound on the slots of blocks
    MaxMessages,    \* bound on the messages of a channel
    MaxConfigs      \* bound on its configurations

\* ChannelConfigOp: both thresholds are NonZero.
ASSUME ChannelAssumption ==
    /\ MaxBlockSlot \in Nat
    /\ Configs \subseteq [accredited_keys : Seq(Keys),
                         configuration_threshold : Nat \ {0}, transfer_threshold : Nat \ {0},
                         posting_timeframe : Nat, posting_timeout : Nat]

VARIABLES
    block_slot,     \* of the block being applied
    channels,       \* ChannelId -> ChannelState
    writers         \* ChannelId -> the keys that wrote in this slot

channelVars == <<block_slot, channels, writers>>

Slots == 0 .. MaxBlockSlot

Earliest(S) == CHOOSE s \in S : \A t \in S : s <= t

\* ChannelConfigOp::new: otherwise nobody could ever change the configuration.
WellFormed(config) == config.configuration_threshold <= Len(config.accredited_keys)

TimedOut(c, slot) ==
    /\ c.posting_timeout # 0
    /\ SatSub(slot, c.tip_slot) >= c.posting_timeout

\* ChannelState::round_robin: whose turn it is in a slot (an index from 0), and
\* since which slot.
RoundRobin(c, slot) ==
    LET Turn(anchor, period) ==
            LET n == SatSub(slot, anchor) \div period
            IN  [index |-> (c.tip_sequencer + n) % Len(c.accredited_keys),
                 start |-> anchor + n * period]
    IN  CASE TimedOut(c, slot) -> Turn(c.tip_slot, c.posting_timeout)
          [] ~ TimedOut(c, slot) /\ c.posting_timeframe # 0 ->
                Turn(c.tip_sequencer_starting_slot, c.posting_timeframe)
          [] OTHER -> [index |-> c.tip_sequencer,
                       start |-> c.tip_sequencer_starting_slot]

\* ChannelState::next_round_robin_boundary; {} is None.
NextOnGrid(anchor, period, slot) ==
    IF period = 0 THEN {}
    ELSE {anchor + (SatSub(slot, anchor) \div period + 1) * period}

\* The timeframe first, the timeout only without one.
NextRoundRobinBoundaryFaulty(c, slot) ==
    LET by_timeframe == NextOnGrid(c.tip_sequencer_starting_slot,
                                   c.posting_timeframe, slot)
    IN  IF by_timeframe # {} THEN by_timeframe
        ELSE NextOnGrid(c.tip_slot, c.posting_timeout, slot)

NextRoundRobinBoundary(c, slot) ==
    LET by_timeout   == NextOnGrid(c.tip_slot, c.posting_timeout, slot)
        by_timeframe == NextOnGrid(c.tip_sequencer_starting_slot,
                                   c.posting_timeframe, slot)
        both         == by_timeout \cup by_timeframe
    IN  IF TimedOut(c, slot) THEN by_timeout
        ELSE IF both = {} THEN {} ELSE {Earliest(both)}

-----------------------------------------------------------------------------

ChannelsInit ==
    /\ block_slot = 0
    /\ channels = << >>
    /\ writers = [c \in ChannelIds |-> {}]

NextBlock(slot) ==
    /\ slot > block_slot
    /\ block_slot' = slot
    /\ writers' = [c \in ChannelIds |-> {}]
    /\ UNCHANGED channels

\* The channel that a first inscription creates.
NewChannel(signer) ==
    [accredited_keys |-> <<signer>>, configuration_threshold |-> 1,
     transfer_threshold |-> 1, tip_message |-> 0, config_tip_hash |-> 0,
     tip_slot |-> block_slot, tip_sequencer |-> 0,
     tip_sequencer_starting_slot |-> block_slot,
     posting_timeframe |-> 0, posting_timeout |-> 0]

\* InscriptionOp::execute.
Inscribed(c) ==
    LET turn == RoundRobin(c, block_slot)
    IN  [c EXCEPT !.tip_message = @ + 1, !.tip_sequencer = turn.index,
                  !.tip_sequencer_starting_slot = turn.start,
                  !.tip_slot = block_slot]

\* InscriptionOp::verify and execute.
Inscribe(id, parent, signer) ==
    LET c == IF id \in DOMAIN channels THEN channels[id] ELSE NewChannel(signer)
    IN  /\ c.tip_message < MaxMessages
        /\ parent = c.tip_message
        /\ signer = c.accredited_keys[RoundRobin(c, block_slot).index + 1]
        /\ channels' = With(channels, id, Inscribed(c))
        /\ writers' = [writers EXCEPT ![id] = @ \cup {signer}]
        /\ UNCHANGED block_slot

\* ChannelConfigOp::execute: on a channel that exists it leaves the messages.
Configured(c, config) ==
    [accredited_keys |-> config.accredited_keys,
     configuration_threshold |-> config.configuration_threshold,
     transfer_threshold |-> config.transfer_threshold,
     tip_message |-> c.tip_message, config_tip_hash |-> c.config_tip_hash + 1,
     tip_slot |-> block_slot, tip_sequencer |-> 0,
     tip_sequencer_starting_slot |-> block_slot,
     posting_timeframe |-> config.posting_timeframe,
     posting_timeout |-> config.posting_timeout]

\* ChannelConfigOp::verify and execute.  Exactly as many of the accredited keys
\* sign as the threshold says; a new channel has no keys yet and none sign.
Configure(id, parent, signers, config) ==
    LET exists == id \in DOMAIN channels
        c == IF exists THEN channels[id]
             ELSE [tip_message |-> 0, config_tip_hash |-> 0, tip_sequencer |-> 0]
    IN  /\ c.config_tip_hash < MaxConfigs
        /\ WellFormed(config)
        /\ parent = c.config_tip_hash
        /\ IF exists
           THEN /\ Cardinality(signers) = c.configuration_threshold
                /\ signers \subseteq 1 .. Len(c.accredited_keys)
           ELSE signers = {}
        /\ channels' = With(channels, id, Configured(c, config))
        /\ writers' = [writers EXCEPT ![id] = {}]
        /\ UNCHANGED block_slot

ChannelsNext ==
    \/ \E slot \in Slots : NextBlock(slot)
    \/ \E id \in ChannelIds, parent \in 0 .. MaxMessages, signer \in Keys :
            Inscribe(id, parent, signer)
    \/ \E id \in ChannelIds, parent \in 0 .. MaxConfigs, config \in Configs :
            \E signers \in SUBSET (1 .. Cardinality(Keys)) :
                Configure(id, parent, signers, config)

ChannelsSpec == ChannelsInit /\ [][ChannelsNext]_channelVars

-----------------------------------------------------------------------------

\* A channel is never stuck: the key whose turn it is exists (verify indexes
\* accredited_keys with it), in every slot to come, and the keys there are can
\* change the configuration.
NoChannelIsStuck ==
    \A id \in DOMAIN channels :
        LET c == channels[id]
        IN  /\ \A slot \in block_slot .. MaxBlockSlot :
                    RoundRobin(c, slot).index + 1 \in DOMAIN c.accredited_keys
            /\ \E signers \in SUBSET DOMAIN c.accredited_keys :
                    Cardinality(signers) = c.configuration_threshold

\* The boundary a sequencer plans with is the next slot in which the turn can
\* change hands: until then round_robin does not move, and without a boundary
\* it never moves.
BoundaryIsNext ==
    \A id \in DOMAIN channels, slot \in block_slot .. MaxBlockSlot :
        LET c == channels[id]
            boundary == NextRoundRobinBoundary(c, slot)
        IN  \A later \in slot .. MaxBlockSlot :
                (\A b \in boundary : later < b)
                    => RoundRobin(c, later) = RoundRobin(c, slot)

\* An inscription leaves the turn with its writer for the rest of the slot
\* unless the timeframe is the shorter of the two periods, and without a
\* timeout it moves no later turn either.
PostingKeepsTheTurn ==
    [][\A id \in DOMAIN channels :
          LET c == channels[id]
              d == channels'[id]
              Same(slot) == RoundRobin(d, slot).index = RoundRobin(c, slot).index
          IN  d.tip_message > c.tip_message =>
                /\ c.posting_timeframe = 0 \/ c.posting_timeframe >= c.posting_timeout
                    => Same(block_slot)
                /\ c.posting_timeout = 0
                    => \A slot \in block_slot .. MaxBlockSlot : Same(slot)]_channelVars

\* While the configuration stays, one key writes in a slot.
\* zone-sdk/DECENTRALIZED_SEQUENCING.md: "at any block slot, exactly one
\* accredited key is *authorized* to write, derived deterministically from the
\* channel's configuration plus the current slot."
OneWriterPerSlot == \A id \in ChannelIds : Cardinality(writers[id]) <= 1

\* The turn to write is always somebody's, changes hands when the boundary
\* says, and is not lost by using it.
TurnsAreSound == [](NoChannelIsStuck /\ BoundaryIsNext) /\ PostingKeepsTheTurn
=============================================================================
