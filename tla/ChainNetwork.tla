---------------------------- MODULE ChainNetwork -----------------------------
(***************************************************************************)
(* The loop of the chain network service, services/chain/chain-network,    *)
(* once the initial block download is over: proposals that are gossiped,   *)
(* tips that the lag watchdog learned from peers, and the blocks of the    *)
(* orphan downloader are given to the chain service, whose answer decides  *)
(* what is enqueued, rejected or cancelled.                                *)
(*                                                                         *)
(* The loop is one task and awaits the chain service within a branch, so   *)
(* an action is a whole branch.  The chain service is its engine, as       *)
(* everything that applies a block passes through this loop.               *)
(***************************************************************************)
EXTENDS CryptarchiaEngine, OrphanDownloader

CONSTANTS
  Network,      \* the blocks that may exist, each with its ancestors
  BadBlock,     \* those that the ledger refuses
  Local         \* those that are made by the local leader

ASSUME NetworkAssumption ==
  /\ Network \subseteq Seq(Headers)
  /\ \A b \in Network : \A n \in 1..Len(b) : AtLength(b, n) \in Network
  /\ BadBlock \subseteq Network /\ Local \subseteq Network \ BadBlock

VARIABLES
  downloader,   \* OrphanBlocksDownloader
  polled,       \* what the watchdog found, until the loop takes it
  made          \* the blocks that the local leader has made

nvars == <<engine, outcome, downloader, polled, made>>

NetworkInit ==
  /\ engine = FromLib(Genesis, "Online") /\ outcome = NoOutcome
  /\ downloader = NewDownloader /\ polled = {} /\ made = {}

\* The blocks that can be seen in the network.
Seen ==
  {b \in Network : \A n \in 1..Length(b) : AtLength(b, n) \notin Local \ made}

------------------------------------------------------------------------------
\* The chain service

\* should_process_block
OlderThanLib(b)   == SlotOf(b) <= SlotOf(engine.lib)
AlreadyApplied(b) == b \in engine.branches

\* What apply_block answers, if it is not a transient failure: the slot of the
\* block is in the future even after the retries, or the relay fails.
ApplyAnswer(b) ==
  IF ParentMissing(engine, b) THEN "ParentMissing"
  ELSE IF b \in BadBlock \/ SlotOf(b) <= SlotOf(ParentOf(b)) THEN "Invalid"
  ELSE "Ok"

\* The block is applied, and the downloader becomes d.
Applied(b, d) ==
  \E r \in ReceiveOutcomes(engine, b) : engine' = r.engine /\ downloader' = d

\* The downloader becomes d and nothing else changes.
Only(d) == downloader' = d /\ UNCHANGED engine

------------------------------------------------------------------------------
\* The branches of the loop

\* handle_incoming_proposal.  A proposal with a wrong signature, one that can
\* not be reconstructed, one that was applied before and one that fails for a
\* transient reason change nothing.  A header that is invalid on its own has the
\* slot of genesis, and so is never after the LIB.
HandleIncomingProposal(b) ==
  /\ UNCHANGED <<outcome, polled, made>>
  /\ IF OlderThanLib(b) THEN Only(InsertRejected(downloader, b))
     ELSE /\ ~AlreadyApplied(b)
          /\ CASE ApplyAnswer(b) = "ParentMissing" ->
                    Only(EnqueueOrphan(downloader,
                           OrphanInfo(b, {ParentOf(b)}, engine.local_chain, engine.lib)))
               [] ApplyAnswer(b) = "Invalid" -> Only(InsertRejected(downloader, b))
               [] OTHER -> Applied(b, RemoveOrphan(downloader, b))

\* poll_peer_tips_if_behind: the task of the watchdog finds a tip of a peer
\* that is higher than the local tip and after the local LIB.  At most one
\* such tip at a time waits for the loop.
PollPeerTips(b) ==
  /\ polled = {}
  /\ Length(b) > Length(engine.local_chain) /\ ~OlderThanLib(b)
  /\ polled' = {OrphanInfo(b, {}, engine.local_chain, engine.lib)}
  /\ UNCHANGED <<engine, outcome, downloader, made>>

\* enqueue_polled_tip, against the chain info of when the peers were asked
EnqueuePolledTip ==
  /\ polled # {}
  /\ Only(EnqueueOrphan(downloader, CHOOSE info \in polled : TRUE))
  /\ polled' = {} /\ UNCHANGED <<outcome, made>>

\* handle_message, ApplyBlockAndReconcileMempool: the downloader is not told of
\* a block of the local leader.
ApplyLocalBlock(b) ==
  /\ b \notin made /\ made' = made \cup {b}
  /\ ApplyAnswer(b) = "Ok" /\ Applied(b, downloader)
  /\ UNCHANGED <<outcome, polled>>

\* A block from the orphan downloader.  Only an error cancels the download.
ProcessDownloaded(b, d) ==
  CASE OlderThanLib(b) -> Only(InsertRejected(d, b))
    [] AlreadyApplied(b) -> Only(d)
    [] OTHER ->
         \/ ApplyAnswer(b) = "Ok" /\ Applied(b, d)
         \/ ApplyAnswer(b) = "ParentMissing" /\ Only(CancelActiveDownload(d))
         \/ ApplyAnswer(b) = "Invalid" /\ Only(CancelActiveDownload(InsertRejected(d, b)))
         \/ Only(CancelActiveDownload(d))   \* a transient failure

\* orphan_downloader.next(), if orphan_downloader.should_poll()
StartDownload ==
  /\ downloader.state = Idle /\ downloader.queue # {}
  /\ \E d \in PollIdle(downloader) : Only(d)
  /\ UNCHANGED <<outcome, polled, made>>

Answered ==
  /\ downloader.state.phase = "Requesting"
  /\ \E d \in PollRequesting(downloader) : Only(d)
  /\ UNCHANGED <<outcome, polled, made>>

DownloadedBlock ==
  /\ downloader.state.phase = "Downloading" /\ downloader.state.stream # << >>
  /\ \/ ProcessDownloaded(ReceivedBlock(downloader), PollBlock(downloader))
     \/ Only(PollError(downloader))
  /\ UNCHANGED <<outcome, polled, made>>

StreamEnded ==
  /\ downloader.state.phase = "Downloading" /\ downloader.state.stream = << >>
  /\ Only(PollEnd(downloader))
  /\ UNCHANGED <<outcome, polled, made>>

PollDownloader == StartDownload \/ Answered \/ DownloadedBlock \/ StreamEnded

NetworkNext ==
  \/ \E b \in Seen : HandleIncomingProposal(b) \/ PollPeerTips(b)
  \/ \E b \in Local : ApplyLocalBlock(b)
  \/ EnqueuePolledTip
  \/ PollDownloader

NetworkSpec == NetworkInit /\ [][NetworkNext]_nvars

\* The loop polls the downloader again at every slot tick, and a request or a
\* stream to a peer ends in the end, as both have a timeout: weak fairness of
\* PollDownloader, which is enabled exactly when should_poll holds.
FairNetworkSpec ==
  /\ NetworkSpec
  /\ []<>~ShouldPoll(downloader) \/ []<><<PollDownloader>>_nvars

------------------------------------------------------------------------------
\* Properties

Unusable(b) ==
  \E n \in 1..Length(b) : AtLength(b, n) \in BadBlock

InfoType == [orphan : Network, parent : SUBSET (Network \cup {Genesis}),
             tip : Blocks, lib : Blocks]

\* The downloader keeps its types, and its queue and its cache their bounds,
\* although the queued parent of an orphan is replaced without regard to them.
NetworkTypeOK ==
  /\ downloader.queue \subseteq InfoType
  /\ Cardinality(downloader.queue) <= MaxPending
  /\ Cardinality(downloader.queue) = Cardinality(Queued(downloader))
  /\ downloader.rejected \in Seq(Network)
  /\ Cardinality(RejectedBlocks(downloader)) = Len(downloader.rejected)
  /\ Len(downloader.rejected) <= RejectedSize
  /\ polled \subseteq InfoType /\ made \subseteq Local

\* A download that starts is not of a block that is known to be useless: not
\* even if it was enqueued before it, or its parent, was rejected.
NoRejectedDownload ==
  [][downloader.state = Idle /\ downloader'.state # Idle =>
       LET info == downloader'.state.info
       IN  ({info.orphan} \cup info.parent) \cap RejectedBlocks(downloader') = {}]_nvars

\* An orphan that was enqueued because its parent was missing leaves the queue
\* when it is applied, by whatever way it reached the chain service: the path
\* to a descendant, its own download or a second proposal.
QueuedNotApplied ==
  \A o \in downloader.queue : o.parent # {} => o.orphan \notin engine.branches

\* Every download ends, although a stream may end early and be continued.
DownloadsEnd == []<>(downloader.state = Idle)

\* The cache of rejected blocks holds blocks that are known to be invalid, or
\* are at or before the LIB, and their descendants: never a block that could
\* be applied on top of the LIB.
RejectedIsUseless ==
  \A b \in RejectedBlocks(downloader) :
    Unusable(b) \/ OlderThanLib(b) \/ ~IsAncestor(engine.lib, b)

==============================================================================
