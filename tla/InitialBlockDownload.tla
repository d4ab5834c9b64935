------------------------ MODULE InitialBlockDownload -------------------------
(***************************************************************************)
(* The initial block download (IBD), services/chain/chain-network/src/     *)
(* bootstrap/ibd.rs.  In rounds, it asks the configured peers for their    *)
(* tips, gives the tips that are not in the local tree to an orphan        *)
(* downloader of its own, applies what is downloaded, and ends when every  *)
(* tip it was told of is in the tree.                                      *)
(***************************************************************************)
EXTENDS CryptarchiaEngine, OrphanDownloader

LOCAL INSTANCE FiniteSetsExt

CONSTANTS
  StartState,    \* the state that the engine starts in, of the chain service
  PeerTips,      \* the tips that peers may answer with, valid blocks
  MaxFailures    \* bound on the failed requests, streams and applications

ASSUME IbdAssumption ==
  /\ StartState \in States
  /\ PeerTips \subseteq Seq(Headers) /\ PeerTips # {}
  /\ MaxFailures \in Nat

VARIABLES
  ibd,          \* its OrphanBlocksDownloader
  phase,        \* the step of a round, or how the download ended
  failures      \* the failures so far

ivars == <<engine, outcome, ibd, phase, failures>>

Phases == {"collect", "drain", "done", "failed"}

\* The engine starts from the recovered LIB.
IbdInit ==
  /\ \E lib \in RecoveredLibs : engine = FromLib(lib, StartState)
  /\ outcome = NoOutcome
  /\ ibd = NewDownloader /\ phase = "collect" /\ failures = 0

\* The downloader of IBD becomes d, in the second case as something has failed.
IbdOnly(d) == ibd' = d /\ UNCHANGED <<engine, failures>>
Failed(d) ==
  /\ failures < MaxFailures /\ failures' = failures + 1
  /\ ibd' = d /\ UNCHANGED engine

------------------------------------------------------------------------------
\* has_processed_block
HasProcessedBlock(b) == b \in engine.branches

\* enqueue_tips
EnqueueTips(d, tips) ==
  FoldSet(LAMBDA tip, acc :
            EnqueueOrphan(acc, OrphanInfo(tip, {}, engine.local_chain, engine.lib)),
          d, tips)

\* A round begins: collect_unsynced_tips, for the tips of the peers that
\* answered.  There is at most one tip for each peer.
CollectTips(tips) ==
  LET unsynced == {t \in tips : ~HasProcessedBlock(t)}
  IN  /\ phase = "collect"
      /\ IF unsynced = {}
         THEN phase' = "done" /\ UNCHANGED ibd
         ELSE phase' = "drain" /\ ibd' = EnqueueTips(ibd, unsynced)
      /\ UNCHANGED <<engine, outcome, failures>>

\* No peer answered, in spite of the retries: AllPeersFailed.
AllPeersFailed ==
  /\ phase = "collect" /\ phase' = "failed"
  /\ failures < MaxFailures /\ failures' = failures + 1
  /\ UNCHANGED <<engine, outcome, ibd>>

\* What drain_downloader does with a block: one that was applied before is
\* skipped, any other error cancels the download.
ProcessBlock(b, d) ==
  \/ HasProcessedBlock(b) /\ IbdOnly(d)
  \/ /\ ~HasProcessedBlock(b) /\ ~ParentMissing(engine, b)
     /\ \E r \in ReceiveOutcomes(engine, b) : engine' = r.engine
     /\ ibd' = d /\ UNCHANGED failures
  \/ ~HasProcessedBlock(b) /\ ParentMissing(engine, b) /\ IbdOnly(CancelActiveDownload(d))
  \/ ~HasProcessedBlock(b) /\ Failed(CancelActiveDownload(d))

\* drain_downloader, one poll
IbdStart ==
  /\ ibd.state = Idle /\ ibd.queue # {}
  /\ \E d \in PollIdle(ibd) : IbdOnly(d)

\* That no peer answers, or that one ends its stream before the first of the
\* blocks it has, is a failure.  A peer has no block to send if the target is
\* behind the blocks that the request names.
IbdAnswered ==
  /\ ibd.state.phase = "Requesting"
  /\ LET answer == AnswerOf(ibd.state.info, ibd.state.known)
     IN  \E d \in PollRequesting(ibd) :
           IF answer # << >> /\ (d.state = Idle \/ d.state.stream = << >>)
           THEN Failed(d) ELSE IbdOnly(d)

IbdBlock ==
  /\ ibd.state.phase = "Downloading" /\ ibd.state.stream # << >>
  /\ \/ ProcessBlock(ReceivedBlock(ibd), PollBlock(ibd))
     \/ Failed(PollError(ibd))

IbdStreamEnded ==
  /\ ibd.state.phase = "Downloading" /\ ibd.state.stream = << >>
  /\ IbdOnly(PollEnd(ibd))

Drain ==
  /\ phase = "drain"
  /\ IbdStart \/ IbdAnswered \/ IbdBlock \/ IbdStreamEnded
  /\ UNCHANGED <<outcome, phase>>

\* The downloader has nothing more to yield: the next round.
Drained ==
  /\ phase = "drain" /\ ~ShouldPoll(ibd)
  /\ phase' = "collect"
  /\ UNCHANGED <<engine, outcome, ibd, failures>>

Round ==
  \/ \E tips \in (SUBSET PeerTips) \ {{}} :
       Cardinality(tips) <= MaxPending /\ CollectTips(tips)
  \/ Drain \/ Drained

IbdNext == Round \/ AllPeersFailed

IbdSpec == IbdInit /\ [][IbdNext]_ivars

\* IBD is one task that runs until it returns; requests have timeouts.
FairIbdSpec == IbdSpec /\ WF_ivars(Round)

------------------------------------------------------------------------------
\* Properties

Ended == phase \in {"done", "failed"}

\* No tip is given up and no download blocks the others: once failures stop,
\* IBD ends, whatever forks the tips are on and however they change between
\* the rounds, if the node bootstraps, so that its LIB stays where it was, and
\* no tip is behind this LIB.
IbdEnds == <>Ended

\* IBD returns if it caught up to the tip of every peer: each tip is in the
\* tree or is immutable in the local chain.
CaughtUp == \A t \in PeerTips : t \in engine.branches \/ IsAncestor(t, engine.lib)

ReturnsWhenCaughtUp == CaughtUp ~> Ended

==============================================================================
