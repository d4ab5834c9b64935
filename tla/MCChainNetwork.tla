--------------------------- MODULE MCChainNetwork ----------------------------
(***************************************************************************)
(* Small instances of the chain network service for TLC: the initial block *)
(* download, and the loop of the service after it, each from its own first *)
(* state.                                                                  *)
(***************************************************************************)
EXTENDS ChainNetwork, InitialBlockDownload

CONSTANT Parts   \* what is explored, a subset of {"loop", "ibd"}

VARIABLE part

mcVars == <<nvars, ivars, part>>

MCHeaders == [slot : 1..4]

ChainOf(slots) == [i \in DOMAIN slots |-> [slot |-> slots[i]]]

\* A chain, and a block of the local leader with an invalid child.
BadAndLocal ==
  {ChainOf(s) : s \in {<<1>>, <<1, 2>>, <<1, 2, 4>>, <<3>>, <<3, 4>>}}
MCLocal    == {ChainOf(<<3>>)}
MCBadBlock == {ChainOf(<<3, 4>>)}

\* Two chains that fork after the block of slot 1, and an invalid block with a
\* child on the side.
Forks ==
  {ChainOf(s) : s \in {<<1>>, <<1, 2>>, <<1, 2, 4>>, <<1, 3>>, <<2>>, <<2, 3>>}}
ForksBadBlock == {ChainOf(<<2>>)}
NoBlocks == {}

\* Peers on a long chain, and peers on a fork that grows between the rounds.
ForkedTips == {ChainOf(s) : s \in {<<2, 3, 4>>, <<1>>, <<1, 4>>}}
FromGenesis == {Genesis}

\* A node that recovered the LIB of slot 1, a peer that follows it and one that
\* still is at genesis.
LaggingTips == {ChainOf(<<1, 2>>), Genesis}
FromSlotOne == {ChainOf(<<1>>)}

KOne    == [s \in 0..4 |-> 1]
SGenOne == [s \in 0..4 |-> 1]

Loop == part = "loop"

MCInit ==
  /\ part \in Parts
  /\ IF Loop
     THEN NetworkInit /\ ibd = NewDownloader /\ phase = "done" /\ failures = 0
     ELSE IbdInit /\ downloader = NewDownloader /\ polled = {} /\ made = {}

MCNext ==
  \/ Loop /\ NetworkNext /\ UNCHANGED <<ibd, phase, failures, part>>
  \/ ~Loop /\ IbdNext /\ UNCHANGED <<downloader, polled, made, part>>

\* The fairness of FairNetworkSpec and of FairIbdSpec.
MCSpec ==
  /\ MCInit /\ [][MCNext]_mcVars
  /\ []<>~ShouldPoll(downloader) \/ []<><<Loop /\ PollDownloader>>_mcVars
  /\ WF_mcVars(~Loop /\ Round /\ UNCHANGED <<downloader, polled, made, part>>)

==============================================================================
