--------------------------- MODULE OrphanDownloader --------------------------
(***************************************************************************)
(* The orphan downloader of services/chain/chain-network/src/sync: a       *)
(* bounded queue of orphans (blocks whose parent is missing, or tips that  *)
(* peers told of), at most one download at a time, and a bounded cache of  *)
(* rejected blocks.  The operators work on a downloader value (struct      *)
(* OrphanBlocksDownloader), as both the service and the initial block      *)
(* download own one.                                                       *)
(***************************************************************************)
EXTENDS BlockTree

CONSTANTS
  MaxPending,     \* max_pending_orphans
  RejectedSize,   \* max_rejected_cache_size, 0 disables the cache
  BatchSize       \* the most blocks a peer answers a request with

ASSUME DownloaderAssumption ==
  /\ MaxPending \in Nat \ {0} /\ BatchSize \in Nat \ {0}
  /\ RejectedSize \in Nat

\* struct OrphanInfo.  parent is {} if it is not known; tip and lib are those
\* of the local chain when the orphan was enqueued.
OrphanInfo(block, parent, tip, lib) ==
  [orphan |-> block, parent |-> parent, tip |-> tip, lib |-> lib]

\* enum DownloaderState: the request, or the download with what is left of its
\* stream and the last block received from it, {} if there is none.
Idle == [phase |-> "Idle"]
Requesting(info, known) == [phase |-> "Requesting", info |-> info, known |-> known]
Downloading(info, stream, last) ==
  [phase |-> "Downloading", info |-> info, stream |-> stream, last |-> last]

NewDownloader == [queue |-> {}, state |-> Idle, rejected |-> << >>]

Queued(d)    == {o.orphan : o \in d.queue}
ShouldPoll(d) == d.queue # {} \/ d.state # Idle

------------------------------------------------------------------------------
\* RejectedBlocks, an LRU cache with the most recently used block first

RejectedBlocks(d) == {d.rejected[i] : i \in DOMAIN d.rejected}

Touch(cache, b) == << b >> \o SelectSeq(cache, LAMBDA c : c # b)

InsertRejected(d, b) ==
  LET cache == Touch(d.rejected, b)
  IN  [d EXCEPT !.rejected =
         SubSeq(cache, 1, IF Len(cache) <= RejectedSize THEN Len(cache) ELSE RejectedSize)]

\* contains_block_or_parent: the first of the two that is found, as a set ...
RejectedHit(d, b, parent) ==
  LET found == RejectedBlocks(d)
  IN  IF b \in found THEN {b} ELSE parent \cap found

\* ... which is then the most recently used one.
Touched(d, hit) ==
  IF hit = {} THEN d ELSE [d EXCEPT !.rejected = Touch(@, CHOOSE b \in hit : TRUE)]

------------------------------------------------------------------------------
\* The queue

RemoveOrphan(d, b) == [d EXCEPT !.queue = {o \in @ : o.orphan # b}]

\* enqueue_orphan: a queued parent gives way to its child before the limit is
\* checked.  An orphan that is being requested is not recognised as such.
EnqueueOrphan(d, info) ==
  LET b       == info.orphan
      hit     == RejectedHit(d, b, info.parent)
      without == [d EXCEPT !.queue = {o \in @ : o.orphan \notin info.parent}]
  IN  IF hit # {} THEN InsertRejected(Touched(d, hit), b)
      ELSE IF d.state.phase = "Downloading" /\ d.state.info.orphan = b THEN d
      ELSE IF b \in Queued(d) THEN d
      ELSE IF Cardinality(without.queue) >= MaxPending THEN without
      ELSE [without EXCEPT !.queue = @ \cup {info}]

\* One iteration of dequeue_next_orphan, which takes the entry o: x.next holds
\* the orphan to download as soon as there is one.
Dequeue(x, o) ==
  LET d   == [x.d EXCEPT !.queue = @ \ {o}]
      hit == RejectedHit(d, o.orphan, o.parent)
  IN  IF hit = {} THEN [d |-> d, next |-> {o}]
      ELSE [d |-> InsertRejected(Touched(d, hit), o.orphan), next |-> {}]

\* dequeue_next_orphan takes the entries in the order of a hash map, so any
\* order is possible, until one is not rejected or the queue is empty: what it
\* may hold after i of at most n iterations.
Taken(d, n) ==
  LET taken[i \in 0..n] ==
        IF i = 0 THEN {[d |-> d, next |-> {}]}
        ELSE UNION {{Dequeue(x, o) : o \in x.d.queue}
                     : x \in {y \in taken[i - 1] : y.next = {}}}
  IN  taken

DequeueNextOrphan(d) ==
  LET n    == Cardinality(d.queue)
      ends == UNION {Taken(d, n)[i] : i \in 0..n}
  IN  {x \in ends : x.next # {} \/ x.d.queue = {}}

\* A download is started whatever was rejected since the orphan was enqueued.
PollIdleFaulty(d) ==
  {[d EXCEPT !.queue = @ \ {o}, !.state = Requesting(o, {})] : o \in d.queue}

\* poll_next, DownloaderState::Idle
PollIdle(d) ==
  {IF x.next = {} THEN x.d
   ELSE [x.d EXCEPT !.state = Requesting(CHOOSE o \in x.next : TRUE, {})]
     : x \in DequeueNextOrphan(d)}

------------------------------------------------------------------------------
\* Requests and downloads

\* What a peer that has the orphan answers: the first blocks of the path to it
\* from the latest block that it shares with the blocks the request names.
AnswerOf(info, known) ==
  LET shared == {n \in 0..Length(info.orphan) :
                   \E k \in known \cup {info.tip, info.lib} :
                     IsAncestor(AtLength(info.orphan, n), k)}
      start  == CHOOSE s \in shared : \A m \in shared : m <= s
      n      == Length(info.orphan) - start
  IN  [i \in 1..(IF n <= BatchSize THEN n ELSE BatchSize) |->
         AtLength(info.orphan, start + i)]

\* poll_next, DownloaderState::Requesting: a peer answers, with all of the path
\* or with a part of it, or no peer does.
PollRequesting(d) ==
  LET answer == AnswerOf(d.state.info, d.state.known)
  IN  {[d EXCEPT !.state = Downloading(d.state.info, SubSeq(answer, 1, n), {})]
         : n \in 0..Len(answer)}
      \cup {[d EXCEPT !.state = Idle]}

\* poll_next, DownloaderState::Downloading, when the stream has a block
ReceivedBlock(d) == Head(d.state.stream)

\* Only the block that was asked for leaves the queue.
PollBlockFaulty(d) ==
  LET b == ReceivedBlock(d)
  IN  IF b = d.state.info.orphan THEN RemoveOrphan([d EXCEPT !.state = Idle], b)
      ELSE [d EXCEPT !.state.stream = Tail(@), !.state.last = {b}]

PollBlock(d) ==
  LET b        == ReceivedBlock(d)
      received == [d EXCEPT !.state = Downloading(d.state.info, Tail(d.state.stream), {b})]
  IN  RemoveOrphan(IF b = d.state.info.orphan THEN [d EXCEPT !.state = Idle]
                   ELSE received, b)

\* ... when the stream fails
PollError(d) == [d EXCEPT !.state = Idle]

\* The request is repeated as it was.
PollEndFaulty(d) ==
  IF d.state.last # {} THEN [d EXCEPT !.state = Requesting(d.state.info, {})]
  ELSE RemoveOrphan([d EXCEPT !.state = Idle], d.state.info.orphan)

\* ... and when it ends: what is left is requested, from the last block on,
\* unless the stream had no block at all.
PollEnd(d) ==
  IF d.state.last # {}
  THEN [d EXCEPT !.state = Requesting(d.state.info, d.state.last)]
  ELSE RemoveOrphan([d EXCEPT !.state = Idle], d.state.info.orphan)

CancelActiveDownload(d) ==
  IF d.state.phase = "Downloading"
  THEN RemoveOrphan([d EXCEPT !.state = Idle], d.state.info.orphan)
  ELSE d

==============================================================================
