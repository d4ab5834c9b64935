----------------------------- MODULE ChainSync -----------------------------
(***************************************************************************)
(* The chain-sync protocol over libp2p streams (cryptarchia-sync/libp2p):  *)
(* the tables of requests under way at the requesting and at the providing *)
(* node, the stream between them, and the blocks the caller reads.         *)
(*                                                                         *)
(* Both ends run the same `Behaviour`; a request is followed from the      *)
(* requester's tables (client) over its stream (wire, closed) to the       *)
(* provider's tables (server).  A future of a table is resolved and taken  *)
(* out of the table by the same poll, so finishing and freeing the slot    *)
(* are one step.  Which table a poll looks at first only orders the steps. *)
(***************************************************************************)
EXTENDS Integers, Sequences, FiniteSets

CONSTANTS
    Requests,        \* the requests callers make
    MaxInbound,      \* config.max_inbound_requests
    Batch,           \* how many blocks the provider's service streams
    BufferItems,     \* DOWNLOAD_BUFFER_ITEMS of the requester's ReadAhead
    SyncEras         \* bound: eras 1..SyncEras, each with its own protocol

ASSUME ChainSyncAssumption ==
    /\ MaxInbound \in Nat \ {0} /\ BufferItems \in Nat \ {0}
    /\ Batch \in Nat /\ SyncEras \in Nat \ {0}

VARIABLES
    client,     \* the requester's future: idle, sending, receiving, over
    server,     \* the provider's future: none, arriving, reading, serving,
                \* closing (rejected), over
    wire,       \* frames written by the provider and not yet read
    closed,     \* the provider's end of the stream is closed or gone
    buffer,     \* ReadAhead: items read from the stream, not yet yielded
    drained,    \* ReadAhead: the wrapped stream has ended
    caller,     \* what the caller of request_tip / request_blocks has
    got,        \* blocks the caller received
    kind,       \* tip, blocks, or oversized: blocks, with more than
                \* MAX_ADDITIONAL_BLOCKS additional blocks
    protocol,   \* the protocol (era) the request goes over
    clientEra,  \* the requester's [current, old] protocols; old 0: none
    serverEra   \* the provider's

syncVars == <<client, server, wire, closed, buffer, drained, caller, got,
              kind, protocol, clientEra, serverEra>>

fixed == <<kind, protocol, clientEra, serverEra>>
streamVars == <<wire, closed, buffer, drained, got>>

\* Frames of a response: block i of the batch is the number i.
NoMoreBlocks == 0
Failure == -1
TipFrame == -2
Frame == (1 .. Batch) \cup {NoMoreBlocks, Failure, TipFrame}
Settled == {"dropped", "answered", "failed", "complete", "broken"}

SyncTypeOK ==
    /\ client \in [Requests -> {"idle", "sending", "receiving", "over"}]
    /\ server \in [Requests -> {"none", "arriving", "reading", "serving",
                                "closing", "over"}]
    /\ wire \in [Requests -> Seq(Frame)]
    /\ closed \in [Requests -> BOOLEAN] /\ drained \in [Requests -> BOOLEAN]
    /\ buffer \in [Requests -> Seq((1 .. Batch) \cup {Failure})]
    /\ caller \in [Requests -> {"none", "waiting", "streaming"} \cup Settled]
    /\ got \in [Requests -> Seq(1 .. Batch)]
    /\ kind \in [Requests -> {"none", "tip", "blocks", "oversized"}]
    /\ protocol \in [Requests -> 0 .. SyncEras]
    /\ clientEra \in [current : 1 .. SyncEras, old : 0 .. SyncEras]
    /\ serverEra \in [current : 1 .. SyncEras, old : 0 .. SyncEras]

SyncInit ==
    /\ client = [r \in Requests |-> "idle"]
    /\ server = [r \in Requests |-> "none"]
    /\ wire = [r \in Requests |-> <<>>]
    /\ buffer = [r \in Requests |-> <<>>]
    /\ closed = [r \in Requests |-> FALSE]
    /\ drained = [r \in Requests |-> FALSE]
    /\ caller = [r \in Requests |-> "none"]
    /\ got = [r \in Requests |-> <<>>]
    /\ kind = [r \in Requests |-> "none"]
    /\ protocol = [r \in Requests |-> 0]
    /\ clientEra = [current |-> 1, old |-> 0]
    /\ serverEra = [current |-> 1, old |-> 0]

-----------------------------------------------------------------------------
(* The requester.                                                          *)

\* request_tip, request_blocks: the request goes over the protocol spoken now.
Request(r, k) ==
    /\ client[r] = "idle"
    /\ kind' = [kind EXCEPT ![r] = k]
    /\ client' = [client EXCEPT ![r] = "sending"]
    /\ caller' = [caller EXCEPT ![r] = "waiting"]
    /\ protocol' = [protocol EXCEPT ![r] = clientEra.current]
    /\ UNCHANGED <<server, clientEra, serverEra, streamVars>>

\* send_tip_request, send_blocks_request succeed: the provider speaks the
\* protocol, the stream is open and the request is written to it.
RequestSent(r) ==
    /\ client[r] = "sending" /\ protocol[r] = serverEra.current
    /\ client' = [client EXCEPT ![r] = "receiving"]
    /\ server' = [server EXCEPT ![r] = "arriving"]
    /\ UNCHANGED <<caller, fixed, streamVars>>

\* They fail: the error is logged and the caller's reply channel dropped.
RequestNotSent(r) ==
    /\ client[r] = "sending"
    /\ client' = [client EXCEPT ![r] = "over"]
    /\ caller' = [caller EXCEPT ![r] = "dropped"]
    /\ UNCHANGED <<server, fixed, streamVars>>

\* receive_tip_response: a tip, a failure reported by the peer or a broken
\* stream answers the caller; a time-out returns before the reply is sent.
ReceiveTip(r) ==
    /\ client[r] = "receiving" /\ kind[r] = "tip"
    /\ client' = [client EXCEPT ![r] = "over"]
    /\ \/ /\ wire[r] # <<>>
          /\ caller' = [caller EXCEPT ![r] =
                IF Head(wire[r]) = TipFrame THEN "answered" ELSE "failed"]
       \/ /\ wire[r] = <<>> /\ closed[r]
          /\ caller' = [caller EXCEPT ![r] = "failed"]
       \/ caller' = [caller EXCEPT ![r] = "dropped"]
    /\ wire' = [wire EXCEPT ![r] = <<>>]
    /\ UNCHANGED <<server, closed, buffer, drained, got, fixed>>

\* receive_blocks_response: the caller is handed the stream; it owns it from
\* here on, and no table holds the download any more.
HandOverStream(r) ==
    /\ client[r] = "receiving" /\ kind[r] # "tip"
    /\ client' = [client EXCEPT ![r] = "over"]
    /\ caller' = [caller EXCEPT ![r] = "streaming"]
    /\ UNCHANGED <<server, fixed, streamVars>>

\* What the try_unfold stream yields for the frames it reads, the last of which
\* may be final: a block is an item, NoMoreBlocks ends the stream, Failure is an
\* error item that ends it.
Final == {NoMoreBlocks, Failure}
Ends(frames) == \E i \in DOMAIN frames : frames[i] \in Final
Items(frames) ==
    IF \E i \in DOMAIN frames : frames[i] = NoMoreBlocks
    THEN SubSeq(frames, 1, Len(frames) - 1) ELSE frames

\* A stream closed before a final frame is a read error.
EndOfFile == <<Failure>>

\* ReadAhead::poll_next by the caller: take the frames that are ready while
\* there is room, then yield the oldest item, or the end once nothing is left.
ReadBlocks(r) ==
    /\ caller[r] = "streaming"
    /\ \E k \in 0 .. Len(wire[r]), eof \in BOOLEAN :
         LET frames == SubSeq(wire[r], 1, k)
             ended == drained[r] \/ Ends(frames)
             items == buffer[r] \o Items(frames) \o
                      (IF eof THEN EndOfFile ELSE <<>>)
         IN /\ drained[r] => k = 0
            /\ \A i \in 1 .. k - 1 : wire[r][i] \notin Final
            /\ k > 0 => Len(buffer[r]) + k <= BufferItems
            /\ eof => /\ ~ended /\ closed[r] /\ k = Len(wire[r])
                      /\ Len(buffer[r]) + k < BufferItems
            /\ items # <<>> \/ ended \/ eof
            /\ drained' = [drained EXCEPT ![r] = ended \/ eof]
            /\ wire' = [wire EXCEPT ![r] =
                            IF ended \/ eof THEN <<>>
                                           ELSE SubSeq(@, k + 1, Len(@))]
            /\ buffer' = [buffer EXCEPT ![r] =
                            IF items = <<>> THEN <<>> ELSE Tail(items)]
            /\ IF items = <<>>
                  THEN /\ caller' = [caller EXCEPT ![r] = "complete"]
                       /\ UNCHANGED got
                  ELSE IF Head(items) = Failure
                  THEN /\ caller' = [caller EXCEPT ![r] = "broken"]
                       /\ UNCHANGED got
                  ELSE /\ got' = [got EXCEPT ![r] = Append(@, Head(items))]
                       /\ UNCHANGED caller
    /\ UNCHANGED <<client, server, closed, fixed>>

\* The next frame does not arrive within peer_response_timeout: an error item.
BlockTimeout(r) ==
    /\ caller[r] = "streaming" /\ ~drained[r]
    /\ Len(buffer[r]) < BufferItems
    /\ buffer' = [buffer EXCEPT ![r] = Append(@, Failure)]
    /\ drained' = [drained EXCEPT ![r] = TRUE]
    /\ wire' = [wire EXCEPT ![r] = <<>>]
    /\ UNCHANGED <<client, server, closed, caller, got, fixed>>

-----------------------------------------------------------------------------
(* The provider.                                                           *)

OnProtocol(r, stage) ==
    {q \in Requests : server[q] = stage /\ protocol[q] = protocol[r]}

\* handle_incoming_stream: a slot of receiving_requests, or rejected.
HandleIncomingStream(r) ==
    /\ server[r] = "arriving"
    /\ server' = [server EXCEPT ![r] =
                    IF Cardinality(OnProtocol(r, "reading")) >= MaxInbound
                    THEN "closing" ELSE "reading"]
    /\ UNCHANGED <<client, caller, fixed, streamVars>>

AdmittedFaulty(r) == kind[r] # "oversized"

\* admit_request: block requests have a limit of their own; tips have none.
Admitted(r) ==
    CASE kind[r] = "tip" -> TRUE
      [] kind[r] = "oversized" -> FALSE
      [] OTHER -> Cardinality({q \in OnProtocol(r, "serving") :
                                  kind[q] = "blocks"}) < MaxInbound

\* on_request_received: serve the request, or reject its stream.
OnRequestReceived(r) ==
    /\ server[r] = "reading"
    /\ server' = [server EXCEPT ![r] =
                    IF Admitted(r) THEN "serving" ELSE "closing"]
    /\ UNCHANGED <<client, caller, fixed, streamVars>>

\* The provider drops a stream it has not closed; what is in flight may be
\* lost from any point on.
Reset(r, from) ==
    /\ closed' = [closed EXCEPT ![r] = TRUE]
    /\ \E k \in 0 .. Len(from) :
           wire' = [wire EXCEPT ![r] = SubSeq(from, 1, k)]
    /\ UNCHANGED <<buffer, drained, got>>

\* receive_request times out or cannot decode: the stream is dropped.
ReceiveRequestFails(r) ==
    /\ server[r] = "reading"
    /\ server' = [server EXCEPT ![r] = "over"]
    /\ Reset(r, wire[r])
    /\ UNCHANGED <<client, caller, fixed>>

\* incoming_streams_to_close: the rejected stream is closed.
CloseRejected(r) ==
    /\ server[r] = "closing"
    /\ server' = [server EXCEPT ![r] = "over"]
    /\ closed' = [closed EXCEPT ![r] = TRUE]
    /\ UNCHANGED <<client, caller, fixed, wire, buffer, drained, got>>

\* Frames are only kept for a requester that may still read them.
Listening(r) == ~drained[r] /\ caller[r] \in {"waiting", "streaming"}
Written(r, frames) == IF Listening(r) THEN wire[r] \o frames ELSE <<>>

\* provide_tip: the service's tip, or a failure when it has none or dropped
\* the reply channel; then the stream is closed.  The write may fail.
ProvideTip(r) ==
    /\ server[r] = "serving" /\ kind[r] = "tip"
    /\ server' = [server EXCEPT ![r] = "over"]
    /\ closed' = [closed EXCEPT ![r] = TRUE]
    /\ \E frames \in {<<>>, <<TipFrame>>, <<Failure>>} :
           wire' = [wire EXCEPT ![r] = Written(r, frames)]
    /\ UNCHANGED <<client, caller, fixed, buffer, drained, got>>

\* How many blocks of the batch the provider has written so far, to a requester
\* that listens: until the response is over, no error and no final frame is on
\* the way.
SentSoFar(r) == Len(got[r]) + Len(buffer[r]) + Len(wire[r])

\* send_blocks: the next block of the service's stream is written.
SendBlock(r) ==
    /\ server[r] = "serving" /\ kind[r] = "blocks" /\ Listening(r)
    /\ SentSoFar(r) < Batch
    /\ wire' = [wire EXCEPT ![r] = Append(@, SentSoFar(r) + 1)]
    /\ UNCHANGED <<client, server, closed, buffer, drained, caller, got,
                   fixed>>

BlocksOverFaulty(r) == TRUE

\* send_blocks ends: after the last block NoMoreBlocks is written; when the
\* service has no stream or its stream fails, or a write fails or times out,
\* Failure is written if it can be.  Either way the stream is then closed.
BlocksOver(r) == SentSoFar(r) = Batch

SendBlocksEnds(r) ==
    /\ server[r] = "serving" /\ kind[r] = "blocks"
    /\ server' = [server EXCEPT ![r] = "over"]
    /\ closed' = [closed EXCEPT ![r] = TRUE]
    /\ \E frames \in {<<>>, <<NoMoreBlocks>>, <<Failure>>} :
           /\ frames = <<NoMoreBlocks>> => BlocksOver(r)
           /\ wire' = [wire EXCEPT ![r] = Written(r, frames)]
    /\ UNCHANGED <<client, caller, fixed, buffer, drained, got>>

\* inbound_download_stream_timeout bounds the whole response: the future is
\* dropped wherever it is, with its stream.
ProvideBlocksTimeout(r) ==
    /\ server[r] = "serving" /\ kind[r] = "blocks"
    /\ server' = [server EXCEPT ![r] = "over"]
    /\ Reset(r, wire[r])
    /\ UNCHANGED <<client, caller, fixed>>

-----------------------------------------------------------------------------
(* Eras.                                                                   *)

DropOldRequestsFaulty(keep) ==
    LET lost == {r \in Requests : /\ client[r] \in {"sending", "receiving"}
                                  /\ protocol[r] \notin keep}
    IN /\ client' = [r \in Requests |->
                        IF r \in lost THEN "over" ELSE client[r]]
       /\ UNCHANGED caller

\* start_new_era and finish_era_transition of the requester: a transition
\* still open is ended first, dropping the old protocol's futures and with
\* them the reply channels they hold.
DropOldRequests(keep) ==
    LET lost == {r \in Requests : /\ client[r] \in {"sending", "receiving"}
                                  /\ protocol[r] \notin keep}
    IN /\ client' = [r \in Requests |->
                        IF r \in lost THEN "over" ELSE client[r]]
       /\ caller' = [r \in Requests |->
                        IF r \in lost THEN "dropped" ELSE caller[r]]

ClientStartsNewEra ==
    /\ clientEra.current < SyncEras
    /\ clientEra' = [current |-> clientEra.current + 1,
                       old |-> clientEra.current]
    /\ DropOldRequests({clientEra.current})
    /\ UNCHANGED <<server, kind, protocol, serverEra, streamVars>>

ClientFinishesTransition ==
    /\ clientEra.old # 0
    /\ clientEra' = [clientEra EXCEPT !.old = 0]
    /\ DropOldRequests({clientEra.current})
    /\ UNCHANGED <<server, kind, protocol, serverEra, streamVars>>

\* The same of the provider: an ended protocol's futures are dropped with
\* their streams; a protocol that becomes the old one accepts no stream that
\* has not reached receiving_requests.
DropOldResponses(keep, accepting) ==
    LET lost == {r \in Requests :
                   \/ server[r] = "arriving" /\ protocol[r] \notin accepting
                   \/ /\ server[r] \in {"reading", "serving", "closing"}
                      /\ protocol[r] \notin keep}
    IN /\ server' = [r \in Requests |->
                        IF r \in lost THEN "over" ELSE server[r]]
       /\ closed' = [r \in Requests |-> closed[r] \/ r \in lost]
       /\ \E cut \in [lost -> 0 .. Batch + 1] :
             /\ \A r \in lost : cut[r] <= Len(wire[r])
             /\ wire' = [r \in Requests |-> IF r \in lost
                                            THEN SubSeq(wire[r], 1, cut[r])
                                            ELSE wire[r]]

ServerStartsNewEra ==
    /\ serverEra.current < SyncEras
    /\ serverEra' = [current |-> serverEra.current + 1,
                       old |-> serverEra.current]
    /\ DropOldResponses({serverEra.current}, {})
    /\ UNCHANGED <<client, buffer, drained, caller, got, kind, protocol,
                   clientEra>>

ServerFinishesTransition ==
    /\ serverEra.old # 0
    /\ serverEra' = [serverEra EXCEPT !.old = 0]
    /\ DropOldResponses({serverEra.current}, {serverEra.current})
    /\ UNCHANGED <<client, buffer, drained, caller, got, kind, protocol,
                   clientEra>>

-----------------------------------------------------------------------------
RequesterStep(r) ==
    RequestSent(r) \/ RequestNotSent(r) \/ ReceiveTip(r) \/ HandOverStream(r)
        \/ ReadBlocks(r) \/ BlockTimeout(r)

ProviderStep(r) ==
    HandleIncomingStream(r) \/ OnRequestReceived(r) \/ ReceiveRequestFails(r)
        \/ CloseRejected(r) \/ ProvideTip(r) \/ SendBlock(r)
        \/ SendBlocksEnds(r) \/ ProvideBlocksTimeout(r)

EraStep ==
    ClientStartsNewEra \/ ClientFinishesTransition
        \/ ServerStartsNewEra \/ ServerFinishesTransition

SyncNext ==
    \/ \E r \in Requests, k \in {"tip", "blocks", "oversized"} : Request(r, k)
    \/ \E r \in Requests : RequesterStep(r) \/ ProviderStep(r)
    \/ EraStep

\* When a step of either is enabled.
RequesterBusy(r) ==
    client[r] \in {"sending", "receiving"} \/ caller[r] = "streaming"
ProviderBusy(r) == server[r] \in {"arriving", "reading", "serving", "closing"}

\* The swarm polls the behaviour again and again (gossip heartbeats alone see
\* to it), callers poll the streams they hold, and time-outs fire: this is
\* weak fairness of the steps of both.
SyncFairness ==
    \A r \in Requests :
        /\ []<>~RequesterBusy(r) \/ []<><<RequesterStep(r)>>_syncVars
        /\ []<>~ProviderBusy(r) \/ []<><<ProviderStep(r)>>_syncVars

SyncSpec == SyncInit /\ [][SyncNext]_syncVars /\ SyncFairness

-----------------------------------------------------------------------------
\* A download never skips, repeats or reorders a block, and one that ends
\* without an error carried every block of the provider's stream: rejection,
\* time-outs, lost frames and the end of an era all surface as errors.
DownloadsAreWhole ==
    \A r \in Requests :
        /\ got[r] = [i \in 1 .. Len(got[r]) |-> i]
        /\ caller[r] = "complete" => Len(got[r]) = Batch

\* Per protocol, a node reads at most max_inbound_requests requests and serves
\* at most max_inbound_requests downloads, whatever the eras do meanwhile.
InboundBounded ==
    \A p \in 1 .. SyncEras :
        /\ Cardinality({r \in Requests : /\ server[r] = "reading"
                                         /\ protocol[r] = p}) <= MaxInbound
        /\ Cardinality({r \in Requests : /\ server[r] = "serving"
                                         /\ kind[r] = "blocks"
                                         /\ protocol[r] = p}) <= MaxInbound

\* A caller that still waits for its reply has a future that will settle it:
\* no future is dropped or forgotten with the reply channel left open.
NoForgottenCaller ==
    \A r \in Requests :
        caller[r] = "waiting" =>
            /\ client[r] \in {"sending", "receiving"}
            /\ protocol[r] \in {clientEra.current, clientEra.old}

\* Every request is settled: the caller of a tip request gets an answer or
\* sees the channel dropped, a download ends, completely or with an error.
EveryRequestSettles ==
    \A r \in Requests : caller[r] = "waiting" ~> caller[r] \in Settled

\* Every stream a peer opens leaves the provider's tables again.
EverySlotIsFreed ==
    \A r \in Requests : server[r] = "arriving" ~> server[r] = "over"
=============================================================================
