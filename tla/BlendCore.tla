------------------------------ MODULE BlendCore ------------------------------
(***************************************************************************)
(* The core service of the Blend network (services/blend/src/core): the    *)
(* queues of local payloads, the scheduler of an epoch and the one of the  *)
(* epoch before while its transition lasts, the recovery checkpoint, the   *)
(* activity proof, the failure detector, retirement, crash and restart.    *)
(*                                                                         *)
(* A message is [payload, n]: n = 0 is the payload itself, fully           *)
(* decapsulated, any other n one encapsulation of it.  A token collector   *)
(* is the fact that it holds a token.  The rounds, cover messages and      *)
(* quota are counted.  Overwatch keeps the last value a handler saved; a   *)
(* handler that acts on the outside before its save is two steps, so that  *)
(* a crash may fall between them.                                          *)
(***************************************************************************)
EXTENDS Integers, FiniteSets, Sequences, SequencesExt, Maps

CONSTANTS
    Proposals,          \* block proposals this node may have to blend
    Transactions,       \* transactions it may have to blend
    Foreign,            \* payloads of other nodes
    CoreQuota,          \* epoch -> core quota
    Layers,             \* num_blend_layers
    RoundsPerEpoch,
    MaxReleaseDelay,    \* maximum_release_delay_in_rounds
    Copies,             \* data_replication_factor + 1
    MaxEpoch,           \* bound: the last epoch
    MaxPayloads,        \* bound: local payloads handed over
    MaxIncoming,        \* bound: messages that arrive
    MaxMishaps          \* bound: crashes

VARIABLES
    clock,      \* the epoch the membership stream would yield now: its
                \* number, and whether its membership calls for core mode
    service,    \* what the running service holds
    checkpoint, \* the recovery checkpoint it carries (ServiceState)
    disk,       \* the checkpoint last saved
    detector,   \* the failure detector: encapsulated, blended
    wire,       \* payload broadcasts the detector has not read yet
    trail       \* what happened so far

coreVars == <<clock, service, checkpoint, disk, detector, wire, trail>>

Local == Proposals \cup Transactions
NoEpoch == -1
Message(payload, n) == [payload |-> payload, n |-> n]

----------------------------------------------------------------------------
(* Cover traffic and the schedulers. *)

\* EpochCoverTraffic::new, for what is left of the core quota.
CoverTraffic(quota) ==
    LET count == quota \div Layers
    IN  [messages |-> IF count <= RoundsPerEpoch THEN count ELSE RoundsPerEpoch,
         rounds |-> RoundsPerEpoch, skips |-> 0]

\* consume_round: the outcomes the coin flips leave open.
ConsumeRound(c) ==
    IF c.rounds = 0 THEN {[cover |-> c, emit |-> FALSE]}
    ELSE LET quiet == [c EXCEPT !.rounds = @ - 1]
             used == [quiet EXCEPT !.messages = @ - 1]
         IN  {[cover |-> quiet, emit |-> FALSE] : x \in {y \in {0} : c.messages < c.rounds}}
             \cup {[cover |-> used, emit |-> TRUE] :
                     x \in {y \in {0} : c.messages > 0 /\ c.skips < c.messages}}
             \cup {[cover |-> [used EXCEPT !.skips = @ - 1], emit |-> FALSE] :
                     x \in {y \in {0} : c.messages > 0 /\ c.skips > 0}}

\* queue_data_message_and_skip_cover_message for a proposal,
\* queue_data_message_without_skipping_cover_message for a transaction.
QueueData(s, m) ==
    [s EXCEPT !.data = @ \cup {m},
              !.cover.skips = IF m.payload \in Proposals THEN @ + 1 ELSE @]

\* consume: what an epoch leaves to its transition.
OldScheduler(s) == [epoch |-> s.epoch, data |-> s.data, processed |-> s.processed,
                    wait |-> s.wait]

Payloads(s) == {m.payload : m \in s.data \cup s.processed}

NoOld == [epoch |-> NoEpoch, data |-> {}, processed |-> {}, wait |-> 1]

----------------------------------------------------------------------------
(* The recovery checkpoint. *)

\* ServiceState::with_epoch; the collectors must belong to the epoch and the
\* one before it.
WithEpoch(epoch, pending, old) ==
    [epoch |-> epoch, spent |-> 0, processed |-> {}, data |-> {},
     pending |-> pending, tokens |-> FALSE, old |-> old]

NoCollector == [epoch |-> NoEpoch, tokens |-> FALSE]
NoState == WithEpoch(NoEpoch, <<>>, NoCollector)

Down == [stage |-> "down", epoch |-> 0, queue |-> <<>>, pending |-> <<>>,
         data |-> {}, processed |-> {}, cover |-> [messages |-> 0, rounds |-> 0, skips |-> 0],
         wait |-> 1, old |-> NoOld, tokens |-> FALSE, saving |-> FALSE]
NoDetector == [encapsulated |-> <<>>, blended |-> <<>>]

Running == service.stage \in {"current", "transition"}
Idle == ~service.saving

\* commit_changes: the checkpoint is saved by the time the handler returns.
Commit(c) == checkpoint' = c /\ disk' = c

\* The same, with the outside world already acted upon: a crash may come
\* before the save.
CommitLate(c, sofar) == checkpoint' = c /\ disk' = sofar

Save ==
    /\ service.saving
    /\ disk' = checkpoint
    /\ service' = [service EXCEPT !.saving = FALSE]
    /\ UNCHANGED <<clock, checkpoint, detector, wire, trail>>

----------------------------------------------------------------------------
(* Local payloads. *)

\* handle_service_message: a transaction is queued and saved with the
\* checkpoint, a proposal is queued with its copies.
Submit(payload) ==
    /\ Running /\ Idle
    /\ payload \notin trail.accepted /\ Cardinality(trail.accepted) < MaxPayloads
    /\ trail' = [trail EXCEPT !.accepted = @ \cup {payload}]
    /\ IF payload \in Transactions
       THEN /\ service' = [service EXCEPT !.pending = Append(@, payload)]
            /\ Commit([checkpoint EXCEPT !.pending = Append(@, payload)])
       ELSE /\ service' = [service EXCEPT !.queue =
                             Append(@, [payload |-> payload, copies |-> Copies])]
            /\ UNCHANGED <<checkpoint, disk>>
    /\ UNCHANGED <<clock, detector, wire>>

\* next_local_message: proposals first.
HasNext == service.queue # <<>> \/ service.pending # <<>>
NextPayload == IF service.queue # <<>> THEN Head(service.queue).payload
                                       ELSE Head(service.pending)

\* mark_copy_as_sent, mark_as_sent.
MarkAsSent(s) ==
    IF s.queue = <<>> THEN [s EXCEPT !.pending = Tail(@)]
    ELSE IF Head(s.queue).copies = 1 THEN [s EXCEPT !.queue = Tail(@)]
    ELSE [s EXCEPT !.queue[1].copies = @ - 1]

\* FailureDetector::mark_payload_as_encapsulated.
MarkEncapsulatedFaulty(d, m) == d

MarkEncapsulated(d, m) ==
    [d EXCEPT !.encapsulated = With(@, m, service.epoch)]

\* schedule_local_encapsulated_message: the outermost layers may be this
\* node's own; what is left of them is a data message, a processed message
\* or the payload.
ScheduledFaulty(m, peeled) ==
    IF peeled = "none"
    THEN [s |-> QueueData(service, m), c |-> checkpoint, d |-> MarkEncapsulated(detector, m)]
    ELSE [s |-> [service EXCEPT !.processed = @ \cup {m}],
          c |-> [checkpoint EXCEPT !.processed = @ \cup {m}, !.tokens = TRUE],
          d |-> MarkEncapsulated(detector, m)]

Scheduled(m, peeled) ==
    CASE peeled = "none" -> [s |-> QueueData(service, m),
                             c |-> [checkpoint EXCEPT !.data = @ \cup {m}],
                             d |-> MarkEncapsulated(detector, m)]
      [] peeled = "some" -> [s |-> [service EXCEPT !.processed = @ \cup {m}],
                             c |-> [checkpoint EXCEPT !.processed = @ \cup {m}, !.tokens = TRUE],
                             d |-> MarkEncapsulated(detector, m)]
      [] peeled = "all"  -> LET bare == Message(m.payload, 0)
                            IN  [s |-> [service EXCEPT !.processed = @ \cup {bare}],
                                 c |-> [checkpoint EXCEPT !.processed = @ \cup {bare},
                                                          !.tokens = TRUE],
                                 d |-> detector]

\* handle_current_epoch_event, Encapsulated: a transaction leaves the saved
\* queue only after its message was saved.
Encapsulated(peeled) ==
    /\ Running /\ Idle /\ HasNext
    /\ LET payload == NextPayload
           m == Message(payload, trail.serial + 1)
           out == Scheduled(m, peeled)
       IN  /\ detector' = out.d
           /\ IF service.queue # <<>>
              THEN /\ service' = MarkAsSent(out.s)
                   /\ Commit(out.c)
              ELSE /\ service' = [MarkAsSent(out.s) EXCEPT !.saving = TRUE]
                   /\ CommitLate([out.c EXCEPT !.pending = Tail(@)], out.c)
           /\ trail' = [trail EXCEPT !.serial = @ + 1, !.encapsulated = @ \cup {payload}]
    /\ UNCHANGED <<clock, wire>>

\* Discard: the head can never be encapsulated.
Discard ==
    /\ Running /\ Idle /\ HasNext
    /\ trail' = [trail EXCEPT !.dropped = @ \cup {NextPayload}]
    /\ IF service.queue # <<>>
       THEN /\ service' = [service EXCEPT !.queue = Tail(@)]
            /\ UNCHANGED <<checkpoint, disk>>
       ELSE /\ service' = [service EXCEPT !.pending = Tail(@)]
            /\ Commit([checkpoint EXCEPT !.pending = Tail(@)])
    /\ UNCHANGED <<clock, detector, wire>>

----------------------------------------------------------------------------
(* Messages of other nodes. *)

\* handle_incoming_blend_message of the current epoch; the layers of this node
\* leave a cover message, a payload or a message to pass on.
Incoming(left) ==
    /\ Running /\ Idle
    /\ trail.incoming < MaxIncoming
    /\ trail' = [trail EXCEPT !.incoming = @ + 1]
    /\ service' = [service EXCEPT !.processed = @ \cup left]
    /\ Commit([checkpoint EXCEPT !.processed = @ \cup left, !.tokens = TRUE])
    /\ UNCHANGED <<clock, detector, wire>>

\* The same for the epoch before, while it is in transition: only the token
\* enters the checkpoint.
IncomingFromOldEpoch(left) ==
    /\ service.stage \in {"transition", "retiring"} /\ Idle
    /\ trail.incoming < MaxIncoming
    /\ trail' = [trail EXCEPT !.incoming = @ + 1]
    /\ IF service.stage = "transition"
       THEN /\ service' = [service EXCEPT !.old.processed = @ \cup left]
            /\ Commit([checkpoint EXCEPT !.old.tokens = TRUE])
       ELSE /\ service' = [service EXCEPT !.old.processed = @ \cup left, !.tokens = TRUE]
            /\ UNCHANGED <<checkpoint, disk>>
    /\ UNCHANGED <<clock, detector, wire>>

----------------------------------------------------------------------------
(* Release rounds and the failure detector. *)

\* mark_encapsulated_payload_as_released for each message that goes out: the
\* deadline of its payload starts, whether or not an earlier copy was seen.
MarkReleased(d, sent) ==
    LET mine == sent \cap DOMAIN d.encapsulated
        payloads == {m.payload : m \in mine}
    IN  [encapsulated |-> Without(d.encapsulated, mine),
         blended |-> [p \in DOMAIN d.blended \cup payloads |->
                        IF p \in DOMAIN d.blended THEN d.blended[p] ELSE FALSE]]

\* Fully decapsulated payloads are dispatched, everything else is published.
Dispatched(sent) == {m.payload : m \in {x \in sent : x.n = 0}}
Published(sent) == {m.payload : m \in {x \in sent : x.n # 0}}

NoteSent(sent) ==
    [trail EXCEPT !.published = @ \cup Published(sent), !.out = @ \cup Dispatched(sent)]

\* The processed messages due this round, and the delays that may follow.
Due(s) == IF s.wait = 1 THEN s.processed ELSE {}
NextWaits(s) == IF s.wait = 1 THEN 1..MaxReleaseDelay ELSE {s.wait - 1}

\* handle_release_round: everything is sent, the checkpoint forgets it, and the
\* quota of a cover message is recorded, before the checkpoint is saved.
Round(flip, wait, own) ==
    /\ Running /\ Idle
    /\ flip \in ConsumeRound(service.cover)
    /\ wait \in NextWaits(service)
    /\ own => flip.emit
    /\ LET sent == service.data \cup Due(service)
           c == [checkpoint EXCEPT !.data = @ \ sent, !.processed = @ \ sent,
                                   !.spent = IF flip.emit THEN @ + Layers ELSE @,
                                   !.tokens = @ \/ own]
       IN  /\ checkpoint' = c
           /\ service' = [service EXCEPT !.data = {}, !.processed = @ \ sent,
                                         !.cover = flip.cover, !.wait = wait,
                                         !.saving = (c # checkpoint)]
           /\ detector' = MarkReleased(detector, sent)
           /\ trail' = NoteSent(sent)
    /\ UNCHANGED <<clock, disk, wire>>

\* handle_release_round_for_old_epoch: no cover message, no checkpoint.
OldRound(wait) ==
    /\ service.stage \in {"transition", "retiring"} /\ Idle
    /\ wait \in NextWaits(service.old)
    /\ LET sent == service.old.data \cup Due(service.old)
       IN  /\ service' = [service EXCEPT !.old.data = {}, !.old.processed = @ \ sent,
                                         !.old.wait = wait]
           /\ detector' = MarkReleased(detector, sent)
           /\ trail' = NoteSent(sent)
    /\ UNCHANGED <<clock, checkpoint, disk, wire>>

\* The network delivers a payload this node published: its exit node
\* broadcasts it, once.
Delivered(payload) ==
    /\ payload \in trail.published \ trail.out
    /\ trail' = [trail EXCEPT !.out = @ \cup {payload}]
    /\ wire' = IF service.stage = "down" THEN wire ELSE wire \cup {payload}
    /\ UNCHANGED <<clock, service, checkpoint, disk, detector>>

\* mark_payload_as_delivered for what the broadcast stream holds.
Read == [p \in DOMAIN detector.blended |-> detector.blended[p] \/ p \in wire]

ReadBroadcasts ==
    /\ service.stage # "down" /\ Idle /\ wire # {}
    /\ detector' = [detector EXCEPT !.blended = Read]
    /\ wire' = {}
    /\ UNCHANGED <<clock, service, checkpoint, disk, trail>>

\* poll_next of the failure detector: broadcasts are read before the clock,
\* the payloads past their deadline go, those not delivered in the clear.
DeadlinesPass(expired) ==
    /\ service.stage # "down" /\ Idle
    /\ expired # {} /\ expired \subseteq DOMAIN detector.blended
    /\ LET undelivered == {p \in expired : ~Read[p]}
       IN  /\ detector' = [detector EXCEPT !.blended = Without(Read, expired)]
           /\ trail' = [trail EXCEPT !.revealed = @ \cup undelivered,
                                     !.out = @ \cup undelivered]
    /\ wire' = {}
    /\ UNCHANGED <<clock, service, checkpoint, disk>>

----------------------------------------------------------------------------
(* Epochs. *)

NextEpoch ==
    /\ clock.epoch < MaxEpoch
    /\ \E core \in BOOLEAN : clock' = [epoch |-> clock.epoch + 1, core |-> core]
    /\ UNCHANGED <<service, checkpoint, disk, detector, wire, trail>>

\* The process stops, in a panic or otherwise: only the disk stays.
Stop == /\ service' = Down
        /\ checkpoint' = NoState
        /\ detector' = NoDetector
        /\ wire' = {}

\* handle_epoch_event with a core membership: the scheduler becomes the old
\* one, queued proposals go, transactions stay, the collector rotates.  An
\* epoch that was skipped fails the check of ServiceState::new.
Rotate(wait) ==
    /\ Running /\ Idle
    /\ clock.epoch > service.epoch /\ clock.core
    /\ IF clock.epoch = service.epoch + 1
       THEN /\ service' = [Down EXCEPT
                 !.stage = "transition", !.epoch = clock.epoch, !.pending = service.pending,
                 !.cover = CoverTraffic(CoreQuota[clock.epoch]), !.wait = wait,
                 !.old = OldScheduler(service)]
            /\ Commit(WithEpoch(clock.epoch, checkpoint.pending,
                                [epoch |-> service.epoch, tokens |-> checkpoint.tokens]))
            /\ trail' = [trail EXCEPT
                 !.dropped = @ \cup {service.queue[i].payload : i \in DOMAIN service.queue}
                               \cup Payloads(service.old),
                 !.overtaken = @ \/ service.stage = "transition"]
            /\ UNCHANGED <<detector, wire>>
       ELSE /\ Stop
            /\ trail' = [trail EXCEPT !.stopped = TRUE]
            /\ UNCHANGED disk
    /\ UNCHANGED clock

\* handle_epoch_event without one: the service retires.  What it saved stays
\* on disk.
Retire ==
    /\ Running /\ Idle
    /\ clock.epoch > service.epoch /\ ~clock.core
    /\ service' = [Down EXCEPT !.stage = "retiring", !.epoch = clock.epoch, !.tokens = checkpoint.tokens,
                               !.old = OldScheduler(service)]
    /\ checkpoint' = NoState
    /\ trail' = [trail EXCEPT !.stopped = TRUE, !.overtaken = @ \/ service.stage = "transition"]
    /\ UNCHANGED <<clock, disk, detector, wire>>

\* A new epoch before the transition of a retiring one is over is a panic.
RetireOvertaken ==
    /\ service.stage = "retiring" /\ clock.epoch > service.epoch
    /\ Stop
    /\ UNCHANGED <<clock, disk, trail>>

\* drop_unreleased_payloads_for_epoch.
DropUnreleased(d, epoch) ==
    [d EXCEPT !.encapsulated =
        Without(@, {m \in DOMAIN @ : @[m] = epoch})]

\* TransitionPeriodExpired: what the old epoch did not release is dropped, its
\* activity proof is submitted, its collector goes.
TransitionExpires ==
    /\ service.stage \in {"transition", "retiring"} /\ Idle
    /\ detector' = DropUnreleased(detector, service.old.epoch)
    /\ trail' = [trail EXCEPT
         !.evaluated = @ \cup {service.old.epoch},
         !.dropped = @ \cup Payloads(service.old)]
    /\ IF service.stage = "transition"
       THEN /\ service' = [service EXCEPT !.stage = "current", !.old = NoOld, !.saving = TRUE]
            /\ checkpoint' = [checkpoint EXCEPT !.old = NoCollector]
       ELSE /\ service' = [Down EXCEPT !.stage = "draining", !.epoch = service.epoch]
            /\ UNCHANGED checkpoint
    /\ UNCHANGED <<clock, disk, wire>>

\* drain_pending_message_queue returns once every payload left is delivered.
Drained ==
    /\ service.stage = "draining"
    /\ \A p \in DOMAIN detector.blended : detector.blended[p] \/ p \in wire
    /\ Stop
    /\ UNCHANGED <<clock, disk, trail>>

Crash ==
    /\ service.stage # "down"
    /\ trail.mishaps < MaxMishaps
    /\ Stop
    /\ trail' = [trail EXCEPT !.mishaps = @ + 1, !.stopped = TRUE]
    /\ UNCHANGED <<clock, disk>>

----------------------------------------------------------------------------
(* initialize: the checkpoint of this epoch is taken up; of an older one only *)
(* the transactions are, and the tokens if it is the epoch before.  The proof *)
(* of an old collector is submitted before the cleared checkpoint is saved.   *)

Recovered(saved, epoch) ==
    IF saved.epoch = epoch THEN saved
    ELSE WithEpoch(epoch, saved.pending,
                   IF saved.epoch # NoEpoch /\ saved.epoch + 1 = epoch
                   THEN [epoch |-> saved.epoch, tokens |-> saved.tokens]
                   ELSE NoCollector)

\* The cover messages the rest of the quota pays for.
CoverLeft(saved) == CoverTraffic(SatSub(CoreQuota[saved.epoch], saved.spent))

Restart(wait) ==
    /\ service.stage = "down" /\ clock.core
    /\ LET saved == Recovered(disk, clock.epoch)
           cleared == [saved EXCEPT !.old = NoCollector]
       IN  /\ service' = [Down EXCEPT
                !.stage = "current", !.epoch = clock.epoch, !.pending = cleared.pending,
                !.data = cleared.data, !.processed = cleared.processed, !.wait = wait,
                !.cover = [CoverLeft(cleared) EXCEPT
                             !.skips = Cardinality({m \in cleared.data : m.payload \in Proposals})],
                !.saving = (saved # cleared)]
           /\ checkpoint' = cleared
           /\ disk' = saved
           /\ trail' = [trail EXCEPT !.evaluated =
                          @ \cup ({saved.old.epoch} \ {NoEpoch})]
    /\ UNCHANGED <<clock, detector, wire>>

----------------------------------------------------------------------------
CoreInit ==
    /\ clock = [epoch |-> 0, core |-> TRUE]
    /\ service = Down
    /\ checkpoint = NoState
    /\ disk = NoState
    /\ detector = NoDetector
    /\ wire = {}
    /\ trail = [accepted |-> {}, encapsulated |-> {}, dropped |-> {}, published |-> {},
                out |-> {}, revealed |-> {}, evaluated |-> {}, serial |-> 0,
                incoming |-> 0, mishaps |-> 0, overtaken |-> FALSE, stopped |-> FALSE]

\* What a message of another node leaves behind: nothing (cover), its payload,
\* or a message to pass on.
Leftovers == {{}} \cup {{Message(p, n)} : p \in Foreign, n \in 0..1}

RoundStep == \E flip \in ConsumeRound(service.cover), wait \in 1..MaxReleaseDelay, own \in BOOLEAN :
                Round(flip, wait, own)
OldRoundStep == \E wait \in 1..MaxReleaseDelay : OldRound(wait)
EncapsulateStep == (\E peeled \in {"none", "some", "all"} : Encapsulated(peeled)) \/ Discard
DeadlineStep == \E expired \in SUBSET DOMAIN detector.blended : DeadlinesPass(expired)

CoreNext ==
    \/ Save \/ RoundStep \/ OldRoundStep \/ EncapsulateStep \/ DeadlineStep
    \/ \E payload \in Local : Submit(payload) \/ Delivered(payload)
    \/ \E left \in Leftovers : Incoming(left) \/ IncomingFromOldEpoch(left)
    \/ ReadBroadcasts \/ NextEpoch \/ Retire \/ RetireOvertaken
    \/ TransitionExpires \/ Drained \/ Crash
    \/ \E wait \in 1..MaxReleaseDelay : Rotate(wait) \/ Restart(wait)

CoreSpec == CoreInit /\ [][CoreNext]_coreVars

\* Rounds tick, saves complete, deadlines pass and proofs for the next local
\* message are found or refused.
FairCoreSpec ==
    CoreSpec /\ WF_coreVars(Save) /\ WF_coreVars(RoundStep) /\ WF_coreVars(OldRoundStep)
             /\ WF_coreVars(EncapsulateStep) /\ WF_coreVars(DeadlineStep)

----------------------------------------------------------------------------
(* Between handlers, a restart in the same epoch finds exactly what the     *)
(* service still has to do: the checkpoint names the messages the scheduler *)
(* holds and the transactions that wait, its old collector is there exactly *)
(* while the epoch before is in transition (collect_old_epoch_tokens and    *)
(* dequeue_transaction panic otherwise), and it is what was saved.          *)
CheckpointIsFaithful ==
    Running =>
        /\ checkpoint.epoch = service.epoch
        /\ checkpoint.data = service.data
        /\ checkpoint.processed = service.processed
        /\ checkpoint.pending = service.pending
        /\ checkpoint.old.epoch = service.old.epoch
        /\ Idle => disk = checkpoint

(* The cover messages still planned for an epoch fit in the rounds that are  *)
(* left and in the core quota that is left, also after restarts: generating  *)
(* one never runs out of proofs of quota (the expect of                      *)
(* generate_and_try_to_decapsulate_cover_message, the assert of              *)
(* consume_round).                                                           *)
CoverWithinQuota ==
    Running =>
        /\ service.cover.messages <= service.cover.rounds
        /\ checkpoint.spent + Layers * service.cover.messages <= CoreQuota[service.epoch]

(* A transaction handed over survives crashes, epochs and retirement until   *)
(* it is encapsulated or found impossible to encapsulate.                    *)
TransactionsKept ==
    (trail.accepted \cap Transactions) \ (trail.encapsulated \cup trail.dropped)
        \subseteq {disk.pending[i] : i \in DOMAIN disk.pending}

(* The failure detector reveals no payload that never left for the network.  *)
RevealedWasPublished == trail.revealed \subseteq trail.published

(* Unless an epoch ends while the one before is still in transition, the     *)
(* detector waits only for messages a scheduler still holds.                 *)
ClaimsAreLive ==
    ~trail.overtaken =>
        DOMAIN detector.encapsulated \subseteq
            service.data \cup service.processed \cup service.old.data \cup service.old.processed

Held == {e \in 0..MaxEpoch : \/ disk.epoch = e /\ disk.tokens
                             \/ disk.old.epoch = e /\ disk.old.tokens}

(* Saved tokens are not lost before the epoch after next: they are kept, or   *)
(* turned into an activity proof, across crashes and rotations.              *)
TokensOutliveTheirEpoch ==
    [][\A e \in Held : e \in Held' \/ e \in trail'.evaluated \/ clock'.epoch >= e + 2]_coreVars

(* What the service holds, has promised and has saved agree. *)
CoreIsSound ==
    /\ [](/\ CheckpointIsFaithful /\ CoverWithinQuota /\ TransactionsKept
          /\ RevealedWasPublished /\ ClaimsAreLive)
    /\ TokensOutliveTheirEpoch

(* A payload handed over gets out: the network delivers it, this node is its *)
(* exit, the deadline reveals it; or it is dropped with its epoch, or the    *)
(* service stops.                                                            *)
PayloadsGetOut ==
    (trail.accepted # {}) ~> \/ trail.accepted \subseteq trail.out \cup trail.dropped
                             \/ trail.stopped
=============================================================================
