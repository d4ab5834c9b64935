---------------------------- MODULE BlendPeering ----------------------------
(***************************************************************************)
(* The connections a Blend core node keeps with other core nodes: the      *)
(* libp2p behaviour (admission, handshakes, the choice between two         *)
(* connections with one peer, liveness, refusals, epochs) and the swarm    *)
(* task that dials to keep the peering degree.                             *)
(*                                                                         *)
(* Rounds are counted relatively: a handshake has an age, a refusal the    *)
(* rounds it has left, a neighbour the connected rounds it has been silent *)
(* for (up to the window).  The swarm polls its connections only once the  *)
(* behaviour has no event left, so what happens to a connection is guarded *)
(* by an empty queue; timers and commands of the service are not.          *)
(***************************************************************************)
EXTENDS Integers, FiniteSets, Sequences, SequencesExt, Maps

CONSTANTS Peers,            \* the other core nodes
          Members,          \* epoch -> the peers in its membership
          StartEpochs,      \* the epochs the node may start in
          MinNetwork,       \* minimum network size, this node included
          Degree,           \* epoch -> the target peering degree of its era
          Window,           \* epoch -> rounds of its liveness window and of a refusal
          HandshakeRounds,  \* rounds a handshake may take
          MaxDialAttempts,  \* dial attempts per connection
          LowerPeers,       \* the peers whose identity sorts below this node's
          Honest,           \* the peers that send only messages of their epoch
          MaxConnections,   \* bound: connections at once
          MaxJump           \* bound: rounds that pass between two polls

VARIABLES conns,      \* connection id -> its peer, direction, stage, handler
          core,       \* the behaviour
          swarm,      \* the dials, and whether a full retry is scheduled
          events,     \* the behaviour's events the swarm task has yet to see
          verifying,  \* peers with a proof being checked that will not verify
          spell       \* ghost: rounds a peer was held silent, see below

peeringVars == <<conns, core, swarm, events, verifying, spell>>

Epochs == DOMAIN Members
ConnIds == 1 .. MaxConnections

-----------------------------------------------------------------------------
(* The behaviour *)

MaximumPeers(b) == Degree[b.epoch] + 1
MinimumLivePeers(b) == SatSub(Degree[b.epoch], 1)
MinimumLiveDialed(b) == SatSub(Degree[b.epoch], 2)
MaximumAccepted(b) == MaximumPeers(b) - MinimumLiveDialed(b)

Blacklisted(b) == {b.blacklist[i].peer : i \in DOMAIN b.blacklist}
RefusedPeers(b) == Blacklisted(b) \cup DOMAIN b.refused

(* is_network_large_enough and membership.contains *)
LargeEnough(b) == Cardinality(Members[b.epoch]) + 1 >= MinNetwork

NegotiatedIds(b) == {b.negotiated[p] : p \in DOMAIN b.negotiated}

(* Connections of a direction among the negotiated and the waiting ones. *)
Directed(b, cs, dir) ==
  {id \in NegotiatedIds(b) \cup DOMAIN b.waiting : cs[id].dir = dir}

AvailableSlots(b) ==
  SatSub(MaximumPeers(b), Cardinality(DOMAIN b.negotiated) + Cardinality(DOMAIN b.waiting))

(* Handshakes do not count: accepted peers fill the node with them.        *)
CanAcceptFaulty(b, cs) ==
  /\ Cardinality(DOMAIN b.negotiated) < MaximumPeers(b)
  /\ Cardinality({p \in DOMAIN b.negotiated : cs[b.negotiated[p]].dir = "in"}) < MaximumAccepted(b)

CanAccept(b, cs) ==
  /\ AvailableSlots(b) > 0
  /\ Cardinality(Directed(b, cs, "in")) < MaximumAccepted(b)

HasConnection(b, cs, p, dir) == \E id \in Directed(b, cs, dir) : cs[id].peer = p

HandshakesWith(b, cs) == {cs[id].peer : id \in DOMAIN b.waiting}

Unhealthy(b, p) == p \in DOMAIN b.idle /\ b.idle[p] >= Window[b.epoch]
LivePeers(b) == {p \in DOMAIN b.negotiated : ~Unhealthy(b, p)}

(* connections_to_open, for the peers being dialed. *)
ConnectionsToOpen(b, cs, dialed) ==
  LET ongoing == dialed \ DOMAIN b.negotiated
      slotless == ongoing \ HandshakesWith(b, cs)
      own == {p \in LivePeers(b) : cs[b.negotiated[p]].dir = "out"}
      live == SatSub(MinimumLivePeers(b), Cardinality(LivePeers(b)))
      made == SatSub(MinimumLiveDialed(b), Cardinality(own))
      short == SatSub(IF live > made THEN live ELSE made, Cardinality(ongoing))
      room == SatSub(AvailableSlots(b), Cardinality(slotless))
  IN IF short < room THEN short ELSE room

(* close_connection: the handlers of these connections are told to close. *)
Ask(cs, ids) == [id \in DOMAIN cs |-> IF id \in ids THEN [cs[id] EXCEPT !.asked = TRUE] ELSE cs[id]]

(* What a failed handshake tells the swarm task: nothing when the          *)
(* connection is incoming.  "again" failures are dialed again, the others  *)
(* are not.                                                                *)
Failure(cs, id, again) ==
  IF cs[id].dir = "in" THEN <<>>
  ELSE <<[type |-> IF again THEN "failed" ELSE "turned_down", peer |-> cs[id].peer]>>

Success(cs, id) == IF cs[id].dir = "in" THEN <<>> ELSE <<[type |-> "succeeded", peer |-> cs[id].peer]>>

(* blacklist_peer: the offender is last to be evicted, and every           *)
(* connection with it is closed.                                           *)
InsertOrExtend(list, p, capacity, rounds) ==
  LET others == SelectSeq(list, LAMBDA e : e.peer # p)
      room == IF Len(others) = Len(list) /\ Len(list) >= capacity THEN Tail(list) ELSE others
  IN Append(room, [peer |-> p, left |-> rounds])

Offence(b, p) == [b EXCEPT !.blacklist = InsertOrExtend(@, p, 2 * Degree[b.epoch], Window[b.epoch])]

HeldWith(b, cs, p) ==
  {id \in NegotiatedIds(b) \cup DOMAIN b.waiting \cup {b.old[q] : q \in DOMAIN b.old} : cs[id].peer = p}

-----------------------------------------------------------------------------
(* The swarm task *)

ActiveDials(s) == {p \in DOMAIN s.dials : s.dials[p].state \in {"in_flight", "backing_off"}}
ConnectionsToDial(b, cs, s) == ConnectionsToOpen(b, cs, ActiveDials(s))

FreeIds(cs) == ConnIds \ DOMAIN cs
RoomFor(cs, n) == Cardinality(FreeIds(cs)) >= n

NewConnection(p, dir, stage, e) ==
  [peer |-> p, dir |-> dir, stage |-> stage, told |-> FALSE, asked |-> FALSE, epoch |-> e]

(* start_dial_attempt, for the peers of D at once. *)
Dial(b, r, D, attempt) ==
  LET ids == CHOOSE f \in [D -> FreeIds(r.conns)] : \A p, q \in D : f[p] = f[q] => p = q
      peer == [id \in {ids[p] : p \in D} |-> CHOOSE p \in D : ids[p] = id]
  IN [conns |-> [id \in DOMAIN r.conns \cup DOMAIN peer |->
                   IF id \in DOMAIN peer THEN NewConnection(peer[id], "out", "dialing", b.epoch)
                                         ELSE r.conns[id]],
      swarm |-> [r.swarm EXCEPT !.dials = [p \in DOMAIN @ \cup D |->
                   IF p \in D THEN [state |-> "in_flight", attempt |-> attempt, id |-> ids[p]]
                              ELSE @[p]]]]

(* The peers dial_random_peers_except may draw from. *)
Eligible(b, r, except) ==
  Members[b.epoch] \ (DOMAIN b.negotiated \cup RefusedPeers(b) \cup HandshakesWith(b, r.conns)
                        \cup DOMAIN r.swarm.dials \cup except)

GaveUpOn(r, except) == except # {} \/ DOMAIN r.swarm.dials # ActiveDials(r.swarm)

(* check_and_dial_new_peers_except: the possible results. *)
CheckAndDial(b, r, except) ==
  LET amount == ConnectionsToDial(b, r.conns, r.swarm)
      eligible == Eligible(b, r, except)
      drawn == IF Cardinality(eligible) < amount THEN Cardinality(eligible) ELSE amount
  IN IF ~LargeEnough(b) \/ amount = 0 THEN {r}
     ELSE IF eligible = {}
          THEN {IF GaveUpOn(r, except) THEN [r EXCEPT !.swarm.retry = TRUE] ELSE r}
          ELSE {Dial(b, r, D, 1) : D \in {D \in SUBSET eligible :
                                           Cardinality(D) = drawn /\ RoomFor(r.conns, drawn)}}

(* take_in_flight_dial: the dial to p is taken out, whatever connection an *)
(* upgrade event is about.                                                 *)
InFlight(s, p) == p \in DOMAIN s.dials /\ s.dials[p].state = "in_flight"
TakeDial(s, p) == [s EXCEPT !.dials = Without(@, {p})]

(* retry_or_give_up, for an attempt that has been taken out. *)
RetryOrGiveUp(b, r, p, attempt) ==
  LET Put(state) == [r EXCEPT !.swarm.dials = With(@, p, [state |-> state, attempt |-> attempt + 1, id |-> 0])]
  IN IF p \in RefusedPeers(b) THEN CheckAndDial(b, r, {})
     ELSE IF attempt + 1 > MaxDialAttempts THEN CheckAndDial(b, Put("exhausted"), {})
     ELSE {Put("backing_off")}

(* handle_blend_core_behaviour_event *)
EventResults(b, r, e) ==
  CASE e.type = "disconnected" -> CheckAndDial(b, r, {e.peer})
    [] ~InFlight(r.swarm, e.peer) -> {r}
    [] OTHER ->
       LET taken == [r EXCEPT !.swarm = TakeDial(@, e.peer)]
       IN CASE e.type = "failed" -> RetryOrGiveUp(b, taken, e.peer, r.swarm.dials[e.peer].attempt)
            [] e.type = "turned_down" -> CheckAndDial(b, taken, {e.peer})
            [] e.type = "succeeded" -> {taken}

State == [conns |-> conns, swarm |-> swarm]
Becomes(results) == \E r \in results : conns' = r.conns /\ swarm' = r.swarm

HandleEvent ==
  /\ events # <<>>
  /\ Becomes(EventResults(core, State, Head(events)))
  /\ events' = Tail(events)
  /\ UNCHANGED <<core, verifying, spell>>

(* The periodic check of the peering degree. *)
DegreeCheck ==
  /\ Becomes(CheckAndDial(core, State, {}))
  /\ UNCHANGED <<core, events, verifying, spell>>

(* execute_retry *)
ExecuteRetry(p) ==
  /\ p \in DOMAIN swarm.dials /\ swarm.dials[p].state = "backing_off"
  /\ LET r == [State EXCEPT !.swarm = TakeDial(@, p)]
     IN Becomes(IF p \in DOMAIN core.negotiated \cup HandshakesWith(core, conns) THEN {r}
                ELSE IF p \in RefusedPeers(core) THEN CheckAndDial(core, r, {})
                ELSE IF ConnectionsToDial(core, conns, r.swarm) = 0 THEN {r}
                ELSE IF RoomFor(conns, 1) THEN {Dial(core, r, {p}, swarm.dials[p].attempt)}
                ELSE {})
  /\ UNCHANGED <<core, events, verifying, spell>>

(* The delayed retry of the whole membership. *)
FullRetry ==
  /\ swarm.retry
  /\ LET exhausted == {p \in DOMAIN swarm.dials : swarm.dials[p].state = "exhausted"}
         r == [State EXCEPT !.swarm = [dials |-> Without(swarm.dials, exhausted), retry |-> FALSE]]
     IN Becomes(CheckAndDial(core, r, {}))
  /\ UNCHANGED <<core, events, verifying, spell>>

-----------------------------------------------------------------------------
(* Connections.  A connection that gets a dummy handler, or is denied,     *)
(* leaves nothing behind: libp2p closes it at once.                        *)

Quiet == events = <<>>

(* handle_established_inbound_connection, for one that is admitted. *)
Accepted(p) ==
  /\ Quiet /\ RoomFor(conns, 1)
  /\ p \notin RefusedPeers(core)
  /\ CanAccept(core, conns)
  /\ ~HasConnection(core, conns, p, "in")
  /\ LargeEnough(core) /\ p \in Members[core.epoch]
  /\ LET id == Min(FreeIds(conns))
     IN /\ conns' = With(conns, id, NewConnection(p, "in", "up", core.epoch))
        /\ core' = [core EXCEPT !.waiting = With(@, id, 0)]
  /\ UNCHANGED <<swarm, events, verifying, spell>>

(* handle_established_outbound_connection: the node has a slot for it, or  *)
(* the swarm task is told the dial failed.                                 *)
Outbound(b, cs, id) ==
  /\ AvailableSlots(b) > 0
  /\ ~HasConnection(b, cs, cs[id].peer, "out")
  /\ LargeEnough(b) /\ cs[id].peer \in Members[b.epoch]

Dialed(id) ==
  /\ Quiet /\ conns[id].stage = "dialing"
  /\ conns[id].peer \notin RefusedPeers(core)
  /\ IF Outbound(core, conns, id)
     THEN /\ conns' = [conns EXCEPT ![id].stage = "up", ![id].epoch = core.epoch]
          /\ core' = [core EXCEPT !.waiting = With(@, id, 0)]
          /\ UNCHANGED events
     ELSE /\ conns' = Without(conns, {id})
          /\ events' = Failure(conns, id, FALSE)
          /\ UNCHANGED core
  /\ UNCHANGED <<swarm, verifying, spell>>

(* OutgoingConnectionError, a denied connection included: only an error of *)
(* the connection in flight is acted upon.  Retrying some errors is        *)
(* useless, and their peers are dropped for the epoch (abandon_peer).      *)
DialFails(id, recoverable) ==
  /\ Quiet /\ conns[id].stage = "dialing"
  /\ LET p == conns[id].peer
         gone == [State EXCEPT !.conns = Without(@, {id})]
         taken == [gone EXCEPT !.swarm = TakeDial(@, p)]
         dropped == [taken EXCEPT !.swarm.dials = With(@, p, [state |-> "unrecoverable", attempt |-> 0, id |-> 0])]
     IN Becomes(IF ~(InFlight(swarm, p) /\ swarm.dials[p].id = id) THEN {gone}
                ELSE IF recoverable THEN RetryOrGiveUp(core, taken, p, swarm.dials[p].attempt)
                ELSE CheckAndDial(core, dropped, {}))
  /\ UNCHANGED <<core, events, verifying, spell>>

(* handle_connected_peer_reverse_connection: which of the two connections  *)
(* stays.                                                                  *)
CloseEstablished(cs, existing) ==
  IF cs[existing].dir = "in" THEN cs[existing].peer \in LowerPeers
                             ELSE cs[existing].peer \notin LowerPeers

(* handle_negotiated_connection and what it calls: the behaviour after it, *)
(* the connections to close, and the event for the swarm task.             *)
Negotiated(b0, cs, id) ==
  LET p == cs[id].peer
      b == [b0 EXCEPT !.waiting = Without(@, {id})]
      TurnDown == [core |-> b, close |-> {id}, event |-> Failure(cs, id, FALSE)]
      Keep(close) ==
        [core |-> [b EXCEPT !.negotiated = With(@, p, id),
                            !.idle = IF p \in DOMAIN @ THEN @ ELSE With(@, p, 0)],
         close |-> close, event |-> Success(cs, id)]
  IN IF id \notin DOMAIN b0.waiting THEN [core |-> b0, close |-> {}, event |-> <<>>]
     ELSE IF p \in RefusedPeers(b) THEN TurnDown
     ELSE IF p \in DOMAIN b.negotiated
          THEN LET existing == b.negotiated[p]
               IN IF cs[existing].dir # cs[id].dir /\ CloseEstablished(cs, existing)
                  THEN Keep({existing}) ELSE TurnDown
     ELSE IF cs[id].dir = "out" \/ CanAccept(b, cs) THEN Keep({}) ELSE TurnDown

(* The handler's notice that a substream of the connection came up, given  *)
(* once, before any message; closing may have been asked meanwhile.        *)
FullyNegotiated(id) ==
  /\ Quiet /\ conns[id].stage = "up" /\ ~conns[id].told
  /\ LET n == Negotiated(core, conns, id)
     IN /\ core' = n.core
        /\ conns' = Ask([conns EXCEPT ![id].told = TRUE], n.close)
        /\ events' = n.event
  /\ UNCHANGED <<swarm, verifying, spell>>

(* on_swarm_event, for a connection that closed: the peer may close one at *)
(* any time, and the node closes what it asked to close.                   *)
ClosedCore(b, cs, id) ==
  LET p == cs[id].peer
      Holds(f) == p \in DOMAIN f /\ f[p] = id
      forgotten == IF p \in DOMAIN b.refused THEN {p} ELSE {}
  IN IF Holds(b.old) THEN [core |-> [b EXCEPT !.old = Without(@, {p})], event |-> <<>>]
     ELSE IF id \in DOMAIN b.waiting
          THEN [core |-> [b EXCEPT !.waiting = Without(@, {id})], event |-> Failure(cs, id, TRUE)]
     ELSE IF Holds(b.negotiated)
          THEN [core |-> [b EXCEPT !.negotiated = Without(@, {p}), !.idle = Without(@, forgotten)],
                event |-> <<[type |-> "disconnected", peer |-> p]>>]
     ELSE [core |-> b, event |-> <<>>]

Closed(id) ==
  /\ Quiet /\ conns[id].stage = "up"
  /\ core' = ClosedCore(core, conns, id).core
  /\ events' = ClosedCore(core, conns, id).event
  /\ conns' = Without(conns, {id})
  /\ UNCHANGED <<swarm, verifying, spell>>

-----------------------------------------------------------------------------
(* Messages.  A frame whose header does not verify blacklists its sender   *)
(* at once; the proof of quota of the others is checked elsewhere, under   *)
(* the epoch the connection is taken to belong to.                         *)

Old(b, cs, id) == LET p == cs[id].peer IN p \in DOMAIN b.old /\ b.old[p] = id

Received(id, genuine) ==
  /\ Quiet /\ conns[id].stage = "up" /\ conns[id].told
  /\ genuine \/ conns[id].peer \notin Honest
  /\ LET p == conns[id].peer
         now == IF Old(core, conns, id) THEN core.epoch - 1 ELSE core.epoch
         counted == p \in DOMAIN core.negotiated /\ core.negotiated[p] = id
         verifies == genuine /\ conns[id].epoch = now
     IN /\ verifying' = IF verifies THEN verifying ELSE verifying \cup {p}
        /\ core' = IF counted THEN [core EXCEPT !.idle[p] = 0] ELSE core
        /\ spell' = IF counted THEN [spell EXCEPT ![p] = 0] ELSE spell
  /\ UNCHANGED <<conns, swarm, events>>

BlacklistPeer(p) ==
  /\ core' = Offence(core, p)
  /\ conns' = Ask(conns, HeldWith(core, conns, p))

Undecodable(id) ==
  /\ Quiet /\ conns[id].stage = "up" /\ conns[id].told
  /\ conns[id].peer \notin Honest
  /\ BlacklistPeer(conns[id].peer)
  /\ UNCHANGED <<swarm, events, verifying, spell>>

(* handle_poq_verification_outcome, for a proof that does not verify. *)
Verified(p) ==
  /\ Quiet /\ p \in verifying
  /\ verifying' = verifying \ {p}
  /\ BlacklistPeer(p)
  /\ UNCHANGED <<swarm, events, spell>>

-----------------------------------------------------------------------------
(* Rounds and epochs *)

(* The round changes in poll: n rounds have passed since it was polled.    *)
Aged(b, n) ==
  [b EXCEPT !.idle = [p \in DOMAIN @ |->
                        IF p \in DOMAIN b.negotiated /\ @[p] < Window[b.epoch] THEN @[p] + 1 ELSE @[p]],
            !.waiting = [id \in DOMAIN @ |-> @[id] + n],
            !.refused = [p \in DOMAIN @ |-> @[p] - n],
            !.blacklist = [i \in DOMAIN @ |-> [@[i] EXCEPT !.left = @ - n]]]

PruneRefusals(b) ==
  [b EXCEPT !.refused = Without(@, {p \in DOMAIN @ : @[p] <= 0}),
            !.blacklist = SelectSeq(@, LAMBDA e : e.left > 0)]

Tick(n) ==
  LET aged == Aged(core, n)
      stale == {id \in DOMAIN aged.waiting : aged.waiting[id] >= HandshakeRounds}
      silent == {p \in DOMAIN aged.negotiated : Unhealthy(aged, p)}
      refused == [p \in DOMAIN aged.refused \cup silent |->
                    IF p \in silent THEN Window[core.epoch] ELSE aged.refused[p]]
  IN /\ core' = PruneRefusals([aged EXCEPT !.waiting = Without(@, stale), !.refused = refused])
     /\ conns' = Ask(conns, stale \cup {core.negotiated[p] : p \in silent})
     /\ \E order \in SetToSeqs(stale) :
          events' = events \o FlattenSeq([i \in DOMAIN order |-> Failure(conns, order[i], TRUE)])
     /\ spell' = [p \in Peers |-> IF p \in silent \cup DOMAIN core.refused THEN 0
                                  ELSE IF p \in DOMAIN core.negotiated THEN spell[p] + 1
                                  ELSE spell[p]]
     /\ UNCHANGED <<swarm, verifying>>

(* What a new epoch closes: the handshakes under way and what was left of
   the epoch before. *)
Dropped(b) == DOMAIN b.waiting \cup {b.old[p] : p \in DOMAIN b.old}

StartNewEpoch ==
  /\ core.epoch + 1 \in Epochs
  /\ LET b == [core EXCEPT !.epoch = @ + 1, !.waiting = <<>>, !.negotiated = <<>>, !.idle = <<>>,
                           !.old = core.negotiated,
                           !.blacklist = LET over == Len(@) - 2 * Degree[core.epoch + 1]
                                         IN IF over > 0 THEN SubSeq(@, over + 1, Len(@)) ELSE @]
         r == [conns |-> Ask(conns, Dropped(core)), swarm |-> [dials |-> <<>>, retry |-> FALSE]]
     IN core' = b /\ Becomes(CheckAndDial(b, r, {}))
  /\ spell' = [p \in Peers |-> 0]
  /\ UNCHANGED <<events, verifying>>

(* finish_epoch_transition *)
FinishTransition ==
  /\ core.old # <<>>
  /\ core' = [core EXCEPT !.old = <<>>]
  /\ conns' = Ask(conns, {core.old[p] : p \in DOMAIN core.old})
  /\ UNCHANGED <<swarm, events, verifying, spell>>

-----------------------------------------------------------------------------
Started(e) == [negotiated |-> <<>>, waiting |-> <<>>, old |-> <<>>, idle |-> <<>>,
               refused |-> <<>>, blacklist |-> <<>>, epoch |-> e]

PeeringInit ==
  /\ core \in {Started(e) : e \in StartEpochs}
  /\ events = <<>> /\ verifying = {} /\ spell = [p \in Peers |-> 0]
  /\ \E r \in CheckAndDial(core, [conns |-> <<>>, swarm |-> [dials |-> <<>>, retry |-> FALSE]], {}) :
       conns = r.conns /\ swarm = r.swarm

PeeringNext ==
  \/ HandleEvent \/ DegreeCheck \/ FullRetry \/ StartNewEpoch \/ FinishTransition
  \/ \E n \in 1 .. MaxJump : Tick(n)
  \/ \E p \in Peers : Accepted(p) \/ ExecuteRetry(p) \/ Verified(p)
  \/ \E id \in DOMAIN conns :
       \/ Dialed(id) \/ FullyNegotiated(id) \/ Closed(id) \/ Undecodable(id)
       \/ \E b \in BOOLEAN : DialFails(id, b) \/ Received(id, b)

PeeringSpec == PeeringInit /\ [][PeeringNext]_peeringVars

-----------------------------------------------------------------------------
(* Connections kept and handshakes in progress never exceed the maximum    *)
(* degree, and those other nodes opened never exceed their share of it, so *)
(* a handshake that completes still has the slot it was admitted with.     *)
DegreeIsBounded ==
  /\ Cardinality(DOMAIN core.negotiated) + Cardinality(DOMAIN core.waiting) <= MaximumPeers(core)
  /\ Cardinality(Directed(core, conns, "in")) <= MaximumAccepted(core)

(* A connection with a Blend handler is accounted for: it is a handshake,  *)
(* a neighbour of this epoch or of the old one, or it was told to close.   *)
(* One that is none of these would stay open with nobody to close it.      *)
NoLeakedConnection ==
  \A id \in DOMAIN conns :
    conns[id].stage = "up" =>
      conns[id].asked \/ id \in DOMAIN core.waiting \/ id \in NegotiatedIds(core) \/ Old(core, conns, id)

(* A dial the swarm task counts as in flight is one: its connection is     *)
(* being made or shaking hands, or the event that settles it is queued.    *)
(* Otherwise the peer is never dialed again, and counts as being dialed.   *)
InFlightIsReal ==
  \A p \in DOMAIN swarm.dials :
    swarm.dials[p].state = "in_flight" =>
      LET id == swarm.dials[p].id
      IN \/ id \in DOMAIN conns /\ conns[id].peer = p
                /\ (conns[id].stage = "dialing" \/ id \in DOMAIN core.waiting)
         \/ \E i \in DOMAIN events : events[i].peer = p /\ events[i].type # "disconnected"

(* A peer that delivers nothing keeps its place for no more than the       *)
(* window, however often it disconnects and comes back: spell counts the   *)
(* rounds it was held since it last delivered or was last refused.         *)
SilenceIsCounted == \A p \in Peers : spell[p] < Window[core.epoch]

(* A peer this node refuses never becomes a neighbour, even when its       *)
(* handshake was under way when the refusal came.                          *)
RefusedStaysOut ==
  [][\A p \in RefusedPeers(core) :
       p \in DOMAIN core'.negotiated => p \in DOMAIN core.negotiated]_peeringVars

(* Connections are counted, accounted for and given to those who deserve   *)
(* them.                                                                   *)
PeeringIsSound ==
  /\ [](DegreeIsBounded /\ NoLeakedConnection /\ InFlightIsReal /\ SilenceIsCounted)
  /\ RefusedStaysOut
=============================================================================
