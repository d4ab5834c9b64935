------------------------------ MODULE BlendPair ------------------------------
(***************************************************************************)
(* Two Blend core nodes that dial each other.  Each resolves its two       *)
(* connections with the other on its own, by comparing identities, at the  *)
(* moment its own handler reports the second one; the choices have to      *)
(* agree, or the nodes close both connections and are left with none.      *)
(***************************************************************************)
EXTENDS Integers, FiniteSets, Maps

CONSTANT MaxLinks   \* bound: connections made in all

VARIABLES links,    \* connection -> its dialer and where each end stands
          made      \* connections made so far

pairVars == <<links, made>>

Nodes == {"low", "high"}
Other(n) == IF n = "low" THEN "high" ELSE "low"

(* An end is "new" until the node admits the connection, "waiting" until   *)
(* its handler reports it, then "held" or "closed".                        *)
Stages == {"new", "waiting", "held", "closed"}

Direction(id, n) == IF links[id].dialer = n THEN "out" ELSE "in"
At(n, stages) == {id \in DOMAIN links : links[id].end[n] \in stages}

SetEnd(ls, id, n, stage) == [ls EXCEPT ![id].end[n] = stage]

(* The swarm task draws the other node: it has no connection with it and   *)
(* is not dialing it.                                                      *)
DialOther(n) ==
  /\ made < MaxLinks
  /\ At(n, {"waiting", "held"}) = {}
  /\ \A id \in At(n, {"new"}) : Direction(id, n) = "in"
  /\ made' = made + 1
  /\ links' = With(links, made + 1, [dialer |-> n, end |-> [m \in Nodes |-> "new"]])

(* handle_established_(in|out)bound_connection *)
Establish(n, id) ==
  /\ links[id].end[n] = "new"
  /\ LET taken == \E other \in At(n, {"waiting", "held"}) : Direction(other, n) = Direction(id, n)
     IN links' = SetEnd(links, id, n, IF taken THEN "closed" ELSE "waiting")
  /\ UNCHANGED made

(* Each node prefers the connection it dialed. *)
CloseHeldFaulty(n, dir) == dir = "in"

(* handle_connected_peer_reverse_connection, at node n that holds a        *)
(* connection of direction dir.                                            *)
CloseHeld(n, dir) == IF dir = "in" THEN n = "high" ELSE n = "low"

(* handle_negotiated_connection: a substream of the connection is up, so   *)
(* the other end has a Blend handler.                                      *)
Report(n, id) ==
  /\ links[id].end[n] = "waiting"
  /\ links[id].end[Other(n)] \in {"waiting", "held"}
  /\ LET kept == SetEnd(links, id, n, "held")
         closed == SetEnd(links, id, n, "closed")
     IN links' =
          IF At(n, {"held"}) = {} THEN kept
          ELSE LET held == CHOOSE other \in At(n, {"held"}) : TRUE
               IN IF Direction(held, n) # Direction(id, n) /\ CloseHeld(n, Direction(held, n))
                  THEN SetEnd(kept, held, n, "closed") ELSE closed
  /\ UNCHANGED made

(* An end the other one closed goes away. *)
Gone(n, id) ==
  /\ links[id].end[n] # "closed" /\ links[id].end[Other(n)] = "closed"
  /\ links' = SetEnd(links, id, n, "closed")
  /\ UNCHANGED made

PairInit == links = <<>> /\ made = 0

PairNext ==
  \E n \in Nodes :
    \/ DialOther(n)
    \/ \E id \in DOMAIN links : Establish(n, id) \/ Report(n, id) \/ Gone(n, id)

PairSpec == PairInit /\ [][PairNext]_pairVars

-----------------------------------------------------------------------------
Resolved == \A id \in DOMAIN links : \/ \A n \in Nodes : links[id].end[n] = "held"
                                     \/ \A n \in Nodes : links[id].end[n] = "closed"

(* When nodes that dialed each other have settled, they hold one           *)
(* connection, the same one.                                               *)
PairKeepsOne ==
  (Resolved /\ made > 0) => Cardinality(At("low", {"held"})) = 1
=============================================================================
