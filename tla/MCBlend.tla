------------------------------ MODULE MCBlend -------------------------------
(***************************************************************************)
(* The Blend network of a core node: its service across epochs and         *)
(* restarts, its connections, and the two ends of a connection that both   *)
(* nodes dial.  They share no state: a behaviour moves one of them.        *)
(***************************************************************************)
EXTENDS BlendCore, BlendPeering, BlendPair

CONSTANTS p1, p2

VARIABLE part

MCQuota   == [e \in 0..2 |-> IF e = 0 THEN 2 ELSE 1]
\* The epoch that p2 joins has a lower degree and a shorter window.
MCMembers == [e \in 0..1 |-> IF e = 0 THEN {p1} ELSE {p1, p2}]
MCDegree  == [e \in 0..1 |-> IF e = 0 THEN 2 ELSE 1]
MCRounds  == [e \in 0..1 |-> IF e = 0 THEN 2 ELSE 1]

blendVars == <<coreVars, peeringVars, pairVars, part>>

OfCore(Action) ==
    part = "core" /\ Action /\ UNCHANGED <<peeringVars, pairVars, part>>
OfPeering(Action) ==
    part = "peering" /\ Action /\ UNCHANGED <<coreVars, pairVars, part>>
OfPair(Action) ==
    part = "pair" /\ Action /\ UNCHANGED <<coreVars, peeringVars, part>>

\* Crashes, messages of other nodes and a third epoch: any two of them.
CoreScope == \/ trail'.mishaps = 0
             \/ trail'.incoming = 0
             \/ clock'.epoch <= 1

\* A third connection only once there are two members.
PeeringScope == Cardinality(DOMAIN conns') <= 2 \/ core'.epoch = 1

BlendInit ==
    /\ part \in {"core", "peering", "pair"}
    /\ CoreInit /\ PeeringInit /\ PairInit

BlendNext ==
    \/ OfCore(CoreNext /\ CoreScope)
    \/ OfPeering(PeeringNext /\ PeeringScope)
    \/ OfPair(PairNext)

\* The fairness of FairCoreSpec.
BlendSpec ==
    /\ BlendInit /\ [][BlendNext]_blendVars
    /\ WF_blendVars(OfCore(Save))
    /\ WF_blendVars(OfCore(RoundStep))
    /\ WF_blendVars(OfCore(OldRoundStep))
    /\ WF_blendVars(OfCore(EncapsulateStep))
    /\ WF_blendVars(OfCore(DeadlineStep))
=============================================================================
