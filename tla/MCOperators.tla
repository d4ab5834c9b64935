----------------------------- MODULE MCOperators -----------------------------
(***************************************************************************)
(* What a node does for its operator beside the chain: the service that    *)
(* reports the node's activity and the miner of proof-of-work rewards.     *)
(* They share no state: a behaviour moves one of them.                     *)
(***************************************************************************)
EXTENDS SdpService, PowService

VARIABLE part

\* The reward window shrinks at slot 2.
MCWindows == [slot \in 0..4 |-> IF slot < 2 THEN 2 ELSE 1]
MCBlockSlots == <<{0}, {1}, {2, 4}>>

operatorVars == <<sdpServiceVars, powVars, part>>

OperatorsInit ==
    /\ part \in {"sdp", "pow"}
    /\ SdpServiceInit /\ PowInit

OfSdp(Action) ==
    part = "sdp" /\ Action /\ UNCHANGED <<powVars, part>>
OfPow(Action) ==
    part = "pow" /\ Action /\ UNCHANGED <<sdpServiceVars, part>>

OperatorsNext == OfSdp(SdpServiceNext) \/ OfPow(PowNext)

\* The fairness of FairSdpServiceSpec and FairPowSpec.
OperatorsSpec ==
    /\ OperatorsInit /\ [][OperatorsNext]_operatorVars
    /\ WF_operatorVars(OfSdp(EmptyBlock))
    /\ SF_operatorVars(OfSdp(Include))
    /\ WF_operatorVars(OfSdp(ReadBlock))
    /\ SF_operatorVars(OfSdp(CheckWell))
    /\ WF_operatorVars(OfSdp(StartSdp))
    /\ WF_operatorVars(OfPow(Retire))
    /\ []<>(holder.pool = NoRun /\ holder.armed /\ holder.ready # <<>>)
        => []<><<OfPow(AutoClaim)>>_operatorVars
    /\ []<>(holder.pool # NoRun) => []<><<OfPow(ClaimRound(TRUE))>>_operatorVars
=============================================================================
