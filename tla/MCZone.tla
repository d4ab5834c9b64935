------------------------------- MODULE MCZone -------------------------------
(***************************************************************************)
(* A small instance of the zone sequencer.  A chain on which the stream    *)
(* breaks or the sequencer restarts has configurations or messages of      *)
(* other sequencers, but not both.                                         *)
(***************************************************************************)
EXTENDS ZoneSequencer

Mined == UNION {chain[b].tx : b \in 1..Len(chain)}

WithConfigs == Of("cfg", posted \cup Mined \cup DOMAIN sequencer.pending) # {}
WithOthers  == \E t \in Mined : Range(t.id) \cap OtherPayloads # {}

MCZoneNext ==
    /\ ZoneNext
    /\ link'.breaks = 0 \/ ~WithConfigs' \/ ~WithOthers'

MCZoneSpec == ZoneInit /\ [][MCZoneNext]_zoneVars
=============================================================================
