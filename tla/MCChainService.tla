--------------------------- MODULE MCChainService ----------------------------
(***************************************************************************)
(* Small instances of the chain service and of its block provider for TLC. *)
(***************************************************************************)
EXTENDS BlockProvider

CONSTANTS
  MaxSlot,    \* the slots of blocks are 1..MaxSlot
  CrashSlot,  \* a service that crashes sees the slots 1..CrashSlot only
  Tags        \* tell apart blocks with the same parent and the same slot

MCHeaders == [slot : 1..MaxSlot, tag : Tags]

FromGenesis == {Genesis}
KOne    == [s \in 0..MaxSlot |-> 1]
SGenOne == [s \in 0..MaxSlot |-> 1]

MCServiceNext ==
  \/ \E parent \in ledger, header \in Headers :
       /\ crashes = 0 \/ header.slot <= CrashSlot
       /\ ApplyBlock(parent, header)
  \/ ServiceStep
  \/ SwitchToOnline \/ RecordState \/ SaveState \/ Start
  \/ (\A b \in store : SlotOf(b) <= CrashSlot) /\ Crash

\* The fairness is that of FairServiceSpec.
MCServiceSpec ==
  /\ ServiceInit /\ [][MCServiceNext]_svars
  /\ WF_svars(ServiceStep) /\ WF_svars(Start)

==============================================================================
