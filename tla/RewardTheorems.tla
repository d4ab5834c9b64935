--------------------------- MODULE RewardTheorems ---------------------------
(***************************************************************************)
(* Theorems about what the ledger pays.  The service declaration protocol: *)
(* providers serve with a stake, can report for the epoch they served in   *)
(* and keep their place while they do, a signed message counts once and    *)
(* rewards are paid out of income, for all sets of providers, every        *)
(* inactivity period the code allows and every minimum network size.  The  *)
(* pools of leaders and miners: they pay what came in, whatever the        *)
(* shares, windows and fees.                                               *)
(***************************************************************************)
EXTENDS SdpLedger, RewardPools, SumTheorems

-----------------------------------------------------------------------------
(* The inductive invariant. *)

DeclarationType ==
    [provider_id : ProviderIds, note : Notes, created : Nat, active : Nat,
     withdraw_at : Nat, sequence : Nat]

\* The registry, its index and the locks are the same relation, read from
\* either side, and a declaration past its withdrawal is gone.
RegistryInv ==
    /\ epoch \in 0 .. MaxEpoch
    /\ declarations \in [DOMAIN declarations -> DeclarationType]
    /\ RegistryIsConsistent
    /\ \A p \in DOMAIN provider_index : declarations[provider_index[p]].provider_id = p
    /\ \A n \in DOMAIN service_notes : declarations[service_notes[n]].note = n
    /\ \A z \in DOMAIN declarations :
            declarations[z].created <= epoch /\ declarations[z].withdraw_at >= epoch

\* A snapshot for the epoch that is ahead of this one by so many is of
\* declarations that are in the registry, stay there until that epoch is over,
\* and are old enough unless they are of genesis.
SnapshotInv(snapshot, ahead) ==
    \A z \in DOMAIN snapshot :
        /\ z \in DOMAIN declarations
        /\ declarations[z].created = snapshot[z].created
        /\ declarations[z].provider_id = snapshot[z].provider_id
        /\ declarations[z].withdraw_at > epoch + ahead
        /\ declarations[z].created + SNAPSHOT_FINALIZATION_DELAY <= epoch + ahead
            \/ declarations[z].created = 0

\* The providers of the target epoch are in the registry, and whoever of them
\* reported is active in this epoch.
TargetInv ==
    /\ \A p \in DOMAIN target.providers :
        /\ p \in DOMAIN provider_index
        /\ provider_index[p] = target.providers[p]
        /\ declarations[provider_index[p]].created + SNAPSHOT_FINALIZATION_DELAY < epoch
            \/ declarations[provider_index[p]].created = 0
    /\ \A p \in DOMAIN tracker.proofs :
        /\ p \in DOMAIN target.providers
        /\ declarations[provider_index[p]].active = epoch

\* Genesis declarations serve from epoch 0 on, two epochs before any other: the
\* first two epochs have the same snapshot, so that if the first can be reported
\* on, the second can.
GenesisInv ==
    /\ epoch = 0 => /\ DOMAIN active_declarations = DOMAIN next_active_declarations
                    /\ ~HasTarget
    /\ epoch = 1 /\ HasTarget =>
        /\ ~(Cardinality(DOMAIN active_declarations) < MinimumNetworkSize)
        /\ \A p \in DOMAIN target.providers :
                target.providers[p] \in DOMAIN active_declarations

\* Its report in epoch 1 sets a genesis declaration's activity back by one
\* epoch, which does not matter as it is due to report in epoch 2.
EarlyInv ==
    \A z \in DOMAIN declarations :
        declarations[z].active < declarations[z].created + SNAPSHOT_FINALIZATION_DELAY =>
            /\ declarations[z].created = 0 /\ declarations[z].active = 1 /\ epoch # 0
            /\ epoch = 1 => z \in DOMAIN active_declarations /\ HasTarget
            /\ epoch = 2 => \/ z \in history.idle
                            \/ declarations[z].provider_id \in DOMAIN target.providers

\* Whoever keeps reporting is in the next snapshot too.
KeepsPlaceNext ==
    \A z \in DOMAIN declarations :
        \/ z \in history.idle
        \/ declarations[z].withdraw_at # Never
        \/ epoch + 1 < declarations[z].created + SNAPSHOT_FINALIZATION_DELAY
        \/ z \in DOMAIN next_active_declarations

PlacesInv == GenesisInv /\ EarlyInv /\ ReportingKeepsOnesPlace /\ KeepsPlaceNext

\* The nonces of a declaration's earlier lives are of earlier epochs.
ReplayInv ==
    \A m \in history.accepted :
        /\ m[2].lifecycle_epoch \in Nat /\ m[2].sequence \in Nat
        /\ m[1] \notin DOMAIN declarations => m[2].lifecycle_epoch < epoch
        /\ m[1] \in DOMAIN declarations =>
            /\ m[2].lifecycle_epoch <= declarations[m[1]].created
            /\ m[2].lifecycle_epoch = declarations[m[1]].created
                => m[2].sequence <= declarations[m[1]].sequence

\* Premiums are for reports, and what is promised has come in.
IncomeInv ==
    /\ tracker = [proofs |-> tracker.proofs, min_distance |-> tracker.min_distance,
                  premium |-> tracker.premium]
    /\ IsFiniteSet(DOMAIN tracker.proofs) /\ tracker.premium \subseteq DOMAIN tracker.proofs
    /\ tracker.min_distance \in Nat
    /\ history = [accepted |-> history.accepted, idle |-> history.idle,
                  income |-> history.income, paid |-> history.paid]
    /\ target.income \in Nat /\ epoch_income \in Nat
    /\ history.paid \in Nat /\ history.income \in Nat
    /\ history.paid + target.income + epoch_income <= history.income

SdpInv ==
    /\ RegistryInv
    /\ SnapshotInv(active_declarations, 0) /\ SnapshotInv(next_active_declarations, 1)
    /\ TargetInv /\ PlacesInv /\ ReplayInv /\ IncomeInv

-----------------------------------------------------------------------------
(* The registry. *)

\* What the constants are.
LEMMA SdpConstants ==
    /\ InactivityPeriod \in Nat /\ InactivityPeriod >= 2 /\ MaxEpoch \in Nat
    /\ SNAPSHOT_FINALIZATION_DELAY = 2 /\ Never = MaxEpoch + 3 /\ Never \in Nat
    /\ MinimumNetworkSize \in Nat \ {0} /\ BlockIncome \in Nat /\ MaxSequence \in Nat
    /\ Distances \subseteq Nat
  BY SdpAssumption DEF SNAPSHOT_FINALIZATION_DELAY, Never

\* Reading a declaration.
LEMMA DeclarationFields ==
    ASSUME RegistryInv, NEW z \in DOMAIN declarations
    PROVE  /\ declarations[z] \in DeclarationType
           /\ declarations[z].created \in Nat /\ declarations[z].active \in Nat
           /\ declarations[z].withdraw_at \in Nat /\ declarations[z].sequence \in Nat
           /\ declarations[z].created <= epoch /\ declarations[z].withdraw_at >= epoch
           /\ epoch \in Nat /\ epoch <= MaxEpoch
PROOF
<1>1. declarations[z] \in DeclarationType /\ epoch \in 0 .. MaxEpoch
  BY Zenon DEF RegistryInv
<1> QED  BY <1>1, SdpConstants DEF RegistryInv, DeclarationType

\* The genesis registry is consistent.
LEMMA RegistryInit ==
    ASSUME SdpInit
    PROVE  /\ RegistryInv /\ DOMAIN declarations = DOMAIN Genesis
           /\ \A z \in DOMAIN declarations :
                /\ declarations[z].created = 0 /\ declarations[z].active = 2
                /\ declarations[z].withdraw_at = Never /\ declarations[z].sequence = 0
PROOF
<1> USE SdpConstants
<1>1. /\ epoch = 0 /\ utxos = Notes /\ DOMAIN declarations = DOMAIN Genesis
      /\ DOMAIN provider_index = {Genesis[z].provider_id : z \in DOMAIN Genesis}
      /\ DOMAIN service_notes = {Genesis[z].note : z \in DOMAIN Genesis}
  BY Zenon DEF SdpInit
<1>2. ASSUME NEW z \in DOMAIN Genesis
      PROVE  /\ declarations[z] = NewDeclaration(0, Genesis[z].provider_id, Genesis[z].note)
             /\ Genesis[z].provider_id \in ProviderIds /\ Genesis[z].note \in Notes
             /\ provider_index[Genesis[z].provider_id] = z /\ service_notes[Genesis[z].note] = z
  <2>1. /\ declarations[z] = NewDeclaration(0, Genesis[z].provider_id, Genesis[z].note)
        /\ Genesis[z].provider_id \in ProviderIds /\ Genesis[z].note \in Notes
    BY Zenon, SdpAssumption DEF SdpInit
  <2>2. provider_index[Genesis[z].provider_id] =
          CHOOSE y \in DOMAIN Genesis : Genesis[y].provider_id = Genesis[z].provider_id
    BY Zenon DEF SdpInit
  <2>3. service_notes[Genesis[z].note] =
          CHOOSE y \in DOMAIN Genesis : Genesis[y].note = Genesis[z].note
    BY Zenon DEF SdpInit
  <2>4. \A y \in DOMAIN Genesis :
          /\ Genesis[y].provider_id = Genesis[z].provider_id => y = z
          /\ Genesis[y].note = Genesis[z].note => y = z
    BY Zenon, SdpAssumption
  <2>5. (CHOOSE y \in DOMAIN Genesis : Genesis[y].provider_id = Genesis[z].provider_id) = z
    BY Zenon, <2>4
  <2>6. (CHOOSE y \in DOMAIN Genesis : Genesis[y].note = Genesis[z].note) = z
    BY Zenon, <2>4
  <2> QED  BY Zenon, <2>1, <2>2, <2>3, <2>5, <2>6
<1>3. ASSUME NEW z \in DOMAIN declarations
      PROVE  /\ declarations[z] \in DeclarationType
             /\ declarations[z].provider_id = Genesis[z].provider_id
             /\ declarations[z].note = Genesis[z].note
             /\ declarations[z].created = 0 /\ declarations[z].active = 2
             /\ declarations[z].withdraw_at = Never /\ declarations[z].sequence = 0
  BY <1>1, <1>2 DEF NewDeclaration, DeclarationType
<1>4. declarations \in [DOMAIN declarations -> DeclarationType]
  <2>1. declarations = [z \in DOMAIN declarations |-> declarations[z]]
    BY Zenon DEF SdpInit
  <2> QED  BY Zenon, <1>3, <2>1
<1>5. RegistryIsConsistent
  BY <1>1, <1>2, <1>3 DEF RegistryIsConsistent
<1>6. /\ \A p \in DOMAIN provider_index : declarations[provider_index[p]].provider_id = p
      /\ \A n \in DOMAIN service_notes : declarations[service_notes[n]].note = n
  BY <1>1, <1>2, <1>3
<1> QED  BY <1>1, <1>3, <1>4, <1>5, <1>6 DEF RegistryInv

\* remove_withdrawn_declarations takes the same declarations from the registry,
\* the index and the locks.
LEMMA RemoveWithdrawnKeeps ==
    ASSUME RegistryInv, NEW e \in 1 .. MaxEpoch, e > epoch, epoch' = e, RemoveWithdrawn(e),
           utxos' = utxos
    PROVE  /\ RegistryInv'
           /\ \A z \in DOMAIN declarations' :
                /\ z \in DOMAIN declarations /\ declarations'[z] = declarations[z]
                /\ declarations[z].withdraw_at >= e
           /\ \A z \in DOMAIN declarations :
                declarations[z].withdraw_at >= e => z \in DOMAIN declarations'
PROOF
<1> DEFINE X == Expired(e)
<1>0. e \in Nat /\ epoch \in Nat
  BY SdpConstants DEF RegistryInv
<1>1. /\ declarations' = Without(declarations, X)
      /\ provider_index' = Without(provider_index, {declarations[z].provider_id : z \in X})
      /\ service_notes' = Without(service_notes, {declarations[z].note : z \in X})
  BY Zenon DEF RemoveWithdrawn
<1>2. /\ X \subseteq DOMAIN declarations
      /\ \A z \in DOMAIN declarations : z \in X <=> ~(declarations[z].withdraw_at >= e)
  BY <1>0, DeclarationFields DEF Expired
<1> HIDE DEF X
<1>3. /\ DOMAIN declarations' = DOMAIN declarations \ X
      /\ \A z \in DOMAIN declarations' : declarations'[z] = declarations[z]
      /\ declarations' = [z \in DOMAIN declarations' |-> declarations'[z]]
  BY Zenon, <1>1 DEF Without
<1>4. /\ DOMAIN provider_index' = DOMAIN provider_index \ {declarations[z].provider_id : z \in X}
      /\ \A p \in DOMAIN provider_index' : provider_index'[p] = provider_index[p]
  BY Zenon, <1>1 DEF Without
<1>5. /\ DOMAIN service_notes' = DOMAIN service_notes \ {declarations[z].note : z \in X}
      /\ \A n \in DOMAIN service_notes' : service_notes'[n] = service_notes[n]
  BY Zenon, <1>1 DEF Without
<1>6. /\ \A z \in DOMAIN declarations :
            /\ declarations[z].provider_id \in DOMAIN provider_index
            /\ provider_index[declarations[z].provider_id] = z
            /\ declarations[z].note \in DOMAIN service_notes
            /\ service_notes[declarations[z].note] = z
            /\ declarations[z].note \in utxos
      /\ \A p \in DOMAIN provider_index :
            /\ provider_index[p] \in DOMAIN declarations
            /\ declarations[provider_index[p]].provider_id = p
      /\ \A n \in DOMAIN service_notes :
            /\ service_notes[n] \in DOMAIN declarations
            /\ declarations[service_notes[n]].note = n
  BY Zenon DEF RegistryInv, RegistryIsConsistent
<1>7. ASSUME NEW z \in DOMAIN declarations'
      PROVE  /\ declarations[z].provider_id \in DOMAIN provider_index'
             /\ declarations[z].note \in DOMAIN service_notes'
  BY <1>2, <1>3, <1>4, <1>5, <1>6
<1>8. ASSUME NEW p \in DOMAIN provider_index' PROVE provider_index[p] \in DOMAIN declarations'
  BY Zenon, <1>3, <1>4, <1>6
<1>9. ASSUME NEW n \in DOMAIN service_notes' PROVE service_notes[n] \in DOMAIN declarations'
  BY Zenon, <1>3, <1>5, <1>6
<1>10. RegistryIsConsistent'
  <2>1. ASSUME NEW z \in DOMAIN declarations'
        PROVE  /\ declarations'[z].provider_id \in DOMAIN provider_index'
               /\ provider_index'[declarations'[z].provider_id] = z
               /\ declarations'[z].note \in DOMAIN service_notes'
               /\ service_notes'[declarations'[z].note] = z
               /\ declarations'[z].note \in utxos'
    <3>1. z \in DOMAIN declarations /\ declarations'[z] = declarations[z]
      BY Zenon, <1>3
    <3>2. /\ declarations'[z].provider_id \in DOMAIN provider_index'
          /\ declarations'[z].note \in DOMAIN service_notes'
      BY Zenon, <1>7, <3>1
    <3>3. /\ provider_index'[declarations'[z].provider_id] = z
          /\ service_notes'[declarations'[z].note] = z
      BY <1>4, <1>5, <1>6, <3>1, <3>2
    <3>4. declarations'[z].note \in utxos'
      BY Zenon, <1>6, <3>1
    <3> QED  BY Zenon, <3>2, <3>3, <3>4
  <2>2. /\ \A p \in DOMAIN provider_index' : provider_index'[p] \in DOMAIN declarations'
        /\ \A n \in DOMAIN service_notes' : service_notes'[n] \in DOMAIN declarations'
    BY Zenon, <1>4, <1>5, <1>8, <1>9
  <2> QED  BY Zenon, <2>1, <2>2 DEF RegistryIsConsistent
<1>11. declarations' \in [DOMAIN declarations' -> DeclarationType]
  <2>1. \A z \in DOMAIN declarations' : declarations'[z] \in DeclarationType
    BY Zenon, <1>3 DEF RegistryInv
  <2> QED  BY Zenon, <1>3, <2>1
<1>12. \A z \in DOMAIN declarations' :
         declarations'[z].created <= epoch' /\ declarations'[z].withdraw_at >= epoch'
  BY <1>0, <1>2, <1>3, DeclarationFields
<1>13. /\ \A p \in DOMAIN provider_index' : declarations'[provider_index'[p]].provider_id = p
       /\ \A n \in DOMAIN service_notes' : declarations'[service_notes'[n]].note = n
  <2>1. ASSUME NEW p \in DOMAIN provider_index'
        PROVE  declarations'[provider_index'[p]].provider_id = p
    BY <1>3, <1>4, <1>6, <1>8
  <2>2. ASSUME NEW n \in DOMAIN service_notes'
        PROVE  declarations'[service_notes'[n]].note = n
    BY <1>3, <1>5, <1>6, <1>9
  <2> QED  BY Zenon, <2>1, <2>2
<1>14. epoch' \in 0 .. MaxEpoch
  BY <1>0
<1>15. RegistryInv'
  BY Zenon, <1>10, <1>11, <1>12, <1>13, <1>14 DEF RegistryInv
<1> QED  BY Zenon, <1>2, <1>3, <1>15

\* A declaration adds the same entry to the registry, the index and the locks.
LEMMA DeclareRegistry ==
    ASSUME RegistryInv, NEW zk \in ZkIds, NEW p \in ProviderIds, NEW n \in Notes,
           Declare(zk, p, n)
    PROVE  /\ RegistryInv' /\ epoch' = epoch /\ zk \notin DOMAIN declarations
           /\ DOMAIN declarations' = DOMAIN declarations \cup {zk}
           /\ \A z \in DOMAIN declarations : declarations'[z] = declarations[z]
           /\ declarations'[zk].created = epoch /\ declarations'[zk].active = epoch + 2
           /\ declarations'[zk].sequence = 0
           /\ DOMAIN provider_index' = DOMAIN provider_index \cup {p}
           /\ \A q \in DOMAIN provider_index : provider_index'[q] = provider_index[q]
PROOF
<1> DEFINE new == NewDeclaration(epoch, p, n)
<1>0. epoch \in Nat /\ epoch <= MaxEpoch
  BY SdpConstants DEF RegistryInv
<1>1. /\ new \in DeclarationType /\ new.created = epoch /\ new.active = epoch + 2
      /\ new.withdraw_at = Never /\ new.provider_id = p /\ new.note = n /\ new.sequence = 0
  BY <1>0, SdpConstants DEF NewDeclaration, DeclarationType
<1> HIDE DEF new
<1>2. /\ zk \notin DOMAIN declarations /\ p \notin DOMAIN provider_index
      /\ n \notin DOMAIN service_notes /\ n \in utxos
      /\ declarations' = With(declarations, zk, new)
      /\ provider_index' = With(provider_index, p, zk)
      /\ service_notes' = With(service_notes, n, zk)
      /\ epoch' = epoch /\ utxos' = utxos
  BY Zenon DEF Declare, new
<1>3. /\ DOMAIN declarations' = DOMAIN declarations \cup {zk} /\ declarations'[zk] = new
      /\ \A z \in DOMAIN declarations : declarations'[z] = declarations[z]
      /\ declarations' = [z \in DOMAIN declarations' |-> declarations'[z]]
  BY Zenon, <1>2 DEF With
<1>4. /\ DOMAIN provider_index' = DOMAIN provider_index \cup {p} /\ provider_index'[p] = zk
      /\ \A q \in DOMAIN provider_index : provider_index'[q] = provider_index[q]
  BY Zenon, <1>2 DEF With
<1>5. /\ DOMAIN service_notes' = DOMAIN service_notes \cup {n} /\ service_notes'[n] = zk
      /\ \A m \in DOMAIN service_notes : service_notes'[m] = service_notes[m]
  BY Zenon, <1>2 DEF With
<1>6. /\ \A z \in DOMAIN declarations :
            /\ declarations[z].provider_id \in DOMAIN provider_index
            /\ provider_index[declarations[z].provider_id] = z
            /\ declarations[z].note \in DOMAIN service_notes
            /\ service_notes[declarations[z].note] = z
            /\ declarations[z].note \in utxos
      /\ \A q \in DOMAIN provider_index :
            /\ provider_index[q] \in DOMAIN declarations
            /\ declarations[provider_index[q]].provider_id = q
      /\ \A m \in DOMAIN service_notes :
            /\ service_notes[m] \in DOMAIN declarations
            /\ declarations[service_notes[m]].note = m
  BY Zenon DEF RegistryInv, RegistryIsConsistent
<1>7. RegistryIsConsistent'
  <2>1. ASSUME NEW z \in DOMAIN declarations'
        PROVE  /\ declarations'[z].provider_id \in DOMAIN provider_index'
               /\ provider_index'[declarations'[z].provider_id] = z
               /\ declarations'[z].note \in DOMAIN service_notes'
               /\ service_notes'[declarations'[z].note] = z
               /\ declarations'[z].note \in utxos'
    <3>1. CASE z = zk
      BY Zenon, <1>1, <1>2, <1>3, <1>4, <1>5, <3>1
    <3>2. CASE z # zk
      <4>1. z \in DOMAIN declarations /\ declarations'[z] = declarations[z]
        BY Zenon, <1>3, <3>2
      <4> QED  BY <1>2, <1>4, <1>5, <1>6, <4>1
    <3> QED  BY Zenon, <3>1, <3>2
  <2>2. /\ \A q \in DOMAIN provider_index' : provider_index'[q] \in DOMAIN declarations'
        /\ \A m \in DOMAIN service_notes' : service_notes'[m] \in DOMAIN declarations'
    BY Zenon, <1>3, <1>4, <1>5, <1>6
  <2> QED  BY Zenon, <2>1, <2>2 DEF RegistryIsConsistent
<1>8. \A q \in DOMAIN provider_index' : declarations'[provider_index'[q]].provider_id = q
  <2> SUFFICES ASSUME NEW q \in DOMAIN provider_index'
               PROVE  declarations'[provider_index'[q]].provider_id = q
    BY Zenon
  <2>1. CASE q = p
    BY Zenon, <1>1, <1>3, <1>4, <2>1
  <2>2. CASE q # p
    BY <1>3, <1>4, <1>6, <2>2
  <2> QED  BY Zenon, <2>1, <2>2
<1>9. \A m \in DOMAIN service_notes' : declarations'[service_notes'[m]].note = m
  <2> SUFFICES ASSUME NEW m \in DOMAIN service_notes'
               PROVE  declarations'[service_notes'[m]].note = m
    BY Zenon
  <2>1. CASE m = n
    BY Zenon, <1>1, <1>3, <1>5, <2>1
  <2>2. CASE m # n
    BY <1>3, <1>5, <1>6, <2>2
  <2> QED  BY Zenon, <2>1, <2>2
<1>10. declarations' \in [DOMAIN declarations' -> DeclarationType]
  <2>1. \A z \in DOMAIN declarations' : declarations'[z] \in DeclarationType
    BY Zenon, <1>1, <1>3 DEF RegistryInv
  <2> QED  BY Zenon, <1>3, <2>1
<1>11. \A z \in DOMAIN declarations' :
         declarations'[z].created <= epoch' /\ declarations'[z].withdraw_at >= epoch'
  <2> SUFFICES ASSUME NEW z \in DOMAIN declarations'
               PROVE  declarations'[z].created <= epoch' /\ declarations'[z].withdraw_at >= epoch'
    BY Zenon
  <2>1. CASE z = zk
    BY <1>0, <1>1, <1>2, <1>3, <2>1, SdpConstants
  <2>2. CASE z # zk
    BY Zenon, <1>2, <1>3, <2>2, DeclarationFields
  <2> QED  BY Zenon, <2>1, <2>2
<1>12. RegistryInv'
  BY Zenon, <1>2, <1>7, <1>8, <1>9, <1>10, <1>11 DEF RegistryInv
<1> QED  BY Zenon, <1>1, <1>2, <1>3, <1>4, <1>12

\* A message changes one declaration, and neither who it is nor its stake.
UpdatedOK(zk, active, withdraw_at, sequence) ==
    /\ DOMAIN declarations' = DOMAIN declarations
    /\ \A z \in DOMAIN declarations : z # zk => declarations'[z] = declarations[z]
    /\ \A z \in DOMAIN declarations :
          /\ declarations'[z].provider_id = declarations[z].provider_id
          /\ declarations'[z].note = declarations[z].note
          /\ declarations'[z].created = declarations[z].created
    /\ declarations'[zk].active = active
    /\ declarations'[zk].withdraw_at = withdraw_at
    /\ declarations'[zk].sequence = sequence

\* Such a message leaves the registry consistent.
LEMMA UpdateRegistry ==
    ASSUME RegistryInv, NEW zk \in DOMAIN declarations,
           NEW active \in Nat, NEW withdraw_at \in Nat, NEW sequence \in Nat,
           withdraw_at >= epoch, epoch' = epoch,
           declarations' = [declarations EXCEPT ![zk] =
               [@ EXCEPT !.active = active, !.withdraw_at = withdraw_at, !.sequence = sequence]],
           UNCHANGED <<utxos, provider_index, service_notes>>
    PROVE  RegistryInv' /\ UpdatedOK(zk, active, withdraw_at, sequence)
PROOF
<1> DEFINE old == declarations[zk]
           new == [old EXCEPT !.active = active, !.withdraw_at = withdraw_at,
                              !.sequence = sequence]
<1>1. old \in DeclarationType /\ declarations = [z \in DOMAIN declarations |-> declarations[z]]
  BY Zenon DEF RegistryInv
<1>2. /\ new \in DeclarationType /\ new.provider_id = old.provider_id /\ new.note = old.note
      /\ new.created = old.created /\ new.active = active /\ new.withdraw_at = withdraw_at
      /\ new.sequence = sequence
  BY Zenon, <1>1 DEF DeclarationType
<1>3. declarations' = [declarations EXCEPT ![zk] = new]
  BY Zenon
<1> HIDE DEF new
<1>4. /\ DOMAIN declarations' = DOMAIN declarations /\ declarations'[zk] = new
      /\ \A z \in DOMAIN declarations : z # zk => declarations'[z] = declarations[z]
      /\ declarations' = [z \in DOMAIN declarations' |-> declarations'[z]]
  BY Zenon, <1>1, <1>3
<1>5. \A z \in DOMAIN declarations :
          /\ declarations'[z].provider_id = declarations[z].provider_id
          /\ declarations'[z].note = declarations[z].note
          /\ declarations'[z].created = declarations[z].created
  BY Zenon, <1>2, <1>4
<1>6. RegistryIsConsistent'
  BY <1>4, <1>5 DEF RegistryInv, RegistryIsConsistent
<1>7. /\ \A p \in DOMAIN provider_index' : declarations'[provider_index'[p]].provider_id = p
      /\ \A n \in DOMAIN service_notes' : declarations'[service_notes'[n]].note = n
  BY ZenonT(30), <1>5 DEF RegistryInv, RegistryIsConsistent
<1>8. declarations' \in [DOMAIN declarations' -> DeclarationType]
  <2>1. \A z \in DOMAIN declarations' : declarations'[z] \in DeclarationType
    BY Zenon, <1>2, <1>4 DEF RegistryInv
  <2> QED  BY Zenon, <1>4, <2>1
<1>9. \A z \in DOMAIN declarations' :
        declarations'[z].created <= epoch' /\ declarations'[z].withdraw_at >= epoch'
  BY <1>2, <1>4, <1>5, DeclarationFields
<1>10. RegistryInv'
  BY Zenon, <1>6, <1>7, <1>8, <1>9 DEF RegistryInv
<1> QED  BY Zenon, <1>2, <1>4, <1>5, <1>10 DEF UpdatedOK

-----------------------------------------------------------------------------
(* Rewards. *)

\* What a target epoch pays out is at most what came in during it: the shares
\* divide the income, rounded down.
LEMMA SharesAreCovered ==
    ASSUME RegistryInv, TargetInv, IncomeInv
    PROVE  Total(Finalize(tracker)) \in Nat /\ Total(Finalize(tracker)) <= target.income
PROOF
<1> DEFINE S == DOMAIN tracker.proofs
           P == tracker.premium
           f == target.providers
           shares == Cardinality(S) + Cardinality(P)
           q == target.income \div shares
           v == Finalize(tracker)
           u == [p \in S |-> q * (IF p \in P THEN 2 ELSE 1)]
<1>1. IsFiniteSet(S) /\ P \subseteq S /\ target.income \in Nat
  BY Zenon DEF IncomeInv
<1>2. Total(v) = Sum({f[p] : p \in S}, v)
  BY Zenon DEF Total, Finalize, FoldFunction, Sum
<1>3. \A x, y \in S : f[x] = f[y] => x = y
  <2>1. \A p \in S : p \in DOMAIN provider_index /\ provider_index[p] = f[p]
    BY Zenon DEF TargetInv
  <2>2. \A p \in DOMAIN provider_index : declarations[provider_index[p]].provider_id = p
    BY Zenon DEF RegistryInv
  <2> QED  BY ZenonT(30), <2>1, <2>2
<1>4. CASE S = {}
  <2>1. {f[p] : p \in S} = {}
    BY Zenon, <1>4
  <2>2. Total(v) = 0
    BY Zenon, <1>2, <2>1, SumEmpty
  <2> HIDE DEF v
  <2> QED  BY <1>1, <2>2 DEF v
<1>5. CASE S # {}
  <2>1. Cardinality(S) \in Nat /\ Cardinality(S) # 0 /\ Cardinality(P) \in Nat
    <3>1. IsFiniteSet(P)
      BY Zenon, <1>1, FS_Subset
    <3>2. Cardinality(S) # 0
      BY Zenon, <1>1, <1>5, FS_EmptySet
    <3> QED  BY Zenon, <1>1, <3>1, <3>2, FS_CardinalityType
  <2>2. shares \in Nat /\ shares > 0
    BY <2>1
  <2>3. q \in Nat /\ q * shares <= target.income
    <3> HIDE DEF shares
    <3> QED  BY <1>1, <2>2
  <2>4. \A p \in S : v[f[p]] = q * (IF p \in P THEN 2 ELSE 1)
    <3> SUFFICES ASSUME NEW p \in S PROVE v[f[p]] = q * (IF p \in P THEN 2 ELSE 1)
      BY Zenon
    <3> DEFINE c == CHOOSE x \in S : f[x] = f[p]
    <3>1. v[f[p]] = q * (IF c \in P THEN 2 ELSE 1)
      BY Zenon DEF Finalize
    <3>2. c = p
      BY Zenon, <1>3
    <3> QED  BY Zenon, <3>1, <3>2
  <2> HIDE DEF q, v, shares
  <2>5. \A p \in S : u[p] = q * (IF p \in P THEN 2 ELSE 1) /\ v[f[p]] = u[p]
    BY Zenon, <2>4
  <2>6. IntOn(S, u)
    <3>1. \A p \in S : (IF p \in P THEN 2 ELSE 1) \in {1, 2}
      BY Zenon
    <3>2. q * 1 \in Int /\ q * 2 \in Int
      BY <2>3
    <3> QED  BY Zenon, <2>5, <3>1, <3>2 DEF IntOn
  <2>7. \A p \in S : u[p] = q * (IF p \in P THEN 2 ELSE 1)
    BY Zenon, <2>5
  <2>8. \A p \in S : v[f[p]] = u[p]
    BY Zenon, <2>5
  <2> HIDE DEF S, u, f, P
  <2>9. Sum({f[p] : p \in S}, v) = Sum(S, u)
    BY <1>1, <1>3, <2>6, <2>8, SumImage
  <2>10. Sum(S, u) = q * (Cardinality(S) + Cardinality(S \cap P))
    BY ZenonT(30), <1>1, <2>3, <2>7, SumShares
  <2>11. S \cap P = P
    BY Zenon, <1>1
  <2>12. Sum(S, u) = q * shares
    BY Zenon, <2>10, <2>11 DEF shares
  <2>13. q * shares \in Nat
    BY <2>2, <2>3
  <2>14. Total(v) = q * shares
    BY Zenon, <1>2, <2>9, <2>12
  <2>15. Total(v) \in Nat /\ Total(v) <= target.income
    BY Zenon, <2>3, <2>13, <2>14
  <2> QED  BY Zenon, <2>15 DEF v
<1> QED  BY Zenon, <1>4, <1>5

-----------------------------------------------------------------------------
(* A new epoch. *)

\* The target epoch is the one that ended, with the providers that served in it.
NewTargetIs(e) ==
    /\ e = epoch + 1 /\ ~(Cardinality(DOMAIN active_declarations) < MinimumNetworkSize)
    /\ \A p \in DOMAIN target'.providers :
            /\ target'.providers[p] \in DOMAIN active_declarations
            /\ active_declarations[target'.providers[p]].provider_id = p
    /\ \A z \in DOMAIN active_declarations :
            active_declarations[z].provider_id \in DOMAIN target'.providers
    /\ target'.income = epoch_income

\* Or there is none: epochs were skipped or too few served.
NoTargetIs(e) ==
    /\ e > epoch + 1 \/ Cardinality(DOMAIN active_declarations) < MinimumNetworkSize
    /\ DOMAIN target'.providers = {} /\ target'.income = 0

\* CurrentEpochTracker::finalize gives one of the two.
LEMMA TargetOfNewEpoch ==
    ASSUME NEW e \in 1 .. MaxEpoch, epoch \in Nat, e > epoch,
           target' = NewTarget(e)
    PROVE  NewTargetIs(e) \/ NoTargetIs(e)
PROOF
<1> DEFINE small == Cardinality(DOMAIN active_declarations) < MinimumNetworkSize
<1>1. CASE e > epoch + 1 \/ small
  <2>1. target' = NoTarget
    BY Zenon, <1>1 DEF NewTarget
  <2>2. DOMAIN target'.providers = {} /\ target'.income = 0
    BY <2>1 DEF NoTarget
  <2> QED  BY Zenon, <1>1, <2>2 DEF NoTargetIs
<1>2. CASE ~(e > epoch + 1 \/ small)
  <2>1. target' = [epoch |-> epoch,
          providers |->
            [p \in {active_declarations[z].provider_id : z \in DOMAIN active_declarations}
                |-> CHOOSE z \in DOMAIN active_declarations :
                        active_declarations[z].provider_id = p],
          income |-> epoch_income]
    BY Zenon, <1>2 DEF NewTarget
  <2>2. e = epoch + 1 /\ ~small
    BY <1>2, SdpConstants
  <2>3. /\ DOMAIN target'.providers =
              {active_declarations[z].provider_id : z \in DOMAIN active_declarations}
        /\ \A p \in DOMAIN target'.providers : target'.providers[p] =
              CHOOSE z \in DOMAIN active_declarations : active_declarations[z].provider_id = p
        /\ target'.income = epoch_income
    BY <2>1
  <2>4. \A p \in DOMAIN target'.providers :
            /\ target'.providers[p] \in DOMAIN active_declarations
            /\ active_declarations[target'.providers[p]].provider_id = p
    BY <2>3
  <2> QED  BY Zenon, <2>2, <2>3, <2>4 DEF NewTargetIs
<1> QED  BY Zenon, <1>1, <1>2

\* Entering an epoch, the registry only loses what expired, and no snapshot has
\* any of that.
EnteredOK(e) ==
    /\ e \in Nat /\ epoch \in Nat /\ e > epoch /\ epoch' = e /\ e <= MaxEpoch
    /\ \A z \in DOMAIN declarations' :
          /\ z \in DOMAIN declarations /\ declarations'[z] = declarations[z]
          /\ declarations[z].withdraw_at >= e
    /\ \A z \in DOMAIN declarations :
          declarations[z].withdraw_at >= e => z \in DOMAIN declarations'
    /\ NewTargetIs(e) \/ NoTargetIs(e)
    /\ DOMAIN tracker'.proofs = {}

LEMMA EnterRegistry ==
    ASSUME SdpInv, NEW e \in 1 .. MaxEpoch, EnterEpoch(e)
    PROVE  RegistryInv' /\ EnteredOK(e)
PROOF
<1>1. /\ RegistryInv /\ epoch \in Nat /\ e \in Nat /\ e <= MaxEpoch /\ e > epoch
      /\ epoch' = e /\ RemoveWithdrawn(e) /\ utxos' = utxos /\ target' = NewTarget(e)
      /\ tracker' = NoReports
  BY SdpConstants DEF SdpInv, RegistryInv, EnterEpoch
<1>2. /\ RegistryInv'
      /\ \A z \in DOMAIN declarations' :
           /\ z \in DOMAIN declarations /\ declarations'[z] = declarations[z]
           /\ declarations[z].withdraw_at >= e
      /\ \A z \in DOMAIN declarations :
           declarations[z].withdraw_at >= e => z \in DOMAIN declarations'
  BY Zenon, <1>1, RemoveWithdrawnKeeps
<1>3. NewTargetIs(e) \/ NoTargetIs(e)
  BY Zenon, <1>1, TargetOfNewEpoch
<1>4. DOMAIN tracker'.proofs = {}
  BY <1>1 DEF NoReports
<1> QED  BY Zenon, <1>1, <1>2, <1>3, <1>4 DEF EnteredOK

\* The snapshots of the new epoch, and of the one after it.
LEMMA EnterSnapshots ==
    ASSUME SdpInv, NEW e \in 1 .. MaxEpoch, EnterEpoch(e)
    PROVE  SnapshotInv(active_declarations, 0)' /\ SnapshotInv(next_active_declarations, 1)'
PROOF
<1>1. /\ RegistryInv /\ SnapshotInv(next_active_declarations, 1)
      /\ active_declarations' =
            IF e = epoch + 1 THEN next_active_declarations ELSE Active(e)
      /\ next_active_declarations' = Active(e + 1)
  BY Zenon DEF SdpInv, EnterEpoch
<1>2. /\ e \in Nat /\ epoch \in Nat /\ e > epoch /\ epoch' = e
      /\ \A z \in DOMAIN declarations' : declarations'[z] = declarations[z]
      /\ \A z \in DOMAIN declarations :
            declarations[z].withdraw_at >= e => z \in DOMAIN declarations'
  BY Zenon, EnterRegistry DEF EnteredOK
<1>3. \A n : \A z \in DOMAIN Active(n) :
        /\ z \in DOMAIN declarations /\ Active(n)[z] = declarations[z]
        /\ declarations[z].withdraw_at > n
  BY Zenon DEF Active, IsActive
<1>4. SnapshotInv(next_active_declarations, 1)'
  <2> SUFFICES ASSUME NEW z \in DOMAIN next_active_declarations'
               PROVE  /\ z \in DOMAIN declarations'
                      /\ declarations'[z].created = next_active_declarations'[z].created
                      /\ declarations'[z].provider_id = next_active_declarations'[z].provider_id
                      /\ declarations'[z].withdraw_at > epoch' + 1
                      /\ declarations'[z].created + 2 <= epoch' + 1
    BY Zenon, SdpConstants DEF SnapshotInv
  <2>1. /\ z \in DOMAIN declarations /\ next_active_declarations'[z] = declarations[z]
        /\ declarations[z].withdraw_at > e + 1
    BY Zenon, <1>1, <1>3
  <2>2. /\ declarations[z].withdraw_at \in Nat /\ declarations[z].created \in Nat
        /\ declarations[z].created <= epoch
    BY Zenon, <1>1, <2>1, DeclarationFields
  <2>3. z \in DOMAIN declarations' /\ declarations'[z] = declarations[z]
    BY <1>2, <2>1, <2>2
  <2> QED  BY <1>2, <2>1, <2>2, <2>3
<1>5. SnapshotInv(active_declarations, 0)'
  <2> SUFFICES ASSUME NEW z \in DOMAIN active_declarations'
               PROVE  /\ z \in DOMAIN declarations'
                      /\ declarations'[z].created = active_declarations'[z].created
                      /\ declarations'[z].provider_id = active_declarations'[z].provider_id
                      /\ declarations'[z].withdraw_at > epoch' + 0
                      /\ \/ declarations'[z].created + 2 <= epoch' + 0
                         \/ declarations'[z].created = 0
    BY Zenon, SdpConstants DEF SnapshotInv
  <2>1. /\ z \in DOMAIN declarations
        /\ declarations[z].created = active_declarations'[z].created
        /\ declarations[z].provider_id = active_declarations'[z].provider_id
        /\ declarations[z].withdraw_at > e
        /\ declarations[z].created + 2 <= e \/ declarations[z].created = 0
    <3>1. CASE e = epoch + 1
      <4>1. active_declarations' = next_active_declarations
        BY Zenon, <1>1, <3>1
      <4> QED  BY Zenon, <1>1, <1>2, <3>1, <4>1, SdpConstants DEF SnapshotInv
    <3>2. CASE e # epoch + 1
      <4>1. active_declarations' = Active(e)
        BY Zenon, <1>1, <3>2
      <4>2. /\ z \in DOMAIN declarations /\ active_declarations'[z] = declarations[z]
            /\ declarations[z].withdraw_at > e
        BY Zenon, <1>3, <4>1
      <4>3. declarations[z].created \in Nat /\ declarations[z].created <= epoch
        BY Zenon, <1>1, <4>2, DeclarationFields
      <4> QED  BY <1>2, <3>2, <4>2, <4>3
    <3> QED  BY Zenon, <3>1, <3>2
  <2>2. declarations[z].withdraw_at \in Nat
    BY Zenon, <1>1, <2>1, DeclarationFields
  <2>3. z \in DOMAIN declarations' /\ declarations'[z] = declarations[z]
    BY <1>2, <2>1, <2>2
  <2> QED  BY <1>2, <2>1, <2>2, <2>3
<1> QED  BY Zenon, <1>4, <1>5

\* The providers of the epoch that ended are still declared.
LEMMA EnterTarget ==
    ASSUME SdpInv, NEW e \in 1 .. MaxEpoch, EnterEpoch(e)
    PROVE  TargetInv'
PROOF
<1>1. RegistryInv /\ SnapshotInv(active_declarations, 0) /\ RegistryInv' /\ EnteredOK(e)
  BY Zenon, EnterRegistry DEF SdpInv
<1>2. ASSUME NEW p \in DOMAIN target'.providers
      PROVE  /\ p \in DOMAIN provider_index'
             /\ provider_index'[p] = target'.providers[p]
             /\ \/ declarations'[provider_index'[p]].created + 2 < epoch'
                \/ declarations'[provider_index'[p]].created = 0
  <2>1. NewTargetIs(e)
    BY Zenon, <1>1, <1>2 DEF EnteredOK, NoTargetIs
  <2> PICK z : z = target'.providers[p]
    BY Zenon
  <2>2. z \in DOMAIN active_declarations /\ active_declarations[z].provider_id = p
        /\ e = epoch + 1
    BY Zenon, <2>1 DEF NewTargetIs
  <2>3. /\ z \in DOMAIN declarations /\ declarations[z].provider_id = p
        /\ declarations[z].withdraw_at > epoch + 0
        /\ declarations[z].created + 2 <= epoch + 0 \/ declarations[z].created = 0
    BY Zenon, <1>1, <2>2, SdpConstants DEF SnapshotInv
  <2>4. declarations[z].withdraw_at \in Nat /\ declarations[z].created \in Nat /\ epoch \in Nat
    BY Zenon, <1>1, <2>3, DeclarationFields
  <2>5. z \in DOMAIN declarations' /\ declarations'[z] = declarations[z] /\ epoch' = e
    BY <1>1, <2>2, <2>3, <2>4 DEF EnteredOK
  <2>6. p \in DOMAIN provider_index' /\ provider_index'[p] = z
    BY <1>1, <2>3, <2>5 DEF RegistryInv, RegistryIsConsistent
  <2> QED  BY <2>2, <2>3, <2>4, <2>5, <2>6
<1>3. DOMAIN tracker'.proofs = {}
  BY Zenon, <1>1 DEF EnteredOK
<1> QED  BY Zenon, <1>2, <1>3, SdpConstants DEF TargetInv

\* Who is not idle after this epoch has reported in it if that was due, and has
\* been active recently enough for the snapshot after next.
LEMMA DiligentIsActive ==
    ASSUME SdpInv, NEW z \in DOMAIN declarations, z \notin history.idle,
           ReportDue(z) => declarations[z].provider_id \in DOMAIN tracker.proofs
    PROVE  declarations[z].active >= epoch
PROOF
<1>1. RegistryInv /\ TargetInv /\ EarlyInv
  BY Zenon DEF SdpInv, PlacesInv
<1>2. declarations[z].active \in Nat /\ declarations[z].created \in Nat /\ epoch \in Nat
  BY Zenon, <1>1, DeclarationFields
<1>3. CASE declarations[z].provider_id \in DOMAIN tracker.proofs
  <2>1. provider_index[declarations[z].provider_id] = z
    BY Zenon, <1>1 DEF RegistryInv, RegistryIsConsistent
  <2> QED  BY <1>1, <1>2, <1>3, <2>1 DEF TargetInv
<1>4. CASE ~ReportDue(z)
  <2>1. /\ declarations[z].provider_id \notin DOMAIN target.providers
        /\ epoch <= declarations[z].created + 2
    BY <1>2, <1>4, SdpConstants DEF ReportDue
  <2>2. CASE declarations[z].active < declarations[z].created + 2
    <3>1. /\ declarations[z].created = 0 /\ declarations[z].active = 1 /\ epoch # 0
          /\ epoch # 2
      BY Zenon, <1>1, <2>1, <2>2, SdpConstants DEF EarlyInv
    <3> QED  BY <1>2, <2>1, <3>1
  <2>3. CASE ~(declarations[z].active < declarations[z].created + 2)
    BY <1>2, <2>1, <2>3
  <2> QED  BY Zenon, <2>2, <2>3
<1> QED  BY Zenon, <1>3, <1>4

\* Places are kept across the change of epoch.
LEMMA EnterPlaces ==
    ASSUME SdpInv, NEW e \in 1 .. MaxEpoch, EnterEpoch(e)
    PROVE  PlacesInv'
PROOF
<1>1. /\ RegistryInv /\ SnapshotInv(active_declarations, 0) /\ RegistryInv' /\ EnteredOK(e)
      /\ GenesisInv /\ EarlyInv /\ KeepsPlaceNext
  BY Zenon, EnterRegistry DEF SdpInv, PlacesInv
<1>2. /\ e \in Nat /\ epoch \in Nat /\ e > epoch /\ epoch' = e /\ e <= MaxEpoch
      /\ \A z \in DOMAIN declarations' :
          z \in DOMAIN declarations /\ declarations'[z] = declarations[z]
      /\ NewTargetIs(e) \/ NoTargetIs(e)
  BY Zenon, <1>1 DEF EnteredOK
<1>3. /\ e = epoch + 1 => active_declarations' = next_active_declarations
      /\ next_active_declarations' = Active(e + 1)
      /\ history'.idle = {z \in DOMAIN declarations' :
                        \/ z \in history.idle
                        \/ e > epoch + 1
                        \/ ReportDue(z) /\ declarations[z].provider_id
                                              \notin DOMAIN tracker.proofs}
  BY Zenon DEF EnterEpoch, SdpInv, IncomeInv
<1>4. GenesisInv'
  <2>1. epoch' # 0
    BY <1>2
  <2>2. ASSUME epoch' = 1, HasTarget'
        PROVE  /\ ~(Cardinality(DOMAIN active_declarations') < MinimumNetworkSize)
               /\ \A p \in DOMAIN target'.providers :
                    target'.providers[p] \in DOMAIN active_declarations'
    <3>1. epoch = 0 /\ e = epoch + 1
      BY <1>2, <2>2
    <3>2. NewTargetIs(e)
      BY Zenon, <1>2, <2>2 DEF NoTargetIs, HasTarget
    <3>3. DOMAIN active_declarations' = DOMAIN active_declarations
      BY Zenon, <1>1, <1>3, <3>1 DEF GenesisInv
    <3> QED  BY Zenon, <3>2, <3>3 DEF NewTargetIs
  <2> QED  BY Zenon, <2>1, <2>2 DEF GenesisInv
<1>5. EarlyInv'
  <2> SUFFICES ASSUME NEW z \in DOMAIN declarations',
                      declarations'[z].active < declarations'[z].created + 2
               PROVE  /\ declarations'[z].created = 0 /\ declarations'[z].active = 1
                      /\ epoch' # 0 /\ epoch' # 1
                      /\ epoch' = 2 => declarations'[z].provider_id \in DOMAIN target'.providers
    BY Zenon, SdpConstants DEF EarlyInv
  <2>1. /\ z \in DOMAIN declarations /\ declarations'[z] = declarations[z]
        /\ declarations[z].active < declarations[z].created + 2
    BY Zenon, <1>2
  <2>2. /\ declarations[z].created = 0 /\ declarations[z].active = 1 /\ epoch # 0
        /\ epoch = 1 => z \in DOMAIN active_declarations /\ HasTarget
    BY Zenon, <1>1, <2>1, SdpConstants DEF EarlyInv
  <2>3. ASSUME epoch' = 2 PROVE declarations[z].provider_id \in DOMAIN target'.providers
    <3>1. epoch = 1 /\ e = epoch + 1
      BY <1>2, <2>2, <2>3
    <3>2. /\ z \in DOMAIN active_declarations
          /\ ~(Cardinality(DOMAIN active_declarations) < MinimumNetworkSize)
      BY Zenon, <1>1, <2>2, <3>1 DEF GenesisInv
    <3>3. NewTargetIs(e)
      BY <1>2, <3>1, <3>2 DEF NoTargetIs
    <3>4. declarations[z].provider_id = active_declarations[z].provider_id
      BY Zenon, <1>1, <3>2 DEF SnapshotInv
    <3> QED  BY Zenon, <3>2, <3>3, <3>4 DEF NewTargetIs
  <2> QED  BY <1>2, <2>1, <2>2, <2>3
<1>6. ASSUME NEW z \in DOMAIN declarations', z \notin history'.idle,
             declarations'[z].withdraw_at = Never, epoch' >= declarations'[z].created + 2
      PROVE  z \in DOMAIN active_declarations'
  <2>1. z \notin history.idle /\ e = epoch + 1
    BY <1>2, <1>3, <1>6
  <2>2. declarations[z].created \in Nat /\ z \in DOMAIN declarations
        /\ declarations'[z] = declarations[z]
    BY Zenon, <1>1, <1>2, DeclarationFields
  <2>3. z \in DOMAIN next_active_declarations
    BY <1>1, <1>2, <1>6, <2>1, <2>2, SdpConstants DEF KeepsPlaceNext
  <2> QED  BY Zenon, <1>3, <2>1, <2>3
<1>7. ASSUME NEW z \in DOMAIN declarations', z \notin history'.idle,
             declarations'[z].withdraw_at = Never
      PROVE  z \in DOMAIN next_active_declarations'
  <2>1. /\ z \notin history.idle /\ e = epoch + 1
        /\ ReportDue(z) => declarations[z].provider_id \in DOMAIN tracker.proofs
    BY <1>2, <1>3, <1>7
  <2>2. z \in DOMAIN declarations /\ declarations'[z] = declarations[z]
    BY Zenon, <1>2
  <2>3. declarations[z].active >= epoch /\ declarations[z].active \in Nat
    BY Zenon, <1>1, <2>1, <2>2, DiligentIsActive, DeclarationFields
  <2>4. declarations[z].active + InactivityPeriod >= e + 1
    BY <1>2, <2>1, <2>3, SdpConstants
  <2>5. declarations[z].withdraw_at > e + 1
    BY <1>2, <1>7, <2>2, SdpConstants
  <2>6. IsActive(declarations[z], e + 1)
    BY Zenon, <2>4, <2>5 DEF IsActive
  <2> QED  BY Zenon, <1>3, <2>2, <2>6 DEF Active
<1>8. \A z \in DOMAIN declarations' : declarations'[z].created \in Nat /\ epoch' \in Nat
  BY Zenon, <1>1, <1>2, DeclarationFields
<1>9. ReportingKeepsOnesPlace'
  BY <1>6, <1>8, SdpConstants DEF ReportingKeepsOnesPlace
<1>10. KeepsPlaceNext'
  BY Zenon, <1>7 DEF KeepsPlaceNext
<1> QED  BY Zenon, <1>4, <1>5, <1>9, <1>10 DEF PlacesInv

\* What was accepted was accepted in an earlier epoch.
LEMMA EnterReplay ==
    ASSUME SdpInv, NEW e \in 1 .. MaxEpoch, EnterEpoch(e)
    PROVE  ReplayInv'
PROOF
<1>1. RegistryInv /\ EnteredOK(e) /\ ReplayInv
  BY Zenon, EnterRegistry DEF SdpInv
<1>2. history'.accepted = history.accepted
  BY Zenon DEF EnterEpoch, SdpInv, IncomeInv
<1>3. ASSUME NEW m \in history.accepted
      PROVE  /\ m[2].lifecycle_epoch \in Nat /\ m[2].sequence \in Nat
             /\ m[1] \notin DOMAIN declarations' => m[2].lifecycle_epoch < epoch'
             /\ m[1] \in DOMAIN declarations' =>
                /\ m[2].lifecycle_epoch <= declarations'[m[1]].created
                /\ m[2].lifecycle_epoch = declarations'[m[1]].created
                    => m[2].sequence <= declarations'[m[1]].sequence
  <2>1. m[2].lifecycle_epoch \in Nat /\ m[2].sequence \in Nat
    BY Zenon, <1>1 DEF ReplayInv
  <2>2. epoch \in Nat /\ epoch' \in Nat /\ epoch < epoch'
    BY Zenon, <1>1 DEF EnteredOK
  <2>3. CASE m[1] \in DOMAIN declarations
    <3>1. /\ declarations[m[1]].created \in Nat /\ declarations[m[1]].created <= epoch
      BY Zenon, <1>1, <2>3, DeclarationFields
    <3>2. m[2].lifecycle_epoch < epoch'
      BY <1>1, <2>1, <2>2, <2>3, <3>1 DEF ReplayInv
    <3> QED  BY Zenon, <1>1, <2>1, <2>3, <3>2 DEF ReplayInv, EnteredOK
  <2>4. CASE m[1] \notin DOMAIN declarations
    BY <1>1, <2>1, <2>2, <2>4 DEF ReplayInv, EnteredOK
  <2> QED  BY Zenon, <2>3, <2>4
<1> QED  BY Zenon, <1>2, <1>3 DEF ReplayInv

\* What is paid was the income of the target epoch, and the income of the epoch
\* that ended is what the new target has to pay.
LEMMA EnterIncome ==
    ASSUME SdpInv, NEW e \in 1 .. MaxEpoch, EnterEpoch(e)
    PROVE  IncomeInv'
PROOF
<1> PICK total : total = Total(Finalize(tracker))
  BY Zenon
<1>1. /\ total \in Nat /\ total <= target.income /\ IncomeInv /\ EnteredOK(e)
  BY Zenon, SharesAreCovered, EnterRegistry DEF SdpInv
<1>2. /\ tracker' = NoReports /\ epoch_income' = 0
      /\ target'.income = epoch_income \/ target'.income = 0
  BY Zenon, <1>1 DEF EnterEpoch, EnteredOK, NewTargetIs, NoTargetIs
<1>3. /\ history' = [accepted |-> history'.accepted, idle |-> history'.idle,
                     income |-> history'.income, paid |-> history'.paid]
      /\ history'.income = history.income /\ history'.paid = history.paid + total
  <2>1. \E idle : history' = [history EXCEPT !.paid = @ + total, !.idle = idle]
    BY Zenon DEF EnterEpoch
  <2> QED  BY Zenon, <1>1, <2>1 DEF IncomeInv
<1>4. /\ tracker' = [proofs |-> tracker'.proofs, min_distance |-> tracker'.min_distance,
                     premium |-> tracker'.premium]
      /\ DOMAIN tracker'.proofs = {} /\ tracker'.premium = {} /\ tracker'.min_distance = 0
  BY <1>2 DEF NoReports
<1>5. /\ target.income \in Nat /\ epoch_income \in Nat
      /\ history.paid \in Nat /\ history.income \in Nat
      /\ history.paid + target.income + epoch_income <= history.income
  BY Zenon, <1>1 DEF IncomeInv
<1>6. /\ target'.income \in Nat /\ epoch_income' \in Nat
      /\ history'.paid \in Nat /\ history'.income \in Nat
      /\ history'.paid + target'.income + epoch_income' <= history'.income
  BY <1>1, <1>2, <1>3, <1>5
<1>7. IsFiniteSet(DOMAIN tracker'.proofs) /\ tracker'.premium \subseteq DOMAIN tracker'.proofs
  BY Zenon, <1>4, FS_EmptySet
<1> QED  BY <1>3, <1>4, <1>6, <1>7 DEF IncomeInv

-----------------------------------------------------------------------------
(* Operations. *)

\* A declaration takes no place that is taken.
LEMMA DeclareKeeps ==
    ASSUME SdpInv, NEW zk \in ZkIds, NEW p \in ProviderIds, NEW n \in Notes,
           Declare(zk, p, n)
    PROVE  SdpInv'
PROOF
<1>1. /\ RegistryInv /\ SnapshotInv(active_declarations, 0)
      /\ SnapshotInv(next_active_declarations, 1) /\ TargetInv /\ GenesisInv /\ EarlyInv
      /\ ReportingKeepsOnesPlace /\ KeepsPlaceNext /\ ReplayInv /\ IncomeInv
  BY Zenon DEF SdpInv, PlacesInv
<1>2. /\ RegistryInv' /\ epoch' = epoch /\ zk \notin DOMAIN declarations
      /\ DOMAIN declarations' = DOMAIN declarations \cup {zk}
      /\ \A z \in DOMAIN declarations : declarations'[z] = declarations[z]
      /\ declarations'[zk].created = epoch /\ declarations'[zk].active = epoch + 2
      /\ declarations'[zk].sequence = 0
      /\ DOMAIN provider_index' = DOMAIN provider_index \cup {p}
      /\ \A q \in DOMAIN provider_index : provider_index'[q] = provider_index[q]
  BY Zenon, <1>1, DeclareRegistry
<1>3. UNCHANGED <<active_declarations, next_active_declarations, target, tracker,
                  epoch_income, history>>
  BY Zenon DEF Declare, snapshotVars, incomeVars
<1>4. epoch \in Nat
  BY <1>1, SdpConstants DEF RegistryInv
<1>5. SnapshotInv(active_declarations, 0)' /\ SnapshotInv(next_active_declarations, 1)'
  BY <1>1, <1>2, <1>3 DEF SnapshotInv
<1>6. TargetInv'
  <2>1. \A q \in DOMAIN provider_index :
            declarations'[provider_index'[q]] = declarations[provider_index[q]]
    BY Zenon, <1>1, <1>2 DEF RegistryInv, RegistryIsConsistent
  <2>2. \A q \in DOMAIN tracker.proofs : q \in DOMAIN provider_index
    BY Zenon, <1>1 DEF TargetInv
  <2> QED  BY ZenonT(30), <1>1, <1>2, <1>3, <2>1, <2>2 DEF TargetInv
<1>7. GenesisInv'
  BY Zenon, <1>1, <1>2, <1>3 DEF GenesisInv, HasTarget
<1>8. EarlyInv'
  <2> SUFFICES ASSUME NEW z \in DOMAIN declarations',
                      declarations'[z].active < declarations'[z].created + 2
               PROVE  /\ declarations'[z].created = 0 /\ declarations'[z].active = 1
                      /\ epoch' # 0
                      /\ epoch' = 1 => z \in DOMAIN active_declarations' /\ HasTarget'
                      /\ epoch' = 2 => \/ z \in history'.idle
                           \/ declarations'[z].provider_id \in DOMAIN target'.providers
    BY Zenon, SdpConstants DEF EarlyInv
  <2>1. z # zk
    BY <1>2, <1>4
  <2>2. z \in DOMAIN declarations /\ declarations'[z] = declarations[z]
    BY Zenon, <1>2, <2>1
  <2> QED  BY Zenon, <1>1, <1>2, <1>3, <2>2, SdpConstants DEF EarlyInv, HasTarget
<1>9. ReportingKeepsOnesPlace' /\ KeepsPlaceNext'
  <2>1. ASSUME NEW z \in DOMAIN declarations'
        PROVE  /\ \/ z \in history'.idle
                  \/ declarations'[z].withdraw_at # Never
                  \/ epoch' < declarations'[z].created + SNAPSHOT_FINALIZATION_DELAY
                  \/ z \in DOMAIN active_declarations'
               /\ \/ z \in history'.idle
                  \/ declarations'[z].withdraw_at # Never
                  \/ epoch' + 1 < declarations'[z].created + SNAPSHOT_FINALIZATION_DELAY
                  \/ z \in DOMAIN next_active_declarations'
    <3>1. CASE z = zk
      <4>1. declarations'[z].created = epoch /\ epoch' = epoch
        BY Zenon, <1>2, <3>1
      <4> QED  BY <1>4, <4>1, SdpConstants
    <3>2. CASE z # zk
      <4>1. z \in DOMAIN declarations /\ declarations'[z] = declarations[z]
        BY Zenon, <1>2, <3>2
      <4> QED  BY Zenon, <1>1, <1>2, <1>3, <4>1 DEF ReportingKeepsOnesPlace, KeepsPlaceNext
    <3> QED  BY Zenon, <3>1, <3>2
  <2> QED  BY Zenon, <2>1 DEF ReportingKeepsOnesPlace, KeepsPlaceNext
<1>10. ReplayInv'
  <2> SUFFICES ASSUME NEW m \in history.accepted
               PROVE  /\ m[2].lifecycle_epoch \in Nat /\ m[2].sequence \in Nat
                      /\ m[1] \notin DOMAIN declarations' => m[2].lifecycle_epoch < epoch'
                      /\ m[1] \in DOMAIN declarations' =>
                         /\ m[2].lifecycle_epoch <= declarations'[m[1]].created
                         /\ m[2].lifecycle_epoch = declarations'[m[1]].created
                             => m[2].sequence <= declarations'[m[1]].sequence
    BY Zenon, <1>3 DEF ReplayInv
  <2>1. m[2].lifecycle_epoch \in Nat /\ m[2].sequence \in Nat
    BY Zenon, <1>1 DEF ReplayInv
  <2>2. CASE m[1] = zk
    <3>1. m[2].lifecycle_epoch < epoch
      BY Zenon, <1>1, <1>2, <2>2 DEF ReplayInv
    <3> QED  BY <1>2, <1>4, <2>1, <2>2, <3>1
  <2>3. CASE m[1] # zk
    <3>1. /\ m[1] \in DOMAIN declarations' <=> m[1] \in DOMAIN declarations
          /\ m[1] \in DOMAIN declarations => declarations'[m[1]] = declarations[m[1]]
      BY Zenon, <1>2, <2>3
    <3> QED  BY Zenon, <1>1, <1>2, <3>1 DEF ReplayInv
  <2> QED  BY Zenon, <2>2, <2>3
<1>11. IncomeInv'
  BY Zenon, <1>1, <1>3 DEF IncomeInv
<1> QED  BY Zenon, <1>2, <1>5, <1>6, <1>7, <1>8, <1>9, <1>10, <1>11 DEF SdpInv, PlacesInv

\* The nonce that is accepted is the newest of its declaration.
LEMMA AcceptKeeps ==
    ASSUME SdpInv, NEW zk \in DOMAIN declarations, NEW nonce \in Nonces,
           NEW active, NEW withdraw_at, ValidateNonce(zk, nonce), Accept(zk, nonce),
           UpdatedOK(zk, active, withdraw_at, nonce.sequence), epoch' = epoch
    PROVE  /\ ReplayInv' /\ history'.idle = history.idle /\ history'.income = history.income
           /\ history'.paid = history.paid
           /\ history' = [accepted |-> history'.accepted, idle |-> history'.idle,
                          income |-> history'.income, paid |-> history'.paid]
PROOF
<1>1. ReplayInv /\ RegistryInv
  BY Zenon DEF SdpInv
<1>2. /\ history'.accepted = history.accepted \cup {<<zk, nonce>>}
      /\ history'.idle = history.idle /\ history'.income = history.income
      /\ history'.paid = history.paid
      /\ history' = [accepted |-> history'.accepted, idle |-> history'.idle,
                     income |-> history'.income, paid |-> history'.paid]
  BY Zenon DEF SdpInv, IncomeInv, Accept
<1>3. nonce.lifecycle_epoch \in Nat /\ nonce.sequence \in Nat
  BY SdpConstants DEF Nonces
<1>4. /\ nonce.lifecycle_epoch = declarations[zk].created
      /\ nonce.sequence > declarations[zk].sequence /\ declarations[zk].sequence \in Nat
      /\ declarations[zk].created \in Nat
  BY Zenon, <1>1, DeclarationFields DEF ValidateNonce
<1>5. /\ DOMAIN declarations' = DOMAIN declarations
      /\ \A z \in DOMAIN declarations : z # zk => declarations'[z] = declarations[z]
      /\ declarations'[zk].created = declarations[zk].created
      /\ declarations'[zk].sequence = nonce.sequence
  BY Zenon DEF UpdatedOK
<1>6. ReplayInv'
  <2> SUFFICES ASSUME NEW m \in history'.accepted
               PROVE  /\ m[2].lifecycle_epoch \in Nat /\ m[2].sequence \in Nat
                      /\ m[1] \notin DOMAIN declarations' => m[2].lifecycle_epoch < epoch'
                      /\ m[1] \in DOMAIN declarations' =>
                         /\ m[2].lifecycle_epoch <= declarations'[m[1]].created
                         /\ m[2].lifecycle_epoch = declarations'[m[1]].created
                             => m[2].sequence <= declarations'[m[1]].sequence
    BY Zenon DEF ReplayInv
  <2>1. CASE m = <<zk, nonce>>
    <3>1. m[1] = zk /\ m[2] = nonce
      BY Zenon, <2>1
    <3> QED  BY <1>3, <1>4, <1>5, <3>1
  <2>2. CASE m \in history.accepted
    <3>1. m[2].lifecycle_epoch \in Nat /\ m[2].sequence \in Nat
      BY Zenon, <1>1, <2>2 DEF ReplayInv
    <3>2. CASE m[1] = zk
      BY <1>1, <1>3, <1>4, <1>5, <2>2, <3>1, <3>2 DEF ReplayInv
    <3>3. CASE m[1] # zk
      BY Zenon, <1>1, <1>5, <2>2, <3>1, <3>3 DEF ReplayInv
    <3> QED  BY Zenon, <3>2, <3>3
  <2> QED  BY Zenon, <1>2, <2>1, <2>2
<1> QED  BY Zenon, <1>2, <1>6

\* What a message does to snapshots: nothing, as long as whoever serves stays.
LEMMA UpdateSnapshots ==
    ASSUME RegistryInv, NEW snapshot, NEW ahead \in {0, 1}, SnapshotInv(snapshot, ahead),
           NEW zk \in DOMAIN declarations, NEW active, NEW withdraw_at, NEW sequence,
           UpdatedOK(zk, active, withdraw_at, sequence), epoch' = epoch,
           withdraw_at = declarations[zk].withdraw_at \/ withdraw_at = epoch + 2
    PROVE  \A z \in DOMAIN snapshot :
             /\ z \in DOMAIN declarations'
             /\ declarations'[z].created = snapshot[z].created
             /\ declarations'[z].provider_id = snapshot[z].provider_id
             /\ declarations'[z].withdraw_at > epoch' + ahead
             /\ declarations'[z].created + SNAPSHOT_FINALIZATION_DELAY <= epoch' + ahead
                 \/ declarations'[z].created = 0
PROOF
<1> SUFFICES ASSUME NEW z \in DOMAIN snapshot
             PROVE  /\ z \in DOMAIN declarations'
                    /\ declarations'[z].created = snapshot[z].created
                    /\ declarations'[z].provider_id = snapshot[z].provider_id
                    /\ declarations'[z].withdraw_at > epoch' + ahead
                    /\ declarations'[z].created + SNAPSHOT_FINALIZATION_DELAY <= epoch' + ahead
                        \/ declarations'[z].created = 0
  BY Zenon
<1>1. epoch \in Nat
  BY SdpConstants DEF RegistryInv
<1>2. /\ z \in DOMAIN declarations /\ declarations[z].created = snapshot[z].created
      /\ declarations[z].provider_id = snapshot[z].provider_id
      /\ declarations[z].withdraw_at > epoch + ahead
      /\ declarations[z].created + SNAPSHOT_FINALIZATION_DELAY <= epoch + ahead
          \/ declarations[z].created = 0
  BY Zenon DEF SnapshotInv
<1>3. /\ z \in DOMAIN declarations' /\ declarations'[z].created = declarations[z].created
      /\ declarations'[z].provider_id = declarations[z].provider_id
  BY Zenon, <1>2 DEF UpdatedOK
<1>4. declarations'[z].withdraw_at > epoch + ahead
  BY <1>1, <1>2 DEF UpdatedOK
<1> QED  BY Zenon, <1>2, <1>3, <1>4

\* with_update and insert: the premium is for reports.
LEMMA ReportTracked ==
    ASSUME IncomeInv, NEW p, NEW distance \in Nat,
           tracker' = [WithUpdate(tracker, p, distance) EXCEPT !.proofs = With(@, p, distance)]
    PROVE  /\ tracker' = [proofs |-> tracker'.proofs, min_distance |-> tracker'.min_distance,
                          premium |-> tracker'.premium]
           /\ DOMAIN tracker'.proofs = DOMAIN tracker.proofs \cup {p}
           /\ IsFiniteSet(DOMAIN tracker'.proofs)
           /\ tracker'.premium \subseteq DOMAIN tracker'.proofs
           /\ tracker'.min_distance \in Nat
PROOF
<1> PICK w : w = WithUpdate(tracker, p, distance)
  BY Zenon
<1>1. /\ tracker = [proofs |-> tracker.proofs, min_distance |-> tracker.min_distance,
                    premium |-> tracker.premium]
      /\ IsFiniteSet(DOMAIN tracker.proofs) /\ tracker.premium \subseteq DOMAIN tracker.proofs
      /\ tracker.min_distance \in Nat
  BY Zenon DEF IncomeInv
<1>2. /\ w = [proofs |-> w.proofs, min_distance |-> w.min_distance, premium |-> w.premium]
      /\ w.proofs = tracker.proofs /\ w.premium \subseteq tracker.premium \cup {p}
      /\ w.min_distance \in Nat
  <2>1. CASE tracker.premium = {} \/ distance < tracker.min_distance
    <3>1. w = [tracker EXCEPT !.min_distance = distance, !.premium = {p}]
      BY <1>1, <2>1 DEF WithUpdate
    <3> QED  BY Zenon, <1>1, <3>1
  <2>2. CASE /\ ~(tracker.premium = {} \/ distance < tracker.min_distance)
             /\ tracker.premium # {} /\ distance = tracker.min_distance
    <3>1. w = [tracker EXCEPT !.premium = @ \cup {p}]
      BY Zenon, <2>2 DEF WithUpdate
    <3> QED  BY Zenon, <1>1, <3>1
  <2>3. CASE /\ ~(tracker.premium = {} \/ distance < tracker.min_distance)
             /\ ~(tracker.premium # {} /\ distance = tracker.min_distance)
    <3>1. w = tracker
      BY Zenon, <2>3 DEF WithUpdate
    <3> QED  BY Zenon, <1>1, <3>1
  <2> QED  BY Zenon, <2>1, <2>2, <2>3
<1>3. tracker' = [w EXCEPT !.proofs = With(@, p, distance)]
  BY Zenon
<1>4. /\ tracker'.proofs = With(tracker.proofs, p, distance)
      /\ tracker'.premium = w.premium /\ tracker'.min_distance = w.min_distance
      /\ tracker' = [proofs |-> tracker'.proofs, min_distance |-> tracker'.min_distance,
                     premium |-> tracker'.premium]
  BY Zenon, <1>2, <1>3
<1>5. DOMAIN tracker'.proofs = DOMAIN tracker.proofs \cup {p}
  BY Zenon, <1>4 DEF With
<1>6. IsFiniteSet(DOMAIN tracker'.proofs)
  BY <1>1, <1>5, FS_AddElement
<1> QED  BY Zenon, <1>1, <1>2, <1>4, <1>5, <1>6

\* A report is tracked, and takes effect on the declaration it is for.
LEMMA SendActiveKeeps ==
    ASSUME SdpInv, NEW zk \in ZkIds, NEW nonce \in Nonces, NEW distance,
           distance \in Nat, SendActive(zk, nonce, distance)
    PROVE  SdpInv'
PROOF
<1> DEFINE d == declarations[zk]
<1>1. /\ RegistryInv /\ SnapshotInv(active_declarations, 0)
      /\ SnapshotInv(next_active_declarations, 1) /\ TargetInv /\ GenesisInv /\ EarlyInv
      /\ ReportingKeepsOnesPlace /\ KeepsPlaceNext /\ IncomeInv
  BY Zenon DEF SdpInv, PlacesInv
<1>2. /\ zk \in DOMAIN declarations /\ ValidateNonce(zk, nonce) /\ HasTarget
      /\ d.provider_id \in DOMAIN target.providers
      /\ declarations' = [declarations EXCEPT ![zk].active = epoch,
                                              ![zk].sequence = nonce.sequence]
      /\ tracker' = [WithUpdate(tracker, d.provider_id, distance) EXCEPT
                !.proofs = With(@, d.provider_id, distance)]
      /\ Accept(zk, nonce) /\ epoch' = epoch
      /\ UNCHANGED <<utxos, provider_index, service_notes, active_declarations,
                     next_active_declarations, target, epoch_income>>
  BY Zenon DEF SendActive, snapshotVars
<1>3. /\ epoch \in Nat /\ d \in DeclarationType /\ d.withdraw_at \in Nat
      /\ d.withdraw_at >= epoch /\ d.created \in Nat
  BY Zenon, <1>1, <1>2, DeclarationFields
<1>4. nonce.sequence \in Nat
  BY SdpConstants DEF Nonces
<1>5. declarations' = [declarations EXCEPT ![zk] =
          [@ EXCEPT !.active = epoch, !.withdraw_at = d.withdraw_at, !.sequence = nonce.sequence]]
  <2>1. [d EXCEPT !.active = epoch, !.sequence = nonce.sequence] =
        [d EXCEPT !.active = epoch, !.withdraw_at = d.withdraw_at, !.sequence = nonce.sequence]
    BY Zenon, <1>3 DEF DeclarationType
  <2>2. declarations' = [declarations EXCEPT ![zk] =
              [d EXCEPT !.active = epoch, !.sequence = nonce.sequence]]
    BY Zenon, <1>2
  <2> QED  BY Zenon, <2>1, <2>2
<1>6. RegistryInv' /\ UpdatedOK(zk, epoch, d.withdraw_at, nonce.sequence)
  BY ZenonT(30), <1>1, <1>2, <1>3, <1>4, <1>5, UpdateRegistry
<1>7. /\ ReplayInv' /\ history'.idle = history.idle /\ history'.income = history.income
      /\ history'.paid = history.paid
      /\ history' = [accepted |-> history'.accepted, idle |-> history'.idle,
                     income |-> history'.income, paid |-> history'.paid]
  BY ZenonT(30), <1>2, <1>6, AcceptKeeps
<1>8. SnapshotInv(active_declarations, 0)' /\ SnapshotInv(next_active_declarations, 1)'
  BY <1>1, <1>2, <1>6, UpdateSnapshots DEF SnapshotInv
<1>9. /\ tracker' = [proofs |-> tracker'.proofs, min_distance |-> tracker'.min_distance,
                     premium |-> tracker'.premium]
      /\ DOMAIN tracker'.proofs = DOMAIN tracker.proofs \cup {d.provider_id}
      /\ IsFiniteSet(DOMAIN tracker'.proofs)
      /\ tracker'.premium \subseteq DOMAIN tracker'.proofs /\ tracker'.min_distance \in Nat
  <2> HIDE DEF d
  <2> QED  BY Zenon, <1>1, <1>2, ReportTracked
<1>10. /\ DOMAIN declarations' = DOMAIN declarations
       /\ \A z \in DOMAIN declarations :
             /\ declarations'[z].created = declarations[z].created
             /\ declarations'[z].provider_id = declarations[z].provider_id
             /\ declarations'[z].withdraw_at = declarations[z].withdraw_at
             /\ z # zk => declarations'[z].active = declarations[z].active
       /\ declarations'[zk].active = epoch
  BY Zenon, <1>6 DEF UpdatedOK
<1>11. provider_index[d.provider_id] = zk
  BY Zenon, <1>1, <1>2 DEF RegistryInv, RegistryIsConsistent
<1>12. TargetInv'
  <2>1. ASSUME NEW p \in DOMAIN target.providers
        PROVE  /\ p \in DOMAIN provider_index /\ provider_index[p] = target.providers[p]
               /\ declarations'[provider_index[p]].created + 2 < epoch
                    \/ declarations'[provider_index[p]].created = 0
    <3>1. /\ p \in DOMAIN provider_index /\ provider_index[p] = target.providers[p]
          /\ declarations[provider_index[p]].created + 2 < epoch
                    \/ declarations[provider_index[p]].created = 0
      BY Zenon, <1>1, SdpConstants DEF TargetInv
    <3>2. provider_index[p] \in DOMAIN declarations
      BY Zenon, <1>1, <3>1 DEF RegistryInv, RegistryIsConsistent
    <3> QED  BY Zenon, <1>10, <3>1, <3>2
  <2>2. ASSUME NEW p \in DOMAIN tracker'.proofs
        PROVE  p \in DOMAIN target.providers /\ declarations'[provider_index[p]].active = epoch
    <3>1. CASE p = d.provider_id
      BY Zenon, <1>2, <1>10, <1>11, <3>1
    <3>2. CASE p \in DOMAIN tracker.proofs
      <4>1. /\ p \in DOMAIN target.providers /\ p \in DOMAIN provider_index
            /\ declarations[provider_index[p]].active = epoch
        BY Zenon, <1>1, <3>2 DEF TargetInv
      <4>2. provider_index[p] \in DOMAIN declarations
        BY Zenon, <1>1, <4>1 DEF RegistryInv, RegistryIsConsistent
      <4> QED  BY Zenon, <1>10, <4>1, <4>2
    <3> QED  BY Zenon, <1>9, <3>1, <3>2
  <2> QED  BY ZenonT(30), <1>2, <2>1, <2>2, SdpConstants DEF TargetInv
<1>13. GenesisInv'
  BY Zenon, <1>1, <1>2 DEF GenesisInv, HasTarget
<1>14. EarlyInv'
  <2> SUFFICES ASSUME NEW z \in DOMAIN declarations',
                      declarations'[z].active < declarations'[z].created + 2
               PROVE  /\ declarations'[z].created = 0 /\ declarations'[z].active = 1
                      /\ epoch' # 0
                      /\ epoch' = 1 => z \in DOMAIN active_declarations' /\ HasTarget'
                      /\ epoch' = 2 => \/ z \in history'.idle
                           \/ declarations'[z].provider_id \in DOMAIN target'.providers
    BY Zenon, SdpConstants DEF EarlyInv
  <2>1. CASE z = zk
    <3>1. d.created + 2 < epoch \/ d.created = 0
      BY Zenon, <1>1, <1>2, <1>11, SdpConstants DEF TargetInv
    <3>2. epoch < d.created + 2
      BY Zenon, <1>2, <1>10, <2>1
    <3>3. epoch # 0
      BY Zenon, <1>1, <1>2 DEF GenesisInv
    <3>4. d.created = 0 /\ epoch = 1
      BY <1>3, <3>1, <3>2, <3>3
    <3>5. zk \in DOMAIN active_declarations
      <4>1. target.providers[d.provider_id] = zk
        BY Zenon, <1>1, <1>2, <1>11 DEF TargetInv
      <4> QED  BY Zenon, <1>1, <1>2, <3>4, <4>1 DEF GenesisInv
    <3>6. declarations'[z].created = 0 /\ declarations'[z].active = 1
      BY Zenon, <1>2, <1>10, <2>1, <3>4
    <3>7. HasTarget'
      BY Zenon, <1>2 DEF HasTarget
    <3> QED  BY <1>2, <2>1, <3>4, <3>5, <3>6, <3>7
  <2>2. CASE z # zk
    <3>1. z \in DOMAIN declarations /\ declarations[z].active < declarations[z].created + 2
      BY Zenon, <1>10, <2>2
    <3>2. /\ declarations[z].created = 0 /\ declarations[z].active = 1 /\ epoch # 0
          /\ epoch = 1 => z \in DOMAIN active_declarations /\ HasTarget
          /\ epoch = 2 => \/ z \in history.idle
                          \/ declarations[z].provider_id \in DOMAIN target.providers
      BY Zenon, <1>1, <3>1, SdpConstants DEF EarlyInv
    <3> QED  BY Zenon, <1>2, <1>7, <1>10, <2>2, <3>1, <3>2 DEF HasTarget
  <2> QED  BY Zenon, <2>1, <2>2
<1>15. ReportingKeepsOnesPlace' /\ KeepsPlaceNext'
  BY Zenon, <1>1, <1>2, <1>7, <1>10 DEF ReportingKeepsOnesPlace, KeepsPlaceNext
<1>16. IncomeInv'
  BY Zenon, <1>1, <1>2, <1>7, <1>9 DEF IncomeInv
<1> QED  BY ZenonT(30), <1>6, <1>7, <1>8, <1>12, <1>13, <1>14, <1>15, <1>16 DEF SdpInv, PlacesInv

\* A withdrawal takes effect after everything its declaration is to serve in.
LEMMA WithdrawKeeps ==
    ASSUME SdpInv, NEW zk \in ZkIds, NEW nonce \in Nonces, Withdraw(zk, nonce)
    PROVE  SdpInv'
PROOF
<1> DEFINE d == declarations[zk]
<1>1. /\ RegistryInv /\ SnapshotInv(active_declarations, 0)
      /\ SnapshotInv(next_active_declarations, 1) /\ TargetInv /\ GenesisInv /\ EarlyInv
      /\ ReportingKeepsOnesPlace /\ KeepsPlaceNext /\ IncomeInv
  BY Zenon DEF SdpInv, PlacesInv
<1>2. /\ zk \in DOMAIN declarations /\ ValidateNonce(zk, nonce)
      /\ declarations' = [declarations EXCEPT ![zk].withdraw_at = WithdrawAt(epoch),
                                              ![zk].sequence = nonce.sequence]
      /\ Accept(zk, nonce) /\ epoch' = epoch
      /\ UNCHANGED <<utxos, provider_index, service_notes, active_declarations,
                     next_active_declarations, target, tracker, epoch_income>>
  BY Zenon DEF Withdraw, snapshotVars, incomeVars
<1>3. /\ epoch \in Nat /\ epoch <= MaxEpoch /\ d \in DeclarationType /\ d.active \in Nat
  BY Zenon, <1>1, <1>2, DeclarationFields
<1>4. nonce.sequence \in Nat /\ WithdrawAt(epoch) = epoch + 2
  BY SdpConstants DEF Nonces, WithdrawAt
<1>5. declarations' = [declarations EXCEPT ![zk] =
          [@ EXCEPT !.active = d.active, !.withdraw_at = epoch + 2, !.sequence = nonce.sequence]]
  <2>1. [d EXCEPT !.withdraw_at = epoch + 2, !.sequence = nonce.sequence] =
        [d EXCEPT !.active = d.active, !.withdraw_at = epoch + 2, !.sequence = nonce.sequence]
    BY Zenon, <1>3 DEF DeclarationType
  <2>2. declarations' = [declarations EXCEPT ![zk] =
              [d EXCEPT !.withdraw_at = epoch + 2, !.sequence = nonce.sequence]]
    BY Zenon, <1>2, <1>4
  <2> QED  BY Zenon, <2>1, <2>2
<1>6. RegistryInv' /\ UpdatedOK(zk, d.active, epoch + 2, nonce.sequence)
  <2> PICK w : w = epoch + 2
    BY Zenon
  <2>1. w \in Nat /\ w >= epoch
    BY <1>3
  <2> QED  BY Zenon, <1>1, <1>2, <1>3, <1>4, <1>5, <2>1, UpdateRegistry
<1>7. /\ ReplayInv' /\ history'.idle = history.idle /\ history'.income = history.income
      /\ history'.paid = history.paid
      /\ history' = [accepted |-> history'.accepted, idle |-> history'.idle,
                     income |-> history'.income, paid |-> history'.paid]
  BY Zenon, <1>2, <1>6, AcceptKeeps
<1>8. SnapshotInv(active_declarations, 0)' /\ SnapshotInv(next_active_declarations, 1)'
  <2> PICK w : w = epoch + 2
    BY Zenon
  <2>1. UpdatedOK(zk, d.active, w, nonce.sequence)
    BY Zenon, <1>6
  <2>2. \A z \in DOMAIN active_declarations :
             /\ z \in DOMAIN declarations'
             /\ declarations'[z].created = active_declarations[z].created
             /\ declarations'[z].provider_id = active_declarations[z].provider_id
             /\ declarations'[z].withdraw_at > epoch' + 0
             /\ declarations'[z].created + SNAPSHOT_FINALIZATION_DELAY <= epoch' + 0
                 \/ declarations'[z].created = 0
    BY Zenon, <1>1, <1>2, <2>1, UpdateSnapshots
  <2>3. \A z \in DOMAIN next_active_declarations :
             /\ z \in DOMAIN declarations'
             /\ declarations'[z].created = next_active_declarations[z].created
             /\ declarations'[z].provider_id = next_active_declarations[z].provider_id
             /\ declarations'[z].withdraw_at > epoch' + 1
             /\ declarations'[z].created + SNAPSHOT_FINALIZATION_DELAY <= epoch' + 1
                 \/ declarations'[z].created = 0
    BY Zenon, <1>1, <1>2, <2>1, UpdateSnapshots
  <2> QED  BY <1>2, <2>2, <2>3 DEF SnapshotInv
<1>9. /\ DOMAIN declarations' = DOMAIN declarations
      /\ \A z \in DOMAIN declarations :
            /\ declarations'[z].created = declarations[z].created
            /\ declarations'[z].provider_id = declarations[z].provider_id
            /\ declarations'[z].active = declarations[z].active
            /\ z # zk => declarations'[z].withdraw_at = declarations[z].withdraw_at
      /\ declarations'[zk].withdraw_at = epoch + 2 /\ epoch + 2 # Never
  BY <1>3, <1>6, SdpConstants DEF UpdatedOK
<1>10. TargetInv'
  <2>1. \A p \in DOMAIN provider_index : provider_index[p] \in DOMAIN declarations
    BY Zenon, <1>1 DEF RegistryInv, RegistryIsConsistent
  <2>2. \A p \in DOMAIN provider_index :
          /\ declarations'[provider_index[p]].created = declarations[provider_index[p]].created
          /\ declarations'[provider_index[p]].active = declarations[provider_index[p]].active
    BY Zenon, <1>9, <2>1
  <2>3. /\ \A p \in DOMAIN target.providers :
              /\ p \in DOMAIN provider_index /\ provider_index[p] = target.providers[p]
              /\ declarations'[provider_index[p]].created + SNAPSHOT_FINALIZATION_DELAY < epoch
                  \/ declarations'[provider_index[p]].created = 0
        /\ \A p \in DOMAIN tracker.proofs :
              /\ p \in DOMAIN target.providers
              /\ declarations'[provider_index[p]].active = epoch
    BY Zenon, <1>1, <2>2 DEF TargetInv
  <2> QED  BY Zenon, <1>2, <2>3 DEF TargetInv
<1>11. GenesisInv'
  BY Zenon, <1>1, <1>2 DEF GenesisInv, HasTarget
<1>12. EarlyInv'
  <2> SUFFICES ASSUME NEW z \in DOMAIN declarations',
                      declarations'[z].active < declarations'[z].created + 2
               PROVE  /\ declarations'[z].created = 0 /\ declarations'[z].active = 1
                      /\ epoch' # 0
                      /\ epoch' = 1 => z \in DOMAIN active_declarations' /\ HasTarget'
                      /\ epoch' = 2 => \/ z \in history'.idle
                           \/ declarations'[z].provider_id \in DOMAIN target'.providers
    BY Zenon, SdpConstants DEF EarlyInv
  <2>1. z \in DOMAIN declarations /\ declarations[z].active < declarations[z].created + 2
    BY Zenon, <1>9
  <2>2. /\ declarations[z].created = 0 /\ declarations[z].active = 1 /\ epoch # 0
        /\ epoch = 1 => z \in DOMAIN active_declarations /\ HasTarget
        /\ epoch = 2 => \/ z \in history.idle
                        \/ declarations[z].provider_id \in DOMAIN target.providers
    BY Zenon, <1>1, <2>1, SdpConstants DEF EarlyInv
  <2> QED  BY Zenon, <1>2, <1>7, <1>9, <2>1, <2>2 DEF HasTarget
<1>13. ReportingKeepsOnesPlace' /\ KeepsPlaceNext'
  BY Zenon, <1>1, <1>2, <1>7, <1>9 DEF ReportingKeepsOnesPlace, KeepsPlaceNext
<1>14. IncomeInv'
  BY Zenon, <1>1, <1>2, <1>7 DEF IncomeInv
<1> QED  BY Zenon, <1>6, <1>7, <1>8, <1>10, <1>11, <1>12, <1>13, <1>14 DEF SdpInv, PlacesInv

-----------------------------------------------------------------------------
(* The theorems. *)

\* The genesis state.
LEMMA SdpInitOK == SdpInit => SdpInv
PROOF
<1> SUFFICES ASSUME SdpInit PROVE SdpInv
  BY Zenon
<1>1. /\ RegistryInv
      /\ \A z \in DOMAIN declarations :
            /\ declarations[z].created = 0 /\ declarations[z].active = 2
            /\ declarations[z].withdraw_at = Never
  BY Zenon, RegistryInit
<1>2. /\ epoch = 0 /\ active_declarations = declarations
      /\ next_active_declarations = declarations /\ target = NoTarget /\ tracker = NoReports
      /\ epoch_income = 0 /\ history = [accepted |-> {}, idle |-> {}, income |-> 0, paid |-> 0]
  BY Zenon DEF SdpInit
<1>3. SnapshotInv(active_declarations, 0) /\ SnapshotInv(next_active_declarations, 1)
  BY <1>1, <1>2, SdpConstants DEF SnapshotInv
<1>4. DOMAIN target.providers = {} /\ target.income = 0
  BY <1>2 DEF NoTarget
<1>5. /\ DOMAIN tracker.proofs = {} /\ tracker.premium = {} /\ tracker.min_distance = 0
      /\ tracker = [proofs |-> tracker.proofs, min_distance |-> tracker.min_distance,
                    premium |-> tracker.premium]
  BY <1>2 DEF NoReports
<1>6. TargetInv
  BY Zenon, <1>4, <1>5 DEF TargetInv
<1>7. PlacesInv
  <2>1. GenesisInv
    BY Zenon, <1>2, <1>4 DEF GenesisInv, HasTarget
  <2>2. EarlyInv
    BY <1>1, SdpConstants DEF EarlyInv
  <2>3. ReportingKeepsOnesPlace /\ KeepsPlaceNext
    BY Zenon, <1>2 DEF ReportingKeepsOnesPlace, KeepsPlaceNext
  <2> QED  BY Zenon, <2>1, <2>2, <2>3 DEF PlacesInv
<1>8. ReplayInv
  BY Zenon, <1>2 DEF ReplayInv
<1>9. IncomeInv
  BY <1>2, <1>4, <1>5, FS_EmptySet DEF IncomeInv
<1> QED  BY Zenon, <1>1, <1>3, <1>6, <1>7, <1>8, <1>9 DEF SdpInv

\* The change of epoch, add_blend_income, and the three operations and a
\* transfer keep the invariant.
LEMMA SdpNextOK == SdpInv /\ [SdpNext]_sdpVars => SdpInv'
PROOF
<1> SUFFICES ASSUME SdpInv, [SdpNext]_sdpVars PROVE SdpInv'
  BY Zenon
<1>1. CASE \E e \in 1 .. MaxEpoch : EnterEpoch(e)
  BY Zenon, <1>1, EnterRegistry, EnterSnapshots, EnterTarget, EnterPlaces, EnterReplay, EnterIncome
     DEF SdpInv
<1>2. CASE AddIncome
  <2>1. /\ epoch_income' = epoch_income + BlockIncome
        /\ history' = [history EXCEPT !.income = @ + BlockIncome]
        /\ UNCHANGED <<epoch, utxos, declarations, provider_index, service_notes,
                       active_declarations, next_active_declarations, target, tracker>>
    BY Zenon, <1>2 DEF AddIncome, registryVars, snapshotVars
  <2>2. /\ history'.accepted = history.accepted /\ history'.idle = history.idle
        /\ history'.paid = history.paid /\ history'.income = history.income + BlockIncome
        /\ history' = [accepted |-> history'.accepted, idle |-> history'.idle,
                       income |-> history'.income, paid |-> history'.paid]
    BY Zenon, <2>1 DEF SdpInv, IncomeInv
  <2>3. RegistryInv'
    BY Zenon, <2>1 DEF SdpInv, RegistryInv, RegistryIsConsistent
  <2>4. SnapshotInv(active_declarations, 0)' /\ SnapshotInv(next_active_declarations, 1)'
    BY Zenon, <2>1 DEF SdpInv, SnapshotInv
  <2>5. TargetInv' /\ GenesisInv'
    BY Zenon, <2>1 DEF SdpInv, TargetInv, PlacesInv, GenesisInv, HasTarget
  <2>6. EarlyInv' /\ ReportingKeepsOnesPlace' /\ KeepsPlaceNext'
    BY Zenon, <2>1, <2>2 DEF SdpInv, PlacesInv, EarlyInv, ReportingKeepsOnesPlace, KeepsPlaceNext,
                      HasTarget
  <2>7. ReplayInv'
    BY Zenon, <2>1, <2>2 DEF SdpInv, ReplayInv
  <2>8. IncomeInv'
    <3>1. /\ target.income \in Nat /\ epoch_income \in Nat
          /\ history.paid \in Nat /\ history.income \in Nat
          /\ history.paid + target.income + epoch_income <= history.income
      BY Zenon DEF SdpInv, IncomeInv
    <3>2. /\ epoch_income' \in Nat /\ history'.paid \in Nat /\ history'.income \in Nat
          /\ history'.paid + target'.income + epoch_income' <= history'.income
      BY <2>1, <2>2, <3>1, SdpConstants
    <3> QED  BY Zenon, <2>1, <2>2, <3>1, <3>2 DEF SdpInv, IncomeInv
  <2> QED  BY Zenon, <2>3, <2>4, <2>5, <2>6, <2>7, <2>8 DEF SdpInv, PlacesInv
<1>3. CASE \E zk \in ZkIds, provider \in ProviderIds, note \in Notes :
             Declare(zk, provider, note)
  BY Zenon, <1>3, DeclareKeeps
<1>4. CASE \E zk \in ZkIds, nonce \in Nonces, distance \in Distances :
             SendActive(zk, nonce, distance)
  BY Zenon, <1>4, SendActiveKeeps, SdpConstants
<1>5. CASE \E zk \in ZkIds, nonce \in Nonces : Withdraw(zk, nonce)
  BY Zenon, <1>5, WithdrawKeeps
<1>6. CASE (\E note \in Notes : Spend(note)) \/ UNCHANGED sdpVars
  <2>1. /\ UNCHANGED <<epoch, declarations, provider_index, service_notes,
                       active_declarations, next_active_declarations, target, tracker,
                       epoch_income, history>>
        /\ \A n \in DOMAIN service_notes : n \in utxos => n \in utxos'
    BY Zenon, <1>6 DEF Spend, sdpVars, registryVars, snapshotVars, incomeVars
  <2>2. RegistryInv'
    <3>1. \A z \in DOMAIN declarations :
            declarations[z].note \in DOMAIN service_notes /\ declarations[z].note \in utxos
      BY Zenon DEF SdpInv, RegistryInv, RegistryIsConsistent
    <3>2. \A z \in DOMAIN declarations : declarations[z].note \in utxos'
      BY Zenon, <2>1, <3>1
    <3> QED  BY Zenon, <2>1, <3>2 DEF SdpInv, RegistryInv, RegistryIsConsistent
  <2>3. SnapshotInv(active_declarations, 0)' /\ SnapshotInv(next_active_declarations, 1)'
    BY Zenon, <2>1 DEF SdpInv, SnapshotInv
  <2>4. TargetInv' /\ GenesisInv' /\ ReplayInv' /\ IncomeInv'
    BY Zenon, <2>1 DEF SdpInv, TargetInv, PlacesInv, GenesisInv, HasTarget, ReplayInv, IncomeInv
  <2>5. EarlyInv' /\ ReportingKeepsOnesPlace' /\ KeepsPlaceNext'
    BY Zenon, <2>1 DEF SdpInv, PlacesInv, EarlyInv, ReportingKeepsOnesPlace, KeepsPlaceNext, HasTarget
  <2> QED  BY Zenon, <2>2, <2>3, <2>4, <2>5 DEF SdpInv, PlacesInv
<1> QED  BY Zenon, <1>1, <1>2, <1>3, <1>4, <1>5, <1>6 DEF SdpNext

\* Every provider that serves does so with its stake locked, can report for the
\* epoch it served in although it may have withdrawn since, and keeps its place
\* while it reports whenever that is due.
THEOREM ProvidersStaySound == SdpSpec => []ProvidersAreSound
PROOF
<1>1. SdpInv => ProvidersAreSound
  <2> SUFFICES ASSUME SdpInv PROVE ProvidersAreSound
    BY Zenon
  <2>1. RegistryIsConsistent /\ ReportingKeepsOnesPlace
    BY Zenon DEF SdpInv, RegistryInv, PlacesInv
  <2>2. ProvidersAreStaked
    BY Zenon DEF SdpInv, SnapshotInv, ProvidersAreStaked, Backed
  <2>3. ProvidersCanReport
    <3>1. \A p \in DOMAIN provider_index :
            provider_index[p] \in DOMAIN declarations
      BY Zenon, <2>1 DEF RegistryIsConsistent
    <3>2. \A z \in DOMAIN declarations : declarations[z].withdraw_at >= epoch
      BY Zenon DEF SdpInv, RegistryInv
    <3> QED  BY Zenon, <3>1, <3>2 DEF SdpInv, TargetInv, ProvidersCanReport
  <2> QED  BY Zenon, <2>1, <2>2, <2>3 DEF ProvidersAreSound
<1> QED  BY <1>1, SdpInitOK, SdpNextOK, PTL DEF SdpSpec

\* No signed message is applied twice, over all the lives of its declaration,
\* and no more is paid than the blocks of the target epochs brought in.
THEOREM ReportsArePaidOnce == SdpSpec => []ReportsPayOnce
PROOF
<1>1. SdpInv => ReportsPayOnce
  <2> SUFFICES ASSUME SdpInv PROVE ReportsPayOnce
    BY Zenon
  <2>1. RewardsAreCovered
    BY Zenon, SharesAreCovered DEF SdpInv, IncomeInv, RewardsAreCovered
  <2>2. NoReplay
    <3> SUFFICES ASSUME NEW m \in history.accepted, m[1] \in DOMAIN declarations,
                        ValidateNonce(m[1], m[2])
                 PROVE  FALSE
      BY Zenon DEF NoReplay
    <3>1. /\ m[2].sequence \in Nat /\ declarations[m[1]].sequence \in Nat
      BY Zenon, DeclarationFields DEF SdpInv, ReplayInv
    <3>2. m[2].sequence <= declarations[m[1]].sequence
      BY Zenon DEF SdpInv, ReplayInv, ValidateNonce
    <3> QED  BY <3>1, <3>2 DEF ValidateNonce
  <2> QED  BY Zenon, <2>1, <2>2 DEF ReportsPayOnce
<1> QED  BY <1>1, SdpInitOK, SdpNextOK, PTL DEF SdpSpec

-----------------------------------------------------------------------------
(* The reward pools: the inductive invariant. *)

LeaderPool ==
    [vouchers : SUBSET Nat, snapshot : SUBSET Nat, nfs : SUBSET Nat, pending : Nat,
     claimable : Nat]

PowPool(p) ==
    /\ p = [pool |-> p.pool, refill |-> p.refill, reward |-> p.reward, blocks |-> p.blocks,
            nullifiers |-> p.nullifiers]
    /\ p.pool \in Nat /\ p.refill \in Nat /\ p.reward \in Nat

\* Types, and the vouchers are those of the blocks so far.
PoolTypes ==
    /\ head = [number |-> head.number, slot |-> head.slot, epoch |-> head.epoch,
               previous |-> head.previous, open |-> head.open]
    /\ head.number \in Nat /\ head.slot \in 0..MaxHeadSlot /\ head.epoch \in Nat
    /\ leaders \in LeaderPool /\ PowPool(pow)
    /\ leaders.nfs \subseteq leaders.snapshot /\ leaders.snapshot \subseteq leaders.vouchers
    /\ leaders.vouchers = 1..head.number
    /\ feeWindow \in [0..(FeeWindowSize - 1) -> Nat]
    /\ paid = [earned |-> paid.earned, leaders |-> paid.leaders, refilled |-> paid.refilled,
               pow |-> paid.pow, times |-> paid.times]
    /\ paid.earned \in Nat /\ paid.leaders \in Nat /\ paid.refilled \in Nat /\ paid.pow \in Nat

\* As long as an anchor is remembered, so are the nullifiers of the solutions
\* that were paid for it: both go by the window of the anchor's era.
NullifiersHeld ==
    /\ \A n \in DOMAIN pow.blocks : n \in 1..head.number /\ pow.blocks[n] \in 0..MaxHeadSlot
    /\ \A s \in DOMAIN paid.times :
        /\ paid.times[s] = 1 /\ s.anchor \in 1..head.number
        /\ s.anchor \in DOMAIN pow.blocks =>
            s \in DOMAIN pow.nullifiers /\ pow.nullifiers[s] = pow.blocks[s.anchor]

RewardInv == PoolTypes /\ NullifiersHeld /\ LeaderRewardsConserved /\ PowPoolConserved

\* Whatever the shares, windows and fees of the deployment: leaders and miners
\* are paid exactly what entered their pools, no solution is paid twice, the
\* reward of a block fits the bound its conversion back to 64 bits expects
\* (LeaderState::reward_amount, PoWRewardState::claim and block_rewards), and
\* the order of claims does not matter beyond rounding.
THEOREM PoolsStayWhole == RewardSpec => PoolsPayWhatTheyHold
PROOF
    \* A quotient between two bounds that are a divisor apart.
<1>QuotientBetween.
    ASSUME NEW c \in Nat, NEW m \in Nat \ {0}, NEW q \in Nat,
           q * m <= c, c <= (q + 1) * m
    PROVE  c \div m \in {q, q + 1}
  <2> USE <1>QuotientBetween
  <2> PICK x \in Nat : x = c \div m /\ x * m <= c /\ c < x * m + m
    BY Zenon, Quotient
  <2>1. q <= x
    <3> SUFFICES ASSUME x + 1 <= q PROVE FALSE
      OBVIOUS
    <3>1. (x + 1) * m <= q * m /\ q * m \in Nat
      BY ProductGrows
    <3>2. (x + 1) * m = x * m + m /\ x * m \in Nat
      OBVIOUS
    <3> QED  BY <3>1, <3>2
  <2>2. x <= q + 1
    <3> SUFFICES ASSUME q + 1 < x PROVE FALSE
      OBVIOUS
    <3>1. (q + 1) * m < x * m /\ (q + 1) * m \in Nat /\ x * m \in Nat
      BY ProductGrowsStrictly
    <3> QED  BY <3>1
  <2> QED  BY <2>1, <2>2
    \* A share of one of n equal claimants leaves the others the same, or one more.
<1>EqualShares.
    ASSUME NEW c \in Nat, NEW n \in Nat, n >= 2
    PROVE  /\ c \div n \in Nat /\ c \div n <= c
           /\ (c - (c \div n)) \div (n - 1) \in {c \div n, (c \div n) + 1}
  <2> USE <1>EqualShares
  <2> PICK q \in Nat : q = c \div n /\ q * n <= c /\ c < q * n + n
    BY Quotient
  <2> PICK m \in Nat \ {0} : m = n - 1
    OBVIOUS
  <2>1. q * n = q * m + q /\ q * m \in Nat
    <3>1. n = m + 1
      OBVIOUS
    <3>2. q * (m + 1) = q * m + q /\ q * m \in Nat
      OBVIOUS
    <3> QED  BY Zenon, <3>1, <3>2
  <2>2. (q + 1) * m = q * m + m
    OBVIOUS
  <2>3. c - q \in Nat /\ q * m <= c - q /\ c - q <= (q + 1) * m
    BY <2>1, <2>2
  <2>4. (c - q) \div m \in {q, q + 1}
    BY Zenon, <2>3, <1>QuotientBetween
  <2>5. q <= c
    BY <2>1, <2>3
  <2> QED  BY Zenon, <2>4, <2>5
    \* The configuration.
<1>RewardConstants.
    /\ EpochSlots \in Nat /\ EpochSlots > 0 /\ FeeWindowSize \in Nat /\ FeeWindowSize > 0
    /\ GenesisPool \in Nat /\ MaxHeadSlot \in Nat /\ TotalStake \in Nat
    /\ Payout.num \in Nat /\ Payout.den \in Nat \ {0}
    /\ PowShare.den \in Nat \ {0} /\ PowShare.num \in Nat /\ PowShare.num <= PowShare.den
    /\ Emission.num \in Nat /\ Emission.den \in Nat \ {0} /\ Emission.scale \in Nat \ {0}
    /\ Emission.target \in Nat /\ Emission.average \in Nat
    /\ BlendShare.den \in Nat \ {0} /\ BlendShare.num \in Nat
    /\ BlendShare.num <= BlendShare.den
    BY RewardAssumption
    \* Mixed from emission and fee in parts of the scale, the reward is at most the
    \* larger of the two.
<1>MixIsBounded.
    ASSUME NEW num \in Nat, NEW den \in Nat \ {0}, NEW scale \in Nat \ {0},
           NEW weight \in Nat, weight <= scale, NEW fee \in Nat, NEW total \in Nat,
           (total * den) * scale <= num * weight + (den * (scale - weight)) * fee
    PROVE  total * den <= num \/ total <= fee
  <2> USE <1>MixIsBounded
  <2> SUFFICES ASSUME num < total * den, fee < total PROVE FALSE
    <3>1. total * den \in Nat
      OBVIOUS
    <3> QED  BY <3>1
  <2> PICK t \in Nat : t = total * den
    OBVIOUS
  <2> PICK rest \in Nat : rest = scale - weight
    OBVIOUS
  <2>1. t * scale = t * weight + t * rest /\ t * weight \in Nat /\ t * rest \in Nat
    <3>1. scale = weight + rest
      OBVIOUS
    <3>2. t * (weight + rest) = t * weight + t * rest
      OBVIOUS
    <3> QED  BY <3>1, <3>2
  <2>2. (den * rest) * fee <= t * rest /\ (den * rest) * fee \in Nat
    <3> PICK x \in Nat : x = den * rest
      OBVIOUS
    <3>1. fee * x <= total * x /\ fee * x \in Nat
      BY ProductGrows
    <3>2. total * x = (total * den) * rest
      OBVIOUS
    <3>3. x * fee = fee * x
      OBVIOUS
    <3> QED  BY Zenon, <3>1, <3>2, <3>3
  <2>3. num * weight <= t * weight /\ num * weight \in Nat
    BY ProductGrows
  <2>4. CASE weight # 0
    <3>1. num * weight < t * weight
      BY Zenon, <2>4, ProductGrowsStrictly
    <3> QED  BY <2>1, <2>2, <2>3, <3>1
  <2>5. CASE weight = 0
    <3>1. rest \in Nat \ {0}
      BY <2>5
    <3>2. (den * rest) * fee < t * rest
      <4> PICK x \in Nat \ {0} : x = den * rest
        <5>1. den * rest # 0 /\ den * rest \in Nat
          BY <3>1
        <5> QED  BY Zenon, <5>1
      <4>1. fee * x < total * x
        BY Zenon, ProductGrowsStrictly
      <4>2. total * x = (total * den) * rest /\ x * fee = fee * x
        OBVIOUS
      <4> QED  BY Zenon, <4>1, <4>2
    <3> QED  BY <2>1, <2>2, <2>3, <3>2
  <2> QED  BY Zenon, <2>4, <2>5
    \* Both shares of a block's reward are naturals, and together at most the larger
    \* of the full emission and the fee.
<1>BlockRewardsBounded.
    ASSUME NEW pooled \in Nat, NEW fee \in Nat
    PROVE  LET rewards == BlockRewards(pooled, fee)
               total   == rewards.blend + rewards.leader
           IN  /\ rewards.blend \in Nat /\ rewards.leader \in Nat
               /\ total * Emission.den <= Emission.num \/ total <= fee
  <2> USE <1>BlockRewardsBounded
  <2> PICK num \in Nat : num = Emission.num
    BY Zenon, <1>RewardConstants
  <2> PICK den \in Nat \ {0} : den = Emission.den
    BY Zenon, <1>RewardConstants
  <2> PICK scale \in Nat \ {0} : scale = Emission.scale
    BY Zenon, <1>RewardConstants
  <2> PICK bnum \in Nat, bden \in Nat \ {0} :
        bnum = BlendShare.num /\ bden = BlendShare.den /\ bnum <= bden
    BY Zenon, <1>RewardConstants
  <2> DEFINE excess == SatSub(Emission.target + Emission.average * pooled, TotalStake)
             w == IF excess < scale THEN excess ELSE scale
  <2>1. PICK weight \in Nat : weight = w /\ weight <= scale
    <3>1. Emission.average * pooled \in Nat
      BY <1>RewardConstants
    <3>2. Emission.target + Emission.average * pooled \in Nat
      BY <3>1, <1>RewardConstants
    <3>3. excess \in Nat
      BY <3>2, <1>RewardConstants DEF SatSub
    <3> HIDE DEF excess
    <3>4. w \in Nat /\ w <= scale
      BY <3>3
    <3> QED  BY Zenon, <3>4
  <2> DEFINE r == num * weight + den * (scale - weight) * fee
             d == den * scale * bden
  <2>2. PICK reward \in Nat : reward = r
    <3>1. num * weight \in Nat /\ scale - weight \in Nat
      BY <2>1
    <3>2. den * (scale - weight) \in Nat
      BY <3>1
    <3>3. den * (scale - weight) * fee \in Nat
      BY <3>2
    <3> QED  BY <3>1, <3>3
  <2>3. PICK D \in Nat \ {0} : D = d
    <3>1. den * scale \in Nat /\ den * scale # 0
      OBVIOUS
    <3> PICK y \in Nat \ {0} : y = den * scale
      BY Zenon, <3>1
    <3>2. y * bden \in Nat /\ y * bden # 0
      OBVIOUS
    <3> QED  BY Zenon, <3>2
  <2>4. BlockRewards(pooled, fee) =
          [blend |-> (reward * bnum) \div D, leader |-> (reward * (bden - bnum)) \div D]
    BY Zenon, <2>1, <2>2, <2>3 DEF BlockRewards
  <2> HIDE DEF r, d, w, excess
  <2> PICK brest \in Nat : brest = bden - bnum
    OBVIOUS
  <2>5. PICK a \in Nat : a = reward * bnum
    OBVIOUS
  <2>6. PICK b \in Nat : b = reward * brest
    OBVIOUS
  <2>7. PICK x \in Nat : x = a \div D /\ x * D <= a
    BY Zenon, Quotient
  <2>8. PICK y \in Nat : y = b \div D /\ y * D <= b
    BY Zenon, Quotient
  <2>9. BlockRewards(pooled, fee).blend = x /\ BlockRewards(pooled, fee).leader = y
    BY <2>4, <2>5, <2>6, <2>7, <2>8
  <2>10. a + b = reward * bden
    <3>1. bden = bnum + brest
      OBVIOUS
    <3>2. reward * (bnum + brest) = reward * bnum + reward * brest
      OBVIOUS
    <3> QED  BY Zenon, <2>5, <2>6, <3>1, <3>2
  <2>11. (x + y) * D <= reward * bden
    <3>1. (x + y) * D = x * D + y * D /\ x * D \in Nat /\ y * D \in Nat
      OBVIOUS
    <3> QED  BY <2>7, <2>8, <2>10, <3>1
  <2>12. PICK total \in Nat : total = x + y
    OBVIOUS
  <2>13. (total * den) * scale <= reward
    <3> PICK p \in Nat : p = (total * den) * scale
      <4>1. total * den \in Nat
        OBVIOUS
      <4> QED  BY <4>1
    <3>1. total * D = p * bden
      <4>1. D = (den * scale) * bden
        BY Zenon, <2>3 DEF d
      <4>2. total * ((den * scale) * bden) = ((total * den) * scale) * bden
        BY ProductRegroups
      <4> QED  BY Zenon, <4>1, <4>2
    <3>2. p * bden <= reward * bden
      BY Zenon, <2>11, <2>12, <3>1
    <3>3. ~(reward < p)
      <4> SUFFICES ASSUME reward < p PROVE FALSE
        BY Zenon
      <4>1. reward * bden < p * bden /\ reward * bden \in Nat /\ p * bden \in Nat
        BY ProductGrowsStrictly
      <4> QED  BY <3>2, <4>1
    <3> QED  BY <3>3
  <2>14. reward = num * weight + (den * (scale - weight)) * fee
    BY Zenon, <2>2 DEF r
  <2>15. total * den <= num \/ total <= fee
    BY Zenon, <2>1, <2>13, <2>14, <1>MixIsBounded
  <2> QED  BY Zenon, <2>9, <2>12, <2>15
    \* Reading the pools.
<1>PoolFields.
    ASSUME PoolTypes
    PROVE  /\ head.number \in Nat /\ head.slot \in Nat /\ head.slot <= MaxHeadSlot
           /\ leaders \in LeaderPool /\ leaders.pending \in Nat /\ leaders.claimable \in Nat
           /\ leaders.nfs \subseteq leaders.snapshot
           /\ leaders.snapshot \subseteq leaders.vouchers
           /\ leaders.vouchers = 1..head.number
           /\ pow.pool \in Nat /\ pow.refill \in Nat /\ pow.reward \in Nat
           /\ paid.earned \in Nat /\ paid.leaders \in Nat
           /\ paid.refilled \in Nat /\ paid.pow \in Nat
  <2> USE <1>PoolFields
  <2>1. leaders \in LeaderPool
    BY Zenon DEF PoolTypes
  <2>2. leaders.pending \in Nat /\ leaders.claimable \in Nat
    BY Zenon, <2>1 DEF LeaderPool
  <2>3. /\ leaders.nfs \subseteq leaders.snapshot
        /\ leaders.snapshot \subseteq leaders.vouchers
        /\ leaders.vouchers = 1..head.number
    BY Zenon DEF PoolTypes
  <2>4. pow.pool \in Nat /\ pow.refill \in Nat /\ pow.reward \in Nat
    BY Zenon DEF PoolTypes, PowPool
  <2>5. head.number \in Nat /\ head.slot \in Nat /\ head.slot <= MaxHeadSlot
    <3>1. head.number \in Nat /\ head.slot \in 0..MaxHeadSlot
      BY Zenon DEF PoolTypes
    <3> QED  BY <3>1, <1>RewardConstants
  <2> QED  BY Zenon, <2>1, <2>2, <2>3, <2>4, <2>5 DEF PoolTypes
    \* The fees of the window add up.
<1>WindowSum.
    ASSUME NEW f \in [0..(FeeWindowSize - 1) -> Nat]
    PROVE  FoldFunction(+, 0, f) \in Nat
  <2> USE <1>WindowSum
  <2>1. FoldFunction(+, 0, f) = Sum(DOMAIN f, f)
    BY Zenon DEF FoldFunction, Sum
  <2>2. IsFiniteSet(DOMAIN f)
    BY <1>RewardConstants, FS_Interval
  <2> QED  BY Zenon, <2>1, <2>2, SumNat
    \* The reward of an epoch is a natural.
<1>EpochRewardNat. ASSUME NEW pool \in Nat PROVE EpochReward(pool) \in Nat
  <2> USE <1>EpochRewardNat
  <2>1. pool * Payout.num \in Nat
    BY <1>RewardConstants
  <2> QED  BY Zenon, <2>1, <1>RewardConstants, Quotient DEF EpochReward
    \* A claim takes part of what is claimable.
<1>ClaimTakesPart.
    ASSUME PoolTypes, NEW v \in leaders.snapshot, v \notin leaders.nfs
    PROVE  LET n == Cardinality(leaders.snapshot) - Cardinality(leaders.nfs)
           IN  /\ n \in Nat /\ n > 0 /\ RewardAmount(leaders) = leaders.claimable \div n
               /\ RewardAmount(leaders) \in Nat /\ RewardAmount(leaders) <= leaders.claimable
               /\ IsFiniteSet(leaders.snapshot) /\ IsFiniteSet(leaders.nfs)
               /\ Cardinality(leaders.snapshot) \in Nat /\ Cardinality(leaders.nfs) \in Nat
  <2> USE <1>ClaimTakesPart
  <2>1. IsFiniteSet(leaders.snapshot)
    <3>1. leaders.snapshot \subseteq 1..head.number /\ head.number \in Nat
      BY Zenon DEF PoolTypes
    <3>2. IsFiniteSet(1..head.number)
      <4>1. 1 \in Int /\ head.number \in Int
        BY <3>1
      <4> QED  BY Zenon, <4>1, FS_Interval
    <3> QED  BY Zenon, <3>1, <3>2, FS_Subset
  <2>2. leaders.nfs \subseteq leaders.snapshot
    BY Zenon DEF PoolTypes
  <2>3. IsFiniteSet(leaders.nfs) /\ leaders.nfs # leaders.snapshot
    BY Zenon, <2>1, <2>2, FS_Subset
  <2>4. PICK s \in Nat, k \in Nat :
          s = Cardinality(leaders.snapshot) /\ k = Cardinality(leaders.nfs) /\ k < s
    <3>1. Cardinality(leaders.snapshot) \in Nat /\ Cardinality(leaders.nfs) \in Nat
      BY Zenon, <2>1, <2>3, FS_CardinalityType
    <3>2. Cardinality(leaders.nfs) < Cardinality(leaders.snapshot)
      BY <2>1, <2>2, <2>3, <3>1, FS_Subset
    <3> QED  BY Zenon, <3>1, <3>2
  <2>5. PICK n \in Nat \ {0} : n = s - k
    BY <2>4
  <2>6. RewardAmount(leaders) = leaders.claimable \div n
    BY Zenon, <2>4, <2>5 DEF RewardAmount, SatSub
  <2>7. leaders.claimable \in Nat
    BY Zenon DEF PoolTypes, LeaderPool
  <2>8. PICK q \in Nat : q = leaders.claimable \div n /\ q * n <= leaders.claimable
    BY Zenon, <2>7, Quotient
  <2>9. q <= q * n
    <3>1. 1 * q <= n * q
      BY <2>5, ProductGrows
    <3> QED  BY <3>1
  <2>10. q * n \in Nat
    OBVIOUS
  <2> QED  BY SMTT(20), <2>1, <2>3, <2>4, <2>5, <2>6, <2>7, <2>8, <2>9, <2>10
    \* The header of a block: pools move on with the epoch, old anchors are
    \* forgotten together with the nullifiers of their solutions.
<1>HeaderKeeps.
    ASSUME RewardInv, NEW slot \in 1..MaxHeadSlot, Header(slot)
    PROVE  RewardInv'
  <2> USE <1>HeaderKeeps
  <2> DEFINE number == head.number + 1
             enters == EpochAt(slot) > head.epoch
             l == IF enters THEN LeadersEnter(leaders) ELSE leaders
             p == IF enters THEN PowEnter(pow) ELSE pow
  <2>1. /\ head.number \in Nat /\ leaders \in LeaderPool /\ PowPool(pow) /\ slot \in Nat
        /\ leaders.nfs \subseteq leaders.snapshot /\ leaders.snapshot \subseteq leaders.vouchers
        /\ leaders.vouchers = 1..head.number
        /\ paid.earned = leaders.pending + leaders.claimable + paid.leaders
        /\ GenesisPool + paid.refilled = pow.pool + pow.refill + paid.pow
        /\ head.slot \in 0..MaxHeadSlot
    <3>1. PoolTypes /\ PowPool(pow) /\ head.slot \in 0..MaxHeadSlot
      BY Zenon DEF RewardInv, PoolTypes
    <3>2. slot \in Nat
      BY <1>RewardConstants
    <3> QED  BY Zenon, <3>1, <3>2, <1>PoolFields DEF RewardInv, LeaderRewardsConserved, PowPoolConserved
  <2>2. /\ head'.number = number /\ head'.slot = slot /\ head'.epoch = EpochAt(slot)
        /\ leaders' = AddVoucher(l, number) /\ pow' = SeenBlock(p, number, slot)
        /\ feeWindow' = feeWindow /\ paid' = paid
    BY Zenon DEF Header
  <2>3. /\ l \in LeaderPool /\ l.nfs = leaders.nfs /\ l.vouchers = leaders.vouchers
        /\ l.nfs \subseteq l.snapshot /\ l.snapshot \subseteq l.vouchers
        /\ l.pending + l.claimable = leaders.pending + leaders.claimable
    <3>1. CASE enters
      <4> PICK sum \in Nat : sum = leaders.claimable + leaders.pending
        BY <2>1 DEF LeaderPool
      <4>1. l = [leaders EXCEPT !.snapshot = leaders.vouchers, !.claimable = sum, !.pending = 0]
        BY Zenon, <3>1 DEF LeadersEnter
      <4> HIDE DEF l
      <4>2. /\ l \in LeaderPool /\ l.nfs = leaders.nfs /\ l.vouchers = leaders.vouchers
            /\ l.snapshot = leaders.vouchers /\ l.pending = 0 /\ l.claimable = sum
        <5>1. /\ leaders = [vouchers |-> leaders.vouchers, snapshot |-> leaders.snapshot,
                            nfs |-> leaders.nfs, pending |-> leaders.pending,
                            claimable |-> leaders.claimable]
              /\ leaders.vouchers \in SUBSET Nat /\ leaders.nfs \in SUBSET Nat
          BY Zenon, <2>1 DEF LeaderPool
        <5>2. l = [vouchers |-> leaders.vouchers, snapshot |-> leaders.vouchers,
                   nfs |-> leaders.nfs, pending |-> 0, claimable |-> sum]
          BY Zenon, <4>1, <5>1
        <5> QED  BY Zenon, <5>1, <5>2 DEF LeaderPool
      <4>3. leaders.pending \in Nat /\ leaders.claimable \in Nat
        BY Zenon, <2>1 DEF LeaderPool
      <4> QED  BY <2>1, <4>2, <4>3
    <3>2. CASE ~enters
      BY Zenon, <2>1, <3>2
    <3> QED  BY Zenon, <3>1, <3>2
  <2>4. /\ PowPool(p) /\ p.blocks = pow.blocks /\ p.nullifiers = pow.nullifiers
        /\ p.pool + p.refill = pow.pool + pow.refill
    <3>1. CASE enters
      <4> PICK pool \in Nat : pool = pow.pool + pow.refill
        BY <2>1 DEF PowPool
      <4>1. p = [pow EXCEPT !.pool = pool, !.refill = 0, !.reward = EpochReward(pool)]
        BY Zenon, <3>1 DEF PowEnter
      <4>2. EpochReward(pool) \in Nat
        BY Zenon, <1>EpochRewardNat
      <4>3. /\ p = [pool |-> pool, refill |-> 0, reward |-> EpochReward(pool),
                     blocks |-> pow.blocks, nullifiers |-> pow.nullifiers]
        <5>1. pow = [pool |-> pow.pool, refill |-> pow.refill, reward |-> pow.reward,
                     blocks |-> pow.blocks, nullifiers |-> pow.nullifiers]
          BY Zenon, <2>1 DEF PowPool
        <5> QED  BY Zenon, <4>1, <5>1
      <4> HIDE DEF p
      <4> QED  BY <4>2, <4>3 DEF PowPool
    <3>2. CASE ~enters
      BY Zenon, <2>1, <3>2
    <3> QED  BY ZenonT(30), <3>1, <3>2
  <2> HIDE DEF l, p
  <2>5. /\ leaders' \in LeaderPool /\ leaders'.nfs \subseteq leaders'.snapshot
        /\ leaders'.snapshot \subseteq leaders'.vouchers
        /\ leaders'.vouchers = 1..head'.number
        /\ paid'.earned = leaders'.pending + leaders'.claimable + paid'.leaders
    <3>1. /\ leaders' = [l EXCEPT !.vouchers = l.vouchers \cup {number}] /\ number \in Nat
      BY <2>1, <2>2 DEF AddVoucher
    <3>2. (1..head.number) \cup {number} = 1..number
      BY <2>1
    <3>3. /\ leaders' \in LeaderPool /\ leaders'.vouchers = l.vouchers \cup {number}
          /\ leaders'.nfs = l.nfs /\ leaders'.snapshot = l.snapshot
          /\ leaders'.pending = l.pending /\ leaders'.claimable = l.claimable
      BY Zenon, <2>3, <3>1 DEF LeaderPool
    <3>4. leaders'.vouchers = 1..head'.number
      BY ZenonT(30), <2>1, <2>2, <2>3, <3>2, <3>3
    <3> QED  BY ZenonT(30), <2>1, <2>2, <2>3, <3>3, <3>4
  <2>6. /\ PowPool(pow)' /\ pow'.pool = p.pool /\ pow'.refill = p.refill
        /\ pow'.blocks = Pruned(With(pow.blocks, number, slot), slot)
        /\ pow'.nullifiers = Pruned(pow.nullifiers, slot)
    <3>1. pow' = [p EXCEPT !.blocks = Pruned(With(pow.blocks, number, slot), slot),
                           !.nullifiers = Pruned(pow.nullifiers, slot)]
      BY ZenonT(30), <2>2, <2>4 DEF SeenBlock
    <3> QED  BY Zenon, <2>4, <3>1 DEF PowPool
  <2>7. GenesisPool + paid'.refilled = pow'.pool + pow'.refill + paid'.pow /\ pow'.pool >= 0
    <3>1. /\ paid.refilled \in Nat /\ paid.pow \in Nat /\ GenesisPool \in Nat
          /\ pow.pool \in Nat /\ pow.refill \in Nat
      BY Zenon, <1>PoolFields, <1>RewardConstants DEF RewardInv
    <3>2. p.pool \in Nat /\ p.refill \in Nat
      BY Zenon, <2>4 DEF PowPool
    <3> QED  BY SMTT(20), <2>1, <2>2, <2>4, <2>6, <3>1, <3>2
  <2>8. PoolTypes'
    <3>1. EpochAt(slot) \in Nat
      <4>1. EpochSlots \in Nat \ {0}
        BY <1>RewardConstants
      <4> QED  BY Zenon, <2>1, <4>1, Quotient DEF EpochAt
    <3>3. /\ head'.number \in Nat /\ head'.slot \in 0..MaxHeadSlot /\ head'.epoch \in Nat
      BY <2>1, <2>2, <3>1
    <3>4. /\ head' = [number |-> head'.number, slot |-> head'.slot, epoch |-> head'.epoch,
                      previous |-> head'.previous, open |-> head'.open]
      BY Zenon DEF Header
    <3>5. paid' = paid /\ feeWindow' = feeWindow /\ PoolTypes
      BY Zenon, <2>2 DEF RewardInv
    <3> QED  BY ZenonT(30), <2>5, <2>6, <3>3, <3>4, <3>5 DEF PoolTypes
  <2>9. NullifiersHeld'
    <3> DEFINE all == With(pow.blocks, number, slot)
    <3>1. /\ DOMAIN all = DOMAIN pow.blocks \cup {number} /\ all[number] = slot
          /\ \A n \in DOMAIN pow.blocks : n # number => all[n] = pow.blocks[n]
      BY Zenon DEF With
    <3> HIDE DEF all
    <3>2. /\ \A n : n \in DOMAIN pow'.blocks <=>
                      n \in DOMAIN all /\ WithinSlotWindow(all[n], slot)
          /\ \A n \in DOMAIN pow'.blocks : pow'.blocks[n] = all[n]
      BY Zenon, <2>6 DEF Pruned, all
    <3>3. /\ \A s : s \in DOMAIN pow'.nullifiers <=>
                s \in DOMAIN pow.nullifiers /\ WithinSlotWindow(pow.nullifiers[s], slot)
          /\ \A s \in DOMAIN pow'.nullifiers : pow'.nullifiers[s] = pow.nullifiers[s]
      BY Zenon, <2>6 DEF Pruned
    <3>4. ASSUME NEW n \in DOMAIN pow'.blocks
          PROVE  n \in 1..head'.number /\ pow'.blocks[n] \in 0..MaxHeadSlot
      <4>1. CASE n = number
        BY SMTT(20), <2>1, <2>2, <3>1, <3>2, <4>1
      <4>2. CASE n # number
        <5>1. n \in DOMAIN pow.blocks /\ pow'.blocks[n] = pow.blocks[n]
          BY ZenonT(30), <3>1, <3>2, <4>2
        <5>2. n \in 1..head.number /\ pow.blocks[n] \in 0..MaxHeadSlot
          BY Zenon, <5>1 DEF RewardInv, NullifiersHeld
        <5> QED  BY <2>1, <2>2, <5>1, <5>2
      <4> QED  BY ZenonT(30), <4>1, <4>2
    <3>5. ASSUME NEW s \in DOMAIN paid.times
          PROVE  /\ paid.times[s] = 1 /\ s.anchor \in 1..head'.number
                 /\ s.anchor \in DOMAIN pow'.blocks =>
                     s \in DOMAIN pow'.nullifiers /\ pow'.nullifiers[s] = pow'.blocks[s.anchor]
      <4>1. /\ paid.times[s] = 1 /\ s.anchor \in 1..head.number
            /\ s.anchor \in DOMAIN pow.blocks =>
                s \in DOMAIN pow.nullifiers /\ pow.nullifiers[s] = pow.blocks[s.anchor]
        BY Zenon DEF RewardInv, NullifiersHeld
      <4>2. s.anchor # number /\ s.anchor \in 1..head'.number
        BY <2>1, <2>2, <4>1
      <4>3. ASSUME s.anchor \in DOMAIN pow'.blocks
            PROVE  s \in DOMAIN pow'.nullifiers /\ pow'.nullifiers[s] = pow'.blocks[s.anchor]
        <5>1. /\ s.anchor \in DOMAIN pow.blocks /\ pow'.blocks[s.anchor] = pow.blocks[s.anchor]
              /\ WithinSlotWindow(pow.blocks[s.anchor], slot)
          BY <3>1, <3>2, <4>2, <4>3
        <5> QED  BY ZenonT(30), <3>3, <4>1, <5>1
      <4> QED  BY ZenonT(30), <4>1, <4>2, <4>3
    <3> QED  BY ZenonT(30), <2>2, <3>4, <3>5 DEF NullifiersHeld
  <2> QED  BY ZenonT(30), <2>5, <2>7, <2>8, <2>9 DEF RewardInv, LeaderRewardsConserved, PowPoolConserved
    \* A leader's claim.
<1>LeaderClaimKeeps.
    ASSUME RewardInv, NEW v, LeaderClaim(v)
    PROVE  RewardInv'
  <2> USE <1>LeaderClaimKeeps
  <2> PICK amount : amount = RewardAmount(leaders)
    BY Zenon
  <2>1. /\ v \in leaders.snapshot /\ v \notin leaders.nfs
        /\ leaders' = [leaders EXCEPT !.nfs = @ \cup {v}, !.claimable = @ - amount]
        /\ paid' = [paid EXCEPT !.leaders = @ + amount]
        /\ UNCHANGED <<head, pow, feeWindow>>
    BY Zenon DEF LeaderClaim
  <2>2. PoolTypes /\ amount \in Nat /\ amount <= leaders.claimable
    BY ZenonT(30), <2>1, <1>ClaimTakesPart DEF RewardInv
  <2>3. /\ leaders \in LeaderPool /\ leaders.claimable - amount \in Nat
        /\ leaders.nfs \subseteq leaders.snapshot /\ leaders.snapshot \subseteq leaders.vouchers
        /\ leaders.vouchers = 1..head.number
    BY SMTT(20), <2>2, <1>PoolFields
  <2>4. /\ leaders' \in LeaderPool /\ leaders'.vouchers = leaders.vouchers
        /\ leaders'.snapshot = leaders.snapshot /\ leaders'.nfs = leaders.nfs \cup {v}
        /\ leaders'.pending = leaders.pending /\ leaders'.claimable = leaders.claimable - amount
    BY Zenon, <2>1, <2>3 DEF LeaderPool
  <2>5. /\ paid' = [earned |-> paid'.earned, leaders |-> paid'.leaders,
                    refilled |-> paid'.refilled, pow |-> paid'.pow, times |-> paid'.times]
        /\ paid'.earned = paid.earned /\ paid'.leaders = paid.leaders + amount
        /\ paid'.refilled = paid.refilled /\ paid'.pow = paid.pow /\ paid'.times = paid.times
    BY Zenon, <2>1, <2>2 DEF PoolTypes
  <2>6. /\ leaders'.nfs \subseteq leaders'.snapshot
        /\ leaders'.snapshot \subseteq leaders'.vouchers /\ leaders'.vouchers = 1..head'.number
    BY Zenon, <2>1, <2>3, <2>4
  <2>7. PoolTypes'
    <3>1. /\ paid'.earned \in Nat /\ paid'.leaders \in Nat /\ paid'.refilled \in Nat
          /\ paid'.pow \in Nat
      BY SMTT(20), <2>2, <2>5, <1>PoolFields
    <3>2. PowPool(pow)'
      BY Zenon, <2>1, <2>2 DEF PoolTypes, PowPool
    <3> QED  BY ZenonT(30), <2>1, <2>2, <2>4, <2>5, <2>6, <3>1, <3>2 DEF PoolTypes
  <2>8. NullifiersHeld'
    BY ZenonT(30), <2>1, <2>5 DEF RewardInv, NullifiersHeld
  <2>9. LeaderRewardsConserved'
    BY SMTT(20), <2>2, <2>3, <2>4, <2>5, <1>PoolFields DEF LeaderRewardsConserved, RewardInv
  <2>10. PowPoolConserved'
    BY Zenon, <2>1, <2>5 DEF RewardInv, PowPoolConserved
  <2> QED  BY ZenonT(30), <2>7, <2>8, <2>9, <2>10 DEF RewardInv
    \* A proof-of-work claim: its solution was not paid before, or its nullifier
    \* would be there.
<1>PowClaimKeeps.
    ASSUME RewardInv, NEW s, PowClaim(s)
    PROVE  RewardInv'
  <2> USE <1>PowClaimKeeps
  <2> PICK slot : slot = pow.blocks[s.anchor]
    BY Zenon
  <2>1. /\ s.anchor \in DOMAIN pow.blocks /\ s \notin DOMAIN pow.nullifiers
        /\ pow.pool >= pow.reward
        /\ pow' = [pow EXCEPT !.nullifiers = With(@, s, slot), !.pool = @ - pow.reward]
        /\ paid' = [paid EXCEPT !.pow = @ + pow.reward, !.times = With(@, s, TimesPaid(s) + 1)]
        /\ UNCHANGED <<head, leaders, feeWindow>>
    BY Zenon DEF PowClaim, AcceptClaim, PowRewardEnabled
  <2>2. PoolTypes /\ NullifiersHeld /\ PowPool(pow)
    BY Zenon DEF RewardInv, PoolTypes
  <2>3. pow.pool \in Nat /\ pow.refill \in Nat /\ pow.reward \in Nat
    BY Zenon, <2>2, <1>PoolFields
  <2>4. /\ pow' = [pool |-> pow'.pool, refill |-> pow'.refill, reward |-> pow'.reward,
                   blocks |-> pow'.blocks, nullifiers |-> pow'.nullifiers]
        /\ pow'.pool = pow.pool - pow.reward /\ pow'.refill = pow.refill
        /\ pow'.reward = pow.reward /\ pow'.blocks = pow.blocks
        /\ pow'.nullifiers = With(pow.nullifiers, s, slot)
    BY Zenon, <2>1, <2>2 DEF PowPool
  <2>5. /\ paid' = [earned |-> paid'.earned, leaders |-> paid'.leaders,
                    refilled |-> paid'.refilled, pow |-> paid'.pow, times |-> paid'.times]
        /\ paid'.earned = paid.earned /\ paid'.leaders = paid.leaders
        /\ paid'.refilled = paid.refilled /\ paid'.pow = paid.pow + pow.reward
        /\ paid'.times = With(paid.times, s, TimesPaid(s) + 1)
    BY Zenon, <2>1, <2>2 DEF PoolTypes
  <2>6. s \notin DOMAIN paid.times /\ TimesPaid(s) = 0
    BY ZenonT(30), <2>1, <2>2 DEF NullifiersHeld, TimesPaid
  <2>7. NullifiersHeld'
    <3>1. /\ DOMAIN paid'.times = DOMAIN paid.times \cup {s} /\ paid'.times[s] = 1
          /\ \A x \in DOMAIN paid.times : paid'.times[x] = paid.times[x]
      BY <2>5, <2>6 DEF With
    <3>2. /\ DOMAIN pow'.nullifiers = DOMAIN pow.nullifiers \cup {s}
          /\ pow'.nullifiers[s] = slot
          /\ \A x \in DOMAIN pow.nullifiers : pow'.nullifiers[x] = pow.nullifiers[x]
      BY Zenon, <2>1, <2>4 DEF With
    <3>3. \A n \in DOMAIN pow.blocks : n \in 1..head.number /\ pow.blocks[n] \in 0..MaxHeadSlot
      BY Zenon, <2>2 DEF NullifiersHeld
    <3>4. ASSUME NEW x \in DOMAIN paid'.times
          PROVE  /\ paid'.times[x] = 1 /\ x.anchor \in 1..head.number
                 /\ x.anchor \in DOMAIN pow.blocks =>
                     x \in DOMAIN pow'.nullifiers /\ pow'.nullifiers[x] = pow.blocks[x.anchor]
      <4>1. CASE x = s
        BY ZenonT(30), <2>1, <3>1, <3>2, <3>3, <4>1
      <4>2. CASE x \in DOMAIN paid.times
        BY ZenonT(30), <2>2, <3>1, <3>2, <4>2 DEF NullifiersHeld
      <4> QED  BY Zenon, <3>1, <4>1, <4>2
    <3> QED  BY SMTT(20), <2>1, <2>4, <3>3, <3>4 DEF NullifiersHeld
  <2>8. PoolTypes'
    <3>1. /\ paid'.earned \in Nat /\ paid'.leaders \in Nat /\ paid'.refilled \in Nat
          /\ paid'.pow \in Nat
      BY SMTT(20), <2>2, <2>3, <2>5, <1>PoolFields
    <3>2. PowPool(pow)'
      BY <2>1, <2>3, <2>4 DEF PowPool
    <3> QED  BY ZenonT(30), <2>1, <2>2, <2>5, <3>1, <3>2 DEF PoolTypes
  <2>9. LeaderRewardsConserved'
    BY Zenon, <2>1, <2>5 DEF RewardInv, LeaderRewardsConserved
  <2>10. PowPoolConserved'
    <3>1. paid.pow \in Nat /\ paid.refilled \in Nat /\ GenesisPool \in Nat
      BY Zenon, <2>2, <1>PoolFields, <1>RewardConstants
    <3>2. GenesisPool + paid.refilled = pow.pool + pow.refill + paid.pow
      BY Zenon DEF RewardInv, PowPoolConserved
    <3>3. /\ pow'.pool >= 0
          /\ GenesisPool + paid'.refilled = pow'.pool + pow'.refill + paid'.pow
      BY SMTT(20), <2>1, <2>3, <2>4, <2>5, <3>1, <3>2
    <3> QED  BY Zenon, <3>3 DEF PowPoolConserved
  <2> QED  BY Zenon, <2>7, <2>8, <2>9, <2>10 DEF RewardInv
    \* The end of a block: what it earns is pending, what is diverted is refill.
<1>BlockRewardsKeep.
    ASSUME RewardInv, NEW burned \in Nat, NEW tip \in Nat, ComputeBlockRewards(burned, tip)
    PROVE  RewardInv'
  <2> USE <1>BlockRewardsKeep
  <2>1. PICK refill \in Nat : refill = PowFeeShare(burned) /\ refill <= burned
    <3> PICK n \in Nat, d \in Nat \ {0} : n = PowShare.num /\ d = PowShare.den /\ n <= d
      BY Zenon, <1>RewardConstants
    <3> PICK a \in Nat : a = burned * n
      OBVIOUS
    <3>1. PICK q \in Nat : q = a \div d /\ q * d <= a
      BY Zenon, Quotient
    <3>2. a <= d * burned /\ d * burned \in Nat
      BY ProductGrows
    <3>3. ~(burned < q)
      <4> SUFFICES ASSUME burned < q PROVE FALSE
        BY Zenon
      <4>1. burned * d < q * d /\ burned * d \in Nat /\ q * d \in Nat
        BY ProductGrowsStrictly
      <4>2. d * burned = burned * d
        OBVIOUS
      <4> QED  BY <3>1, <3>2, <4>1, <4>2
    <3>4. PowFeeShare(burned) = q
      BY Zenon, <3>1 DEF PowFeeShare
    <3> QED  BY <3>3, <3>4
  <2>2. PoolTypes /\ PowPool(pow)
    BY Zenon DEF RewardInv, PoolTypes
  <2> DEFINE index == head.number % FeeWindowSize
             window == [feeWindow EXCEPT ![index] = burned - refill]
  <2>3. index \in 0..(FeeWindowSize - 1)
    <3> PICK n \in Nat, w \in Nat : n = head.number /\ w = FeeWindowSize /\ w > 0
      BY Zenon, <2>2, <1>PoolFields, <1>RewardConstants
    <3>1. n % w \in 0..(w - 1)
      OBVIOUS
    <3> QED  BY Zenon, <3>1
  <2>4. /\ window \in [0..(FeeWindowSize - 1) -> Nat] /\ window[index] \in Nat
    <3>1. burned - refill \in Nat /\ feeWindow \in [0..(FeeWindowSize - 1) -> Nat]
      BY <2>1, <2>2 DEF PoolTypes
    <3> HIDE DEF index
    <3> QED  BY ZenonT(30), <2>3, <3>1
  <2> DEFINE rewards == BlockRewards(FoldFunction(+, 0, window), window[index])
  <2>5. PICK gain \in Nat : gain = rewards.leader + tip
    <3>1. rewards.leader \in Nat
      <4>1. FoldFunction(+, 0, window) \in Nat
        BY Zenon, <2>4, <1>WindowSum
      <4> HIDE DEF window, index
      <4> QED  BY Zenon, <2>4, <4>1, <1>BlockRewardsBounded
    <3> HIDE DEF rewards
    <3> QED  BY <3>1
  <2>6. /\ head' = [head EXCEPT !.open = FALSE] /\ feeWindow' = window
        /\ leaders' = [leaders EXCEPT !.pending = @ + rewards.leader + tip]
        /\ pow' = [pow EXCEPT !.refill = @ + refill]
        /\ paid' = [paid EXCEPT !.earned = @ + rewards.leader + tip, !.refilled = @ + refill]
    BY Zenon, <2>1 DEF ComputeBlockRewards
  <2>7. rewards.leader \in Nat
    <3>1. FoldFunction(+, 0, window) \in Nat
      BY Zenon, <2>4, <1>WindowSum
    <3> HIDE DEF window, index
    <3> QED  BY Zenon, <2>4, <3>1, <1>BlockRewardsBounded
  <2> HIDE DEF window, index, rewards
  <2>8. /\ leaders \in LeaderPool /\ leaders.pending \in Nat /\ paid.earned \in Nat
        /\ pow.refill \in Nat /\ paid.refilled \in Nat /\ leaders.claimable \in Nat
        /\ pow.pool \in Nat /\ pow.reward \in Nat /\ paid.leaders \in Nat /\ paid.pow \in Nat
    BY Zenon, <2>2, <1>PoolFields
  <2>9. /\ leaders.pending + rewards.leader + tip = leaders.pending + gain
        /\ paid.earned + rewards.leader + tip = paid.earned + gain
    BY <2>5, <2>7, <2>8
  <2>10. /\ head' = [number |-> head'.number, slot |-> head'.slot, epoch |-> head'.epoch,
                     previous |-> head'.previous, open |-> head'.open]
         /\ head'.number = head.number /\ head'.slot = head.slot /\ head'.epoch = head.epoch
    BY Zenon, <2>2, <2>6 DEF PoolTypes
  <2>11. /\ leaders' \in LeaderPool /\ leaders'.vouchers = leaders.vouchers
         /\ leaders'.snapshot = leaders.snapshot /\ leaders'.nfs = leaders.nfs
         /\ leaders'.pending = leaders.pending + gain /\ leaders'.claimable = leaders.claimable
    <3>1. leaders' = [leaders EXCEPT !.pending = leaders.pending + gain]
      BY Zenon, <2>6, <2>9
    <3>2. leaders.pending + gain \in Nat
      BY <2>8
    <3> QED  BY Zenon, <2>8, <3>1, <3>2 DEF LeaderPool
  <2>12. /\ paid' = [earned |-> paid'.earned, leaders |-> paid'.leaders,
                     refilled |-> paid'.refilled, pow |-> paid'.pow, times |-> paid'.times]
         /\ paid'.earned = paid.earned + gain /\ paid'.leaders = paid.leaders
         /\ paid'.refilled = paid.refilled + refill /\ paid'.pow = paid.pow
         /\ paid'.times = paid.times
    <3>1. paid' = [paid EXCEPT !.earned = paid.earned + gain, !.refilled = paid.refilled + refill]
      BY Zenon, <2>6, <2>9
    <3> QED  BY Zenon, <2>2, <3>1 DEF PoolTypes
  <2>13. /\ pow' = [pool |-> pow'.pool, refill |-> pow'.refill, reward |-> pow'.reward,
                    blocks |-> pow'.blocks, nullifiers |-> pow'.nullifiers]
         /\ pow'.pool = pow.pool /\ pow'.refill = pow.refill + refill
         /\ pow'.reward = pow.reward /\ pow'.blocks = pow.blocks
         /\ pow'.nullifiers = pow.nullifiers
    BY Zenon, <2>2, <2>6 DEF PowPool
  <2>14. PoolTypes'
    <3>1. /\ paid'.earned \in Nat /\ paid'.leaders \in Nat /\ paid'.refilled \in Nat
          /\ paid'.pow \in Nat
      BY SMTT(20), <2>8, <2>12
    <3>2. PowPool(pow)'
      BY <2>8, <2>13 DEF PowPool
    <3>3. /\ leaders'.nfs \subseteq leaders'.snapshot
          /\ leaders'.snapshot \subseteq leaders'.vouchers
          /\ leaders'.vouchers = 1..head'.number
      BY ZenonT(30), <2>2, <2>10, <2>11, <1>PoolFields
    <3>4. head'.number \in Nat /\ head'.slot \in 0..MaxHeadSlot /\ head'.epoch \in Nat
      BY Zenon, <2>2, <2>10 DEF PoolTypes
    <3> QED  BY ZenonT(30), <2>4, <2>6, <2>10, <2>11, <2>12, <3>1, <3>2, <3>3, <3>4 DEF PoolTypes
  <2>15. NullifiersHeld'
    BY ZenonT(30), <2>10, <2>12, <2>13 DEF RewardInv, NullifiersHeld
  <2>16. LeaderRewardsConserved'
    <3>1. paid.earned = leaders.pending + leaders.claimable + paid.leaders
      BY ZenonT(30) DEF RewardInv, LeaderRewardsConserved
    <3>2. paid'.earned = leaders'.pending + leaders'.claimable + paid'.leaders
      BY <2>8, <2>11, <2>12, <3>1
    <3> QED  BY Zenon, <3>2 DEF LeaderRewardsConserved
  <2>17. PowPoolConserved'
    <3>1. /\ GenesisPool + paid.refilled = pow.pool + pow.refill + paid.pow
          /\ GenesisPool \in Nat
      BY ZenonT(30), <1>RewardConstants DEF RewardInv, PowPoolConserved
    <3>2. /\ pow'.pool >= 0
          /\ GenesisPool + paid'.refilled = pow'.pool + pow'.refill + paid'.pow
      BY <2>8, <2>12, <2>13, <3>1
    <3> QED  BY Zenon, <3>2 DEF PowPoolConserved
  <2> QED  BY ZenonT(30), <2>14, <2>15, <2>16, <2>17 DEF RewardInv
    \* Every step keeps the invariant.
<1>RewardStepKeeps.
    ASSUME RewardInv, [RewardNext]_rewardVars
    PROVE  RewardInv'
  <2> USE <1>RewardStepKeeps
  <2>1. ASSUME NEW slot \in 1..MaxHeadSlot, Header(slot) PROVE RewardInv'
    BY Zenon, <2>1, <1>HeaderKeeps
  <2>2. ASSUME NEW voucher \in leaders.vouchers, LeaderClaim(voucher) PROVE RewardInv'
    BY Zenon, <2>2, <1>LeaderClaimKeeps
  <2>3. ASSUME NEW solution \in Solutions, PowClaim(solution) PROVE RewardInv'
    BY Zenon, <2>3, <1>PowClaimKeeps
  <2>4. ASSUME NEW f \in BlockFees, ComputeBlockRewards(f[1], f[2]) PROVE RewardInv'
    <3>1. f[1] \in Nat /\ f[2] \in Nat
      BY Zenon, RewardAssumption
    <3> QED  BY Zenon, <2>4, <3>1, <1>BlockRewardsKeep
  <2>5. ASSUME UNCHANGED rewardVars PROVE RewardInv'
    BY Zenon, <2>5 DEF rewardVars, RewardInv, PoolTypes, PowPool, NullifiersHeld,
       LeaderRewardsConserved, PowPoolConserved
  <2> QED  BY ZenonT(30), <2>1, <2>2, <2>3, <2>4, <2>5 DEF RewardNext
    \* The genesis ledger.
<1>RewardStarts. RewardInit => RewardInv
  <2> SUFFICES ASSUME RewardInit PROVE RewardInv
    BY Zenon
  <2>1. EpochReward(GenesisPool) \in Nat /\ GenesisPool \in Nat /\ MaxHeadSlot \in Nat
    BY Zenon, <1>RewardConstants, <1>EpochRewardNat
  <2>2. /\ leaders.vouchers = {} /\ leaders.snapshot = {} /\ leaders.nfs = {}
        /\ leaders.pending = 0 /\ leaders.claimable = 0 /\ leaders \in LeaderPool
    BY ZenonT(30) DEF RewardInit, LeaderPool
  <2>3. PowPool(pow) /\ pow.pool = GenesisPool /\ pow.refill = 0 /\ DOMAIN pow.blocks = {}
    BY SMTT(20), <2>1 DEF RewardInit, PowPool
  <2>4. /\ paid = [earned |-> paid.earned, leaders |-> paid.leaders, refilled |-> paid.refilled,
                   pow |-> paid.pow, times |-> paid.times]
        /\ paid.earned = 0 /\ paid.leaders = 0 /\ paid.refilled = 0 /\ paid.pow = 0
        /\ DOMAIN paid.times = {}
    BY DEF RewardInit
  <2>5. /\ head = [number |-> head.number, slot |-> head.slot, epoch |-> head.epoch,
                   previous |-> head.previous, open |-> head.open]
        /\ head.number = 0 /\ head.slot = 0 /\ head.epoch = 0
    BY ZenonT(30) DEF RewardInit
  <2>6. PoolTypes
    <3>1. 1..head.number = {} /\ head.slot \in 0..MaxHeadSlot
      BY <2>1, <2>5
    <3>2. feeWindow \in [0..(FeeWindowSize - 1) -> Nat]
      BY Zenon DEF RewardInit
    <3> QED  BY SMTT(20), <2>2, <2>3, <2>4, <2>5, <3>1, <3>2 DEF PoolTypes
  <2>7. NullifiersHeld
    BY ZenonT(30), <2>3, <2>4 DEF NullifiersHeld
  <2>8. LeaderRewardsConserved /\ PowPoolConserved
    BY <2>1, <2>2, <2>3, <2>4 DEF LeaderRewardsConserved, PowPoolConserved
  <2> QED  BY Zenon, <2>6, <2>7, <2>8 DEF RewardInv
    \* What the invariant says of the pools.
<1>PoolsHold.
    ASSUME RewardInv
    PROVE  LeaderRewardsConserved /\ PowPoolConserved /\ SolutionsPaidOnce /\ RewardIsBounded
  <2> USE <1>PoolsHold
  <2>1. SolutionsPaidOnce
    BY Zenon DEF RewardInv, NullifiersHeld, SolutionsPaidOnce
  <2>2. RewardIsBounded
    <3>1. feeWindow \in [0..(FeeWindowSize - 1) -> Nat]
      BY Zenon DEF RewardInv, PoolTypes
    <3>2. FoldFunction(+, 0, feeWindow) \in Nat
      BY Zenon, <3>1, <1>WindowSum
    <3>3. ASSUME NEW i \in DOMAIN feeWindow PROVE feeWindow[i] \in Nat
      BY Zenon, <3>1
    <3> QED  BY Zenon, <3>2, <3>3, <1>BlockRewardsBounded DEF RewardIsBounded
  <2> QED  BY Zenon, <2>1, <2>2 DEF RewardInv
    \* A claim leaves the next claimant the same reward or one unit more.
<1>ClaimsAreFair.
    ASSUME RewardInv, [RewardNext]_rewardVars,
           leaders'.nfs # leaders.nfs, leaders'.nfs # leaders'.snapshot
    PROVE  RewardAmount(leaders') \in {RewardAmount(leaders), RewardAmount(leaders) + 1}
  <2> USE <1>ClaimsAreFair
  <2>1. PoolTypes /\ leaders \in LeaderPool
    BY Zenon, <1>PoolFields DEF RewardInv
  <2>2. PICK v : LeaderClaim(v)
    <3>1. ASSUME NEW slot, Header(slot) PROVE leaders'.nfs = leaders.nfs
      BY Zenon, <2>1, <3>1 DEF Header, AddVoucher, LeadersEnter, LeaderPool
    <3>2. ASSUME NEW s, PowClaim(s) PROVE leaders'.nfs = leaders.nfs
      BY Zenon, <3>2 DEF PowClaim
    <3>3. ASSUME NEW f \in BlockFees, ComputeBlockRewards(f[1], f[2])
          PROVE  leaders'.nfs = leaders.nfs
      <4>1. PICK x : leaders' = [leaders EXCEPT !.pending = x]
        BY Zenon, <3>3 DEF ComputeBlockRewards
      <4> QED  BY Zenon, <2>1, <4>1 DEF LeaderPool
    <3> QED  BY Zenon, <3>1, <3>2, <3>3 DEF RewardNext, rewardVars
  <2> PICK amount : amount = RewardAmount(leaders)
    BY Zenon
  <2>3. /\ v \in leaders.snapshot /\ v \notin leaders.nfs
        /\ leaders' = [leaders EXCEPT !.nfs = @ \cup {v}, !.claimable = @ - amount]
    BY Zenon, <2>2 DEF LeaderClaim
  <2>4. /\ leaders'.snapshot = leaders.snapshot /\ leaders'.nfs = leaders.nfs \cup {v}
        /\ leaders'.claimable = leaders.claimable - amount
    BY Zenon, <2>1, <2>3 DEF LeaderPool
  <2>5. PICK s \in Nat, k \in Nat :
          /\ s = Cardinality(leaders.snapshot) /\ k = Cardinality(leaders.nfs)
          /\ s - k > 0 /\ amount = leaders.claimable \div (s - k)
          /\ amount \in Nat /\ amount <= leaders.claimable
          /\ IsFiniteSet(leaders.snapshot) /\ IsFiniteSet(leaders.nfs)
    BY Zenon, <2>1, <2>3, <1>ClaimTakesPart
  <2>6. /\ Cardinality(leaders'.nfs) = k + 1 /\ k + 1 < s
    <3>1. IsFiniteSet(leaders'.nfs) /\ Cardinality(leaders'.nfs) = k + 1
      BY <2>3, <2>4, <2>5, FS_AddElement
    <3>2. leaders'.nfs \subseteq leaders.snapshot /\ leaders'.nfs # leaders.snapshot
      BY ZenonT(30), <2>1, <2>3, <2>4, <1>PoolFields
    <3> QED  BY <2>5, <3>1, <3>2, FS_Subset
  <2>7. PICK n \in Nat \ {0, 1} : n = s - k
    BY <2>5, <2>6
  <2>8. SatSub(Cardinality(leaders'.snapshot), Cardinality(leaders'.nfs)) = n - 1 /\ n - 1 # 0
    BY <2>4, <2>5, <2>6, <2>7 DEF SatSub
  <2>9. RewardAmount(leaders') = (leaders.claimable - amount) \div (n - 1)
    BY Zenon, <2>4, <2>8 DEF RewardAmount
  <2>10. amount = leaders.claimable \div n /\ leaders.claimable \in Nat
    BY ZenonT(30), <2>1, <2>5, <2>7, <1>PoolFields
  <2>11. n \in Nat /\ n >= 2
    BY <2>7
  <2>12. (leaders.claimable - amount) \div (n - 1) \in {amount, amount + 1}
    BY Zenon, <2>10, <2>11, <1>EqualShares
  <2> QED  BY Zenon, <2>9, <2>12
<1>1. RewardInv /\ [RewardNext]_rewardVars => RewardInv'
  BY Zenon, <1>RewardStepKeeps
<1>2. RewardInv => LeaderRewardsConserved /\ PowPoolConserved /\ SolutionsPaidOnce
                   /\ RewardIsBounded
  BY Zenon, <1>PoolsHold
<1>3. RewardInv /\ [RewardNext]_rewardVars =>
        [ (leaders'.nfs # leaders.nfs /\ leaders'.nfs # leaders'.snapshot)
            => RewardAmount(leaders') \in {RewardAmount(leaders), RewardAmount(leaders) + 1}
        ]_rewardVars
  BY Zenon, <1>ClaimsAreFair
<1> QED
  BY <1>1, <1>2, <1>3, <1>RewardStarts, PTL DEF RewardSpec, PoolsPayWhatTheyHold, ClaimOrderIsFair
=============================================================================
