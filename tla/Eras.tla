-------------------------------- MODULE Eras --------------------------------
(***************************************************************************)
(* The era schedule of time/src/era.rs: the eras of a chain, each a range  *)
(* of epochs with its own slot duration and epoch length, resolved into    *)
(* slots and time.  An entry of a deployment is a record with the fields   *)
(* first_epoch, epoch_length and slot_duration, among other parameters;    *)
(* entries are in the order of their keys and the first starts at epoch 0. *)
(* Time counts from genesis in the unit of slot_duration.                  *)
(***************************************************************************)
EXTENDS Integers, Sequences

\* EraSchedule::new: every era starts where the one before it ends.  The
\* overflow of slots and times is left out.
NextEraStart(era, entry) ==
    LET slots == (entry.first_epoch - era.parameters.first_epoch)
                     * era.parameters.epoch_length
    IN  [parameters |-> entry,
         first_slot |-> era.first_slot + slots,
         start_time |-> era.start_time + slots * era.parameters.slot_duration]

Resolve(entries) ==
    LET genesis == [parameters |-> entries[1], first_slot |-> 0, start_time |-> 0]
        resolved[i \in 1 .. Len(entries)] ==
            IF i = 1 THEN genesis ELSE NextEraStart(resolved[i - 1], entries[i])
    IN  resolved

\* EraSchedule::last_started: the last of the eras that have started.
LastStarted(eras, started) ==
    eras[CHOOSE i \in DOMAIN eras :
            1 .. i \subseteq started /\ (i + 1 \in DOMAIN eras => i + 1 \notin started)]

AtSlot(eras, slot) ==
    LastStarted(eras, {i \in DOMAIN eras : eras[i].first_slot <= slot})

AtEpoch(eras, epoch) ==
    LastStarted(eras, {i \in DOMAIN eras : eras[i].parameters.first_epoch <= epoch})

StartingSlotForEpoch(eras, epoch) ==
    LET era == AtEpoch(eras, epoch)
    IN  era.first_slot
            + (epoch - era.parameters.first_epoch) * era.parameters.epoch_length

EpochForSlot(eras, slot) ==
    LET era == AtSlot(eras, slot)
    IN  era.parameters.first_epoch
            + (slot - era.first_slot) \div era.parameters.epoch_length

\* Time before genesis has no slot: the callers below ask from genesis on.
SlotAt(eras, time) ==
    LET era == LastStarted(eras, {i \in DOMAIN eras : eras[i].start_time <= time})
    IN  era.first_slot + (time - era.start_time) \div era.parameters.slot_duration

TimeOf(eras, slot) ==
    LET era == AtSlot(eras, slot)
    IN  era.start_time + (slot - era.first_slot) * era.parameters.slot_duration

-----------------------------------------------------------------------------
\* Slots, epochs and time tile without gaps or overlaps, across the era
\* boundaries: the epoch of a slot is the one whose first slot is the last not
\* after it, and the slot at a time the one that has started and whose
\* successor has not.
Tiles(eras, slot) ==
    LET epoch == EpochForSlot(eras, slot)
    IN  /\ StartingSlotForEpoch(eras, epoch) <= slot
        /\ slot < StartingSlotForEpoch(eras, epoch + 1)
        /\ \A time \in TimeOf(eras, slot) .. TimeOf(eras, slot + 1) - 1 :
               SlotAt(eras, time) = slot
        /\ AtSlot(eras, slot) = AtEpoch(eras, epoch)
=============================================================================
