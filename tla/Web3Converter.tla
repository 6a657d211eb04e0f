--------------------------- MODULE Web3Converter ---------------------------
(***************************************************************************)
(* Slot / epoch / frame arithmetic of src/src/utils/web3converter.py, on   *)
(* which every other module of the oracle rests.  A frame is the distance  *)
(* between two reports; the reference slot of a frame is the last slot of  *)
(* the frame before it.                                                    *)
(*                                                                         *)
(* Python's // rounds towards minus infinity, as TLA+'s \div does, so a    *)
(* slot before the initial epoch belongs to a negative frame.              *)
(***************************************************************************)
EXTENDS Integers

CONSTANTS
  SLOTS_PER_EPOCH,   \* ChainConfig.slots_per_epoch
  INITIAL_EPOCH,     \* FrameConfig.initial_epoch, the first epoch of frame 0
  EPOCHS_PER_FRAME   \* FrameConfig.epochs_per_frame

ASSUME ConverterAssumption ==
  /\ SLOTS_PER_EPOCH \in Nat \ {0}
  /\ EPOCHS_PER_FRAME \in Nat \ {0}
  /\ INITIAL_EPOCH \in Nat

get_epoch_first_slot(epoch) == epoch * SLOTS_PER_EPOCH

get_epoch_last_slot(epoch) == (epoch + 1) * SLOTS_PER_EPOCH - 1

get_epoch_by_slot(slot) == slot \div SLOTS_PER_EPOCH

get_frame_first_slot(frame) ==
  (INITIAL_EPOCH + frame * EPOCHS_PER_FRAME) * SLOTS_PER_EPOCH

get_frame_last_slot(frame) == get_frame_first_slot(frame + 1) - 1

get_frame_by_epoch(epoch) == (epoch - INITIAL_EPOCH) \div EPOCHS_PER_FRAME

get_frame_by_slot(slot) == get_frame_by_epoch(get_epoch_by_slot(slot))

=============================================================================
