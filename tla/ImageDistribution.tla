-------------------------- MODULE ImageDistribution --------------------------
(***************************************************************************)
(* One acquisition seen by the consumers of the fan: the images of a       *)
(* series, in frame order, are dispatched one by one to the consumer that  *)
(* FanDistribution computes, and the counter of that consumer is           *)
(* incremented (the image branch of EigerFan::HandleStreamMessage).  The   *)
(* offset and the block size are those in force when the header arrived.   *)
(***************************************************************************)
EXTENDS FanDistribution

CONSTANTS NumConsumers, Offsets, BlockSizes, MaxFrames

ASSUME DistributionAssumption ==
    /\ NumConsumers \in Nat \ {0}
    /\ Offsets \subseteq Nat
    /\ BlockSizes \subseteq Nat \ {0}
    /\ MaxFrames \in Nat

VARIABLES
    currentOffset,        \* offset of this acquisition
    block_size,           \* images per block
    frame,                \* number of the next image of the series
    index,                \* currentConsumerIndexToSendTo, -1 before the first image
    num_frames_consumed,  \* images handled per consumer since the header
    run                   \* images sent in a row to the consumer index

vars == <<currentOffset, block_size, frame, index, num_frames_consumed, run>>

Consumers == 0 .. NumConsumers - 1

\* The state after the header reset every counter (EigerFan.cpp:418-425).
Init ==
    /\ currentOffset \in Offsets
    /\ block_size \in BlockSizes
    /\ frame = 0
    /\ index = -1
    /\ num_frames_consumed = [c \in Consumers |-> 0]
    /\ run = 0

Target == ConsumerIndex(frame, currentOffset, block_size, NumConsumers)

\* The consumer is computed before the image is handled, and counted after it.
ChooseConsumer ==
    /\ frame < MaxFrames
    /\ index' = Target
    /\ run' = IF Target = index THEN run + 1 ELSE 1
    /\ frame' = frame + 1
    /\ UNCHANGED <<currentOffset, block_size>>

CountImage(consumer) ==
    num_frames_consumed' = [num_frames_consumed EXCEPT ![consumer] = @ + 1]

DispatchImage == ChooseConsumer /\ CountImage(Target)

Next == DispatchImage

Spec == Init /\ [][Next]_vars

-----------------------------------------------------------------------------
TypeOK ==
    /\ currentOffset \in Offsets
    /\ block_size \in BlockSizes
    /\ frame \in 0 .. MaxFrames
    /\ index \in Consumers \cup {-1}
    /\ num_frames_consumed \in [Consumers -> Nat]
    /\ run \in Nat

\* No consumer ever gets ahead of another by more than one block, however the
\* series length, the block size and the offset relate (the point of the
\* round robin of EigerFan.cpp:432: the writers downstream share the load).
Balanced ==
    \A c, d \in Consumers :
        num_frames_consumed[c] - num_frames_consumed[d] <= block_size

\* With several consumers, none receives more than a block of images in a row,
\* and it receives fewer only when the offset cut the first block short.
BlocksStayTogether ==
    NumConsumers > 1 => run <= block_size

\* When the consumer changes it changes to the next rank, and only between two
\* blocks: a block of images is never split over two consumers.
NextConsumerAtBlockEnd ==
    [][ index' # index /\ index # -1 /\ index' # -1 =>
            /\ index' = (index + 1) % NumConsumers
            /\ (frame + currentOffset) % block_size = 0 ]_vars
=============================================================================
