--------------------------- MODULE FanDistribution ---------------------------
(***************************************************************************)
(* The arithmetic by which the EigerFan chooses the consumer of an image:  *)
(*                                                                         *)
(*   ((frame + currentOffset) / config.block_size) % config.num_consumers  *)
(*                                                                         *)
(* (EigerFan.cpp:432).  The operands are a signed 64 bit frame number and  *)
(* signed ints, so C++ division truncates towards zero and the remainder   *)
(* has the sign of the dividend, unlike \div and % of TLA+.                *)
(***************************************************************************)
EXTENDS Integers

CDiv(a, b) == IF a >= 0 THEN a \div b ELSE -((-a) \div b)

CRem(a, b) == a - b * CDiv(a, b)

\* Slips that EigerFan.cpp:432 invites: the blocks forgotten, the division and
\* the remainder swapped, and the wrap over the consumers forgotten.
IndexPerFrame(frame, offset, blockSize, numConsumers) ==
    CRem(frame + offset, numConsumers)
IndexSwapped(frame, offset, blockSize, numConsumers) ==
    CDiv(CRem(frame + offset, numConsumers), blockSize)
IndexUnwrapped(frame, offset, blockSize, numConsumers) ==
    CDiv(frame + offset, blockSize)

\* A result outside 0 .. numConsumers - 1 makes consumers.at() throw.
ConsumerIndex(frame, offset, blockSize, numConsumers) ==
    CRem(CDiv(frame + offset, blockSize), numConsumers)
=============================================================================
