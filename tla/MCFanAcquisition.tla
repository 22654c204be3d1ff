--------------------------- MODULE MCFanAcquisition ---------------------------
(***************************************************************************)
(* Every combination of a block size up to 4 and an offset up to 5 with    *)
(* three consumers and a series that goes twice round all of them; two     *)
(* acquisitions configured with and without waiting for the first; and the *)
(* cache turned off during an acquisition and after it.                    *)
(***************************************************************************)
EXTENDS FanAcquisition

CONSTANTS A, B, No

MCNames == {A, B}
MCNumConsumers == 3
MCOffsets == 0 .. 5
MCBlockSizes == 1 .. 4
MCMaxFrames == 26

Distribution(offset, block) == <<Configure(offset, A, No, block), Arm(26)>>

\* The second acquisition is configured at any time of the first; the third is
\* not configured.
Overlapping == <<Configure(1, A, No, No), Arm(1), Configure(2, B, No, No), Arm(1), Arm(1)>>
Following ==
    <<Configure(1, A, No, No), Arm(1), Await, Configure(2, B, No, No), Arm(1), Arm(1)>>

\* The cache is turned off at any time of an acquisition, of two under names of
\* their own, and between two.
CacheOff == <<Configure(0, A, TRUE, No), Arm(1), Configure(No, No, FALSE, No)>>
TwoCached ==
    <<Configure(0, A, TRUE, No), Arm(0), Await, Configure(0, B, No, No), Arm(1),
      Configure(No, No, FALSE, No)>>
CachedInTurn ==
    <<Configure(0, A, TRUE, No), Arm(1), Await, Configure(0, B, FALSE, No), Arm(1),
      Await, Configure(0, A, TRUE, No), Arm(1)>>

MCPlans ==
    {Distribution(o, b) : o \in MCOffsets, b \in MCBlockSizes}
        \cup {Overlapping, Following, CacheOff, TwoCached, CachedInTurn}
===============================================================================
