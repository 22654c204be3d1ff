------------------------------ MODULE FrameTable ------------------------------
(***************************************************************************)
(* What the meta data file of an acquisition promises: one row per frame,  *)
(* filled once, with the frame's own meta data, at the offset at which its *)
(* pixels are written; no row changes after that or once the file has been *)
(* closed.  EigerMetaWriter implements it.                                 *)
(***************************************************************************)
EXTENDS Naturals

CONSTANTS
    Frames,     \* frame numbers of the acquisition
    RowOf,      \* the meta data of each frame
    OffsetOf    \* the offset at which each frame is written

VARIABLES table, closed

tableVars == <<table, closed>>

\* A table with a further row.
Filled(t, offset, value) ==
    [o \in DOMAIN t \cup {offset} |-> IF o = offset THEN value ELSE t[o]]

Empty == [o \in {} |-> 0]

TableInit == table = Empty /\ closed = FALSE

FillRow(f) ==
    /\ ~closed
    /\ OffsetOf[f] \notin DOMAIN table
    /\ table' = Filled(table, OffsetOf[f], RowOf[f])
    /\ UNCHANGED closed

Close ==
    /\ ~closed
    /\ closed' = TRUE
    /\ UNCHANGED table

TableNext == Close \/ \E f \in Frames : FillRow(f)

TableSpec == TableInit /\ [][TableNext]_tableVars
=============================================================================
