-------------------------- MODULE MCEigerMetaWriter --------------------------
(***************************************************************************)
(* Two frame processors, four frames in blocks of one, a header of detail  *)
(* basic with an appendix, and possibly an end of an earlier series.       *)
(***************************************************************************)
EXTENDS EigerMetaWriter

CONSTANTS p1, p2

MCProcessors == {p1, p2}
MCFrames == 0 .. 3
MCShare == [p \in MCProcessors |-> IF p = p1 THEN <<0, 2>> ELSE <<1, 3>>]
MCOffsetOf == [f \in MCFrames |-> f + 2]
MCHeader == <<"globalconfig", "headerappendix">>
==============================================================================
