--------------------------- MODULE MCMultiPullBroker ---------------------------
(***************************************************************************)
(* Two workers and one short acquisition: a header of two parts, an image  *)
(* of three, a second image of one part and the end message.               *)
(***************************************************************************)
EXTENDS MultiPullBroker

MCStream == <<Header("basic", 2), Image(0, 3), Image(1, 1), EndOfSeries>>
================================================================================
