-------------------------- MODULE MCEigerFrameDecoder --------------------------
(***************************************************************************)
(* Up to three messages in any order, with and without appendices, and a   *)
(* pool of two buffers.                                                    *)
(***************************************************************************)
EXTENDS EigerFrameDecoder

MCMessages == {Header("none", 1), Header("none", 2), Header("basic", 3),
               Header("all", 9), Image(0, 4), Image(0, 5), EndOfSeries}

MCStream == <<>>
================================================================================
