----------------------------- MODULE MCEigerDetector -----------------------------
(***************************************************************************)
(* Two parameters, the put of one of which changes the other.              *)
(***************************************************************************)
EXTENDS EigerDetector

CONSTANTS energy, nimages

MCParams == {energy, nimages}
MCAffects == [p \in MCParams |-> IF p = energy THEN MCParams ELSE {nimages}]
\* Series and exposures, triggered by the thread, by a client and externally; the
\* last number is that of the requests.
MCUses ==
    {<<"inte", FALSE, {"put", "start"}, 2>>,
     <<"exts", FALSE, {"put", "start"}, 3>>,
     <<"ints", FALSE, {"put", "start", "stop"}, 2>>,
     <<"ints", FALSE, {"start", "stop"}, 4>>,
     <<"inte", TRUE, {"start", "stop", "trigger"}, 3>>,
     <<"ints", FALSE, {"put", "initialize"}, 2>>,
     <<"exts", FALSE, {"start", "initialize"}, 3>>,
     <<"ints", FALSE, {"start", "raw", "hv_reset", "shutdown"}, 3>>,
     <<"inte", TRUE, {"stop", "hv_reset", "shutdown"}, 3>>}
PutAndStart == {<<"ints", FALSE, {"put", "start"}, 3>>}

AnyReply == {"list", "nothing", "other", "lost"}
ListReply == {"list"}
================================================================================
