------------------------------- MODULE MCEigerFan -------------------------------
(***************************************************************************)
(* Instances of the EigerFan for TLC.                                      *)
(***************************************************************************)
EXTENDS EigerFan

CONSTANTS w1, w2

NoParams == [op |-> "configure", id |-> TRUE, extra |-> 0,
             kill |-> FALSE, close |-> FALSE,
             offset |-> Absent, forward |-> Absent, block |-> Absent]

Status == [NoParams EXCEPT !.op = "status"]
Unknown == [NoParams EXCEPT !.op = "unknown"]
Kill == [NoParams EXCEPT !.kill = TRUE]
Close == [NoParams EXCEPT !.close = TRUE]
Offset(n) == [NoParams EXCEPT !.offset = n]
Forward(b) == [NoParams EXCEPT !.forward = b]
Block(n) == [NoParams EXCEPT !.block = n]
WithoutId(c) == [c EXCEPT !.id = FALSE]
Long(c) == [c EXCEPT !.extra = 1]

\* A series with parts to be sent to one and to all consumers, several and one;
\* with the offset of the commands below its image is for no consumer.
OneImage == <<Header("basic", 2), Image(0, 5), EndOfSeries>>

\* Two images, one cut short and one with an appendix.
Acquisition == <<Header("basic", 2), Image(0, 3), Image(1, 5), EndOfSeries>>

\* A header without details and an image; the series goes on.
BegunAcquisition == <<Header("none", 1), Image(0, 4)>>

\* Commands of the runs.
ControlCommands == {Kill, WithoutId(Offset(-1)), Long(Unknown)}
ChurnCommands == {Forward(TRUE), Close}
StatusOnly == {Status}
CloseOnly == {Close}

OneWorker == {w1}
TwoWorkers == {w1, w2}
=================================================================================
