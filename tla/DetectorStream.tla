---------------------------- MODULE DetectorStream ----------------------------
(***************************************************************************)
(* The messages a detector pushes on its stream interface.  The payloads   *)
(* are abstracted to what the fan tells apart: the kind of a message (its  *)
(* htype), the number of its zeromq parts, the frame number of an image    *)
(* and the detail level of a header.  The detector is an external device;  *)
(* only its use by src/ is modelled.                                       *)
(***************************************************************************)
EXTENDS Integers, Sequences

CONSTANT Stream  \* the messages in the order in which the detector sends them

Kinds == {"header", "image", "end", "unknown"}
Details == {"none", "basic", "all", "unknown"}

MessageSet == [kind : Kinds, parts : Nat \ {0}, frame : Nat, detail : Details]

ASSUME StreamAssumption == Stream \in Seq(MessageSet)

Header(detail, parts) ==
    [kind |-> "header", parts |-> parts, frame |-> 0, detail |-> detail]
Image(frame, parts) ==
    [kind |-> "image", parts |-> parts, frame |-> frame, detail |-> "none"]
EndOfSeries ==
    [kind |-> "end", parts |-> 1, frame |-> 0, detail |-> "none"]

MsgIds == 1 .. Len(Stream)

\* A zeromq frame: part number part of message msg, with its RCVMORE flag.
PartSet == [msg : MsgIds, part : Nat \ {0}, more : BOOLEAN]

Parts(m) ==
    [p \in 1 .. Stream[m].parts |->
        [msg |-> m, part |-> p, more |-> p < Stream[m].parts]]
=============================================================================
