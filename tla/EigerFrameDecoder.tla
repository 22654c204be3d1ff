--------------------------- MODULE EigerFrameDecoder ---------------------------
(***************************************************************************)
(* The EigerFrameDecoder of a frame receiver: it is given the parts of the *)
(* messages on one consumer socket of the fan, one at a time, places the   *)
(* payloads worth keeping in buffers of a shared pool, puts a FrameHeader  *)
(* in front and hands them to the frame processors, which give the buffers *)
(* back in any order.  Without an empty buffer a part is dropped.          *)
(*                                                                         *)
(* A field of a header is abstracted to its origin: the number of the      *)
(* message it was taken from, 0 when it is of none.                        *)
(*                                                                         *)
(* The frame receiver is external (odin-data): its rx thread asks for a    *)
(* buffer, receives a part into it, has it processed and reports the end   *)
(* of the message; released buffers are taken in between two parts.        *)
(***************************************************************************)
EXTENDS DetectorStream, FiniteSets

CONSTANTS
    Pool,         \* the buffers of the shared memory
    Scratch,      \* dropped_frame_buffer_
    NoBuffer,     \* the buffer id -1, and the null pointer
    Messages,     \* the messages the fan may send
    MaxMessages   \* bound: messages in a behaviour

ASSUME DecoderAssumption ==
    /\ IsFiniteSet(Pool)
    /\ Scratch \notin Pool /\ NoBuffer \notin Pool /\ Scratch # NoBuffer
    /\ Messages \subseteq MessageSet
    /\ MaxMessages \in Nat

VARIABLES
    d,        \* the members of the decoder
    content,  \* the header and the payload in each buffer of the pool
    lent,     \* the buffers with the frame processors
    msg,      \* the message being received
    count,    \* its number
    next,     \* its next part, 0 between two messages
    tally     \* parts due to the frame processors, and parts handed to them

vars == <<d, content, lent, msg, count, next, tally>>

NoPart == <<0, 0>>

\* currentHeader; the constructor does not initialise it.
Blank == [series |-> 0, acqID |-> 0, frame |-> -1, hash |-> 0, shape |-> 0,
          encoding |-> 0, times |-> 0, size |-> NoPart]

Init ==
    /\ \E order \in [1 .. Cardinality(Pool) -> Pool] :
           /\ \A i, j \in DOMAIN order : order[i] = order[j] => i = j
           /\ d = [empty |-> order, id |-> NoBuffer, at |-> NoBuffer,
                   dropping |-> FALSE, number |-> -1, part |-> 1,
                   type |-> "none", parent |-> "global", expect |-> 1,
                   header |-> Blank, allocated |-> 0, dropped |-> 0]
    /\ content = [b \in Pool |-> [type |-> "none", header |-> Blank, payload |-> NoPart]]
    /\ lent = {}
    /\ msg = EndOfSeries
    /\ count = 0
    /\ next = 0
    /\ tally = [due |-> 0, handed |-> 0]

-----------------------------------------------------------------------------
(***************************************************************************)
(* Buffers                                                                 *)
(***************************************************************************)

\* A decoder that counts a run of dropped parts once, and the code.
CountFirstDrop(x) ==
    IF x.id # NoBuffer THEN x
    ELSE IF x.empty = <<>>
    THEN [x EXCEPT !.at = Scratch, !.dropping = TRUE,
                   !.dropped = IF x.dropping THEN @ ELSE @ + 1]
    ELSE [x EXCEPT !.id = Head(x.empty), !.at = Head(x.empty), !.empty = Tail(@),
                   !.dropping = FALSE, !.allocated = @ + 1]
Allocate(x) ==
    IF x.id # NoBuffer THEN x
    ELSE IF x.empty = <<>>
    THEN [x EXCEPT !.at = Scratch, !.dropping = TRUE, !.dropped = @ + 1]
    ELSE [x EXCEPT !.id = Head(x.empty), !.at = Head(x.empty), !.empty = Tail(@),
                   !.dropping = FALSE, !.allocated = @ + 1]

\* The parts that are received into a buffer of their own.  The mutant forgets
\* the appendix of an image.
NeedsBufferNoAppendix(x) ==
    \/ x.parent = "image" /\ x.part = 3
    \/ x.parent = "global" /\ x.part \in {2, 4, 6, 8, 9}
NeedsBuffer(x) ==
    \/ x.parent = "image" /\ x.part \in {3, 5}
    \/ x.parent = "global" /\ x.part \in {2, 4, 6, 8, 9}

\* The decoder once a buffer is on its way; the mutant keeps the id.
SentKeepsId(x) ==
    [x EXCEPT !.number = -1,
              !.header = [@ EXCEPT !.hash = 0, !.shape = 0, !.encoding = 0,
                                   !.times = 0, !.size = NoPart]]
Sent(x) ==
    [x EXCEPT !.number = -1, !.id = NoBuffer,
              !.header = [@ EXCEPT !.hash = 0, !.shape = 0, !.encoding = 0,
                                   !.times = 0, !.size = NoPart]]

-----------------------------------------------------------------------------
(***************************************************************************)
(* Messages: what process_message sets before send_buffer, if it comes to  *)
(* that, and after it                                                      *)
(***************************************************************************)
GlobalHeader(x) ==
    LET y == [x EXCEPT !.parent = "global", !.allocated = 0,
                       !.header = [@ EXCEPT !.series = count]] IN
    CASE msg.detail = "none"  -> Allocate([y EXCEPT !.type = "none"])
      [] msg.detail = "basic" -> [y EXCEPT !.type = "config", !.expect = 2]
      [] OTHER                -> [y EXCEPT !.type = "config", !.expect = 8]

FirstPart(x) ==
    CASE msg.kind = "header" -> GlobalHeader(x)
      [] msg.kind = "image" ->
            [x EXCEPT !.parent = "image", !.type = "image", !.number = msg.frame,
                      !.header = [@ EXCEPT !.frame = msg.frame, !.series = count,
                                           !.hash = count, !.acqID = count]]
      [] msg.kind = "end" ->
            Allocate([x EXCEPT !.parent = "end", !.type = "end",
                               !.header = [@ EXCEPT !.series = count,
                                                    !.acqID = count]])
      [] OTHER -> x

\* "none" announces that a header has been sent before its acquisition ID is
\* read; the header's further parts have it.
AfterFirstPart(x) ==
    IF msg.kind = "header"
    THEN [x EXCEPT !.header = [@ EXCEPT !.acqID = count],
                   !.expect = IF msg.detail = "none" THEN 1 ELSE @]
    ELSE x

GlobalPart(x, p) ==
    CASE x.part = 3 -> [x EXCEPT !.type = "flatfield",
                              !.header = [@ EXCEPT !.shape = count]]
      [] x.part = 5 -> [x EXCEPT !.type = "mask",
                              !.header = [@ EXCEPT !.shape = count]]
      [] x.part = 7 -> [x EXCEPT !.type = "countrate",
                              !.header = [@ EXCEPT !.shape = count]]
      [] x.part = 9 -> [x EXCEPT !.type = "appendix",
                              !.header = [@ EXCEPT !.size = p]]
      [] x.part \in {2, 4, 6, 8} -> [x EXCEPT !.header.size = p]
      [] OTHER -> x

ImagePart(x, p) ==
    CASE x.part = 2 -> [x EXCEPT !.header = [@ EXCEPT !.shape = count,
                                                      !.encoding = count]]
      [] x.part = 3 -> [x EXCEPT !.header.size = p]
      [] x.part = 4 -> [x EXCEPT !.header.times = count]
      [] x.part = 5 -> [x EXCEPT !.type = "image_appendix",
                              !.header = [@ EXCEPT !.size = p]]
      [] OTHER -> x

Process(x, p) ==
    CASE x.part = 1 -> FirstPart(x)
      [] x.part # 1 /\ x.type = "image" -> ImagePart(x, p)
      [] x.part # 1 /\ x.type = "end" -> x
      [] OTHER -> GlobalPart(x, p)

\* The branches that call send_buffer, by the type before the part.
Sends(x) ==
    CASE x.part = 1 -> msg.kind = "end" \/ (msg.kind = "header" /\ msg.detail = "none")
      [] x.part # 1 /\ x.type = "image" -> x.part \in {4, 5}
      [] x.part # 1 /\ x.type = "end" -> FALSE
      [] OTHER -> x.part \in {2, 4, 6, 8, 9}

\* The number of the part to come: an appendix has number 9 whatever the detail
\* of the header.
NextPart(x) ==
    IF x.parent = "global" /\ x.part + 1 > x.expect THEN 9 ELSE x.part + 1

\* frame_meta_data at the end of a message.  The mutant keeps the part number.
EndOfMessageKeepsPart(x) ==
    [x EXCEPT !.header = [@ EXCEPT !.frame = -1, !.acqID = 0, !.series = 0]]
EndOfMessage(x) ==
    [x EXCEPT !.part = 1,
              !.header = [@ EXCEPT !.frame = -1, !.acqID = 0, !.series = 0]]

-----------------------------------------------------------------------------
(***************************************************************************)
(* Actions                                                                 *)
(***************************************************************************)

\* The parts of a message that are due to the frame processors.
Due(m) ==
    LET whole == CASE m.kind = "image" -> 4
                   [] m.kind = "header" /\ m.detail = "basic" -> 2
                   [] m.kind = "header" /\ m.detail = "all" -> 8
                   [] OTHER -> 1
        data  == CASE m.kind = "image" -> {3}
                   [] m.kind = "header" /\ m.detail = "basic" -> {2}
                   [] m.kind = "header" /\ m.detail = "all" -> {2, 4, 6, 8}
                   [] OTHER -> {1}
    IN data \cup {p \in {whole + 1} : p <= m.parts}

NextMessage ==
    /\ next = 0
    /\ count < MaxMessages
    /\ msg' \in Messages
    /\ count' = count + 1
    /\ next' = 1
    /\ UNCHANGED <<d, content, lent, tally>>

\* get_next_message_buffer, recv, process_message, frame_meta_data.
ReceivePart ==
    /\ next > 0
    /\ LET p == <<count, next>>
           last == next = msg.parts
           a == IF NeedsBuffer(d) THEN Allocate(d) ELSE d
           b == Process(a, p)
           hand == Sends(a) /\ ~b.dropping
           c == IF hand THEN Sent(b) ELSE b
           e == IF a.part = 1 THEN AfterFirstPart(c) ELSE c
           f == [e EXCEPT !.part = NextPart(e)]
           received == IF NeedsBuffer(d) /\ a.at \in Pool
                       THEN [content EXCEPT ![a.at].payload = p]
                       ELSE content
       IN
           /\ d' = IF last THEN EndOfMessage(f) ELSE f
           /\ content' = IF hand /\ b.at \in Pool
                         THEN [received EXCEPT ![b.at].type = b.type,
                                               ![b.at].header = b.header]
                         ELSE received
           /\ lent' = IF hand THEN lent \cup {b.id} ELSE lent
           /\ tally' = [due |-> tally.due + IF next \in Due(msg) THEN 1 ELSE 0,
                        handed |-> tally.handed + IF hand THEN 1 ELSE 0]
           /\ next' = IF last THEN 0 ELSE next + 1
    /\ UNCHANGED <<msg, count>>

\* A frame processor has released a buffer.
Release(b) ==
    /\ b \in lent
    /\ lent' = lent \ {b}
    /\ d' = [d EXCEPT !.empty = Append(@, b)]
    /\ UNCHANGED <<content, msg, count, next, tally>>

Next == NextMessage \/ ReceivePart \/ \E b \in Pool : Release(b)

Spec == Init /\ [][Next]_vars

-----------------------------------------------------------------------------
(***************************************************************************)
(* Properties                                                              *)
(***************************************************************************)
MessageTypes == {"none", "config", "flatfield", "mask", "countrate", "appendix",
                 "image", "image_appendix", "end"}

PartRef == Nat \X Nat

HeaderSet == [series : Nat, acqID : Nat, frame : Nat \cup {-1}, hash : Nat,
              shape : Nat, encoding : Nat, times : Nat, size : PartRef]

TypeOK ==
    /\ d \in [empty : Seq(Pool), id : Pool \cup {NoBuffer},
              at : Pool \cup {Scratch, NoBuffer}, dropping : BOOLEAN,
              number : Nat \cup {-1}, part : 1 .. 9, type : MessageTypes,
              parent : {"global", "image", "end"}, expect : {1, 2, 8},
              header : HeaderSet, allocated : Nat, dropped : Nat]
    /\ content \in [Pool -> [type : MessageTypes, header : HeaderSet,
                             payload : PartRef]]
    /\ lent \subseteq Pool
    /\ msg \in Messages \cup {EndOfSeries}
    /\ count \in 0 .. MaxMessages
    /\ next \in 0 .. msg.parts
    /\ tally \in [due : Nat, handed : Nat]

\* Every buffer of the pool is in exactly one place: in the empty queue, once,
\* with the decoder, or with the frame processors (allocate_next_frame_buffer
\* and send_buffer, EigerFrameDecoder.cpp:482-537): however messages with and
\* without appendices follow each other, none leaks and none is used twice.
BuffersAccounted ==
    /\ lent \subseteq Pool
    /\ \A b \in Pool :
           Cardinality({i \in 1 .. Len(d.empty) : d.empty[i] = b})
               + (IF d.id = b THEN 1 ELSE 0)
               + (IF b \in lent THEN 1 ELSE 0) = 1

\* A buffer does not change while the frame processors have it, though the
\* decoder keeps its pointer to it (current_frame_buffer_ is not reset by
\* send_buffer, EigerFrameDecoder.cpp:508-537).
LentUntouched ==
    [][ \A b \in lent \cap lent' : content'[b] = content[b] ]_vars

\* What the type of a buffer promises of the message m it came from.
Describes(c, m) ==
    /\ c.header.series = m
    /\ c.header.acqID = IF c.type = "none" THEN 0 ELSE m
    /\ c.type \notin {"none", "end"} => c.header.size = c.payload /\ c.payload[1] = m
    /\ c.type \in {"flatfield", "mask", "countrate"} => c.header.shape = m
    /\ c.type = "image" => /\ c.payload[2] = 3
                           /\ c.header.hash = m /\ c.header.shape = m
                           /\ c.header.encoding = m /\ c.header.times = m
    /\ c.type \in {"image", "image_appendix"} => c.header.frame = msg.frame

\* A buffer that is handed over carries the fields that its type is published
\* with, all of the message its payload came in, also when parts before it have
\* been dropped (EigerFrameDecoder.cpp:145-440; read by EigerProcessPlugin.cpp:58-60,
\* 73-160).  Only a header of detail none goes out without its acquisition ID, which
\* is copied after it has been sent (EigerFrameDecoder.cpp:171, 187-192): it never
\* has that of an earlier message instead.
Described ==
    [][ \A b \in lent' \ lent : Describes(content'[b], count) ]_vars

\* Every part due to the frame processors since the decoder was made has been handed
\* over or is counted as dropped (frames_dropped_, EigerFrameDecoder.cpp:485-492):
\* nothing disappears unnoticed.  The count is never reset, see DroppedAnew.
NothingVanishes ==
    tally.due = tally.handed + d.dropped + IF d.id = NoBuffer THEN 0 ELSE 1

\* "Reset the dropped frame count to start fresh for this acquisition"
\* (EigerFrameDecoder.cpp:160): once its header has been received, the count is that
\* of the acquisition, which has lost at most the header itself; monitor_buffers
\* reports it as that of the last acquisition (471-474).
DroppedAnew ==
    [][ next = 1 /\ next' # next /\ msg.kind = "header" => d'.dropped <= 1 ]_vars
================================================================================
