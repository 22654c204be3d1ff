----------------------- MODULE EigerFrameDecoder_proofs -----------------------
(***************************************************************************)
(* For every pool of buffers and every series of well-formed messages: the *)
(* types of the decoder, where its buffers are, that a buffer with the     *)
(* frame processors is left alone, that it describes what it holds, and    *)
(* that every part is handed over or counted.                              *)
(***************************************************************************)
EXTENDS EigerFrameDecoder, FiniteSetTheorems, TLAPS

DecoderSet ==
    [empty : Seq(Pool), id : Pool \cup {NoBuffer},
     at : Pool \cup {Scratch, NoBuffer}, dropping : BOOLEAN,
     number : Nat \cup {-1}, part : 1 .. 9, type : MessageTypes,
     parent : {"global", "image", "end"}, expect : {1, 2, 8},
     header : HeaderSet, allocated : Nat, dropped : Nat]

\* The messages a detector sends: as many parts as their kind has, and perhaps one
\* more, the appendix.
WellFormed(m) ==
    /\ m.kind \in {"header", "image", "end"}
    /\ m.kind = "header" => \/ m.detail = "none" /\ m.parts \in {1, 2}
                            \/ m.detail = "basic" /\ m.parts \in {2, 3}
                            \/ m.detail = "all" /\ m.parts \in {8, 9}
    /\ m.kind = "image" => m.parts \in {4, 5}
    /\ m.kind = "end" => m.parts = 1

\* The parts of a header before its appendix.
Whole(m) == CASE m.detail = "none" -> 1 [] m.detail = "basic" -> 2 [] OTHER -> 8

\* Where the decoder is in the message.
PartInv ==
    /\ WellFormed(msg)
    /\ next \in {0, 1} => d.part = 1 /\ d.header.acqID = 0
    /\ next > 1 =>
           /\ d.header.series = count /\ d.header.acqID = count
           /\ msg.kind = "image" =>
                  /\ d.parent = "image" /\ d.type = "image" /\ d.part = next
                  /\ d.header.frame = msg.frame
           /\ msg.kind = "header" =>
                  /\ d.parent = "global" /\ d.type \notin {"image", "image_appendix", "end"}
                  /\ d.type = "none" => msg.detail = "none"
                  /\ d.expect = Whole(msg)
                  /\ d.part = IF next > Whole(msg) THEN 9 ELSE next
           /\ msg.kind # "end"

\* The decoder keeps a buffer from one part to the next between the data of an
\* image and its times, and no others.
HoldInv ==
    /\ d.id # NoBuffer => /\ next = 4 /\ msg.kind = "image"
                          /\ d.at = d.id /\ ~d.dropping
    /\ next = 4 /\ msg.kind = "image" => d.id # NoBuffer \/ d.dropping

\* No buffer is in two places, and none is lost.
PlaceInv ==
    /\ \A i, j \in 1 .. Len(d.empty) : d.empty[i] = d.empty[j] => i = j
    /\ \A i \in 1 .. Len(d.empty) : d.empty[i] \notin lent /\ d.empty[i] # d.id
    /\ d.id \notin lent
    /\ \A b \in Pool :
           b = d.id \/ b \in lent \/ \E i \in 1 .. Len(d.empty) : d.empty[i] = b

\* What the header holds of the message while a payload that needs it is to come.
FieldInv ==
    /\ next \in {3, 4} /\ msg.kind = "image" => d.header.hash = count
    /\ next \in {3, 4} /\ msg.kind = "image" =>
           d.header.shape = count /\ d.header.encoding = count
    /\ d.id # NoBuffer => /\ d.header.size = <<count, 3>>
                          /\ content[d.id].payload = <<count, 3>>
    /\ next \in {4, 6, 8} /\ msg.kind = "header" => d.header.shape = count
    /\ next = 2 /\ msg.kind = "header" => d.type \in {"none", "config"}
    /\ next = 2 /\ msg.kind = "image" => d.header.hash = count

-----------------------------------------------------------------------------
(***************************************************************************)
(* ReceivePart step by step                                                *)
(***************************************************************************)
Part == <<count, next>>
Ready == IF NeedsBuffer(d) THEN Allocate(d) ELSE d
Processed == Process(Ready, Part)
Hand == Sends(Ready) /\ ~Processed.dropping
Passed == IF Hand THEN Sent(Processed) ELSE Processed
Finished == IF Ready.part = 1 THEN AfterFirstPart(Passed) ELSE Passed
Advanced == [Finished EXCEPT !.part = NextPart(Finished)]
Received ==
    IF NeedsBuffer(d) /\ Ready.at \in Pool
    THEN [content EXCEPT ![Ready.at].payload = Part]
    ELSE content

LEMMA ReceiveSteps ==
    ASSUME ReceivePart
    PROVE  /\ next > 0
           /\ d' = IF next = msg.parts THEN EndOfMessage(Advanced) ELSE Advanced
           /\ content' = IF Hand /\ Processed.at \in Pool
                         THEN [Received EXCEPT ![Processed.at].type = Processed.type,
                                               ![Processed.at].header = Processed.header]
                         ELSE Received
           /\ lent' = IF Hand THEN lent \cup {Processed.id} ELSE lent
           /\ tally' = [due |-> tally.due + IF next \in Due(msg) THEN 1 ELSE 0,
                        handed |-> tally.handed + IF Hand THEN 1 ELSE 0]
           /\ next' = IF next = msg.parts THEN 0 ELSE next + 1
           /\ msg' = msg /\ count' = count
  BY DEF ReceivePart, Part, Ready, Processed, Hand, Passed, Finished, Advanced,
         Received

LEMMA ConstantsTyped ==
    /\ IsFiniteSet(Pool) /\ MaxMessages \in Nat
    /\ Scratch \notin Pool /\ NoBuffer \notin Pool /\ Scratch # NoBuffer
    /\ Messages \subseteq MessageSet
  BY DecoderAssumption DEF DecoderAssumption

\* A decoder with other values in some of its fields.
LEMMA PartChanged ==
    ASSUME NEW x \in DecoderSet, NEW part \in 1 .. 9, NEW header \in HeaderSet
    PROVE  [x EXCEPT !.part = part, !.header = header] \in DecoderSet
  BY DEF DecoderSet

LEMMA DropChanged ==
    ASSUME NEW x \in DecoderSet, NEW at \in Pool \cup {Scratch, NoBuffer},
           NEW dropping \in BOOLEAN, NEW dropped \in Nat
    PROVE  [x EXCEPT !.at = at, !.dropping = dropping, !.dropped = dropped] \in DecoderSet
  BY DEF DecoderSet

LEMMA BufferChanged ==
    ASSUME NEW x \in DecoderSet, NEW b \in Pool, NEW empty \in Seq(Pool),
           NEW dropping \in BOOLEAN, NEW allocated \in Nat
    PROVE  [x EXCEPT !.id = b, !.at = b, !.empty = empty, !.dropping = dropping,
                     !.allocated = allocated] \in DecoderSet
  BY DEF DecoderSet

\* What Allocate does to a decoder without a buffer.
LEMMA Allocated ==
    ASSUME NEW x \in DecoderSet, x.id = NoBuffer
    PROVE  LET y == Allocate(x) IN
           /\ y \in DecoderSet
           /\ y.part = x.part /\ y.type = x.type /\ y.parent = x.parent
           /\ y.expect = x.expect /\ y.header = x.header
           /\ \/ /\ x.empty = <<>> /\ y.empty = <<>>
                 /\ y.id = NoBuffer /\ y.dropping /\ y.dropped = x.dropped + 1
                 /\ y.at = Scratch
              \/ /\ x.empty # <<>> /\ y.empty = Tail(x.empty)
                 /\ y.id = Head(x.empty) /\ y.at = Head(x.empty)
                 /\ ~y.dropping /\ y.dropped = x.dropped
  <1> DEFINE y == Allocate(x)
  <1>1. x.empty \in Seq(Pool) /\ x.dropped \in Nat /\ x.allocated \in Nat
    BY DEF DecoderSet
  <1>2. CASE x.empty = <<>>
    <2>1. y = [x EXCEPT !.at = Scratch, !.dropping = TRUE, !.dropped = @ + 1]
      BY <1>2 DEF Allocate
    <2>2. y \in DecoderSet
      <3>1. FALSE \in BOOLEAN /\ TRUE \in BOOLEAN /\ x.dropped + 1 \in Nat
        BY <1>1
      <3>2. Scratch \in Pool \cup {Scratch, NoBuffer}
        OBVIOUS
      <3>3. [x EXCEPT !.at = Scratch, !.dropping = TRUE, !.dropped = x.dropped + 1] \in DecoderSet
        BY <3>1, <3>2, DropChanged
      <3> QED
        BY <2>1, <3>3
    <2> QED
      BY <1>1, <1>2, <2>1, <2>2 DEF DecoderSet
  <1>3. CASE x.empty # <<>>
    <2>1. y = [x EXCEPT !.id = Head(x.empty), !.at = Head(x.empty), !.empty = Tail(@),
                        !.dropping = FALSE, !.allocated = @ + 1]
      BY <1>3 DEF Allocate
    <2>2. Head(x.empty) \in Pool /\ Tail(x.empty) \in Seq(Pool)
      BY <1>1, <1>3
    <2>3. y \in DecoderSet
      <3>1. FALSE \in BOOLEAN /\ x.allocated + 1 \in Nat
        BY <1>1
      <3>2. [x EXCEPT !.id = Head(x.empty), !.at = Head(x.empty), !.empty = Tail(x.empty),
                      !.dropping = FALSE, !.allocated = x.allocated + 1] \in DecoderSet
        BY <2>2, <3>1, BufferChanged
      <3> QED
        BY <2>1, <3>2
    <2> QED
      BY <1>1, <1>3, <2>1, <2>2, <2>3 DEF DecoderSet
  <1> QED
    BY <1>2, <1>3

LEMMA SentTyped ==
    ASSUME NEW x \in DecoderSet
    PROVE  LET y == Sent(x) IN
           /\ y \in DecoderSet /\ y.id = NoBuffer
           /\ y.empty = x.empty /\ y.at = x.at /\ y.dropping = x.dropping
           /\ y.dropped = x.dropped
           /\ y.part = x.part /\ y.type = x.type /\ y.parent = x.parent
           /\ y.expect = x.expect
           /\ y.header.series = x.header.series /\ y.header.frame = x.header.frame
           /\ y.header.acqID = x.header.acqID
  BY DEF DecoderSet, HeaderSet, PartRef, Sent, NoPart

LEMMA EndTyped ==
    ASSUME NEW x \in DecoderSet
    PROVE  LET y == EndOfMessage(x) IN
           /\ y \in DecoderSet /\ y.part = 1 /\ y.header.acqID = 0
           /\ y.empty = x.empty /\ y.id = x.id /\ y.at = x.at
           /\ y.dropping = x.dropping /\ y.dropped = x.dropped
  <1> DEFINE h == [x.header EXCEPT !.frame = -1, !.acqID = 0, !.series = 0]
  <1>1. h \in HeaderSet /\ h.acqID = 0
    BY DEF DecoderSet, HeaderSet
  <1>2. EndOfMessage(x) = [x EXCEPT !.part = 1, !.header = h]
    BY DEF EndOfMessage
  <1> HIDE DEF h
  <1>3. EndOfMessage(x) \in DecoderSet
    <2>1. 1 \in 1 .. 9
      OBVIOUS
    <2>2. [x EXCEPT !.part = 1, !.header = h] \in DecoderSet
      BY <1>1, <2>1, PartChanged
    <2> QED
      BY <1>2, <2>2, Zenon
  <1> QED
    BY <1>1, <1>2, <1>3 DEF DecoderSet

LEMMA HeaderChanged ==
    ASSUME NEW x \in DecoderSet, NEW header \in HeaderSet
    PROVE  [x EXCEPT !.header = header] \in DecoderSet
  BY DEF DecoderSet

LEMMA TypeChanged ==
    ASSUME NEW x \in DecoderSet, NEW type \in MessageTypes, NEW header \in HeaderSet
    PROVE  [x EXCEPT !.type = type, !.header = header] \in DecoderSet
  BY DEF DecoderSet

LEMMA GlobalChanged ==
    ASSUME NEW x \in DecoderSet, NEW type \in MessageTypes, NEW header \in HeaderSet,
           NEW parent \in {"global", "image", "end"}, NEW number \in Nat \cup {-1},
           NEW expect \in {1, 2, 8}, NEW allocated \in Nat
    PROVE  /\ [x EXCEPT !.parent = parent, !.allocated = allocated, !.header = header,
                        !.type = type] \in DecoderSet
           /\ [x EXCEPT !.parent = parent, !.allocated = allocated, !.header = header,
                        !.type = type, !.expect = expect] \in DecoderSet
           /\ [x EXCEPT !.parent = parent, !.type = type, !.header = header] \in DecoderSet
           /\ [x EXCEPT !.parent = parent, !.type = type, !.number = number,
                        !.header = header] \in DecoderSet
  <1> USE DEF DecoderSet
  <1>1. [x EXCEPT !.parent = parent, !.allocated = allocated, !.header = header,
                  !.type = type] \in DecoderSet
    OBVIOUS
  <1>2. [x EXCEPT !.parent = parent, !.allocated = allocated, !.header = header,
                  !.type = type, !.expect = expect] \in DecoderSet
    OBVIOUS
  <1>3. [x EXCEPT !.parent = parent, !.type = type, !.header = header] \in DecoderSet
    OBVIOUS
  <1>4. [x EXCEPT !.parent = parent, !.type = type, !.number = number,
                  !.header = header] \in DecoderSet
    OBVIOUS
  <1> HIDE DEF DecoderSet
  <1> QED
    BY <1>1, <1>2, <1>3, <1>4

-----------------------------------------------------------------------------
(***************************************************************************)
(* The kinds of parts                                                      *)
(***************************************************************************)

\* y is x with an empty buffer, or with a part more dropped.
Got(x, y) ==
    \/ /\ x.empty = <<>> /\ y.empty = <<>>
       /\ y.id = NoBuffer /\ y.dropping /\ y.dropped = x.dropped + 1
    \/ /\ x.empty # <<>> /\ y.empty = Tail(x.empty)
       /\ y.id = Head(x.empty) /\ y.at = Head(x.empty)
       /\ ~y.dropping /\ y.dropped = x.dropped

SameBuffers(x, y) ==
    /\ y.empty = x.empty /\ y.id = x.id /\ y.at = x.at
    /\ y.dropping = x.dropping /\ y.dropped = x.dropped

\* What process_message knows of the message when it comes to send_buffer.
Parsed ==
    /\ Processed \in DecoderSet
    /\ Processed.part = d.part
    /\ Processed.header.series = count
    /\ Processed.header.acqID = IF next = 1 /\ msg.kind = "header" THEN 0 ELSE count
    /\ msg.kind = "image" =>
           /\ Processed.parent = "image"
           /\ Processed.type = IF next = 5 THEN "image_appendix" ELSE "image"
           /\ Processed.header.frame = msg.frame
    /\ msg.kind = "header" =>
           /\ Processed.parent = "global"
           /\ Processed.type \notin {"image", "image_appendix", "end"}
           /\ Processed.type = "none" => msg.detail = "none"
           /\ next > 1 \/ msg.detail # "none" => Processed.expect = Whole(msg)

\* A part that needs no buffer, one that is received into a buffer and handed over
\* at once, the data of an image, and the times that come after them.
Plain ==
    /\ Ready = d /\ ~NeedsBuffer(d) /\ SameBuffers(d, Processed) /\ ~Sends(Ready)
    /\ next \notin Due(msg)
Announced ==
    /\ Ready = d /\ ~NeedsBuffer(d) /\ Got(d, Processed) /\ Sends(Ready)
    /\ next \in Due(msg) /\ next = 1
    /\ Processed.type \in {"none", "end"}
    /\ Processed.type = "none" <=> msg.kind = "header"
Payload ==
    /\ NeedsBuffer(d) /\ Got(d, Ready) /\ SameBuffers(Ready, Processed) /\ Sends(Ready)
    /\ next \in Due(msg) /\ next > 1 /\ Processed.header.size = Part
    /\ Processed.type \notin {"none", "end", "image"}
    /\ Processed.type \in {"flatfield", "mask", "countrate"} => Processed.header.shape = count
Data ==
    /\ NeedsBuffer(d) /\ Got(d, Ready) /\ SameBuffers(Ready, Processed) /\ ~Sends(Ready)
    /\ next \in Due(msg) /\ msg.kind = "image" /\ next = 3
    /\ Processed.header.size = Part
    /\ Processed.header.hash = count /\ Processed.header.shape = count
    /\ Processed.header.encoding = count
Times ==
    /\ Ready = d /\ ~NeedsBuffer(d) /\ SameBuffers(d, Processed) /\ Sends(Ready)
    /\ next \notin Due(msg) /\ msg.kind = "image" /\ next = 4
    /\ Processed.header = [d.header EXCEPT !.times = count]

DecInv == TypeOK /\ PartInv /\ HoldInv /\ PlaceInv /\ FieldInv /\ NothingVanishes

LEMMA Typed ==
    ASSUME DecInv
    PROVE  /\ d \in DecoderSet /\ d.header \in HeaderSet
           /\ msg \in MessageSet /\ WellFormed(msg)
           /\ count \in Nat /\ next \in Nat /\ next <= msg.parts /\ msg.parts \in 1 .. 9
           /\ d.id # NoBuffer => next = 4 /\ msg.kind = "image"
  <1>1. d \in DecoderSet
    BY DEF DecInv, TypeOK, DecoderSet
  <1>2. d.header \in HeaderSet
    BY <1>1 DEF DecoderSet
  <1>3. msg \in MessageSet /\ WellFormed(msg)
    BY ConstantsTyped DEF DecInv, TypeOK, PartInv, EndOfSeries, MessageSet,
                          Kinds, Details
  <1>4. count \in Nat /\ next \in Nat /\ next <= msg.parts
    BY <1>3, ConstantsTyped DEF DecInv, TypeOK, MessageSet
  <1>5. msg.parts \in 1 .. 9
    BY <1>3 DEF WellFormed, MessageSet
  <1>6. d.id # NoBuffer => next = 4 /\ msg.kind = "image"
    BY DEF DecInv, HoldInv
  <1> QED
    BY <1>1, <1>2, <1>3, <1>4, <1>5, <1>6

LEMMA ImageParts ==
    ASSUME DecInv, next > 0, msg.kind = "image"
    PROVE  /\ Parsed /\ (Plain \/ Payload \/ Data \/ Times)
           /\ next = 1 => Plain /\ Processed.header.hash = count
           /\ next = 2 => /\ Plain /\ Processed.header.hash = d.header.hash
                          /\ Processed.header.shape = count
                          /\ Processed.header.encoding = count
           /\ next = 3 => Data
           /\ next = 4 => Times
           /\ next = 5 => Payload
  <1> USE Typed
  <1>1. msg.parts \in {4, 5} /\ next \in 1 .. 5 /\ Due(msg) = {3} \cup {p \in {5} : p <= msg.parts}
    BY DEF WellFormed, Due
  <1>2. /\ next = 1 => d.part = 1
        /\ next > 1 => /\ d.parent = "image" /\ d.type = "image" /\ d.part = next
                       /\ d.header.frame = msg.frame /\ d.header.series = count
                       /\ d.header.acqID = count
    BY DEF DecInv, PartInv
  <1>3. Part \in PartRef
    BY DEF Part, PartRef
  <1>4. CASE next = 1
    <2>1. ~NeedsBuffer(d) /\ Ready = d
      BY <1>2, <1>4 DEF NeedsBuffer, Ready
    <2> DEFINE h == [d.header EXCEPT !.frame = msg.frame, !.series = count,
                                     !.hash = count, !.acqID = count]
    <2>2. /\ h \in HeaderSet /\ h.frame = msg.frame /\ h.series = count /\ h.hash = count
          /\ h.acqID = count
      BY DEF HeaderSet, MessageSet
    <2>3. Processed = [d EXCEPT !.parent = "image", !.type = "image", !.number = msg.frame,
                                !.header = h]
      BY <1>2, <1>4, <2>1 DEF Processed, Process, FirstPart
    <2> HIDE DEF h
    <2>4. "image" \in MessageTypes /\ msg.frame \in Nat \cup {-1}
      BY DEF MessageTypes, MessageSet
    <2>5. Processed \in DecoderSet
      BY <2>2, <2>3, <2>4, GlobalChanged
    <2>6. /\ SameBuffers(d, Processed) /\ Processed.part = d.part /\ Processed.header = h
          /\ Processed.parent = "image" /\ Processed.type = "image"
      BY <2>3 DEF SameBuffers, DecoderSet
    <2>7. ~Sends(Ready)
      BY <1>2, <1>4, <2>1 DEF Sends
    <2> QED
      BY <1>1, <1>4, <2>1, <2>2, <2>5, <2>6, <2>7 DEF Parsed, Plain
  <1>5. CASE next = 2
    <2>1. ~NeedsBuffer(d) /\ Ready = d
      BY <1>2, <1>5 DEF NeedsBuffer, Ready
    <2> DEFINE h == [d.header EXCEPT !.shape = count, !.encoding = count]
    <2>2. /\ h \in HeaderSet /\ h.shape = count /\ h.encoding = count
          /\ h.frame = d.header.frame /\ h.series = d.header.series /\ h.hash = d.header.hash
          /\ h.acqID = d.header.acqID
      BY DEF HeaderSet
    <2>3. Processed = [d EXCEPT !.header = h]
      BY <1>2, <1>5, <2>1 DEF Processed, Process, ImagePart
    <2> HIDE DEF h
    <2>5. Processed \in DecoderSet
      BY <2>2, <2>3, HeaderChanged
    <2>6. /\ SameBuffers(d, Processed) /\ Processed.part = d.part /\ Processed.header = h
          /\ Processed.parent = "image" /\ Processed.type = "image"
      BY <1>2, <1>5, <2>3 DEF SameBuffers, DecoderSet
    <2>7. ~Sends(Ready)
      BY <1>2, <1>5, <2>1 DEF Sends
    <2> QED
      BY <1>1, <1>2, <1>5, <2>1, <2>2, <2>5, <2>6, <2>7 DEF Parsed, Plain
  <1>6. CASE next = 3
    <2>1. NeedsBuffer(d) /\ Ready = Allocate(d) /\ d.id = NoBuffer
      BY <1>2, <1>6 DEF NeedsBuffer, Ready
    <2>2. /\ Ready \in DecoderSet /\ Got(d, Ready)
          /\ Ready.part = 3 /\ Ready.type = "image" /\ Ready.parent = "image"
          /\ Ready.header = d.header
      BY <1>2, <1>6, <2>1, Allocated DEF Got
    <2> DEFINE h == [Ready.header EXCEPT !.size = Part]
    <2>3. Processed = [Ready EXCEPT !.header = h]
      BY <2>2 DEF Processed, Process, ImagePart
    <2>4. /\ h \in HeaderSet /\ h.size = Part /\ h.shape = d.header.shape
          /\ h.encoding = d.header.encoding /\ h.frame = d.header.frame
          /\ h.series = d.header.series /\ h.hash = d.header.hash
          /\ h.acqID = d.header.acqID
      BY <1>3, <2>2 DEF HeaderSet
    <2> HIDE DEF h
    <2>5. Processed \in DecoderSet
      BY <2>2, <2>3, <2>4, HeaderChanged
    <2>6. /\ SameBuffers(Ready, Processed) /\ Processed.part = 3 /\ Processed.header = h
          /\ Processed.parent = "image" /\ Processed.type = "image"
      BY <2>2, <2>3 DEF SameBuffers, DecoderSet
    <2>7. ~Sends(Ready)
      BY <2>2 DEF Sends
    <2>8. d.header.hash = count /\ d.header.shape = count /\ d.header.encoding = count
      BY <1>6 DEF DecInv, FieldInv
    <2> QED
      BY <1>1, <1>2, <1>6, <2>1, <2>2, <2>4, <2>5, <2>6, <2>7, <2>8
         DEF Parsed, Data
  <1>7. CASE next = 4
    <2>1. ~NeedsBuffer(d) /\ Ready = d
      BY <1>2, <1>7 DEF NeedsBuffer, Ready
    <2> DEFINE h == [d.header EXCEPT !.times = count]
    <2>2. /\ h \in HeaderSet
          /\ h.frame = d.header.frame /\ h.series = d.header.series
          /\ h.acqID = d.header.acqID
      BY DEF HeaderSet
    <2>3. Processed = [d EXCEPT !.header = h]
      BY <1>2, <1>7, <2>1 DEF Processed, Process, ImagePart
    <2>4. h = [d.header EXCEPT !.times = count]
      OBVIOUS
    <2> HIDE DEF h
    <2>5. Processed \in DecoderSet
      BY <2>2, <2>3, HeaderChanged
    <2>6. /\ SameBuffers(d, Processed) /\ Processed.part = d.part /\ Processed.header = h
          /\ Processed.parent = "image" /\ Processed.type = "image"
      BY <1>2, <1>7, <2>3 DEF SameBuffers, DecoderSet
    <2>7. Sends(Ready)
      BY <1>2, <1>7, <2>1 DEF Sends
    <2> QED
      BY <1>1, <1>2, <1>7, <2>1, <2>2, <2>4, <2>5, <2>6, <2>7 DEF Parsed, Times
  <1>8. CASE next = 5
    <2>1. NeedsBuffer(d) /\ Ready = Allocate(d) /\ d.id = NoBuffer
      BY <1>2, <1>8 DEF NeedsBuffer, Ready
    <2>2. /\ Ready \in DecoderSet /\ Got(d, Ready)
          /\ Ready.part = 5 /\ Ready.type = "image" /\ Ready.parent = "image"
          /\ Ready.header = d.header
      BY <1>2, <1>8, <2>1, Allocated DEF Got
    <2> DEFINE h == [Ready.header EXCEPT !.size = Part]
    <2>9. Processed = ImagePart(Ready, Part)
      BY <2>2 DEF Processed, Process
    <2>3. Processed = [Ready EXCEPT !.type = "image_appendix", !.header = h]
      BY <2>2, <2>9 DEF ImagePart
    <2>4. /\ h \in HeaderSet /\ h.size = Part
          /\ h.frame = d.header.frame /\ h.series = d.header.series
          /\ h.acqID = d.header.acqID
      BY <1>3, <2>2 DEF HeaderSet
    <2> HIDE DEF h
    <2>5. Processed \in DecoderSet
      <3>1. "image_appendix" \in MessageTypes
        BY DEF MessageTypes
      <3> QED
        BY <2>2, <2>3, <2>4, <3>1, TypeChanged
    <2>6. /\ SameBuffers(Ready, Processed) /\ Processed.part = 5 /\ Processed.header = h
          /\ Processed.parent = "image" /\ Processed.type = "image_appendix"
      BY <2>2, <2>3 DEF SameBuffers, DecoderSet
    <2>7. Sends(Ready)
      BY <2>2 DEF Sends
    <2>8. next \in Due(msg)
      BY <1>1, <1>8
    <2> QED
      BY <1>2, <1>8, <2>1, <2>2, <2>4, <2>5, <2>6, <2>7, <2>8 DEF Parsed, Payload
  <1> QED
    BY <1>1, <1>4, <1>5, <1>6, <1>7, <1>8

\* The first part of a header.
LEMMA HeaderFirst ==
    ASSUME DecInv, next = 1, msg.kind = "header"
    PROVE  /\ Parsed
           /\ IF msg.detail = "none" THEN Announced ELSE Plain
           /\ Processed.type = IF msg.detail = "none" THEN "none" ELSE "config"
  <1> USE Typed
  <1>1. /\ d.part = 1 /\ d.header.acqID = 0 /\ d.id = NoBuffer /\ msg.detail \in {"none", "basic", "all"}
        /\ 1 \in Due(msg) <=> msg.detail = "none"
    BY DEF DecInv, PartInv, WellFormed, Due
  <1>2. ~NeedsBuffer(d) /\ Ready = d /\ (Sends(Ready) <=> msg.detail = "none")
    BY <1>1 DEF NeedsBuffer, Ready, Sends
  <1> DEFINE h == [d.header EXCEPT !.series = count]
             type == IF msg.detail = "none" THEN "none" ELSE "config"
             y == [d EXCEPT !.parent = "global", !.allocated = 0, !.header = h]
             z == IF msg.detail = "none" THEN [y EXCEPT !.type = "none"]
                  ELSE [y EXCEPT !.type = "config", !.expect = Whole(msg)]
  <1>3. h \in HeaderSet /\ h.series = count
    BY DEF HeaderSet
  <1>11. h.acqID = 0
    BY <1>1 DEF HeaderSet
  <1>4. Processed = IF msg.detail = "none" THEN Allocate(z) ELSE z
    <2>1. Processed = GlobalHeader(d)
      BY <1>1, <1>2 DEF Processed, Process, FirstPart
    <2> QED
      BY <1>1, <2>1 DEF GlobalHeader, Whole
  <1> HIDE DEF h
  <1>5. z = IF msg.detail = "none"
            THEN [d EXCEPT !.parent = "global", !.allocated = 0, !.header = h, !.type = "none"]
            ELSE [d EXCEPT !.parent = "global", !.allocated = 0, !.header = h,
                           !.type = "config", !.expect = Whole(msg)]
    OBVIOUS
  <1> HIDE DEF y, z
  <1>6. /\ "none" \in MessageTypes /\ "config" \in MessageTypes /\ Whole(msg) \in {1, 2, 8}
        /\ 0 \in Nat /\ "global" \in {"global", "image", "end"}
    BY DEF MessageTypes, Whole
  <1>7. z \in DecoderSet
    BY <1>3, <1>5, <1>6, GlobalChanged
  <1>8. /\ SameBuffers(d, z) /\ z.part = d.part /\ z.type = type /\ z.parent = "global"
        /\ z.header = h /\ (msg.detail # "none" => z.expect = Whole(msg))
    BY <1>5, <1>6 DEF SameBuffers, DecoderSet
  <1>9. CASE msg.detail = "none"
    <2>1. z.id = NoBuffer /\ z.empty = d.empty /\ z.dropped = d.dropped
      BY <1>1, <1>8 DEF SameBuffers
    <2>2. /\ Processed \in DecoderSet /\ Got(z, Processed)
          /\ Processed.part = z.part /\ Processed.type = z.type
          /\ Processed.parent = z.parent /\ Processed.header = z.header
      BY <1>4, <1>7, <1>9, <2>1, Allocated DEF Got
    <2>3. Got(d, Processed)
      BY <2>1, <2>2 DEF Got
    <2> QED
      BY <1>1, <1>2, <1>3, <1>8, <1>9, <1>11, <2>2, <2>3 DEF Parsed, Announced
  <1>10. CASE msg.detail # "none"
    BY <1>1, <1>2, <1>3, <1>4, <1>7, <1>8, <1>10, <1>11 DEF Parsed, Plain
  <1> QED
    BY <1>9, <1>10

\* Where the decoder is when a further part of a header comes.
LEMMA HeaderNumber ==
    ASSUME DecInv, next > 1, msg.kind = "header"
    PROVE  /\ d.parent = "global" /\ d.type \notin {"image", "image_appendix", "end"}
           /\ d.type = "none" => msg.detail = "none"
           /\ d.expect = Whole(msg) /\ d.header.series = count /\ d.id = NoBuffer
           /\ d.header.acqID = count
           /\ d.part \in 2 .. 9
           /\ d.part # 9 => d.part = next /\ msg.detail # "none"
           /\ next \in {3, 5, 7} /\ next < msg.parts => d.part = next
           /\ d.part \in {2, 4, 6, 8, 9} <=> next \in Due(msg)
           /\ d.part \in {4, 6, 8} => d.header.shape = count
           /\ d.part = 2 => d.type = "config"
  <1> USE Typed
  <1>1. /\ d.parent = "global" /\ d.type \notin {"image", "image_appendix", "end"}
        /\ d.type = "none" => msg.detail = "none"
        /\ d.expect = Whole(msg) /\ d.header.series = count /\ d.id = NoBuffer
        /\ d.header.acqID = count
        /\ d.part = IF next > Whole(msg) THEN 9 ELSE next
    BY DEF DecInv, PartInv
  <1>2. /\ next \in {4, 6, 8} => d.header.shape = count
        /\ next = 2 => d.type \in {"none", "config"}
    BY DEF DecInv, FieldInv
  <1>3. CASE msg.detail = "none"
    <2>1. Whole(msg) = 1 /\ msg.parts \in {1, 2} /\ next = 2 /\ d.part = 9
      BY <1>1, <1>3 DEF Whole, WellFormed
    <2>2. 2 \in Due(msg)
      BY <1>3, <2>1 DEF Due
    <2> QED
      BY <1>1, <1>3, <2>1, <2>2
  <1>4. CASE msg.detail = "basic"
    <2>1. /\ Whole(msg) = 2 /\ msg.parts \in {2, 3} /\ next \in {2, 3}
          /\ d.part = IF next = 2 THEN 2 ELSE 9
      BY <1>1, <1>4 DEF Whole, WellFormed
    <2>2. next \in Due(msg)
      BY <1>4, <2>1 DEF Due
    <2> QED
      BY <1>1, <1>2, <1>4, <2>1, <2>2
  <1>5. CASE msg.detail = "all"
    <2>1. /\ Whole(msg) = 8 /\ msg.parts \in {8, 9} /\ next \in 2 .. 9
          /\ d.part = next
      BY <1>1, <1>5 DEF Whole, WellFormed
    <2>2. next \in Due(msg) <=> next \in {2, 4, 6, 8, 9}
      BY <1>5, <2>1 DEF Due
    <2> QED
      BY <1>1, <1>2, <1>5, <2>1, <2>2
  <1> QED
    BY <1>3, <1>4, <1>5 DEF WellFormed

LEMMA HeaderLater ==
    ASSUME DecInv, next > 1, msg.kind = "header"
    PROVE  /\ Parsed /\ (Plain \/ Payload)
           /\ next \in {3, 5, 7} /\ next < msg.parts =>
                  Plain /\ Processed.header.shape = count
  <1> USE Typed, HeaderNumber
  <1>1. Part \in PartRef
    BY DEF Part, PartRef
  <1>2. CASE d.part \in {3, 5, 7}
    <2>1. ~NeedsBuffer(d) /\ Ready = d
      BY <1>2 DEF NeedsBuffer, Ready
    <2> DEFINE h == [d.header EXCEPT !.shape = count]
               type == CASE d.part = 3 -> "flatfield" [] d.part = 5 -> "mask"
                         [] OTHER -> "countrate"
    <2>2. h \in HeaderSet /\ h.shape = count /\ h.series = count /\ h.acqID = count
      BY DEF HeaderSet
    <2>3. Processed = GlobalPart(d, Part)
      BY <1>2, <2>1 DEF Processed, Process
    <2>4. Processed = [d EXCEPT !.type = type, !.header = h]
      <3>1. CASE d.part = 3
        BY <2>3, <3>1 DEF GlobalPart
      <3>2. CASE d.part = 5
        BY <2>3, <3>2 DEF GlobalPart
      <3>3. CASE d.part = 7
        BY <2>3, <3>3 DEF GlobalPart
      <3> QED
        BY <1>2, <3>1, <3>2, <3>3
    <2>5. type \in {"flatfield", "mask", "countrate"} /\ type \in MessageTypes
      BY DEF MessageTypes
    <2> HIDE DEF h, type
    <2>6. Processed \in DecoderSet
      BY <2>2, <2>4, <2>5, TypeChanged
    <2>7. /\ SameBuffers(d, Processed) /\ Processed.part = d.part /\ Processed.header = h
          /\ Processed.type = type /\ Processed.parent = d.parent
          /\ Processed.expect = d.expect
      BY <2>4 DEF SameBuffers, DecoderSet
    <2>8. ~Sends(Ready)
      BY <1>2, <2>1 DEF Sends
    <2> QED
      BY <1>2, <2>1, <2>2, <2>5, <2>6, <2>7, <2>8 DEF Parsed, Plain
  <1>3. CASE d.part \in {2, 4, 6, 8, 9}
    <2>1. NeedsBuffer(d) /\ Ready = Allocate(d)
      BY <1>3 DEF NeedsBuffer, Ready
    <2>2. /\ Ready \in DecoderSet /\ Got(d, Ready)
          /\ Ready.part = d.part /\ Ready.type = d.type /\ Ready.parent = d.parent
          /\ Ready.header = d.header /\ Ready.expect = d.expect
      BY <2>1, Allocated DEF Got
    <2> DEFINE h == [Ready.header EXCEPT !.size = Part]
               type == IF d.part = 9 THEN "appendix" ELSE d.type
    <2>3. /\ h \in HeaderSet /\ h.size = Part /\ h.series = count /\ h.acqID = count
          /\ h.shape = d.header.shape
      BY <1>1, <2>2 DEF HeaderSet
    <2>4. Processed = GlobalPart(Ready, Part)
      BY <1>3, <2>2 DEF Processed, Process
    <2>5. Processed = IF d.part = 9 THEN [Ready EXCEPT !.type = "appendix", !.header = h]
                      ELSE [Ready EXCEPT !.header = h]
      BY <1>3, <2>2, <2>4 DEF GlobalPart
    <2> HIDE DEF h
    <2>6. "appendix" \in MessageTypes
      BY DEF MessageTypes
    <2>7. Processed \in DecoderSet
      BY <2>2, <2>3, <2>5, <2>6, HeaderChanged, TypeChanged
    <2>8. /\ SameBuffers(Ready, Processed) /\ Processed.part = d.part
          /\ Processed.header = h /\ Processed.type = type
          /\ Processed.parent = d.parent /\ Processed.expect = d.expect
      BY <2>2, <2>5 DEF SameBuffers, DecoderSet
    <2>9. Sends(Ready)
      BY <1>3, <2>2 DEF Sends
    <2>10. Parsed
      BY <2>3, <2>7, <2>8 DEF Parsed
    <2>11. Payload
      <3>1. type \notin {"none", "end", "image"}
        BY <1>3
      <3>2. d.type \in {"flatfield", "mask", "countrate"} /\ d.part # 9 => d.header.shape = count
        BY <1>3
      <3>3. next \in Due(msg)
        BY <1>3
      <3> QED
        BY <2>1, <2>2, <2>3, <2>8, <2>9, <3>1, <3>2, <3>3 DEF Payload
    <2> QED
      BY <1>3, <2>10, <2>11
  <1> QED
    BY <1>2, <1>3

LEMMA EndPart ==
    ASSUME DecInv, next > 0, msg.kind = "end"
    PROVE  next = 1 /\ Parsed /\ Announced
  <1> USE Typed
  <1>1. next = 1 /\ d.part = 1 /\ d.id = NoBuffer /\ 1 \in Due(msg)
    BY DEF DecInv, PartInv, WellFormed, Due
  <1>2. ~NeedsBuffer(d) /\ Ready = d /\ Sends(Ready)
    BY <1>1 DEF NeedsBuffer, Ready, Sends
  <1> DEFINE h == [d.header EXCEPT !.series = count, !.acqID = count]
             z == [d EXCEPT !.parent = "end", !.type = "end", !.header = h]
  <1>3. h \in HeaderSet /\ h.series = count /\ h.acqID = count
    BY DEF HeaderSet
  <1>4. Processed = Allocate(z)
    <2>1. Processed = FirstPart(d)
      BY <1>1, <1>2 DEF Processed, Process
    <2> QED
      BY <2>1 DEF FirstPart
  <1> HIDE DEF h
  <1>5. "end" \in MessageTypes /\ "end" \in {"global", "image", "end"}
    BY DEF MessageTypes
  <1>6. z \in DecoderSet
    BY <1>3, <1>5, GlobalChanged
  <1>7. SameBuffers(d, z) /\ z.part = d.part /\ z.type = "end" /\ z.header = h
    BY <1>5 DEF SameBuffers, DecoderSet
  <1> HIDE DEF z
  <1>8. z.id = NoBuffer /\ z.empty = d.empty /\ z.dropped = d.dropped
    BY <1>1, <1>7 DEF SameBuffers
  <1>9. /\ Processed \in DecoderSet /\ Got(z, Processed)
        /\ Processed.part = z.part /\ Processed.type = z.type
        /\ Processed.header = z.header
    BY <1>4, <1>6, <1>8, Allocated DEF Got
  <1>10. Got(d, Processed)
    BY <1>8, <1>9 DEF Got
  <1> QED
    BY <1>1, <1>2, <1>3, <1>7, <1>9, <1>10 DEF Parsed, Announced

LEMMA AfterTyped ==
    ASSUME NEW x \in DecoderSet, count \in Nat
    PROVE  LET y == AfterFirstPart(x) IN
           /\ y \in DecoderSet /\ SameBuffers(x, y)
           /\ y.part = x.part /\ y.type = x.type /\ y.parent = x.parent
           /\ y.expect = IF msg.kind = "header" /\ msg.detail = "none" THEN 1 ELSE x.expect
           /\ \A f \in {"series", "frame", "hash", "shape", "encoding", "size"} :
                  y.header[f] = x.header[f]
           /\ y.header.acqID = IF msg.kind = "header" THEN count ELSE x.header.acqID
  <1> DEFINE y == AfterFirstPart(x)
             h == [x.header EXCEPT !.acqID = count]
             e == IF msg.detail = "none" THEN 1 ELSE x.expect
  <1>1. x.header \in HeaderSet /\ x.expect \in {1, 2, 8}
    BY DEF DecoderSet
  <1>2. h \in HeaderSet /\ h.acqID = count /\ e \in {1, 2, 8}
    BY <1>1 DEF HeaderSet
  <1>3. \A f \in {"series", "frame", "hash", "shape", "encoding", "size"} :
            h[f] = x.header[f]
    BY <1>1 DEF HeaderSet
  <1>4. CASE msg.kind = "header"
    <2>1. y = [x EXCEPT !.header = h, !.expect = e]
      BY <1>4 DEF AfterFirstPart
    <2> HIDE DEF h, e
    <2>2. y \in DecoderSet
      BY <1>2, <2>1 DEF DecoderSet
    <2>3. /\ SameBuffers(x, y) /\ y.part = x.part /\ y.type = x.type
          /\ y.parent = x.parent /\ y.expect = e /\ y.header = h
      BY <2>1 DEF DecoderSet, SameBuffers
    <2> QED
      BY <1>2, <1>3, <1>4, <2>2, <2>3 DEF e
  <1>5. CASE msg.kind # "header"
    <2>1. y = x
      BY <1>5 DEF AfterFirstPart
    <2> QED
      BY <1>5, <2>1 DEF SameBuffers
  <1> QED
    BY <1>4, <1>5

LEMMA PartKinds ==
    ASSUME DecInv, next > 0
    PROVE  Parsed /\ (Plain \/ Announced \/ Payload \/ Data \/ Times)
  <1> USE Typed
  <1>1. CASE msg.kind = "image"
    BY <1>1, ImageParts
  <1>2. CASE msg.kind = "header"
    <2>1. CASE next = 1
      BY <1>2, <2>1, HeaderFirst
    <2>2. CASE next > 1
      BY <1>2, <2>2, HeaderLater
    <2> QED
      BY <2>1, <2>2
  <1>3. CASE msg.kind = "end"
    BY <1>3, EndPart
  <1> QED
    BY <1>1, <1>2, <1>3 DEF WellFormed

\* The decoder when the part has been processed and counted.
LEMMA FinishedTyped ==
    ASSUME DecInv, next > 0
    PROVE  LET y == Finished IN
           /\ y \in DecoderSet
           /\ y.empty = Processed.empty /\ y.at = Processed.at
           /\ y.id = IF Hand THEN NoBuffer ELSE Processed.id
           /\ y.dropping = Processed.dropping /\ y.dropped = Processed.dropped
           /\ y.part = d.part /\ y.type = Processed.type /\ y.parent = Processed.parent
           /\ y.header.series = count /\ y.header.frame = Processed.header.frame
           /\ y.header.acqID = count
           /\ msg.kind = "header" => y.expect = Whole(msg)
           /\ ~Hand => /\ y.header.hash = Processed.header.hash
                       /\ y.header.shape = Processed.header.shape
                       /\ y.header.encoding = Processed.header.encoding
                       /\ y.header.size = Processed.header.size
  <1> USE Typed
  <1>1. Parsed
    BY PartKinds
  <1>2. /\ Passed \in DecoderSet
        /\ Passed.empty = Processed.empty /\ Passed.at = Processed.at
        /\ Passed.id = IF Hand THEN NoBuffer ELSE Processed.id
        /\ Passed.dropping = Processed.dropping /\ Passed.dropped = Processed.dropped
        /\ Passed.part = Processed.part /\ Passed.type = Processed.type
        /\ Passed.parent = Processed.parent /\ Passed.expect = Processed.expect
        /\ Passed.header.series = Processed.header.series
        /\ Passed.header.frame = Processed.header.frame
        /\ Passed.header.acqID = Processed.header.acqID
        /\ ~Hand => Passed.header = Processed.header
    <2>1. CASE Hand
      BY <1>1, <2>1, SentTyped DEF Passed, Parsed
    <2>2. CASE ~Hand
      BY <1>1, <2>2 DEF Passed, Parsed
    <2> QED
      BY <2>1, <2>2
  <1>3. Ready.part = d.part
    <2>1. CASE d.id = NoBuffer
      BY <2>1, Allocated DEF Ready
    <2>2. CASE d.id # NoBuffer
      BY <2>2 DEF Ready, Allocate
    <2> QED
      BY <2>1, <2>2
  <1>4. /\ Processed.part = d.part /\ Processed.header.series = count
        /\ Processed.header.acqID = IF next = 1 /\ msg.kind = "header" THEN 0 ELSE count
    BY <1>1 DEF Parsed
  <1>5. d.part = 1 <=> next = 1
    BY DEF DecInv, PartInv, Whole, WellFormed
  <1>6. CASE next = 1
    <2>1. Finished = AfterFirstPart(Passed)
      BY <1>3, <1>5, <1>6 DEF Finished
    <2>2. /\ Finished \in DecoderSet /\ SameBuffers(Passed, Finished)
          /\ Finished.part = Passed.part /\ Finished.type = Passed.type
          /\ Finished.parent = Passed.parent
          /\ Finished.expect =
                IF msg.kind = "header" /\ msg.detail = "none" THEN 1 ELSE Passed.expect
          /\ \A f \in {"series", "frame", "hash", "shape", "encoding", "size"} :
                 Finished.header[f] = Passed.header[f]
          /\ Finished.header.acqID =
                IF msg.kind = "header" THEN count ELSE Passed.header.acqID
      BY <1>2, <2>1, AfterTyped
    <2>3. msg.kind = "header" => Finished.expect = Whole(msg)
      BY <1>1, <1>2, <2>2 DEF Parsed, Whole
    <2>4. /\ Finished.header.series = Passed.header.series
          /\ Finished.header.frame = Passed.header.frame
          /\ Finished.header.hash = Passed.header.hash
          /\ Finished.header.shape = Passed.header.shape
          /\ Finished.header.encoding = Passed.header.encoding
          /\ Finished.header.size = Passed.header.size
      BY <2>2
    <2> QED
      BY <1>2, <1>4, <1>6, <2>2, <2>3, <2>4 DEF SameBuffers
  <1>7. CASE next # 1
    <2>1. Finished = Passed
      BY <1>3, <1>5, <1>7 DEF Finished
    <2>2. msg.kind = "header" => Passed.expect = Whole(msg)
      BY <1>1, <1>2, <1>7 DEF Parsed
    <2> QED
      BY <1>2, <1>4, <1>7, <2>1, <2>2
  <1> QED
    BY <1>6, <1>7

\* The number of the next part.
LEMMA Numbered ==
    ASSUME DecInv, next > 0
    PROVE  /\ NextPart(Finished) \in 1 .. 9
           /\ next < msg.parts => msg.kind \in {"header", "image"}
           /\ next < msg.parts /\ msg.kind = "image" => NextPart(Finished) = next + 1
           /\ next < msg.parts /\ msg.kind = "header" =>
                  NextPart(Finished) = IF next + 1 > Whole(msg) THEN 9 ELSE next + 1
  <1> USE Typed
  <1>1. /\ Finished.part = d.part /\ Finished.parent = Processed.parent
        /\ msg.kind = "header" => Finished.expect = Whole(msg)
    BY FinishedTyped
  <1>2. /\ d.part \in 1 .. 9
        /\ Finished.expect \in {1, 2, 8}
    BY FinishedTyped DEF DecoderSet
  <1>3. Parsed
    BY PartKinds
  <1>4. CASE msg.kind = "image"
    <2>1. Finished.parent = "image" /\ d.part = next /\ msg.parts \in {4, 5}
      BY <1>1, <1>3, <1>4 DEF Parsed, DecInv, PartInv, WellFormed
    <2> QED
      BY <1>1, <1>4, <2>1 DEF NextPart
  <1>5. CASE msg.kind = "header"
    <2>1. /\ Finished.parent = "global" /\ Finished.expect = Whole(msg)
          /\ d.part = IF next > Whole(msg) THEN 9 ELSE next
          /\ Whole(msg) \in {1, 2, 8}
      BY <1>1, <1>3, <1>5 DEF Parsed, DecInv, PartInv, Whole, WellFormed
    <2>2. msg.parts <= Whole(msg) + 1
      BY <1>5 DEF Whole, WellFormed
    <2> QED
      BY <1>1, <1>2, <1>5, <2>1, <2>2 DEF NextPart
  <1>6. CASE msg.kind = "end"
    <2>1. d.part = 1 /\ msg.parts = 1 /\ next = 1
      BY <1>6 DEF DecInv, PartInv, WellFormed
    <2> QED
      BY <1>1, <1>2, <1>6, <2>1 DEF NextPart
  <1> QED
    BY <1>4, <1>5, <1>6 DEF WellFormed

\* The decoder after the part.
LEMMA Moved ==
    ASSUME DecInv, ReceivePart
    PROVE  /\ d' \in DecoderSet
           /\ d'.empty = Processed.empty /\ d'.at = Processed.at
           /\ d'.id = IF Hand THEN NoBuffer ELSE Processed.id
           /\ d'.dropping = Processed.dropping /\ d'.dropped = Processed.dropped
           /\ next = msg.parts => d'.part = 1 /\ d'.header.acqID = 0
           /\ next < msg.parts =>
                  /\ d'.part = NextPart(Finished)
                  /\ d'.type = Processed.type /\ d'.parent = Processed.parent
                  /\ d'.expect = Finished.expect /\ d'.header = Finished.header
  <1> USE Typed, ReceiveSteps
  <1>1. NextPart(Finished) \in 1 .. 9
    BY Numbered
  <1>2. /\ Finished \in DecoderSet
        /\ Finished.empty = Processed.empty /\ Finished.at = Processed.at
        /\ Finished.id = IF Hand THEN NoBuffer ELSE Processed.id
        /\ Finished.dropping = Processed.dropping /\ Finished.dropped = Processed.dropped
        /\ Finished.type = Processed.type /\ Finished.parent = Processed.parent
    BY FinishedTyped
  <1> DEFINE x == Finished
             n == NextPart(Finished)
  <1>3. Advanced = [x EXCEPT !.part = n]
    BY DEF Advanced
  <1> HIDE DEF x, n
  <1>4. x \in DecoderSet /\ n \in 1 .. 9
    BY <1>1, <1>2 DEF x, n
  <1>5. /\ Advanced \in DecoderSet /\ Advanced.part = n
        /\ Advanced.empty = x.empty /\ Advanced.id = x.id /\ Advanced.at = x.at
        /\ Advanced.dropping = x.dropping /\ Advanced.dropped = x.dropped
        /\ Advanced.type = x.type /\ Advanced.parent = x.parent
        /\ Advanced.expect = x.expect /\ Advanced.header = x.header
    BY <1>3, <1>4 DEF DecoderSet
  <1>6. CASE next = msg.parts
    <2>1. d' = EndOfMessage(Advanced)
      BY <1>6
    <2>2. /\ d' \in DecoderSet /\ d'.part = 1 /\ d'.header.acqID = 0
          /\ d'.empty = Advanced.empty /\ d'.id = Advanced.id /\ d'.at = Advanced.at
          /\ d'.dropping = Advanced.dropping /\ d'.dropped = Advanced.dropped
      BY <1>5, <2>1, EndTyped
    <2> QED
      BY <1>2, <1>5, <1>6, <2>2 DEF x
  <1>7. CASE next # msg.parts
    <2>1. d' = Advanced
      BY <1>7
    <2> QED
      BY <1>2, <1>5, <1>7, <2>1 DEF x, n
  <1> QED
    BY <1>6, <1>7

-----------------------------------------------------------------------------
(***************************************************************************)
(* Where a part leaves the buffers                                         *)
(***************************************************************************)
Keeps == d'.empty = d.empty /\ d'.id = d.id /\ lent' = lent

Takes ==
    /\ d.id = NoBuffer /\ d.empty # <<>> /\ d'.empty = Tail(d.empty)
    /\ \/ d'.id = NoBuffer /\ lent' = lent \cup {Head(d.empty)}
       \/ d'.id = Head(d.empty) /\ lent' = lent

Gives ==
    /\ d.id # NoBuffer /\ d'.id = NoBuffer
    /\ d'.empty = d.empty /\ lent' = lent \cup {d.id}

\* The buffer a part is written to, or is described in.
Target == IF d.id # NoBuffer THEN d.id ELSE Head(d.empty)

ContentSet == [type : MessageTypes, header : HeaderSet, payload : PartRef]

LEMMA HeaderWritten ==
    ASSUME NEW c \in [Pool -> ContentSet], NEW b \in Pool,
           NEW type \in MessageTypes, NEW header \in HeaderSet, NEW e,
           e = [c EXCEPT ![b].type = type, ![b].header = header]
    PROVE  /\ e \in [Pool -> ContentSet]
           /\ e[b].type = type /\ e[b].header = header /\ e[b].payload = c[b].payload
           /\ \A x \in Pool \ {b} : e[x] = c[x]
  BY DEF ContentSet

LEMMA Filled ==
    ASSUME NEW c \in [Pool -> ContentSet], NEW b \in Pool, NEW payload \in PartRef, NEW e,
           e = [c EXCEPT ![b].payload = payload]
    PROVE  /\ e \in [Pool -> ContentSet]
           /\ e[b].payload = payload
           /\ \A x \in Pool \ {b} : e[x] = c[x]
  BY DEF ContentSet

\* The buffers and the counts after a part of each kind.
LEMMA PlainStep ==
    ASSUME DecInv, ReceivePart, Plain
    PROVE  /\ Keeps /\ content' = content /\ d.id = NoBuffer
           /\ d'.dropped = d.dropped /\ tally' = tally
           /\ ~(next = 3 /\ msg.kind = "image")
  <1> USE Typed, ReceiveSteps, Moved
  <1>1. ~Hand
    BY DEF Plain, Hand
  <1>2. ~(next \in {3, 4} /\ msg.kind = "image")
    BY ImageParts DEF Plain, Data, Times
  <1>3. tally' = tally
    BY <1>1 DEF Plain, DecInv, TypeOK
  <1> QED
    BY <1>1, <1>2, <1>3 DEF Plain, Keeps, SameBuffers, Received

LEMMA SentStep ==
    ASSUME DecInv, ReceivePart, Announced \/ Payload
    PROVE  /\ d.id = NoBuffer /\ d'.id = NoBuffer
           /\ tally'.due = tally.due + 1
           /\ \/ /\ d.empty = <<>> /\ Keeps /\ content' = content
                 /\ d'.dropped = d.dropped + 1 /\ tally'.handed = tally.handed
              \/ /\ d.empty # <<>> /\ Takes /\ d'.dropped = d.dropped
                 /\ lent' = lent \cup {Head(d.empty)}
                 /\ tally'.handed = tally.handed + 1
                 /\ content'[Head(d.empty)].type = Processed.type
                 /\ content'[Head(d.empty)].header = Processed.header
                 /\ Payload => content'[Head(d.empty)].payload = Part
                 /\ \A b \in Pool \ {Head(d.empty)} : content'[b] = content[b]
           /\ content' \in [Pool -> ContentSet]
           /\ ~(next = 3 /\ msg.kind = "image")
  <1> USE Typed, ReceiveSteps, Moved
  <1>0. Processed \in DecoderSet /\ next \in Due(msg) /\ Sends(Ready)
    BY PartKinds DEF Parsed, Announced, Payload
  <1>1. /\ d.empty \in Seq(Pool) /\ tally \in [due : Nat, handed : Nat]
        /\ content \in [Pool -> ContentSet] /\ Part \in PartRef
        /\ Processed.type \in MessageTypes /\ Processed.header \in HeaderSet
    BY <1>0 DEF DecInv, TypeOK, ContentSet, DecoderSet, Part, PartRef
  <1>2. ~(next \in {3, 4} /\ msg.kind = "image")
    BY ImageParts DEF Announced, Payload, Data, Times
  <1>3. d.id = NoBuffer
    BY <1>2
  <1>4. tally'.due = tally.due + 1 /\ tally'.handed = tally.handed + IF Hand THEN 1 ELSE 0
    BY <1>0
  <1>5. \/ /\ d.empty = <<>> /\ Processed.empty = <<>>
           /\ Processed.id = NoBuffer /\ Processed.dropping
           /\ Processed.dropped = d.dropped + 1
           /\ NeedsBuffer(d) => Ready.at = Scratch
        \/ /\ d.empty # <<>> /\ Processed.empty = Tail(d.empty)
           /\ Processed.id = Head(d.empty) /\ Processed.at = Head(d.empty)
           /\ ~Processed.dropping /\ Processed.dropped = d.dropped
           /\ NeedsBuffer(d) => Ready.at = Head(d.empty)
    <2>1. CASE Announced
      BY <2>1 DEF Announced, Got
    <2>2. CASE Payload
      <3>1. Ready = Allocate(d)
        BY <2>2 DEF Payload, Ready
      <3>2. \/ /\ d.empty = <<>> /\ Ready.empty = <<>>
               /\ Ready.id = NoBuffer /\ Ready.dropping /\ Ready.dropped = d.dropped + 1
               /\ Ready.at = Scratch
            \/ /\ d.empty # <<>> /\ Ready.empty = Tail(d.empty)
               /\ Ready.id = Head(d.empty) /\ Ready.at = Head(d.empty)
               /\ ~Ready.dropping /\ Ready.dropped = d.dropped
        BY <1>3, <3>1, Allocated
      <3> QED
        BY <2>2, <3>2 DEF Payload, SameBuffers
    <2> QED
      BY <2>1, <2>2
  <1>6. CASE d.empty = <<>>
    <2>1. ~Hand
      BY <1>5, <1>6 DEF Hand
    <2>2. Received = content
      BY <1>5, <1>6, ConstantsTyped DEF Received
    <2>3. Keeps /\ d'.dropped = d.dropped + 1 /\ d'.id = NoBuffer
      BY <1>3, <1>5, <1>6, <2>1 DEF Keeps
    <2> QED
      BY <1>1, <1>2, <1>3, <1>4, <1>6, <2>1, <2>2, <2>3
  <1>7. CASE d.empty # <<>>
    <2>1. Hand
      BY <1>0, <1>5, <1>7 DEF Hand
    <2>2. PICK b \in Pool : b = Head(d.empty)
      BY <1>1, <1>7
    <2>3. /\ Processed.at = b /\ Processed.id = b /\ Processed.empty = Tail(d.empty)
          /\ Processed.dropped = d.dropped
          /\ NeedsBuffer(d) => Ready.at = b
      BY <1>5, <1>7, <2>2
    <2>4. /\ Received \in [Pool -> ContentSet]
          /\ NeedsBuffer(d) => Received[b].payload = Part
          /\ \A x \in Pool \ {b} : Received[x] = content[x]
      <3>1. CASE NeedsBuffer(d)
        <4>1. Received = [content EXCEPT ![b].payload = Part]
          BY <2>2, <2>3, <3>1 DEF Received
        <4> HIDE Typed, ReceiveSteps, Moved
        <4> QED
          BY <1>1, <2>2, <4>1, Filled
      <3>2. CASE ~NeedsBuffer(d)
        BY <1>1, <3>2 DEF Received
      <3> QED
        BY <3>1, <3>2
    <2>5. content' = [Received EXCEPT ![b].type = Processed.type, ![b].header = Processed.header]
      BY <2>1, <2>2, <2>3
    <2> HIDE Typed, ReceiveSteps, Moved
    <2>6. /\ content' \in [Pool -> ContentSet]
          /\ content'[b].type = Processed.type /\ content'[b].header = Processed.header
          /\ content'[b].payload = Received[b].payload
          /\ \A x \in Pool \ {b} : content'[x] = Received[x]
      <3>1. Processed.type \in MessageTypes /\ Processed.header \in HeaderSet
        BY <1>1
      <3>2. Received \in [Pool -> ContentSet]
        BY <2>4
      <3> DEFINE old == Received
                 type == Processed.type
                 header == Processed.header
      <3>3. content' = [old EXCEPT ![b].type = type, ![b].header = header]
        BY <2>5
      <3> HIDE DEF old, type, header
      <3> QED
        BY <2>2, <3>1, <3>2, <3>3 DEF ContentSet, old, type, header
    <2> USE Typed, ReceiveSteps, Moved
    <2>7. Takes /\ lent' = lent \cup {b} /\ d'.id = NoBuffer /\ d'.dropped = d.dropped
      BY <1>3, <1>7, <2>1, <2>2, <2>3 DEF Takes
    <2>8. Payload => content'[b].payload = Part
      BY <2>4, <2>6 DEF Payload
    <2>9. \A x \in Pool \ {b} : content'[x] = content[x]
      BY <2>4, <2>6
    <2> QED
      BY <1>2, <1>3, <1>4, <1>7, <2>1, <2>2, <2>6, <2>7, <2>8, <2>9
  <1> QED
    BY <1>6, <1>7

LEMMA DataStep ==
    ASSUME DecInv, ReceivePart, Data
    PROVE  /\ d.id = NoBuffer /\ lent' = lent
           /\ tally'.due = tally.due + 1 /\ tally'.handed = tally.handed
           /\ \/ /\ d.empty = <<>> /\ Keeps /\ content' = content
                 /\ d'.dropped = d.dropped + 1 /\ d'.dropping
              \/ /\ d.empty # <<>> /\ Takes /\ d'.dropped = d.dropped /\ ~d'.dropping
                 /\ d'.id = Head(d.empty) /\ d'.at = Head(d.empty)
                 /\ content'[Head(d.empty)].payload = Part
                 /\ \A b \in Pool \ {Head(d.empty)} : content'[b] = content[b]
           /\ content' \in [Pool -> ContentSet]
           /\ d'.header.size = Part /\ d'.header.hash = count
           /\ d'.header.shape = count /\ d'.header.encoding = count
           /\ next = 3 /\ next' = 4
  <1> USE Typed, ReceiveSteps, Moved
  <1>1. /\ d.empty \in Seq(Pool) /\ tally \in [due : Nat, handed : Nat]
        /\ content \in [Pool -> ContentSet] /\ Part \in PartRef
    BY DEF DecInv, TypeOK, ContentSet, DecoderSet, Part, PartRef
  <1>2. next = 3 /\ next < msg.parts /\ next' = 4 /\ d.id = NoBuffer /\ next \in Due(msg)
    BY DEF Data, WellFormed
  <1>3. ~Hand
    BY DEF Data, Hand
  <1>4. tally'.due = tally.due + 1 /\ tally'.handed = tally.handed
    BY <1>1, <1>2, <1>3
  <1>5. /\ d'.header.size = Part /\ d'.header.hash = count
        /\ d'.header.shape = count /\ d'.header.encoding = count
    BY <1>2, <1>3, FinishedTyped DEF Data
  <1>6. /\ d'.empty = Ready.empty /\ d'.id = Ready.id /\ d'.at = Ready.at
        /\ d'.dropping = Ready.dropping /\ d'.dropped = Ready.dropped
        /\ Ready = Allocate(d) /\ NeedsBuffer(d)
    BY <1>3 DEF Data, SameBuffers, Ready
  <1>7. \/ /\ d.empty = <<>> /\ Ready.empty = <<>>
           /\ Ready.id = NoBuffer /\ Ready.dropping /\ Ready.dropped = d.dropped + 1
           /\ Ready.at = Scratch
        \/ /\ d.empty # <<>> /\ Ready.empty = Tail(d.empty)
           /\ Ready.id = Head(d.empty) /\ Ready.at = Head(d.empty)
           /\ ~Ready.dropping /\ Ready.dropped = d.dropped
    BY <1>2, <1>6, Allocated
  <1>8. lent' = lent /\ content' = Received
    BY <1>3
  <1>9. CASE d.empty = <<>>
    <2>1. Received = content
      BY <1>7, <1>9, ConstantsTyped DEF Received
    <2>2. Keeps
      BY <1>2, <1>6, <1>7, <1>8, <1>9 DEF Keeps
    <2> QED
      BY <1>1, <1>2, <1>4, <1>5, <1>6, <1>7, <1>8, <1>9, <2>1, <2>2
  <1>10. CASE d.empty # <<>>
    <2>1. PICK b \in Pool : b = Head(d.empty)
      BY <1>1, <1>10
    <2>2. Received = [content EXCEPT ![b].payload = Part]
      BY <1>6, <1>7, <1>10, <2>1 DEF Received
    <2>3. Takes
      BY <1>2, <1>6, <1>7, <1>8, <1>10 DEF Takes
    <2> HIDE Typed, ReceiveSteps, Moved
    <2>4. /\ content' \in [Pool -> ContentSet] /\ content'[b].payload = Part
          /\ \A x \in Pool \ {b} : content'[x] = content[x]
      BY <1>1, <1>8, <2>1, <2>2, Filled
    <2> QED
      BY <1>2, <1>4, <1>5, <1>6, <1>7, <1>8, <1>10, <2>1, <2>3, <2>4
  <1> QED
    BY <1>9, <1>10

LEMMA TimesStep ==
    ASSUME DecInv, ReceivePart, Times
    PROVE  /\ d'.id = NoBuffer /\ d'.dropped = d.dropped /\ tally'.due = tally.due
           /\ \/ /\ d.id = NoBuffer /\ Keeps /\ content' = content
                 /\ tally'.handed = tally.handed
              \/ /\ d.id # NoBuffer /\ Gives /\ tally'.handed = tally.handed + 1
                 /\ content'[d.id].type = "image"
                 /\ content'[d.id].header = Processed.header
                 /\ content'[d.id].payload = content[d.id].payload
                 /\ \A b \in Pool \ {d.id} : content'[b] = content[b]
           /\ content' \in [Pool -> ContentSet]
           /\ ~(next = 3 /\ msg.kind = "image")
  <1> USE Typed, ReceiveSteps, Moved
  <1>0. /\ Processed \in DecoderSet /\ SameBuffers(d, Processed) /\ Received = content
        /\ Processed.type = "image" /\ next = 4 /\ msg.kind = "image"
    BY PartKinds DEF Parsed, Times, Received
  <1>1. /\ tally \in [due : Nat, handed : Nat] /\ content \in [Pool -> ContentSet]
        /\ Processed.type \in MessageTypes /\ Processed.header \in HeaderSet
        /\ d.id \in Pool \cup {NoBuffer}
    BY <1>0 DEF DecInv, TypeOK, ContentSet, DecoderSet
  <1>2. /\ d.id # NoBuffer => d.at = d.id /\ ~d.dropping
        /\ d.id = NoBuffer => d.dropping
    BY <1>0 DEF DecInv, HoldInv
  <1>3. Hand <=> d.id # NoBuffer
    BY <1>0, <1>2 DEF Hand, Times, SameBuffers
  <1>4. /\ tally'.due = tally.due
        /\ tally'.handed = tally.handed + IF Hand THEN 1 ELSE 0
    BY <1>1 DEF Times
  <1>5. CASE d.id = NoBuffer
    BY <1>0, <1>1, <1>3, <1>4, <1>5 DEF Keeps, SameBuffers
  <1>6. CASE d.id # NoBuffer
    <2>1. content' = [content EXCEPT ![d.id].type = Processed.type,
                                     ![d.id].header = Processed.header]
      BY <1>0, <1>1, <1>2, <1>3, <1>6 DEF SameBuffers
    <2>2. d.id \in Pool
      BY <1>1, <1>6
    <2> HIDE Typed, ReceiveSteps, Moved
    <2>3. /\ content' \in [Pool -> ContentSet]
          /\ content'[d.id].type = Processed.type /\ content'[d.id].header = Processed.header
          /\ content'[d.id].payload = content[d.id].payload
          /\ \A b \in Pool \ {d.id} : content'[b] = content[b]
      BY <1>1, <2>1, <2>2, HeaderWritten
    <2> USE Typed, ReceiveSteps, Moved
    <2>4. Gives /\ d'.dropped = d.dropped
      BY <1>0, <1>3, <1>6 DEF Gives, SameBuffers
    <2> QED
      BY <1>0, <1>3, <1>4, <1>6, <2>3, <2>4 DEF Gives
  <1> QED
    BY <1>5, <1>6

-----------------------------------------------------------------------------
(***************************************************************************)
(* A part leaves the invariant as it is                                    *)
(***************************************************************************)

\* What a part does to the buffers, whatever its kind.
LEMMA PartBuffers ==
    ASSUME DecInv, ReceivePart
    PROVE  /\ Keeps \/ Takes \/ Gives
           /\ content' \in [Pool -> ContentSet]
           /\ \A b \in lent : content'[b] = content[b]
           /\ tally'.due - tally.due =
                  (tally'.handed - tally.handed) + (d'.dropped - d.dropped)
                  + (IF d'.id = NoBuffer THEN 0 ELSE 1) - (IF d.id = NoBuffer THEN 0 ELSE 1)
  <1> USE Typed
  <1>1. /\ content \in [Pool -> ContentSet] /\ d.empty \in Seq(Pool)
        /\ tally \in [due : Nat, handed : Nat] /\ lent \subseteq Pool
        /\ d.dropped \in Nat /\ NoBuffer \notin Pool
    BY ConstantsTyped DEF DecInv, TypeOK, ContentSet, DecoderSet
  <1>2. /\ d.empty # <<>> => Head(d.empty) \in Pool \ lent
        /\ d.id \notin lent
    BY <1>1 DEF DecInv, PlaceInv
  <1>3. Plain \/ Announced \/ Payload \/ Data \/ Times
    BY PartKinds DEF ReceivePart
  <1>4. CASE Plain
    <2>1. /\ Keeps /\ content' = content /\ d.id = NoBuffer
          /\ d'.dropped = d.dropped /\ tally' = tally
      BY <1>4, PlainStep
    <2> QED
      BY <1>1, <2>1 DEF Keeps
  <1>5. CASE Announced \/ Payload
    <2>1. /\ d.id = NoBuffer /\ d'.id = NoBuffer
          /\ tally'.due = tally.due + 1
          /\ \/ /\ d.empty = <<>> /\ Keeps /\ content' = content
                /\ d'.dropped = d.dropped + 1 /\ tally'.handed = tally.handed
             \/ /\ d.empty # <<>> /\ Takes /\ d'.dropped = d.dropped
                /\ tally'.handed = tally.handed + 1
                /\ \A b \in Pool \ {Head(d.empty)} : content'[b] = content[b]
          /\ content' \in [Pool -> ContentSet]
      BY <1>5, SentStep
    <2>2. \A b \in lent : content'[b] = content[b]
      BY <1>1, <1>2, <2>1
    <2> QED
      BY <1>1, <2>1, <2>2
  <1>6. CASE Data
    <2>1. /\ d.id = NoBuffer
          /\ tally'.due = tally.due + 1 /\ tally'.handed = tally.handed
          /\ \/ /\ d.empty = <<>> /\ Keeps /\ content' = content
                /\ d'.dropped = d.dropped + 1
             \/ /\ d.empty # <<>> /\ Takes /\ d'.dropped = d.dropped
                /\ d'.id = Head(d.empty)
                /\ \A b \in Pool \ {Head(d.empty)} : content'[b] = content[b]
          /\ content' \in [Pool -> ContentSet]
      BY <1>6, DataStep
    <2>2. \A b \in lent : content'[b] = content[b]
      BY <1>1, <1>2, <2>1
    <2> QED
      BY <1>1, <1>2, <2>1, <2>2 DEF Keeps
  <1>7. CASE Times
    <2>1. /\ d'.id = NoBuffer /\ d'.dropped = d.dropped /\ tally'.due = tally.due
          /\ \/ /\ d.id = NoBuffer /\ Keeps /\ content' = content
                /\ tally'.handed = tally.handed
             \/ /\ d.id # NoBuffer /\ Gives /\ tally'.handed = tally.handed + 1
                /\ \A b \in Pool \ {d.id} : content'[b] = content[b]
          /\ content' \in [Pool -> ContentSet]
      BY <1>7, TimesStep
    <2>2. \A b \in lent : content'[b] = content[b]
      BY <1>1, <1>2, <2>1
    <2> QED
      BY <1>1, <2>1, <2>2
  <1> QED
    BY <1>3, <1>4, <1>5, <1>6, <1>7

LEMMA PartTypes ==
    ASSUME DecInv, ReceivePart
    PROVE  TypeOK'
  <1> USE Typed
  <1>1. d' \in DecoderSet
    BY Moved
  <1>2. content' \in [Pool -> ContentSet]
    BY PartBuffers
  <1>3. lent' \subseteq Pool
    <2>1. lent \subseteq Pool /\ d.empty \in Seq(Pool) /\ d.id \in Pool \cup {NoBuffer}
      BY DEF DecInv, TypeOK
    <2>2. Keeps \/ Takes \/ Gives
      BY PartBuffers
    <2> QED
      BY <2>1, <2>2 DEF Keeps, Takes, Gives
  <1>4. /\ msg' \in Messages \cup {EndOfSeries} /\ count' \in 0 .. MaxMessages
        /\ next' \in 0 .. msg'.parts
    <2>1. msg' = msg /\ count' = count /\ next' = IF next = msg.parts THEN 0 ELSE next + 1
      BY ReceiveSteps
    <2>2. msg \in Messages \cup {EndOfSeries} /\ count \in 0 .. MaxMessages
          /\ next \in 0 .. msg.parts
      BY DEF DecInv, TypeOK
    <2>3. msg.parts \in Nat
      BY Typed
    <2> QED
      BY <2>1, <2>2, <2>3
  <1>5. tally' \in [due : Nat, handed : Nat]
    BY ReceiveSteps DEF DecInv, TypeOK
  <1> QED
    BY <1>1, <1>2, <1>3, <1>4, <1>5 DEF TypeOK, DecoderSet, ContentSet

LEMMA PartPlaces ==
    ASSUME DecInv, ReceivePart
    PROVE  PartInv'
  <1> USE Typed
  <1>1. /\ msg' = msg /\ count' = count /\ next > 0
        /\ next' = IF next = msg.parts THEN 0 ELSE next + 1
    BY ReceiveSteps
  <1>2. next' \in {0, 1} => d'.part = 1 /\ d'.header.acqID = 0
    BY <1>1, Moved
  <1>3. ASSUME next' > 1
        PROVE  /\ d'.header.series = count /\ d'.header.acqID = count
               /\ msg.kind = "image" =>
                      /\ d'.parent = "image" /\ d'.type = "image" /\ d'.part = next + 1
                      /\ d'.header.frame = msg.frame
               /\ msg.kind = "header" =>
                      /\ d'.parent = "global"
                      /\ d'.type \notin {"image", "image_appendix", "end"}
                      /\ d'.type = "none" => msg.detail = "none"
                      /\ d'.expect = Whole(msg)
                      /\ d'.part = IF next + 1 > Whole(msg) THEN 9 ELSE next + 1
               /\ msg.kind # "end"
    <2>1. next < msg.parts /\ next' = next + 1
      BY <1>1, <1>3
    <2>2. /\ d'.part = NextPart(Finished)
          /\ d'.type = Processed.type /\ d'.parent = Processed.parent
          /\ d'.expect = Finished.expect /\ d'.header = Finished.header
      BY <2>1, Moved
    <2>3. /\ Finished.header.series = count /\ Finished.header.frame = Processed.header.frame
          /\ Finished.header.acqID = count
          /\ msg.kind = "header" => Finished.expect = Whole(msg)
      BY <1>1, FinishedTyped
    <2>4. /\ msg.kind \in {"header", "image"}
          /\ msg.kind = "image" => NextPart(Finished) = next + 1
          /\ msg.kind = "header" =>
                 NextPart(Finished) = IF next + 1 > Whole(msg) THEN 9 ELSE next + 1
      BY <1>1, <2>1, Numbered
    <2>5. Parsed
      BY <1>1, PartKinds
    <2>6. msg.kind = "image" => next # 5
      BY <2>1 DEF WellFormed
    <2> QED
      BY <2>2, <2>3, <2>4, <2>5, <2>6 DEF Parsed
  <1>4. WellFormed(msg')
    BY <1>1
  <1>5. next' > 1 => next' = next + 1
    BY <1>1
  <1> QED
    BY <1>1, <1>2, <1>3, <1>4, <1>5 DEF PartInv, Whole

LEMMA PartHolds ==
    ASSUME DecInv, ReceivePart
    PROVE  HoldInv'
  <1> USE Typed
  <1>1. /\ msg' = msg /\ next > 0
        /\ next' = IF next = msg.parts THEN 0 ELSE next + 1
    BY ReceiveSteps
  <1>2. /\ NoBuffer \notin Pool /\ d.empty \in Seq(Pool)
        /\ d.empty # <<>> => Head(d.empty) \in Pool
    BY ConstantsTyped DEF DecInv, TypeOK
  <1>3. CASE Data
    <2>1. /\ next' = 4 /\ d.id = NoBuffer
          /\ \/ Keeps /\ d'.dropping
             \/ /\ d.empty # <<>> /\ d'.id = Head(d.empty) /\ d'.at = Head(d.empty)
                /\ ~d'.dropping
      BY <1>3, DataStep
    <2>2. msg.kind = "image"
      BY <1>3 DEF Data
    <2> QED
      BY <1>1, <1>2, <2>1, <2>2 DEF HoldInv, Keeps
  <1>4. CASE Plain \/ Announced \/ Payload \/ Times
    <2>1. d'.id = NoBuffer /\ ~(next = 3 /\ msg.kind = "image")
      <3>1. CASE Plain
        BY <3>1, PlainStep DEF Keeps
      <3>2. CASE Announced \/ Payload
        BY <3>2, SentStep
      <3>3. CASE Times
        BY <3>3, TimesStep
      <3> QED
        BY <1>4, <3>1, <3>2, <3>3
    <2>2. ~(next' = 4 /\ msg'.kind = "image")
      BY <1>1, <2>1
    <2> QED
      BY <2>1, <2>2 DEF HoldInv
  <1> QED
    BY <1>1, <1>3, <1>4, PartKinds

\* No buffer gets lost on its way.
LEMMA PlacesKept ==
    ASSUME DecInv, d' \in DecoderSet, Keeps \/ Takes \/ Gives
    PROVE  PlaceInv'
  <1>1. /\ d.empty \in Seq(Pool) /\ lent \subseteq Pool /\ NoBuffer \notin Pool
        /\ d.id \in Pool \cup {NoBuffer}
        /\ \A i, j \in 1 .. Len(d.empty) : d.empty[i] = d.empty[j] => i = j
        /\ \A i \in 1 .. Len(d.empty) : d.empty[i] \notin lent /\ d.empty[i] # d.id
        /\ d.id \notin lent
        /\ \A b \in Pool :
               b = d.id \/ b \in lent \/ \E i \in 1 .. Len(d.empty) : d.empty[i] = b
    BY ConstantsTyped DEF DecInv, TypeOK, PlaceInv
  <1>2. CASE Keeps
    BY <1>1, <1>2 DEF Keeps, PlaceInv
  <1>3. CASE Gives
    <2>1. /\ d'.empty = d.empty /\ d'.id = NoBuffer /\ lent' = lent \cup {d.id}
          /\ d.id # NoBuffer
      BY <1>3 DEF Gives
    <2>2. \A i \in 1 .. Len(d.empty) : d.empty[i] \in Pool
      BY <1>1
    <2> QED
      BY <1>1, <2>1, <2>2 DEF PlaceInv
  <1>4. CASE Takes
    <2> DEFINE n == Len(d.empty)
               b == Head(d.empty)
    <2>1. /\ n \in Nat /\ n > 0 /\ b = d.empty[1] /\ b \in Pool
          /\ d'.empty = Tail(d.empty) /\ Len(d'.empty) = n - 1
          /\ \A i \in 1 .. n - 1 : d'.empty[i] = d.empty[i + 1]
          /\ d.id = NoBuffer
          /\ \/ d'.id = NoBuffer /\ lent' = lent \cup {b}
             \/ d'.id = b /\ lent' = lent
      BY <1>1, <1>4 DEF Takes
    <2>2. \A i \in 1 .. n - 1 : /\ i + 1 \in 1 .. n /\ i + 1 # 1
                                /\ d.empty[i + 1] \in Pool
                                /\ d.empty[i + 1] \notin lent
                                /\ d.empty[i + 1] # b
      BY <1>1, <2>1
    <2>3. \A i, j \in 1 .. n - 1 : d'.empty[i] = d'.empty[j] => i = j
      BY <1>1, <2>1, <2>2
    <2>4. \A i \in 1 .. n - 1 : d'.empty[i] \notin lent' /\ d'.empty[i] # d'.id
      BY <1>1, <2>1, <2>2
    <2>5. d'.id \notin lent'
      BY <1>1, <2>1
    <2>6. ASSUME NEW x \in Pool
          PROVE  x = d'.id \/ x \in lent' \/ \E i \in 1 .. n - 1 : d'.empty[i] = x
      <3>1. CASE x \in lent \/ x = b
        BY <2>1, <3>1
      <3>2. CASE x \notin lent /\ x # b
        <4>1. PICK i \in 1 .. n : d.empty[i] = x
          BY <1>1, <2>1, <3>2
        <4>2. i # 1
          BY <2>1, <3>2, <4>1
        <4>3. i - 1 \in 1 .. n - 1 /\ d'.empty[i - 1] = x
          BY <2>1, <4>1, <4>2
        <4> QED
          BY <4>3
      <3> QED
        BY <3>1, <3>2
    <2> QED
      BY <2>1, <2>3, <2>4, <2>5, <2>6 DEF PlaceInv
  <1> QED
    BY <1>2, <1>3, <1>4

LEMMA PartFields ==
    ASSUME DecInv, ReceivePart
    PROVE  FieldInv'
  <1> USE Typed
  <1>1. /\ msg' = msg /\ count' = count /\ next > 0
        /\ next' = IF next = msg.parts THEN 0 ELSE next + 1
    BY ReceiveSteps
  <1>2. d'.id # NoBuffer => Data
    <2>1. Plain => d'.id = NoBuffer
      BY PlainStep DEF Keeps
    <2>2. Announced \/ Payload => d'.id = NoBuffer
      BY SentStep
    <2>3. Times => d'.id = NoBuffer
      BY TimesStep
    <2> QED
      BY <1>1, <2>1, <2>2, <2>3, PartKinds
  <1>3. ~Hand /\ next < msg.parts =>
            /\ d'.type = Processed.type
            /\ d'.header.hash = Processed.header.hash
            /\ d'.header.shape = Processed.header.shape
            /\ d'.header.encoding = Processed.header.encoding
    BY <1>1, Moved, FinishedTyped
  <1>4. Plain => ~Hand
    BY DEF Plain, Hand
  <1>5. CASE msg.kind = "image"
    <2>1. CASE next = 1
      <3>1. Plain /\ Processed.header.hash = count
        BY <1>1, <1>5, <2>1, ImageParts
      <3>2. next' = 2 /\ next < msg.parts
        BY <1>1, <1>5, <2>1 DEF WellFormed
      <3>3. d'.id = NoBuffer
        BY <3>1, PlainStep DEF Keeps
      <3> QED
        BY <1>1, <1>3, <1>4, <1>5, <3>1, <3>2, <3>3 DEF FieldInv
    <2>2. CASE next = 2
      <3>1. /\ Plain /\ Processed.header.hash = d.header.hash
            /\ Processed.header.shape = count /\ Processed.header.encoding = count
        BY <1>1, <1>5, <2>2, ImageParts
      <3>2. next' = 3 /\ next < msg.parts
        BY <1>1, <1>5, <2>2 DEF WellFormed
      <3>3. d.header.hash = count
        BY <1>5, <2>2 DEF DecInv, FieldInv
      <3>4. d'.id = NoBuffer
        BY <3>1, PlainStep DEF Keeps
      <3> QED
        BY <1>1, <1>3, <1>4, <1>5, <3>1, <3>2, <3>3, <3>4 DEF FieldInv
    <2>3. CASE next = 3
      <3>1. Data
        BY <1>1, <1>5, <2>3, ImageParts
      <3>2. /\ d.id = NoBuffer
            /\ \/ Keeps
               \/ /\ d'.id = Head(d.empty) /\ content'[Head(d.empty)].payload = Part
            /\ d'.header.size = Part /\ d'.header.hash = count
            /\ d'.header.shape = count /\ d'.header.encoding = count
            /\ next' = 4
        BY <3>1, DataStep
      <3>3. d'.id # NoBuffer => content'[d'.id].payload = <<count, 3>>
        BY <2>3, <3>2 DEF Keeps, Part
      <3>4. d'.header.size = <<count, 3>>
        BY <2>3, <3>2 DEF Part
      <3> QED
        BY <1>1, <1>5, <3>2, <3>3, <3>4 DEF FieldInv
    <2>4. CASE next \notin {1, 2, 3}
      <3>1. next' \notin {2, 3, 4}
        BY <1>1, <2>4
      <3>2. d'.id = NoBuffer
        BY <1>2, <2>4 DEF Data
      <3> QED
        BY <1>1, <1>5, <3>1, <3>2 DEF FieldInv
    <2> QED
      BY <2>1, <2>2, <2>3, <2>4
  <1>6. CASE msg.kind # "image"
    <2>1. d'.id = NoBuffer
      BY <1>2, <1>6 DEF Data
    <2>2. ASSUME next' \in {4, 6, 8}, msg.kind = "header"
          PROVE  d'.header.shape = count
      <3>1. next \in {3, 5, 7} /\ next < msg.parts
        BY <1>1, <2>2
      <3>2. Plain /\ Processed.header.shape = count
        BY <2>2, <3>1, HeaderLater
      <3> QED
        BY <1>3, <1>4, <3>1, <3>2
    <2>3. ASSUME next' = 2, msg.kind = "header"
          PROVE  d'.type \in {"none", "config"}
      <3>1. next = 1 /\ next < msg.parts
        BY <1>1, <2>3
      <3>2. Processed.type \in {"none", "config"}
        BY <2>3, <3>1, HeaderFirst
      <3>3. d'.type = Processed.type
        BY <3>1, Moved
      <3> QED
        BY <3>2, <3>3
    <2> QED
      BY <1>1, <1>6, <2>1, <2>2, <2>3 DEF FieldInv
  <1> QED
    BY <1>5, <1>6

LEMMA PartInvariant ==
    ASSUME DecInv, ReceivePart
    PROVE  DecInv'
  <1>1. TypeOK' /\ PartInv' /\ HoldInv' /\ FieldInv'
    BY PartTypes, PartPlaces, PartHolds, PartFields
  <1>2. PlaceInv'
    BY Moved, PartBuffers, PlacesKept
  <1>3. NothingVanishes'
    <2>1. /\ d.dropped \in Nat /\ d'.dropped \in Nat
          /\ tally.due \in Nat /\ tally.handed \in Nat
          /\ tally'.due \in Nat /\ tally'.handed \in Nat
      BY <1>1 DEF DecInv, TypeOK
    <2>2. tally'.due - tally.due =
              (tally'.handed - tally.handed) + (d'.dropped - d.dropped)
              + (IF d'.id = NoBuffer THEN 0 ELSE 1) - (IF d.id = NoBuffer THEN 0 ELSE 1)
      BY PartBuffers
    <2>3. tally.due = tally.handed + d.dropped + IF d.id = NoBuffer THEN 0 ELSE 1
      BY DEF DecInv, NothingVanishes
    <2> DEFINE before == IF d.id = NoBuffer THEN 0 ELSE 1
               after == IF d'.id = NoBuffer THEN 0 ELSE 1
    <2>4. before \in Nat /\ after \in Nat
      OBVIOUS
    <2>5. /\ tally'.due - tally.due =
                 (tally'.handed - tally.handed) + (d'.dropped - d.dropped) + after - before
          /\ tally.due = tally.handed + d.dropped + before
      BY <2>2, <2>3
    <2> HIDE DEF before, after
    <2>6. tally'.due = tally'.handed + d'.dropped + after
      BY <2>1, <2>4, <2>5
    <2> QED
      BY <2>6 DEF NothingVanishes, after
  <1> QED
    BY <1>1, <1>2, <1>3 DEF DecInv

-----------------------------------------------------------------------------
(***************************************************************************)
(* The other steps, and the beginning                                      *)
(***************************************************************************)
LEMMA MessageInvariant ==
    ASSUME DecInv, NextMessage, \A m \in Messages : WellFormed(m)
    PROVE  DecInv'
  <1> USE Typed
  <1>1. /\ next = 0 /\ next' = 1 /\ count' = count + 1 /\ count < MaxMessages
        /\ msg' \in Messages
        /\ d' = d /\ content' = content /\ lent' = lent /\ tally' = tally
    BY DEF NextMessage
  <1>2. d.id = NoBuffer /\ d.part = 1 /\ d.header.acqID = 0
    BY <1>1 DEF DecInv, PartInv
  <1>3. WellFormed(msg') /\ msg'.parts \in Nat \ {0}
    BY <1>1, ConstantsTyped DEF MessageSet
  <1>4. TypeOK'
    <2>1. count' \in 0 .. MaxMessages
      BY <1>1, ConstantsTyped DEF DecInv, TypeOK
    <2>2. next' \in 0 .. msg'.parts
      BY <1>1, <1>3
    <2> QED
      BY <1>1, <2>1, <2>2 DEF DecInv, TypeOK
  <1>5. PartInv'
    BY <1>1, <1>2, <1>3 DEF PartInv
  <1>6. HoldInv'
    BY <1>1, <1>2 DEF HoldInv
  <1>7. PlaceInv'
    BY <1>1 DEF DecInv, PlaceInv
  <1>8. FieldInv'
    BY <1>1, <1>2 DEF FieldInv
  <1>9. NothingVanishes'
    BY <1>1 DEF DecInv, NothingVanishes
  <1> QED
    BY <1>4, <1>5, <1>6, <1>7, <1>8, <1>9 DEF DecInv

LEMMA ReleaseInvariant ==
    ASSUME DecInv, NEW b \in Pool, Release(b)
    PROVE  DecInv'
  <1> USE Typed
  <1> DEFINE e == Append(d.empty, b)
  <1>1. /\ b \in lent /\ lent' = lent \ {b}
        /\ d' = [d EXCEPT !.empty = e]
        /\ content' = content /\ msg' = msg /\ count' = count /\ next' = next
        /\ tally' = tally
    BY DEF Release
  <1>2. /\ d.empty \in Seq(Pool) /\ lent \subseteq Pool /\ NoBuffer \notin Pool
        /\ d.id \in Pool \cup {NoBuffer}
        /\ \A i, j \in 1 .. Len(d.empty) : d.empty[i] = d.empty[j] => i = j
        /\ \A i \in 1 .. Len(d.empty) : d.empty[i] \notin lent /\ d.empty[i] # d.id
        /\ d.id \notin lent
        /\ \A x \in Pool :
               x = d.id \/ x \in lent \/ \E i \in 1 .. Len(d.empty) : d.empty[i] = x
    BY ConstantsTyped DEF DecInv, TypeOK, PlaceInv
  <1> DEFINE n == Len(d.empty)
  <1>3. /\ n \in Nat /\ e \in Seq(Pool) /\ Len(e) = n + 1 /\ e[n + 1] = b
        /\ \A i \in 1 .. n : e[i] = d.empty[i]
    BY <1>2
  <1> HIDE DEF e
  <1>4. /\ d' \in DecoderSet /\ d'.empty = e
        /\ d'.id = d.id /\ d'.at = d.at /\ d'.dropping = d.dropping /\ d'.part = d.part
        /\ d'.type = d.type /\ d'.parent = d.parent /\ d'.expect = d.expect
        /\ d'.header = d.header /\ d'.dropped = d.dropped
    BY <1>1, <1>3 DEF DecoderSet
  <1>5. TypeOK'
    BY <1>1, <1>2, <1>4 DEF DecInv, TypeOK, DecoderSet
  <1>6. PartInv'
    BY <1>1, <1>4 DEF DecInv, PartInv, Whole
  <1>7. HoldInv' /\ FieldInv' /\ NothingVanishes'
    BY <1>1, <1>4 DEF DecInv, HoldInv, FieldInv, NothingVanishes
  <1>8. PlaceInv'
    <2>1. \A i, j \in 1 .. n + 1 : e[i] = e[j] => i = j
      <3>1. \A i \in 1 .. n : e[i] # b
        BY <1>1, <1>2, <1>3
      <3>2. \A i, j \in 1 .. n : e[i] = e[j] => i = j
        BY <1>2, <1>3
      <3>3. \A i \in 1 .. n + 1 : i \in 1 .. n \/ i = n + 1
        BY <1>3
      <3> QED
        BY <1>3, <3>1, <3>2, <3>3
    <2>2. \A i \in 1 .. n + 1 : e[i] \notin lent' /\ e[i] # d.id
      BY <1>1, <1>2, <1>3
    <2>3. ASSUME NEW x \in Pool
          PROVE  x = d.id \/ x \in lent' \/ \E i \in 1 .. n + 1 : e[i] = x
      <3>1. CASE x = b
        BY <1>3, <3>1
      <3>2. CASE x # b
        <4>1. x = d.id \/ x \in lent' \/ \E i \in 1 .. n : d.empty[i] = x
          BY <1>1, <1>2, <3>2
        <4> QED
          BY <1>3, <4>1
      <3> QED
        BY <3>1, <3>2
    <2>4. d.id \notin lent'
      BY <1>1, <1>2
    <2> QED
      BY <1>3, <1>4, <2>1, <2>2, <2>3, <2>4 DEF PlaceInv
  <1> QED
    BY <1>5, <1>6, <1>7, <1>8 DEF DecInv

LEMMA BlankTyped == Blank \in HeaderSet
  BY DEF Blank, HeaderSet, PartRef, NoPart

LEMMA InitInvariant == Init => DecInv
  <1> SUFFICES ASSUME Init PROVE DecInv
    OBVIOUS
  <1>1. PICK order \in [1 .. Cardinality(Pool) -> Pool] :
            /\ \A i, j \in DOMAIN order : order[i] = order[j] => i = j
            /\ d = [empty |-> order, id |-> NoBuffer, at |-> NoBuffer,
                    dropping |-> FALSE, number |-> -1, part |-> 1,
                    type |-> "none", parent |-> "global", expect |-> 1,
                    header |-> Blank, allocated |-> 0, dropped |-> 0]
    BY DEF Init
  <1> DEFINE n == Cardinality(Pool)
  <1>2. n \in Nat
    BY ConstantsTyped, FS_CardinalityType
  <1>3. order \in Seq(Pool) /\ Len(order) = n
    BY <1>1, <1>2
  <1>4. \A b \in Pool : \E i \in 1 .. n : order[i] = b
    <2>1. order \in Injection(1 .. n, Pool)
      BY <1>1 DEF Injection, IsInjective
    <2>2. Cardinality(1 .. n) = n
      BY <1>2, FS_Interval
    <2>3. order \in Surjection(1 .. n, Pool)
      BY <2>1, <2>2, ConstantsTyped, FS_Injection
    <2> QED
      BY <2>3 DEF Surjection
  <1>5. d \in DecoderSet
    BY <1>1, <1>3, BlankTyped DEF DecoderSet, MessageTypes
  <1>6. TypeOK
    <2>1. content \in [Pool -> ContentSet]
      BY BlankTyped DEF Init, ContentSet, MessageTypes, PartRef, NoPart
    <2>2. lent \subseteq Pool /\ msg = EndOfSeries /\ count = 0 /\ next = 0
      BY DEF Init
    <2>3. count \in 0 .. MaxMessages /\ next \in 0 .. msg.parts
      BY <2>2, ConstantsTyped DEF EndOfSeries
    <2>4. tally \in [due : Nat, handed : Nat]
      BY DEF Init
    <2> QED
      BY <1>5, <2>1, <2>2, <2>3, <2>4 DEF TypeOK, DecoderSet, ContentSet
  <1>7. PartInv
    BY <1>1 DEF Init, PartInv, WellFormed, EndOfSeries, Blank
  <1>8. HoldInv /\ FieldInv
    BY <1>1 DEF Init, HoldInv, FieldInv
  <1>9. PlaceInv
    <2>1. d.empty = order /\ d.id = NoBuffer /\ lent = {}
      BY <1>1 DEF Init
    <2> QED
      BY <1>1, <1>2, <1>3, <1>4, <2>1, ConstantsTyped DEF PlaceInv
  <1>10. NothingVanishes
    BY <1>1 DEF Init, NothingVanishes
  <1> QED
    BY <1>6, <1>7, <1>8, <1>9, <1>10 DEF DecInv

LEMMA StutterInvariant ==
    ASSUME DecInv, UNCHANGED vars
    PROVE  DecInv'
  <1>1. /\ d' = d /\ content' = content /\ lent' = lent /\ msg' = msg
        /\ count' = count /\ next' = next /\ tally' = tally
    BY DEF vars
  <1> QED
    BY <1>1 DEF DecInv, TypeOK, PartInv, Whole, HoldInv, PlaceInv, FieldInv,
                NothingVanishes

LEMMA Inductive ==
    ASSUME DecInv, [Next]_vars, \A m \in Messages : WellFormed(m)
    PROVE  DecInv'
  BY PartInvariant, MessageInvariant, ReleaseInvariant, StutterInvariant DEF Next

\* As long as the detector sends well-formed messages, the invariant holds.
LEMMA Invariance ==
    ASSUME \A m \in Messages : WellFormed(m)
    PROVE  Spec => []DecInv
  <1>1. Init => DecInv
    BY InitInvariant
  <1>2. DecInv /\ [Next]_vars => DecInv'
    BY Inductive
  <1> QED
    BY <1>1, <1>2, PTL DEF Spec

\* Type correctness for every pool and every series of well-formed messages
\* (EigerFrameDecoder.cpp:156-250): the number of a part never leaves 1 to 9, with
\* and without appendices, whatever has been dropped.
THEOREM TypeCorrect ==
    ASSUME \A m \in Messages : WellFormed(m)
    PROVE  Spec => []TypeOK
  <1>1. DecInv => TypeOK
    BY DEF DecInv
  <1> QED
    BY <1>1, Invariance, PTL

\* Every part due to the frame processors is handed over, counted as dropped or
\* with the decoder (EigerFrameDecoder.cpp:485-492).
THEOREM NothingVanishesAlways ==
    ASSUME \A m \in Messages : WellFormed(m)
    PROVE  Spec => []NothingVanishes
  <1>1. DecInv => NothingVanishes
    BY DEF DecInv
  <1> QED
    BY <1>1, Invariance, PTL

LEMMA Accounted == DecInv => BuffersAccounted
  <1> SUFFICES ASSUME DecInv PROVE BuffersAccounted
    OBVIOUS
  <1>1. /\ lent \subseteq Pool /\ NoBuffer \notin Pool /\ Len(d.empty) \in Nat
        /\ \A i, j \in 1 .. Len(d.empty) : d.empty[i] = d.empty[j] => i = j
        /\ \A i \in 1 .. Len(d.empty) : d.empty[i] \notin lent /\ d.empty[i] # d.id
        /\ d.id \notin lent
        /\ \A b \in Pool :
               b = d.id \/ b \in lent \/ \E i \in 1 .. Len(d.empty) : d.empty[i] = b
    <2>1. lent \subseteq Pool /\ NoBuffer \notin Pool
      BY ConstantsTyped DEF DecInv, TypeOK
    <2>2. d.empty \in Seq(Pool)
      BY DEF DecInv, TypeOK
    <2>3. Len(d.empty) \in Nat
      BY <2>2
    <2> QED
      BY <2>1, <2>3 DEF DecInv, PlaceInv
  <1>2. ASSUME NEW b \in Pool
        PROVE  Cardinality({i \in 1 .. Len(d.empty) : d.empty[i] = b})
                   + (IF d.id = b THEN 1 ELSE 0)
                   + (IF b \in lent THEN 1 ELSE 0) = 1
    <2> DEFINE Q == {i \in 1 .. Len(d.empty) : d.empty[i] = b}
    <2>1. CASE d.id = b \/ b \in lent
      <3>1. Q = {}
        BY <1>1, <2>1
      <3>2. Cardinality(Q) = 0
        BY <3>1, FS_EmptySet
      <3>3. ~(d.id = b /\ b \in lent)
        BY <1>1
      <3> QED
        BY <2>1, <3>2, <3>3
    <2>2. CASE d.id # b /\ b \notin lent
      <3>1. PICK i \in 1 .. Len(d.empty) : d.empty[i] = b
        BY <1>1, <2>2
      <3>2. Q = {i}
        BY <1>1, <3>1
      <3>3. Cardinality(Q) = 1
        BY <3>2, FS_Singleton
      <3> QED
        BY <2>2, <3>3
    <2> QED
      BY <2>1, <2>2
  <1> QED
    BY <1>1, <1>2 DEF BuffersAccounted

\* No buffer of the pool leaks and none is in two places
\* (EigerFrameDecoder.cpp:482-537).
THEOREM BuffersAccountedAlways ==
    ASSUME \A m \in Messages : WellFormed(m)
    PROVE  Spec => []BuffersAccounted
  BY Accounted, Invariance, PTL

\* A buffer does not change while the frame processors have it
\* (EigerFrameDecoder.cpp:120-135 and 508-537).
THEOREM LentUntouchedAlways ==
    ASSUME \A m \in Messages : WellFormed(m)
    PROVE  Spec => LentUntouched
  <1>1. ASSUME DecInv, [Next]_vars
        PROVE  \A b \in lent \cap lent' : content'[b] = content[b]
    <2>1. CASE ReceivePart
      BY <1>1, <2>1, PartBuffers
    <2>2. CASE ~ReceivePart
      BY <1>1, <2>2 DEF Next, NextMessage, Release, vars
    <2> QED
      BY <2>1, <2>2
  <1> QED
    BY <1>1, Invariance, PTL DEF Spec, LentUntouched

\* What a part hands over is described by its own message.
LEMMA HandedDescribed ==
    ASSUME DecInv, ReceivePart, NEW b \in lent' \ lent
    PROVE  Describes(content'[b], count)
  <1> USE Typed
  <1>1. next > 0 /\ Parsed
    BY PartKinds DEF ReceivePart
  <1>2. /\ Processed.header.series = count
        /\ Processed.header.acqID = IF next = 1 /\ msg.kind = "header" THEN 0 ELSE count
        /\ Processed.type = "image_appendix" => msg.kind \in {"image", "end"}
        /\ msg.kind = "image" => Processed.header.frame = msg.frame
    BY <1>1 DEF Parsed, WellFormed
  <1>3. CASE Plain
    BY <1>3, PlainStep DEF Keeps
  <1>4. CASE Data
    BY <1>4, DataStep
  <1>5. CASE Announced \/ Payload
    <2>1. /\ b = Head(d.empty)
          /\ content'[b].type = Processed.type /\ content'[b].header = Processed.header
          /\ Payload => content'[b].payload = Part
      BY <1>5, SentStep DEF Keeps
    <2>2. CASE Announced
      BY <1>2, <2>1, <2>2 DEF Announced, Describes
    <2>3. CASE Payload
      <3>1. msg.kind # "end"
        BY <1>1, <2>3, EndPart DEF Announced, Payload
      <3>2. Part[1] = count
        BY DEF Part
      <3> QED
        BY <1>2, <2>1, <2>3, <3>1, <3>2 DEF Payload, Describes
    <2> QED
      BY <1>5, <2>2, <2>3
  <1>6. CASE Times
    <2>1. /\ d.id # NoBuffer /\ b = d.id
          /\ content'[b].type = "image" /\ content'[b].header = Processed.header
          /\ content'[b].payload = content[b].payload
      BY <1>6, TimesStep DEF Keeps, Gives
    <2>2. /\ d.header.hash = count /\ d.header.shape = count /\ d.header.encoding = count
          /\ d.header.size = <<count, 3>> /\ content[b].payload = <<count, 3>>
      BY <1>6, <2>1 DEF Times, DecInv, FieldInv
    <2>3. /\ Processed.header.hash = count /\ Processed.header.shape = count
          /\ Processed.header.encoding = count /\ Processed.header.times = count
          /\ Processed.header.size = <<count, 3>>
      BY <1>6, <2>2 DEF Times, HeaderSet
    <2>4. msg.kind = "image"
      BY <1>6 DEF Times
    <2> QED
      BY <1>2, <2>1, <2>2, <2>3, <2>4 DEF Describes
  <1> QED
    BY <1>1, <1>3, <1>4, <1>5, <1>6, PartKinds

\* A buffer that is handed over carries the fields that its type is published with,
\* the acquisition ID included, all of its own message; a header of detail none has
\* no acquisition ID (EigerFrameDecoder.cpp:145-440).
THEOREM DescribedAlways ==
    ASSUME \A m \in Messages : WellFormed(m)
    PROVE  Spec => Described
  <1>1. ASSUME DecInv, [Next]_vars
        PROVE  \A b \in lent' \ lent : Describes(content'[b], count)
    <2>1. CASE ReceivePart
      BY <1>1, <2>1, HandedDescribed
    <2>2. CASE ~ReceivePart
      BY <1>1, <2>2 DEF Next, NextMessage, Release, vars
    <2> QED
      BY <2>1, <2>2
  <1> QED
    BY <1>1, Invariance, PTL DEF Spec, Described

================================================================================
