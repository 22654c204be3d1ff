------------------------ MODULE EigerMetaWriter_proofs ------------------------
(***************************************************************************)
(* For any number of frame processors, any shares of the frames and any    *)
(* header: the two halves of every frame are joined, the file is complete  *)
(* when it is closed, nothing is written to a closed file, and the writer  *)
(* implements the table of rows.                                           *)
(***************************************************************************)
EXTENDS EigerMetaWriter, TLAPS

(***************************************************************************)
(* The inductive invariant                                                 *)
(***************************************************************************)

\* The cursors of a processor follow one another.
Flow ==
    \A p \in Processors :
        /\ processed[p] \in 0 .. Total(p)
        /\ delivered[p] \in 0 .. processed[p]
        /\ written[p] \in 0 .. Len(Share[p])
        /\ reported[p] \in 0 .. Published(p)
        /\ stopped[p] => written[p] = Len(Share[p])
        /\ stopped[p] => \A q \in Processors : reported[q] > 0

\* Whoever is past the first part of the header has registered the series, and
\* until the end the file is open for whoever has started or sent that part.
Registered ==
    \A p \in Processors :
        /\ delivered[p] > late[p] => _series = Series
        /\ ~finished /\ delivered[p] > late[p] => file_open
        /\ ~finished /\ reported[p] > 0 => file_open

\* What waits is the frame's own.
Waiting ==
    /\ \A f \in DOMAIN _frame_data_map : _frame_data_map[f] = Datum(f)
    /\ \A f \in DOMAIN _frame_offset_map : _frame_offset_map[f] = OffsetOf[f]

\* Who has started and not stopped is running; the flags say who is done.
Ending ==
    /\ \A p \in Processors :
           p \in _processes_running <=> reported[p] \in 1 .. Len(Share[p]) + 1
    /\ _writers_finished => \A p \in Processors : reported[p] = Len(Share[p]) + 2
    /\ _detector_finished => \E p \in Processors : delivered[p] = Total(p)
    /\ finished => _writers_finished /\ _detector_finished

Inv == TypeOK /\ Flow /\ Registered /\ Waiting /\ Joined /\ Ending

(***************************************************************************)
(* The messages in the order of a stream                                   *)
(***************************************************************************)

\* The counts of the model are numbers.
LEMMA Counts ==
    ASSUME TypeOK, NEW p \in Processors
    PROVE  /\ late[p] \in Nat /\ Len(Header) \in Nat /\ Len(Share[p]) \in Nat
           /\ Len(Header) > 0
           /\ \A j \in 1 .. Len(Share[p]) : Share[p][j] \in Frames
<1>1. Share[p] \in Seq(Frames)
    BY MetaAssumption
<1>2. Len(Header) \in Nat /\ Len(Header) > 0
    BY MetaAssumption
<1>3. late[p] \in Nat
    BY MetaAssumption DEF TypeOK
<1> QED BY <1>1, <1>2, <1>3

\* Where the header, the images and the stream end.
LEMMA Stations ==
    ASSUME TypeOK, NEW p \in Processors
    PROVE  /\ HeaderEnd(p) \in Nat /\ ImagesEnd(p) \in Nat /\ Total(p) \in Nat
           /\ HeaderEnd(p) = late[p] + Len(Header) /\ late[p] < HeaderEnd(p)
           /\ ImagesEnd(p) = HeaderEnd(p) + Len(Share[p]) /\ HeaderEnd(p) <= ImagesEnd(p)
           /\ Total(p) = ImagesEnd(p) + 1
<1>1. /\ late[p] \in Nat /\ Len(Header) \in Nat /\ Len(Share[p]) \in Nat /\ Len(Header) > 0
    BY Counts
<1>2. /\ HeaderEnd(p) = late[p] + Len(Header)
      /\ ImagesEnd(p) = HeaderEnd(p) + Len(Share[p])
      /\ Total(p) = ImagesEnd(p) + 1
    BY DEF Total, ImagesEnd, HeaderEnd
<1> QED BY <1>1, <1>2

\* The message at each place.
LEMMA MessageAt ==
    ASSUME TypeOK, NEW p \in Processors, NEW i \in Nat
    PROVE  /\ i <= late[p] => KindAt(p, i) = "end" /\ SeriesAt(p, i) = OldSeries
           /\ i > late[p] /\ i <= HeaderEnd(p) =>
                  KindAt(p, i) = Header[i - late[p]] /\ SeriesAt(p, i) = Series
           /\ i > HeaderEnd(p) /\ i <= ImagesEnd(p) =>
                  KindAt(p, i) = "imagedata" /\ SeriesAt(p, i) = Series
           /\ i > ImagesEnd(p) => KindAt(p, i) = "end" /\ SeriesAt(p, i) = Series
<1> DEFINE l == late[p]
           h == HeaderEnd(p)
           e == ImagesEnd(p)
<1>1. l \in Nat /\ h \in Nat /\ e \in Nat /\ l < h /\ h <= e
    BY Counts, Stations
<1>2. KindAt(p, i) = CASE i <= l -> "end"
                       [] i > l /\ i <= h -> Header[i - l]
                       [] i > h /\ i <= e -> "imagedata"
                       [] i > e -> "end"
    BY DEF KindAt
<1>3. SeriesAt(p, i) = IF i <= l THEN OldSeries ELSE Series
    BY DEF SeriesAt
<1> HIDE DEF l, h, e
<1>4. CASE i <= l
    BY <1>1, <1>2, <1>3, <1>4 DEF l, h, e
<1>5. CASE i > l /\ i <= h
    BY <1>1, <1>2, <1>3, <1>5 DEF l, h, e
<1>6. CASE i > h /\ i <= e
    BY <1>1, <1>2, <1>3, <1>6 DEF l, h, e
<1>7. CASE i > e
    BY <1>1, <1>2, <1>3, <1>7 DEF l, h, e
<1> QED BY <1>1, <1>4, <1>5, <1>6, <1>7

LEMMA Between ==
    ASSUME NEW a \in Nat, NEW n \in Nat, NEW k \in Nat, k > a, k <= a + n
    PROVE  k - a \in 1 .. n /\ k = a + (k - a)
OBVIOUS

\* The plugin's stream: ends of the earlier series, the header, images, the end.
Plugin(p) ==
    /\ ~finished
    /\ delivered[p] < processed[p]
    /\ delivered' = [delivered EXCEPT ![p] = delivered[p] + 1]
    /\ UNCHANGED <<late, processed, written, stopped, reported>>

LateEnd(p) ==
    Plugin(p) /\ delivered[p] < late[p] /\ handle_end(OldSeries)

FirstPart(p) ==
    /\ Plugin(p) /\ delivered[p] = late[p]
    /\ file_open' = TRUE /\ _series' = Series
    /\ global' \subseteq global \cup {"series", "globalconfig"}
    /\ UNCHANGED <<endVars, frameVars>>

LaterPart(p) ==
    /\ Plugin(p) /\ delivered[p] > late[p] /\ delivered[p] < HeaderEnd(p)
    /\ \E kind \in HeaderKinds : handle_header_part(kind)

Image(p, j) ==
    /\ Plugin(p) /\ delivered[p] + 1 = HeaderEnd(p) + j
    /\ handle_image_data(Series, Share[p][j])

LastEnd(p) ==
    Plugin(p) /\ delivered[p] + 1 = Total(p) /\ handle_end(Series)

LEMMA PluginCases ==
    ASSUME TypeOK, Flow, NEW p \in Processors, HandlePlugin(p)
    PROVE  \/ LateEnd(p) \/ FirstPart(p) \/ LaterPart(p)
           \/ \E j \in 1 .. Len(Share[p]) : Image(p, j)
           \/ LastEnd(p)
<1> DEFINE i == delivered[p] + 1
<1>0. /\ late[p] \in Nat /\ Len(Header) \in Nat /\ Len(Share[p]) \in Nat
      /\ Len(Header) > 0
    BY Counts
<1>s. /\ HeaderEnd(p) \in Nat /\ ImagesEnd(p) \in Nat /\ Total(p) \in Nat
      /\ HeaderEnd(p) = late[p] + Len(Header) /\ late[p] < HeaderEnd(p)
      /\ ImagesEnd(p) = HeaderEnd(p) + Len(Share[p]) /\ HeaderEnd(p) <= ImagesEnd(p)
      /\ Total(p) = ImagesEnd(p) + 1
    BY Stations
<1>1. delivered[p] \in Nat /\ processed[p] \in Nat /\ processed[p] <= Total(p)
    BY <1>s DEF Flow, TypeOK
<1>2. Plugin(p)
    BY DEF HandlePlugin, Plugin
<1>3. i \in 1 .. Total(p) /\ i \in Nat
    BY <1>s, <1>1, <1>2 DEF Plugin
<1>4. CASE i <= late[p]
    <2>1. KindAt(p, i) = "end" /\ SeriesAt(p, i) = OldSeries
        BY <1>3, <1>4, MessageAt
    <2>2. handle_end(OldSeries)
        BY <2>1 DEF HandlePlugin
    <2> QED BY <2>2, <1>0, <1>1, <1>2, <1>4 DEF LateEnd
<1>5. CASE i > late[p] /\ i <= HeaderEnd(p)
    <2> DEFINE h == i - late[p]
    <2>1. h \in 1 .. Len(Header) /\ KindAt(p, i) = Header[h] /\ SeriesAt(p, i) = Series
        <3>1. KindAt(p, i) = Header[h] /\ SeriesAt(p, i) = Series
            BY <1>3, <1>5, MessageAt
        <3>2. h \in 1 .. Len(Header)
            BY <1>0, <1>s, <1>3, <1>5
        <3> QED BY <3>1, <3>2
    <2>2. Header[h] \in HeaderKinds
        BY <2>1, MetaAssumption
    <2>3. CASE h = 1
        <3>1. Header[h] \in {"globalnone", "globalconfig"}
            BY <2>3, MetaAssumption
        <3>2. CASE Header[h] = "globalnone"
            <4>1. handle_global_header_none(Series)
                BY <2>1, <3>2 DEF HandlePlugin
            <4> QED BY <4>1, <2>3, <1>0, <1>1, <1>2
                    DEF FirstPart, handle_global_header_none, RegisterSeries
        <3>3. CASE Header[h] = "globalconfig"
            <4>1. handle_global_header_config(Series)
                BY <2>1, <3>3 DEF HandlePlugin
            <4> QED BY <4>1, <2>3, <1>0, <1>1, <1>2
                    DEF FirstPart, handle_global_header_config, RegisterSeries
        <3> QED BY <3>1, <3>2, <3>3
    <2>4. CASE h # 1
        <3>1. Header[h] \notin {"globalnone", "globalconfig"}
            BY <2>1, <2>4, MetaAssumption
        <3>2. Header[h] \in {"flatfield", "mask", "countrate", "headerappendix"}
            BY <3>1, <2>2 DEF HeaderKinds
        <3>3. handle_header_part(Header[h])
            BY <2>1, <3>2 DEF HandlePlugin
        <3> QED BY <3>3, <2>2, <2>4, <1>0, <1>1, <1>2, <1>5 DEF LaterPart, HeaderEnd
    <2> QED BY <2>3, <2>4
<1>6. CASE i > HeaderEnd(p) /\ i <= ImagesEnd(p)
    <2> DEFINE j == i - HeaderEnd(p)
    <2>1. /\ j \in 1 .. Len(Share[p]) /\ i = HeaderEnd(p) + j
          /\ KindAt(p, i) = "imagedata" /\ SeriesAt(p, i) = Series
          /\ FrameAt(p, i) = Share[p][j]
        <3>1. KindAt(p, i) = "imagedata" /\ SeriesAt(p, i) = Series
            BY <1>3, <1>6, MessageAt
        <3>2. j \in 1 .. Len(Share[p]) /\ i = HeaderEnd(p) + j
            <4>1. HeaderEnd(p) \in Nat /\ Len(Share[p]) \in Nat /\ i \in Nat
                BY <1>0, <1>s, <1>3
            <4>2. i > HeaderEnd(p) /\ i <= HeaderEnd(p) + Len(Share[p])
                BY <1>s, <1>6
            <4> HIDE DEF i
            <4> QED BY <4>1, <4>2, Between
        <3>3. FrameAt(p, i) = Share[p][j]
            BY DEF FrameAt
        <3> QED BY <3>1, <3>2, <3>3
    <2>2. handle_image_data(Series, Share[p][j])
        BY <2>1 DEF HandlePlugin
    <2> QED BY <2>1, <2>2, <1>2 DEF Image
<1>7. CASE i > ImagesEnd(p)
    <2>1. KindAt(p, i) = "end" /\ SeriesAt(p, i) = Series /\ i = Total(p)
        BY <1>s, <1>3, <1>7, MessageAt
    <2>2. handle_end(Series)
        BY <2>1 DEF HandlePlugin
    <2> QED BY <2>1, <2>2, <1>2 DEF LastEnd
<1> QED BY <1>0, <1>s, <1>3, <1>4, <1>5, <1>6, <1>7

\* The file writer's stream: the start, the images, the stop.
Writer(p) ==
    /\ ~finished
    /\ reported[p] < Published(p)
    /\ reported' = [reported EXCEPT ![p] = reported[p] + 1]
    /\ UNCHANGED <<late, processed, delivered, written, stopped, _series, global>>

Start(p) == Writer(p) /\ reported[p] = 0 /\ handle_start_acquisition(p)
Write(p, j) == Writer(p) /\ reported[p] = j /\ handle_write_frame(Share[p][j])
Last(p) ==
    /\ Writer(p) /\ reported[p] = Len(Share[p]) + 1 /\ stopped[p]
    /\ handle_stop_acquisition(p)

LEMMA WriterCases ==
    ASSUME TypeOK, Flow, NEW p \in Processors, HandleWriter(p)
    PROVE  Start(p) \/ (\E j \in 1 .. Len(Share[p]) : Write(p, j)) \/ Last(p)
<1>0. Len(Share[p]) \in Nat
    BY Counts
<1>1. reported[p] \in Nat /\ written[p] \in 0 .. Len(Share[p])
    BY DEF Flow, TypeOK
<1>2. Writer(p)
    BY DEF HandleWriter, Writer
<1>3. CASE reported[p] = 0 /\ handle_start_acquisition(p)
    BY <1>2, <1>3 DEF Start
<1>4. CASE reported[p] \in 1 .. Len(Share[p]) /\ handle_write_frame(Share[p][reported[p]])
    BY <1>2, <1>4 DEF Write
<1>5. CASE reported[p] > Len(Share[p]) /\ handle_stop_acquisition(p)
    <2>1. reported[p] = Len(Share[p]) + 1 /\ stopped[p]
        BY <1>0, <1>1, <1>2, <1>5 DEF Flow, TypeOK, Writer, Published
    <2> QED BY <2>1, <1>2, <1>5 DEF Last
<1> QED BY <1>3, <1>4, <1>5 DEF HandleWriter

\* A frame has one place in the shares and an offset of its own.
LEMMA Distinct ==
    ASSUME NEW p \in Processors, NEW q \in Processors,
           NEW i \in 1 .. Len(Share[p]), NEW j \in 1 .. Len(Share[q])
    PROVE  /\ Share[p][i] \in Frames /\ OffsetOf[Share[p][i]] \in Nat
           /\ Share[p][i] = Share[q][j] => p = q /\ i = j
           /\ OffsetOf[Share[p][i]] = OffsetOf[Share[q][j]] => p = q /\ i = j
<1>1. Share[p] \in Seq(Frames) /\ Share[q] \in Seq(Frames)
    BY MetaAssumption
<1>2. Share[p][i] \in Frames /\ Share[q][j] \in Frames
    BY <1>1
<1>3. OffsetOf[Share[p][i]] \in Nat
    BY <1>2, MetaAssumption
<1>4. Share[p][i] = Share[q][j] => p = q /\ i = j
    BY MetaAssumption
<1>5. OffsetOf[Share[p][i]] = OffsetOf[Share[q][j]] => Share[p][i] = Share[q][j]
    BY <1>2, MetaAssumption
<1> QED BY <1>2, <1>3, <1>4, <1>5

\* What does not bring a half of a frame leaves the halves joined as they are.
LEMMA JoinedSame ==
    ASSUME Joined, UNCHANGED frameVars,
           \A q \in Processors : \A i \in 1 .. Len(Share[q]) :
               /\ DataCame(q, i)' <=> DataCame(q, i)
               /\ WriteCame(q, i)' <=> WriteCame(q, i)
    PROVE  Joined'
BY DEF Joined, frameVars

\* The number of messages that a stream has, and what a message moves.
LEMMA CountsNat ==
    ASSUME Inv, NEW q \in Processors
    PROVE  /\ late[q] \in Nat /\ Len(Header) \in Nat /\ Len(Header) > 0 /\ Len(Share[q]) \in Nat
           /\ delivered[q] \in Nat /\ reported[q] \in Nat /\ written[q] \in Nat
BY Counts DEF Inv, TypeOK

LEMMA PluginFlow ==
    ASSUME Inv, NEW p \in Processors, Plugin(p)
    PROVE  /\ Flow' /\ delivered' \in [Processors -> Nat]
           /\ delivered'[p] = delivered[p] + 1
           /\ \A q \in Processors : q # p => delivered'[q] = delivered[q]
           /\ \A q \in Processors : delivered[q] = Total(q) => delivered'[q] = Total(q)'
<1>0. \A q \in Processors : Total(q) \in Nat /\ Total(q)' = Total(q)
    BY Counts DEF Inv, Plugin, Total, ImagesEnd, HeaderEnd
<1>1. delivered \in [Processors -> Nat] /\ processed \in [Processors -> Nat]
    BY DEF Inv, TypeOK
<1>2. /\ delivered' \in [Processors -> Nat] /\ delivered'[p] = delivered[p] + 1
      /\ \A q \in Processors : q # p => delivered'[q] = delivered[q]
    BY <1>1 DEF Plugin
<1>3. \A q \in Processors : delivered'[q] \in 0 .. processed'[q]
    BY <1>1, <1>2 DEF Inv, Flow, Plugin
<1>4. Flow'
    <2>1. \A q \in Processors : Published(q)' = Published(q)
        BY DEF Published, Plugin
    <2> QED BY <1>0, <1>3, <2>1 DEF Inv, Flow, Plugin
<1>5. delivered[p] < Total(p)
    BY <1>0, <1>1 DEF Inv, Flow, Plugin
<1> QED BY <1>0, <1>1, <1>2, <1>4, <1>5

LEMMA WriterFlow ==
    ASSUME Inv, NEW p \in Processors, Writer(p)
    PROVE  /\ Flow' /\ reported' \in [Processors -> Nat]
           /\ reported'[p] = reported[p] + 1
           /\ \A q \in Processors : q # p => reported'[q] = reported[q]
<1>0. \A q \in Processors : Total(q)' = Total(q) /\ Published(q)' = Published(q)
    BY DEF Writer, Total, ImagesEnd, HeaderEnd, Published
<1>1. reported \in [Processors -> Nat] /\ written \in [Processors -> Nat]
    BY DEF Inv, TypeOK
<1>2. /\ reported' \in [Processors -> Nat] /\ reported'[p] = reported[p] + 1
      /\ \A q \in Processors : q # p => reported'[q] = reported[q]
    BY <1>1 DEF Writer
<1>3. \A q \in Processors : Published(q) \in Nat
    BY <1>1 DEF Published
<1>4. \A q \in Processors : reported'[q] \in 0 .. Published(q)'
    BY <1>0, <1>1, <1>2, <1>3 DEF Inv, Flow, Writer
<1>5. \A q \in Processors : reported[q] > 0 => reported'[q] > 0
    BY <1>1, <1>2
<1> QED BY <1>0, <1>2, <1>4, <1>5 DEF Inv, Flow, Writer

\* A message that brings no half of a frame.
LEMMA PluginJoined ==
    ASSUME Inv, NEW p \in Processors, Plugin(p), UNCHANGED frameVars,
           delivered[p] < HeaderEnd(p) \/ delivered[p] + 1 = Total(p)
    PROVE  Joined'
<1>0. \A q \in Processors : HeaderEnd(q) \in Nat /\ HeaderEnd(q)' = HeaderEnd(q)
    BY Counts DEF Inv, Plugin, HeaderEnd
<1>1. delivered \in [Processors -> Nat]
    BY DEF Inv, TypeOK
<1>2. ASSUME NEW q \in Processors, NEW i \in 1 .. Len(Share[q])
      PROVE  DataCame(q, i)' <=> DataCame(q, i)
    <2>1. CASE q # p
        BY <2>1, <1>0, PluginFlow DEF DataCame
    <2>2. CASE q = p
        <3>1. Len(Share[p]) \in Nat
            BY Counts DEF Inv
        <3>2. delivered[p] < HeaderEnd(p) \/ delivered[p] = HeaderEnd(p) + Len(Share[p])
            BY <1>0, <1>1, <3>1 DEF Total, ImagesEnd
        <3> QED BY <2>2, <3>1, <3>2, <1>0, <1>1, PluginFlow DEF DataCame
    <2> QED BY <2>1, <2>2
<1>3. \A q \in Processors : \A i \in 1 .. Len(Share[q]) : WriteCame(q, i)' <=> WriteCame(q, i)
    BY DEF WriteCame, Plugin
<1> QED BY <1>2, <1>3, JoinedSame DEF Inv

LEMMA WriterJoined ==
    ASSUME Inv, NEW p \in Processors, Writer(p), UNCHANGED frameVars,
           reported[p] = 0 \/ reported[p] = Len(Share[p]) + 1
    PROVE  Joined'
<1>1. reported \in [Processors -> Nat] /\ \A q \in Processors : Len(Share[q]) \in Nat
    BY Counts DEF Inv, TypeOK
<1>2. ASSUME NEW q \in Processors, NEW i \in 1 .. Len(Share[q])
      PROVE  WriteCame(q, i)' <=> WriteCame(q, i)
    <2>1. CASE q # p
        BY <2>1, WriterFlow DEF WriteCame
    <2>2. CASE q = p
        BY <2>2, <1>1, WriterFlow DEF WriteCame
    <2> QED BY <2>1, <2>2
<1>3. \A q \in Processors : \A i \in 1 .. Len(Share[q]) : DataCame(q, i)' <=> DataCame(q, i)
    BY DEF DataCame, Writer, HeaderEnd
<1> QED BY <1>2, <1>3, JoinedSame DEF Inv

\* A frame is published.
LEMMA ProcessFrameKeeps ==
    ASSUME Inv, NEW p \in Processors, ProcessFrame(p)
    PROVE  Inv'
<1>0. \A q \in Processors : Total(q) \in Nat /\ Len(Share[q]) \in Nat
    BY Counts DEF Inv, Total, ImagesEnd, HeaderEnd
<1>1. TypeOK'
    BY DEF Inv, TypeOK, ProcessFrame, endVars, frameVars
<1>2. Flow'
    <2> SUFFICES ASSUME NEW q \in Processors
                 PROVE  /\ processed'[q] \in 0 .. Total(q)'
                        /\ delivered'[q] \in 0 .. processed'[q]
                        /\ written'[q] \in 0 .. Len(Share[q])
                        /\ reported'[q] \in 0 .. Published(q)'
                        /\ stopped'[q] => written'[q] = Len(Share[q])
                        /\ stopped'[q] => \A r \in Processors : reported'[r] > 0
        BY DEF Flow
    <2>1. /\ late' = late /\ delivered' = delivered /\ reported' = reported
          /\ Total(q)' = Total(q)
        BY DEF ProcessFrame, endVars, frameVars, Total, ImagesEnd, HeaderEnd
    <2>2. /\ delivered \in [Processors -> Nat] /\ reported \in [Processors -> Nat]
          /\ processed \in [Processors -> Nat] /\ written \in [Processors -> Nat]
          /\ stopped \in [Processors -> BOOLEAN]
        BY DEF Inv, TypeOK
    <2>3. processed'[q] \in 0 .. Total(q) /\ delivered[q] \in 0 .. processed'[q]
        BY <1>0, <2>2 DEF Inv, Flow, ProcessFrame
    <2>4. Published(q)' = Published(q) /\ written' = written /\ stopped' = stopped
        BY DEF Published, ProcessFrame
    <2> QED BY <2>1, <2>3, <2>4 DEF Inv, Flow
<1>3. Registered'
    BY DEF Inv, Registered, ProcessFrame, endVars, frameVars
<1>4. Waiting'
    BY DEF Inv, Waiting, ProcessFrame, endVars, frameVars
<1>5. Joined'
    BY DEF Inv, Joined, DataCame, WriteCame, HeaderEnd, ProcessFrame, endVars, frameVars
<1>6. Ending'
    BY DEF Inv, Ending, Total, ImagesEnd, HeaderEnd, ProcessFrame, endVars, frameVars
<1> QED BY <1>1, <1>2, <1>3, <1>4, <1>5, <1>6 DEF Inv

\* An image is written.
LEMMA WriteFrameKeeps ==
    ASSUME Inv, NEW p \in Processors, WriteFrame(p)
    PROVE  Inv'
<1>0. \A q \in Processors : Total(q) \in Nat /\ Len(Share[q]) \in Nat
    BY Counts DEF Inv, Total, ImagesEnd, HeaderEnd
<1>1. TypeOK'
    BY DEF Inv, TypeOK, WriteFrame, endVars, frameVars
<1>2. Flow'
    <2> SUFFICES ASSUME NEW q \in Processors
                 PROVE  /\ processed'[q] \in 0 .. Total(q)'
                        /\ delivered'[q] \in 0 .. processed'[q]
                        /\ written'[q] \in 0 .. Len(Share[q])
                        /\ reported'[q] \in 0 .. Published(q)'
                        /\ stopped'[q] => written'[q] = Len(Share[q])
                        /\ stopped'[q] => \A r \in Processors : reported'[r] > 0
        BY DEF Flow
    <2>1. /\ late' = late /\ delivered' = delivered /\ reported' = reported
          /\ Total(q)' = Total(q)
        BY DEF WriteFrame, endVars, frameVars, Total, ImagesEnd, HeaderEnd
    <2>2. /\ delivered \in [Processors -> Nat] /\ reported \in [Processors -> Nat]
          /\ processed \in [Processors -> Nat] /\ written \in [Processors -> Nat]
          /\ stopped \in [Processors -> BOOLEAN]
        BY DEF Inv, TypeOK
    <2>3. written'[q] \in written[q] .. Len(Share[q])
        BY <1>0, <2>2 DEF Inv, Flow, WriteFrame
    <2>5. stopped' = stopped /\ processed' = processed
        BY DEF WriteFrame
    <2>4. Published(q) \in Nat /\ Published(q)' \in Nat /\ Published(q)' >= Published(q)
        <3> DEFINE one == IF stopped[q] THEN 1 ELSE 0
        <3>1. one \in 0 .. 1
            OBVIOUS
        <3>2. Published(q) = 1 + written[q] + one
            BY DEF Published
        <3>3. Published(q)' = 1 + written'[q] + one
            BY <2>5 DEF Published
        <3>4. written[q] \in Nat /\ written'[q] \in Nat /\ written'[q] >= written[q]
            BY <1>0, <2>2, <2>3
        <3> HIDE DEF one
        <3> QED BY <3>1, <3>2, <3>3, <3>4
    <2>6. written'[q] \in 0 .. Len(Share[q]) /\ (stopped[q] => written'[q] = Len(Share[q]))
        BY <1>0, <2>2, <2>3 DEF Inv, Flow
    <2>7. reported[q] \in 0 .. Published(q)'
        BY <2>2, <2>4 DEF Inv, Flow
    <2> QED BY <2>1, <2>5, <2>6, <2>7 DEF Inv, Flow
<1>3. Registered'
    BY DEF Inv, Registered, WriteFrame, endVars, frameVars
<1>4. Waiting'
    BY DEF Inv, Waiting, WriteFrame, endVars, frameVars
<1>5. Joined'
    BY DEF Inv, Joined, DataCame, WriteCame, HeaderEnd, WriteFrame, endVars, frameVars
<1>6. Ending'
    BY DEF Inv, Ending, Total, ImagesEnd, HeaderEnd, WriteFrame, endVars, frameVars
<1> QED BY <1>1, <1>2, <1>3, <1>4, <1>5, <1>6 DEF Inv

\* The file writer stops.
LEMMA StopWritingKeeps ==
    ASSUME Inv, NEW p \in Processors, StopWriting(p)
    PROVE  Inv'
<1>0. \A q \in Processors : Total(q) \in Nat /\ Len(Share[q]) \in Nat
    BY Counts DEF Inv, Total, ImagesEnd, HeaderEnd
<1>1. TypeOK'
    BY DEF Inv, TypeOK, StopWriting, endVars, frameVars
<1>2. Flow'
    <2> SUFFICES ASSUME NEW q \in Processors
                 PROVE  /\ processed'[q] \in 0 .. Total(q)'
                        /\ delivered'[q] \in 0 .. processed'[q]
                        /\ written'[q] \in 0 .. Len(Share[q])
                        /\ reported'[q] \in 0 .. Published(q)'
                        /\ stopped'[q] => written'[q] = Len(Share[q])
                        /\ stopped'[q] => \A r \in Processors : reported'[r] > 0
        BY DEF Flow
    <2>1. /\ late' = late /\ delivered' = delivered /\ reported' = reported
          /\ Total(q)' = Total(q)
        BY DEF StopWriting, endVars, frameVars, Total, ImagesEnd, HeaderEnd
    <2>2. /\ delivered \in [Processors -> Nat] /\ reported \in [Processors -> Nat]
          /\ processed \in [Processors -> Nat] /\ written \in [Processors -> Nat]
          /\ stopped \in [Processors -> BOOLEAN]
        BY DEF Inv, TypeOK
    <2>3. Published(q) \in Nat /\ Published(q)' \in Nat /\ Published(q)' >= Published(q)
        BY <1>0, <2>2 DEF Published, StopWriting
    <2>4. reported[q] \in 0 .. Published(q)'
        BY <2>2, <2>3 DEF Inv, Flow
    <2>5. processed' = processed /\ written' = written
        BY DEF StopWriting
    <2>6. stopped'[q] => written[q] = Len(Share[q]) /\ \A r \in Processors : reported[r] > 0
        BY <2>2 DEF Inv, Flow, StopWriting
    <2> QED BY <2>1, <2>4, <2>5, <2>6 DEF Inv, Flow
<1>3. Registered'
    BY DEF Inv, Registered, StopWriting, endVars, frameVars
<1>4. Waiting'
    BY DEF Inv, Waiting, StopWriting, endVars, frameVars
<1>5. Joined'
    BY DEF Inv, Joined, DataCame, WriteCame, HeaderEnd, StopWriting, endVars, frameVars
<1>6. Ending'
    BY DEF Inv, Ending, Total, ImagesEnd, HeaderEnd, StopWriting, endVars, frameVars
<1> QED BY <1>1, <1>2, <1>3, <1>4, <1>5, <1>6 DEF Inv

\* An end of the earlier series: the file goes on.
LEMMA LateEndKeeps ==
    ASSUME Inv, NEW p \in Processors, LateEnd(p)
    PROVE  Inv'
<1>0. Plugin(p) /\ UNCHANGED frameVars
    BY DEF LateEnd, Plugin, handle_end, _series_valid, stop_when_writers_finished, StopIf, frameVars
<1>1. TypeOK'
    <2>1. /\ finished' \in BOOLEAN /\ file_open' \in BOOLEAN
          /\ _writers_finished' \in BOOLEAN /\ _detector_finished' \in BOOLEAN
        BY Zenon DEF Inv, TypeOK, LateEnd, Plugin, handle_end, _series_valid, stop_when_writers_finished, StopIf, frameVars
    <2>2. _processes_running' \subseteq Processors /\ global' \subseteq HeaderKinds \cup {"series"}
        BY DEF Inv, TypeOK, HeaderKinds, LateEnd, Plugin, handle_end, _series_valid, stop_when_writers_finished, StopIf, frameVars
    <2>3. UNCHANGED <<late, processed, written, stopped>> /\ UNCHANGED reported
        BY <1>0 DEF Plugin
    <2>4. _series' \in {_series, Series}
        BY DEF LateEnd, Plugin, handle_end, _series_valid, stop_when_writers_finished, StopIf, frameVars
    <2> QED BY <1>0, <2>1, <2>2, <2>3, <2>4, PluginFlow DEF Inv, TypeOK, frameVars
<1>2. Flow'
    BY <1>0, PluginFlow
<1>3. Registered'
    <2>1. /\ _series' = _series /\ late' = late /\ reported' = reported
        BY DEF LateEnd, Plugin, handle_end
    <2>2. finished' \/ (~finished /\ ~finished' /\ file_open' = file_open)
        BY Zenon DEF Inv, TypeOK, LateEnd, Plugin, handle_end, _series_valid, stop_when_writers_finished, StopIf, frameVars
    <2>3. \A q \in Processors : delivered'[q] > late[q] => delivered[q] > late[q]
        BY CountsNat, <1>0, PluginFlow DEF LateEnd
    <2> QED BY <2>1, <2>2, <2>3 DEF Inv, Registered
<1>4. Waiting'
    BY <1>0 DEF Inv, Waiting, frameVars
<1>5. Joined'
    BY <1>0, PluginJoined, CountsNat DEF LateEnd, HeaderEnd
<1>6. Ending'
    <2>1. _series # OldSeries
        BY MetaAssumption DEF Inv, TypeOK
    <2>2. UNCHANGED <<finished, _processes_running, _writers_finished, _detector_finished, reported>>
        BY <2>1 DEF LateEnd, Plugin, handle_end, _series_valid
    <2> QED BY <2>2, <1>0, PluginFlow DEF Inv, Ending
<1> QED BY <1>1, <1>2, <1>3, <1>4, <1>5, <1>6 DEF Inv

\* The first part of the header.
LEMMA FirstPartKeeps ==
    ASSUME Inv, NEW p \in Processors, FirstPart(p)
    PROVE  Inv'
<1>0. Plugin(p) /\ UNCHANGED frameVars
    BY DEF FirstPart, Plugin, endVars, frameVars
<1>1. TypeOK'
    <2>1. /\ finished' \in BOOLEAN /\ file_open' \in BOOLEAN
          /\ _writers_finished' \in BOOLEAN /\ _detector_finished' \in BOOLEAN
        BY Zenon DEF Inv, TypeOK, FirstPart, Plugin, endVars, frameVars
    <2>2. _processes_running' \subseteq Processors /\ global' \subseteq HeaderKinds \cup {"series"}
        BY DEF Inv, TypeOK, HeaderKinds, FirstPart, Plugin, endVars, frameVars
    <2>3. UNCHANGED <<late, processed, written, stopped>> /\ UNCHANGED reported
        BY <1>0 DEF Plugin
    <2>4. _series' \in {_series, Series}
        BY DEF FirstPart, Plugin, endVars, frameVars
    <2> QED BY <1>0, <2>1, <2>2, <2>3, <2>4, PluginFlow DEF Inv, TypeOK, frameVars
<1>2. Flow'
    BY <1>0, PluginFlow
<1>3. Registered'
    BY <1>0 DEF Inv, Registered, Plugin, FirstPart, endVars
<1>4. Waiting'
    BY <1>0 DEF Inv, Waiting, frameVars
<1>5. Joined'
    BY <1>0, PluginJoined, CountsNat DEF FirstPart, HeaderEnd
<1>6. Ending'
    BY <1>0, PluginFlow DEF Inv, Ending, Plugin, FirstPart, endVars
<1> QED BY <1>1, <1>2, <1>3, <1>4, <1>5, <1>6 DEF Inv

\* A further part of the header.
LEMMA LaterPartKeeps ==
    ASSUME Inv, NEW p \in Processors, LaterPart(p)
    PROVE  Inv'
<1>0. Plugin(p) /\ UNCHANGED frameVars
    BY DEF LaterPart, Plugin, handle_header_part, endVars, frameVars
<1>1. TypeOK'
    <2>1. /\ finished' \in BOOLEAN /\ file_open' \in BOOLEAN
          /\ _writers_finished' \in BOOLEAN /\ _detector_finished' \in BOOLEAN
        BY Zenon DEF Inv, TypeOK, LaterPart, Plugin, handle_header_part, endVars, frameVars
    <2>2. _processes_running' \subseteq Processors /\ global' \subseteq HeaderKinds \cup {"series"}
        BY DEF Inv, TypeOK, HeaderKinds, LaterPart, Plugin, handle_header_part, endVars, frameVars
    <2>3. UNCHANGED <<late, processed, written, stopped>> /\ UNCHANGED reported
        BY <1>0 DEF Plugin
    <2>4. _series' \in {_series, Series}
        BY DEF LaterPart, Plugin, handle_header_part, endVars, frameVars
    <2> QED BY <1>0, <2>1, <2>2, <2>3, <2>4, PluginFlow DEF Inv, TypeOK, frameVars
<1>2. Flow'
    BY <1>0, PluginFlow
<1>3. Registered'
    <2>1. UNCHANGED <<_series, file_open, finished, late, reported>>
        BY DEF LaterPart, Plugin, handle_header_part, endVars
    <2>2. \A q \in Processors : delivered'[q] > late[q] => delivered[q] > late[q]
        BY <1>0, PluginFlow DEF LaterPart
    <2> QED BY <2>1, <2>2 DEF Inv, Registered
<1>4. Waiting'
    BY <1>0 DEF Inv, Waiting, frameVars
<1>5. Joined'
    BY <1>0, PluginJoined, CountsNat DEF LaterPart, HeaderEnd
<1>6. Ending'
    <2>1. UNCHANGED endVars /\ UNCHANGED reported
        BY DEF LaterPart, Plugin, handle_header_part
    <2> QED BY <2>1, <1>0, PluginFlow DEF Inv, Ending, endVars
<1> QED BY <1>1, <1>2, <1>3, <1>4, <1>5, <1>6 DEF Inv

\* The end of this series.
LEMMA LastEndKeeps ==
    ASSUME Inv, NEW p \in Processors, LastEnd(p)
    PROVE  Inv'
<1>0. Plugin(p) /\ UNCHANGED frameVars
    BY DEF LastEnd, Plugin, handle_end, _series_valid, stop_when_writers_finished, StopIf, frameVars
<1>1. TypeOK'
    <2>1. /\ finished' \in BOOLEAN /\ file_open' \in BOOLEAN
          /\ _writers_finished' \in BOOLEAN /\ _detector_finished' \in BOOLEAN
        BY Zenon DEF Inv, TypeOK, LastEnd, Plugin, handle_end, _series_valid, stop_when_writers_finished, StopIf, frameVars
    <2>2. _processes_running' \subseteq Processors /\ global' \subseteq HeaderKinds \cup {"series"}
        BY DEF Inv, TypeOK, HeaderKinds, LastEnd, Plugin, handle_end, _series_valid, stop_when_writers_finished, StopIf, frameVars
    <2>3. UNCHANGED <<late, processed, written, stopped>> /\ UNCHANGED reported
        BY <1>0 DEF Plugin
    <2>4. _series' \in {_series, Series}
        BY DEF LastEnd, Plugin, handle_end, _series_valid, stop_when_writers_finished, StopIf, frameVars
    <2> QED BY <1>0, <2>1, <2>2, <2>3, <2>4, PluginFlow DEF Inv, TypeOK, frameVars
<1>2. Flow'
    BY <1>0, PluginFlow
<1>3. Registered'
    <2>1. delivered[p] > late[p]
        <3>1. delivered[p] + 1 = Total(p) /\ delivered[p] \in Nat
            BY CountsNat DEF LastEnd
        <3> QED BY <3>1, Counts, Stations DEF Inv
    <2>2. /\ _series' = _series /\ late' = late /\ reported' = reported
        BY DEF LastEnd, Plugin, handle_end
    <2>3. finished' \/ (~finished /\ ~finished' /\ file_open' = file_open)
        BY Zenon DEF Inv, TypeOK, LastEnd, Plugin, handle_end, _series_valid, stop_when_writers_finished, StopIf, frameVars
    <2>4. \A q \in Processors : delivered'[q] > late[q] => delivered[q] > late[q]
        BY <2>1, <1>0, PluginFlow
    <2> QED BY <2>2, <2>3, <2>4 DEF Inv, Registered
<1>4. Waiting'
    BY <1>0 DEF Inv, Waiting, frameVars
<1>5. Joined'
    BY <1>0, PluginJoined, CountsNat DEF LastEnd, HeaderEnd
<1>6. Ending'
    <2>1. delivered'[p] = Total(p)'
        BY <1>0, PluginFlow DEF LastEnd, Plugin, Total, ImagesEnd, HeaderEnd
    <2>2. reported' = reported /\ _processes_running' = _processes_running /\ _writers_finished' = _writers_finished
        BY DEF LastEnd, Plugin, handle_end, _series_valid, stop_when_writers_finished, StopIf, frameVars
    <2>3. finished' => _writers_finished /\ _detector_finished'
        BY Zenon DEF Inv, Ending, LastEnd, Plugin, handle_end, _series_valid, stop_when_writers_finished, StopIf, frameVars
    <2> QED BY <2>1, <2>2, <2>3 DEF Inv, Ending
<1> QED BY <1>1, <1>2, <1>3, <1>4, <1>5, <1>6 DEF Inv

\* The file writer's start.
LEMMA StartKeeps ==
    ASSUME Inv, NEW p \in Processors, Start(p)
    PROVE  Inv'
<1>0. Writer(p) /\ UNCHANGED frameVars
    BY DEF Start, Writer, handle_start_acquisition, frameVars
<1>1. TypeOK'
    <2>1. /\ finished' \in BOOLEAN /\ file_open' \in BOOLEAN
          /\ _writers_finished' \in BOOLEAN /\ _detector_finished' \in BOOLEAN
        BY Zenon DEF Inv, TypeOK, Start, Writer, handle_start_acquisition, frameVars
    <2>2. _processes_running' \subseteq Processors /\ global' \subseteq HeaderKinds \cup {"series"}
        BY DEF Inv, TypeOK, HeaderKinds, Start, Writer, handle_start_acquisition, frameVars
    <2>3. UNCHANGED <<late, processed, written, stopped>> /\ UNCHANGED delivered
        BY <1>0 DEF Writer
    <2>4. _series' \in {_series, Series}
        BY DEF Start, Writer, handle_start_acquisition, frameVars
    <2> QED BY <1>0, <2>1, <2>2, <2>3, <2>4, WriterFlow DEF Inv, TypeOK, frameVars
<1>2. Flow'
    BY <1>0, WriterFlow
<1>3. Registered'
    BY <1>0, WriterFlow DEF Inv, Registered, Start, Writer, handle_start_acquisition
<1>4. Waiting'
    BY <1>0 DEF Inv, Waiting, frameVars
<1>5. Joined'
    BY <1>0, WriterJoined, CountsNat DEF Start
<1>6. Ending'
    <2>1. \A q \in Processors : Len(Share[q]) \in Nat /\ reported[q] \in Nat
        BY Counts DEF Inv, TypeOK
    <2>2. \A q \in Processors :
              q \in _processes_running' <=> reported'[q] \in 1 .. Len(Share[q]) + 1
        BY <2>1, <1>0, WriterFlow DEF Inv, Ending, Start, handle_start_acquisition
    <2>3. ~_writers_finished
        BY <2>1 DEF Inv, Ending, Start
    <2> QED BY <2>2, <2>3 DEF Inv, Ending, Start, Writer, handle_start_acquisition,
                              Total, ImagesEnd, HeaderEnd
<1> QED BY <1>1, <1>2, <1>3, <1>4, <1>5, <1>6 DEF Inv

\* The file writer's stop.
LEMMA LastKeeps ==
    ASSUME Inv, NEW p \in Processors, Last(p)
    PROVE  Inv'
<1>0. Writer(p) /\ UNCHANGED frameVars
    BY DEF Last, Writer, handle_stop_acquisition, StopIf, frameVars
<1>1. TypeOK'
    <2>1. /\ finished' \in BOOLEAN /\ file_open' \in BOOLEAN
          /\ _writers_finished' \in BOOLEAN /\ _detector_finished' \in BOOLEAN
        BY Zenon DEF Inv, TypeOK, Last, Writer, handle_stop_acquisition, StopIf, frameVars
    <2>2. _processes_running' \subseteq Processors /\ global' \subseteq HeaderKinds \cup {"series"}
        BY DEF Inv, TypeOK, HeaderKinds, Last, Writer, handle_stop_acquisition, StopIf, frameVars
    <2>3. UNCHANGED <<late, processed, written, stopped>> /\ UNCHANGED delivered
        BY <1>0 DEF Writer
    <2>4. _series' \in {_series, Series}
        BY DEF Last, Writer, handle_stop_acquisition, StopIf, frameVars
    <2> QED BY <1>0, <2>1, <2>2, <2>3, <2>4, WriterFlow DEF Inv, TypeOK, frameVars
<1>2. Flow'
    BY <1>0, WriterFlow
<1>3. Registered'
    <2>1. \A q \in Processors : reported'[q] > 0 => reported[q] > 0
        BY CountsNat, <1>0, WriterFlow DEF Last
    <2>2. _series' = _series /\ late' = late /\ delivered' = delivered
        BY DEF Last, Writer
    <2>3. finished' \/ (~finished /\ ~finished' /\ file_open' = file_open)
        BY Zenon DEF Inv, TypeOK, Last, Writer, handle_stop_acquisition, StopIf
    <2> QED BY <2>1, <2>2, <2>3 DEF Inv, Registered
<1>4. Waiting'
    BY <1>0 DEF Inv, Waiting, frameVars
<1>5. Joined'
    BY <1>0, WriterJoined, CountsNat DEF Last
<1>6. Ending'
    <2>1. \A q \in Processors :
              /\ Len(Share[q]) \in Nat /\ reported[q] \in 1 .. Len(Share[q]) + 2
              /\ reported'[q] \in Nat
        <3>1. stopped[p] /\ \A q \in Processors : reported[q] > 0
            BY DEF Inv, Flow, Last
        <3>2. \A q \in Processors : written[q] \in 0 .. Len(Share[q]) /\ reported[q] \in 0 .. Published(q)
            BY DEF Inv, Flow
        <3>3. \A q \in Processors : Published(q) \in 0 .. Len(Share[q]) + 2
            BY <3>2, CountsNat DEF Published
        <3>4. \A q \in Processors : reported'[q] \in Nat
            BY <1>0, WriterFlow
        <3> QED BY <3>1, <3>2, <3>3, <3>4, CountsNat
    <2>2. \A q \in Processors :
              q \in _processes_running' <=> reported'[q] \in 1 .. Len(Share[q]) + 1
        BY <2>1, <1>0, WriterFlow DEF Inv, Ending, Last, handle_stop_acquisition
    <2>3. ~_writers_finished
        BY <2>1 DEF Inv, Ending, Last
    <2>4. _processes_running' = {} => \A q \in Processors : reported'[q] = Len(Share[q]) + 2
        BY <2>1, <2>2, <1>0, WriterFlow DEF Last
    <2>5. _writers_finished' => _processes_running' = {}
        BY <2>3 DEF Last, handle_stop_acquisition
    <2>6. finished' => _writers_finished' /\ _detector_finished'
        BY DEF Last, Writer, handle_stop_acquisition, StopIf
    <2>7. _detector_finished' = _detector_finished /\ delivered' = delivered
          /\ \A q \in Processors : Total(q)' = Total(q)
        BY DEF Last, Writer, handle_stop_acquisition, Total, ImagesEnd, HeaderEnd
    <2> QED BY <2>2, <2>4, <2>5, <2>6, <2>7 DEF Inv, Ending
<1> QED BY <1>1, <1>2, <1>3, <1>4, <1>5, <1>6 DEF Inv

\* What Joined says of one frame.
Half(p, i) ==
    LET f == Share[p][i] IN
    /\ OffsetOf[f] \in DOMAIN table <=> DataCame(p, i) /\ WriteCame(p, i)
    /\ OffsetOf[f] \in DOMAIN table => table[OffsetOf[f]] = Datum(f)
    /\ f \in DOMAIN _frame_data_map <=> DataCame(p, i) /\ ~WriteCame(p, i)
    /\ f \in DOMAIN _frame_offset_map <=> ~DataCame(p, i) /\ WriteCame(p, i)

\* An image's meta data: its offset has come, or it waits for it.
LEMMA ImageStep ==
    ASSUME Inv, NEW p \in Processors, NEW j \in 1 .. Len(Share[p]), Image(p, j),
           NEW f, f = Share[p][j]
    PROVE  /\ delivered[p] > late[p] /\ ~DataCame(p, j)
           /\ f \in Frames /\ OffsetOf[f] \in Nat
           /\ f \notin DOMAIN _frame_data_map /\ OffsetOf[f] \notin DOMAIN table
           /\ UNCHANGED <<_series, file_open, endVars, global>>
           /\ \/ /\ f \in DOMAIN _frame_offset_map
                 /\ table' = Put(table, OffsetOf[f], Datum(f))
                 /\ _frame_offset_map' = Pop(_frame_offset_map, f)
                 /\ _frame_data_map' = _frame_data_map
              \/ /\ f \notin DOMAIN _frame_offset_map
                 /\ _frame_data_map' = Put(_frame_data_map, f, Datum(f))
                 /\ _frame_offset_map' = _frame_offset_map
                 /\ table' = table
<1>1. f \in Frames /\ OffsetOf[f] \in Nat
    BY Distinct
<1>2. delivered[p] > late[p] /\ ~DataCame(p, j)
    BY CountsNat DEF Image, DataCame, HeaderEnd
<1>3. _series = Series
    BY <1>2 DEF Inv, Registered
<1>4. f \notin DOMAIN _frame_data_map /\ OffsetOf[f] \notin DOMAIN table
    BY <1>2 DEF Inv, Joined
<1> QED BY <1>1, <1>2, <1>3, <1>4
        DEF Inv, Waiting, Image, handle_image_data, _series_valid, Datum

LEMMA ImageKeeps ==
    ASSUME Inv, NEW p \in Processors, NEW j \in 1 .. Len(Share[p]), Image(p, j)
    PROVE  Inv'
<1> DEFINE f == Share[p][j]
<1>0. Plugin(p) /\ delivered[p] + 1 = HeaderEnd(p) + j
    BY DEF Image
<1>a. /\ f \in Frames /\ delivered[p] > late[p] /\ ~DataCame(p, j)
      /\ f \notin DOMAIN _frame_data_map /\ OffsetOf[f] \notin DOMAIN table
    BY ImageStep
<1>d. Half(p, j)
    BY DEF Inv, Joined, Half
<1>f. /\ UNCHANGED <<_series, file_open, endVars, global>>
      /\ \/ /\ f \in DOMAIN _frame_offset_map
            /\ table' = Put(table, OffsetOf[f], Datum(f))
            /\ _frame_offset_map' = Pop(_frame_offset_map, f)
            /\ _frame_data_map' = _frame_data_map
         \/ /\ f \notin DOMAIN _frame_offset_map
            /\ _frame_data_map' = Put(_frame_data_map, f, Datum(f))
            /\ _frame_offset_map' = _frame_offset_map
            /\ table' = table
    BY ImageStep
<1>1. TypeOK'
    <2>1. /\ DOMAIN _frame_data_map' \subseteq Frames
          /\ DOMAIN _frame_offset_map' \subseteq Frames
          /\ DOMAIN table' \subseteq {OffsetOf[g] : g \in Frames}
        BY <1>a, <1>f DEF Put, Pop, Inv, TypeOK
    <2> QED BY <2>1, <1>0, <1>f, PluginFlow DEF Inv, TypeOK, Plugin, endVars
<1>2. Flow'
    BY <1>0, PluginFlow
<1>3. Registered'
    <2>1. \A q \in Processors : delivered'[q] > late[q] => delivered[q] > late[q]
        BY <1>0, <1>a, PluginFlow
    <2> QED BY <2>1, <1>0, <1>f DEF Inv, Registered, Plugin, endVars
<1>4. Waiting'
    BY <1>f DEF Put, Pop, Inv, Waiting, Datum
<1>5. Joined'
    <2> SUFFICES ASSUME NEW q \in Processors, NEW i \in 1 .. Len(Share[q])
                 PROVE  Half(q, i)'
        BY DEF Joined, Half
    <2>1. WriteCame(q, i)' <=> WriteCame(q, i)
        BY <1>0 DEF Plugin, WriteCame
    <2>2. Half(q, i)
        BY DEF Inv, Joined, Half
    <2>3. CASE q = p /\ i = j
        <3>1. DataCame(p, j)'
            <4>1. HeaderEnd(p)' = HeaderEnd(p) /\ HeaderEnd(p) \in Nat
                BY <1>0, CountsNat DEF Plugin, HeaderEnd
            <4> QED BY <4>1, <1>0, PluginFlow DEF DataCame
        <3> QED BY <2>1, <2>3, <3>1, <1>a, <1>d, <1>f DEF Put, Pop, Half
    <2>4. CASE ~(q = p /\ i = j)
        <3>1. DataCame(q, i)' <=> DataCame(q, i)
            <4>1. HeaderEnd(q)' = HeaderEnd(q) /\ HeaderEnd(q) \in Nat
                BY <1>0, CountsNat DEF Plugin, HeaderEnd
            <4>2. CASE q # p
                BY <4>1, <4>2, <1>0, PluginFlow DEF DataCame
            <4>3. CASE q = p
                BY <4>1, <4>3, <2>4, <1>0, PluginFlow, CountsNat DEF DataCame
            <4> QED BY <4>2, <4>3
        <3>2. Share[q][i] # f /\ OffsetOf[Share[q][i]] # OffsetOf[f]
            BY <2>4, Distinct
        <3> QED BY <2>1, <2>2, <3>1, <3>2, <1>f DEF Put, Pop, Half
    <2> QED BY <2>3, <2>4
<1>6. Ending'
    <2>1. UNCHANGED <<reported, endVars>>
        BY <1>0, <1>f DEF Plugin
    <2> QED BY <2>1, <1>0, PluginFlow DEF Inv, Ending, endVars
<1> QED BY <1>1, <1>2, <1>3, <1>4, <1>5, <1>6 DEF Inv

\* An image is reported written: its meta data has come, or its offset waits.
LEMMA WriteStep ==
    ASSUME Inv, NEW p \in Processors, NEW j \in 1 .. Len(Share[p]), Write(p, j),
           NEW f, f = Share[p][j]
    PROVE  /\ ~WriteCame(p, j)
           /\ f \in Frames /\ OffsetOf[f] \in Nat
           /\ f \notin DOMAIN _frame_offset_map /\ OffsetOf[f] \notin DOMAIN table
           /\ UNCHANGED <<file_open, endVars>>
           /\ \/ /\ f \in DOMAIN _frame_data_map
                 /\ table' = Put(table, OffsetOf[f], Datum(f))
                 /\ _frame_data_map' = Pop(_frame_data_map, f)
                 /\ _frame_offset_map' = _frame_offset_map
              \/ /\ f \notin DOMAIN _frame_data_map
                 /\ _frame_offset_map' = Put(_frame_offset_map, f, OffsetOf[f])
                 /\ _frame_data_map' = _frame_data_map
                 /\ table' = table
<1>1. f \in Frames /\ OffsetOf[f] \in Nat
    BY Distinct
<1>2. ~WriteCame(p, j)
    BY DEF Write, WriteCame
<1>3. f \notin DOMAIN _frame_offset_map /\ OffsetOf[f] \notin DOMAIN table
    BY <1>2 DEF Inv, Joined
<1> QED BY <1>1, <1>2, <1>3 DEF Inv, Waiting, Write, handle_write_frame

LEMMA WriteKeeps ==
    ASSUME Inv, NEW p \in Processors, NEW j \in 1 .. Len(Share[p]), Write(p, j)
    PROVE  Inv'
<1> DEFINE f == Share[p][j]
<1>0. Writer(p) /\ reported[p] = j
    BY DEF Write
<1>a. /\ f \in Frames /\ ~WriteCame(p, j)
      /\ f \notin DOMAIN _frame_offset_map /\ OffsetOf[f] \notin DOMAIN table
    BY WriteStep
<1>d. Half(p, j)
    BY DEF Inv, Joined, Half
<1>f. /\ UNCHANGED <<file_open, endVars>>
      /\ \/ /\ f \in DOMAIN _frame_data_map
            /\ table' = Put(table, OffsetOf[f], Datum(f))
            /\ _frame_data_map' = Pop(_frame_data_map, f)
            /\ _frame_offset_map' = _frame_offset_map
         \/ /\ f \notin DOMAIN _frame_data_map
            /\ _frame_offset_map' = Put(_frame_offset_map, f, OffsetOf[f])
            /\ _frame_data_map' = _frame_data_map
            /\ table' = table
    BY WriteStep
<1>1. TypeOK'
    <2>1. /\ DOMAIN _frame_data_map' \subseteq Frames
          /\ DOMAIN _frame_offset_map' \subseteq Frames
          /\ DOMAIN table' \subseteq {OffsetOf[g] : g \in Frames}
        BY <1>a, <1>f DEF Put, Pop, Inv, TypeOK
    <2> QED BY <2>1, <1>0, <1>f, WriterFlow DEF Inv, TypeOK, Writer, endVars
<1>2. Flow'
    BY <1>0, WriterFlow
<1>3. Registered'
    <2>1. \A q \in Processors : reported'[q] > 0 => reported[q] > 0
        BY <1>0, WriterFlow
    <2> QED BY <2>1, <1>0, <1>f DEF Inv, Registered, Writer, endVars
<1>4. Waiting'
    BY <1>f DEF Put, Pop, Inv, Waiting, Datum
<1>5. Joined'
    <2> SUFFICES ASSUME NEW q \in Processors, NEW i \in 1 .. Len(Share[q])
                 PROVE  Half(q, i)'
        BY DEF Joined, Half
    <2>1. DataCame(q, i)' <=> DataCame(q, i)
        BY <1>0 DEF Writer, DataCame, HeaderEnd
    <2>2. Half(q, i)
        BY DEF Inv, Joined, Half
    <2>3. CASE q = p /\ i = j
        <3>1. WriteCame(p, j)'
            BY <1>0, WriterFlow DEF WriteCame
        <3> QED BY <2>1, <2>3, <3>1, <1>a, <1>d, <1>f DEF Put, Pop, Half
    <2>4. CASE ~(q = p /\ i = j)
        <3>1. WriteCame(q, i)' <=> WriteCame(q, i)
            <4>1. CASE q # p
                BY <4>1, <1>0, WriterFlow DEF WriteCame
            <4>2. CASE q = p
                BY <4>2, <2>4, <1>0, WriterFlow DEF WriteCame
            <4> QED BY <4>1, <4>2
        <3>2. Share[q][i] # f /\ OffsetOf[Share[q][i]] # OffsetOf[f]
            BY <2>4, Distinct
        <3> QED BY <2>1, <2>2, <3>1, <3>2, <1>f DEF Put, Pop, Half
    <2> QED BY <2>3, <2>4
<1>6. Ending'
    <2>1. UNCHANGED <<delivered, endVars>> /\ \A q \in Processors : Total(q)' = Total(q)
        BY <1>0, <1>f DEF Writer, Total, ImagesEnd, HeaderEnd
    <2>2. \A q \in Processors :
              reported'[q] \in 1 .. Len(Share[q]) + 1 <=> reported[q] \in 1 .. Len(Share[q]) + 1
        <3> SUFFICES ASSUME NEW q \in Processors
                     PROVE  reported'[q] \in 1 .. Len(Share[q]) + 1
                              <=> reported[q] \in 1 .. Len(Share[q]) + 1
            OBVIOUS
        <3>1. CASE q # p
            BY <3>1, <1>0, WriterFlow
        <3>2. CASE q = p
            <4>1. reported'[p] = j + 1 /\ reported[p] = j
                BY <1>0, WriterFlow DEF Write
            <4>2. j \in 1 .. Len(Share[p]) /\ Len(Share[p]) \in Nat
                BY CountsNat
            <4> QED BY <3>2, <4>1, <4>2
        <3> QED BY <3>1, <3>2
    <2>3. ~_writers_finished
        BY <1>0, CountsNat DEF Inv, Ending
    <2> QED BY <2>1, <2>2, <2>3 DEF Inv, Ending, endVars
<1> QED BY <1>1, <1>2, <1>3, <1>4, <1>5, <1>6 DEF Inv

-----------------------------------------------------------------------------
(***************************************************************************)
(* The theorems                                                            *)
(***************************************************************************)

LEMMA InitInv == Init => Inv
<1> SUFFICES ASSUME Init PROVE Inv
    OBVIOUS
<1>1. TypeOK
    BY MetaAssumption DEF Init, TypeOK, Empty
<1>2. \A p \in Processors : Total(p) \in Nat /\ Len(Share[p]) \in Nat /\ late[p] \in Nat
                            /\ HeaderEnd(p) \in Nat
    BY <1>1, Counts DEF Total, ImagesEnd, HeaderEnd
<1>3. Flow
    BY <1>2 DEF Init, Flow, Published
<1>4. Registered /\ Waiting
    BY <1>2 DEF Init, Registered, Waiting, Empty
<1>5. Joined
    <2> SUFFICES ASSUME NEW p \in Processors, NEW i \in 1 .. Len(Share[p])
                 PROVE  Half(p, i)
        BY DEF Joined, Half
    <2>1. ~DataCame(p, i) /\ ~WriteCame(p, i)
        BY <1>2 DEF Init, DataCame, WriteCame
    <2> QED BY <2>1 DEF Init, Empty, Half
<1>6. Ending
    BY <1>2 DEF Init, Ending
<1> QED BY <1>1, <1>3, <1>4, <1>5, <1>6 DEF Inv

LEMMA NextInv == Inv /\ [Next]_vars => Inv'
<1> SUFFICES ASSUME Inv, [Next]_vars PROVE Inv'
    OBVIOUS
<1>1. ASSUME NEW p \in Processors, Step(p) PROVE Inv'
    <2>1. CASE ProcessFrame(p)
        BY <2>1, ProcessFrameKeeps
    <2>2. CASE WriteFrame(p)
        BY <2>2, WriteFrameKeeps
    <2>3. CASE StopWriting(p)
        BY <2>3, StopWritingKeeps
    <2>4. CASE HandlePlugin(p)
        BY <2>4, PluginCases, LateEndKeeps, FirstPartKeeps, LaterPartKeeps,
           ImageKeeps, LastEndKeeps DEF Inv
    <2>5. CASE HandleWriter(p)
        BY <2>5, WriterCases, StartKeeps, WriteKeeps, LastKeeps DEF Inv
    <2> QED BY <1>1, <2>1, <2>2, <2>3, <2>4, <2>5 DEF Step
<1>2. CASE UNCHANGED vars
    BY <1>2 DEF Inv, TypeOK, Flow, Registered, Waiting, Joined, Ending, DataCame,
                WriteCame, Total, ImagesEnd, HeaderEnd, Published, vars,
                processorVars, endVars, frameVars
<1> QED BY <1>1, <1>2 DEF Next

LEMMA InvAlways == Spec => []Inv
BY InitInv, NextInv, PTL DEF Spec

\* The state has its types: among them that no series but this one is ever
\* registered, and that every row is at the offset of a frame.
THEOREM TypeCorrect == Spec => []TypeOK
BY InvAlways, PTL DEF Inv

\* The two halves of every frame are joined, in whichever order they come.
THEOREM JoinedAlways == Spec => []Joined
BY InvAlways, PTL DEF Inv

\* A file that is closed is complete up to plugins that lag behind.
THEOREM CompleteAlways == Spec => []Complete
<1>1. Inv => Complete
    <2> SUFFICES ASSUME Inv, finished PROVE Complete
        BY DEF Complete
    <2>1. /\ \A p \in Processors : reported[p] = Len(Share[p]) + 2
          /\ \E p \in Processors : delivered[p] = Total(p)
        BY DEF Inv, Ending
    <2>2. ASSUME NEW p \in Processors, delivered[p] = Total(p),
                 NEW i \in 1 .. Len(Share[p])
          PROVE  OffsetOf[Share[p][i]] \in DOMAIN table
        <3>1. DataCame(p, i) /\ WriteCame(p, i)
            <4>1. /\ Len(Share[p]) \in Nat /\ HeaderEnd(p) \in Nat
                  /\ Total(p) = HeaderEnd(p) + Len(Share[p]) + 1
                BY CountsNat, Stations DEF Inv
            <4>2. reported[p] = Len(Share[p]) + 2
                BY <2>1
            <4> QED BY <2>2, <4>1, <4>2 DEF DataCame, WriteCame
        <3> QED BY <3>1 DEF Inv, Joined
    <2> QED BY <2>1, <2>2 DEF Complete
<1> QED BY <1>1, InvAlways, PTL

\* What a message does to the file: a row that was not there, with the frame's
\* own meta data at its own offset, or nothing; a dataset of the header.
LEMMA FileStep ==
    ASSUME Inv, NEW p \in Processors, Step(p)
    PROVE  /\ table' # table =>
                  \E f \in Frames :
                      /\ OffsetOf[f] \notin DOMAIN table
                      /\ table' = Put(table, OffsetOf[f], Datum(f))
                      /\ ~finished /\ finished' = finished
           /\ table' # table \/ global' # global => file_open'
           /\ finished => finished'
<1>1. CASE ProcessFrame(p) \/ WriteFrame(p) \/ StopWriting(p)
    BY <1>1 DEF ProcessFrame, WriteFrame, StopWriting, endVars, frameVars
<1>2. CASE HandlePlugin(p)
    <2>0. ~finished
        BY <1>2 DEF HandlePlugin
    <2>1. CASE LateEnd(p) \/ LastEnd(p)
        BY <2>0, <2>1 DEF LateEnd, LastEnd, handle_end, frameVars
    <2>2. CASE FirstPart(p)
        BY <2>0, <2>2 DEF FirstPart, frameVars
    <2>3. CASE LaterPart(p)
        <3>1. file_open /\ UNCHANGED <<file_open, finished, table>>
            BY <2>0, <2>3 DEF Inv, Registered, LaterPart, handle_header_part, endVars, frameVars
        <3> QED BY <2>0, <3>1
    <2>4. ASSUME NEW j \in 1 .. Len(Share[p]), Image(p, j)
          PROVE  /\ table' # table =>
                        \E f \in Frames :
                            /\ OffsetOf[f] \notin DOMAIN table
                            /\ table' = Put(table, OffsetOf[f], Datum(f))
                            /\ ~finished /\ finished' = finished
                 /\ table' # table \/ global' # global => file_open'
        <3>1. file_open
            BY <2>0, <2>4, ImageStep DEF Inv, Registered
        <3> QED BY <2>0, <2>4, <3>1, ImageStep DEF endVars
    <2> QED BY <1>2, <2>0, <2>1, <2>2, <2>3, <2>4, PluginCases DEF Inv
<1>3. CASE HandleWriter(p)
    <2>0. ~finished /\ global' = global
        BY <1>3 DEF HandleWriter
    <2>1. CASE Start(p) \/ Last(p)
        BY <2>0, <2>1 DEF Start, Last, handle_start_acquisition, handle_stop_acquisition,
                          frameVars
    <2>2. ASSUME NEW j \in 1 .. Len(Share[p]), Write(p, j)
          PROVE  /\ table' # table =>
                        \E f \in Frames :
                            /\ OffsetOf[f] \notin DOMAIN table
                            /\ table' = Put(table, OffsetOf[f], Datum(f))
                            /\ ~finished /\ finished' = finished
                 /\ table' # table \/ global' # global => file_open'
        <3>1. file_open
            BY <2>0, <2>2, CountsNat DEF Inv, Registered, Write
        <3> QED BY <2>0, <2>2, <3>1, WriteStep DEF endVars
    <2> QED BY <1>3, <2>0, <2>1, <2>2, WriterCases DEF Inv
<1> QED BY <1>1, <1>2, <1>3 DEF Step

\* Nothing is written to a file that is not open.
THEOREM WrittenWhenOpenAlways == Spec => WrittenWhenOpen
<1>1. Inv /\ [Next]_vars => [table' # table \/ global' # global => file_open']_vars
    BY FileStep DEF Next
<1> QED BY <1>1, InvAlways, PTL DEF Spec, WrittenWhenOpen

\* The meta writer implements the table of rows that are filled once.
THEOREM TableImplemented == Spec => ImplementsTable
<1>1. Init => Rows!TableInit
    BY DEF Init, Rows!TableInit, Empty, Rows!Empty
<1>2. Inv /\ [Next]_vars => [Rows!TableNext]_(Rows!tableVars)
    <2> SUFFICES ASSUME Inv, [Next]_vars
                 PROVE  [Rows!TableNext]_(Rows!tableVars)
        OBVIOUS
    <2>1. CASE UNCHANGED vars
        BY <2>1 DEF vars, endVars, frameVars, Rows!tableVars
    <2>2. ASSUME NEW p \in Processors, Step(p)
          PROVE  [Rows!TableNext]_(Rows!tableVars)
        <3>1. CASE table' # table
            <4>1. PICK f \in Frames :
                      /\ OffsetOf[f] \notin DOMAIN table
                      /\ table' = Put(table, OffsetOf[f], Datum(f))
                      /\ ~finished /\ finished' = finished
                BY <2>2, <3>1, FileStep
            <4>2. Rows!FillRow(f)
                BY <4>1 DEF Rows!FillRow, Rows!Filled, Put, Datum
            <4> QED BY <4>2 DEF Rows!TableNext
        <3>2. CASE table' = table
            <4>1. finished' = finished \/ (~finished /\ finished' = TRUE)
                BY <2>2, FileStep, NextInv DEF Inv, TypeOK, Next
            <4> QED BY <3>2, <4>1 DEF Rows!TableNext, Rows!Close, Rows!tableVars
        <3> QED BY <3>1, <3>2
    <2> QED BY <2>1, <2>2 DEF Next
<1> QED BY <1>1, <1>2, InvAlways, PTL DEF Spec, ImplementsTable, Rows!TableSpec

=============================================================================
