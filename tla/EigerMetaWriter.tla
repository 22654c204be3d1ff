--------------------------- MODULE EigerMetaWriter ---------------------------
(***************************************************************************)
(* The meta data of one acquisition: the EigerProcessPlugin of every frame *)
(* processor publishes one message for each frame it gets and pushes the   *)
(* images on to the file writer; the EigerMetaWriter of the acquisition    *)
(* joins what all of them publish into one file.                           *)
(*                                                                         *)
(* Two streams of messages reach the writer from every processor, the      *)
(* plugin's and the file writer's, each in order.  Nothing orders one      *)
(* against the other, nor one processor against another, so that a stream  *)
(* is a pair of cursors: how much is published and how much is handled.    *)
(*                                                                         *)
(* External, modelled from how src/ uses them: the file writer, and the    *)
(* odin-data base class MetaWriter with its flags, its two maps and its    *)
(* handlers of startacquisition, writeframe and stopacquisition.           *)
(***************************************************************************)
EXTENDS Naturals, Sequences, FiniteSets

CONSTANTS
    Processors,   \* frame processors, each an endpoint of the meta listener
    Frames,       \* frame numbers of the series
    Share,        \* the frames each processor gets from the fan, in order
    OffsetOf,     \* the offset at which the file writers put a frame
    Header,       \* the kinds of the frames of the global header, in order
    Series,       \* the series of this acquisition
    OldSeries,    \* an earlier series under the same acquisition ID
    NoSeries,     \* None
    MaxLate       \* bound: end messages of the earlier series still to come

HeaderKinds ==
    {"globalnone", "globalconfig", "flatfield", "mask", "countrate", "headerappendix"}

ASSUME MetaAssumption ==
    /\ IsFiniteSet(Processors) /\ Processors # {}
    /\ Frames \subseteq Nat
    /\ Share \in [Processors -> Seq(Frames)]
    /\ \A f \in Frames : \E p \in Processors : \E i \in 1 .. Len(Share[p]) :
           Share[p][i] = f
    /\ \A p, q \in Processors :
           \A i \in 1 .. Len(Share[p]), j \in 1 .. Len(Share[q]) :
               Share[p][i] = Share[q][j] => p = q /\ i = j
    /\ OffsetOf \in [Frames -> Nat]
    /\ \A f, g \in Frames : OffsetOf[f] = OffsetOf[g] => f = g
    /\ Header \in Seq(HeaderKinds) /\ Header # <<>>
    /\ Header[1] \in {"globalnone", "globalconfig"}
    /\ \A i \in 2 .. Len(Header) : Header[i] \notin {"globalnone", "globalconfig"}
    /\ Series # OldSeries /\ NoSeries \notin {Series, OldSeries}
    /\ MaxLate \in Nat

VARIABLES
    \* per frame processor
    late,       \* end messages of the earlier series that come first
    processed,  \* frames the EigerProcessPlugin has processed and published
    delivered,  \* of these messages, the number the meta writer has handled
    written,    \* images the file writer has written and published
    stopped,    \* whether the file writer has published its stop
    reported,   \* of the file writer's messages, the number handled
    \* the meta writer
    _series, file_open, finished,
    _processes_running, _writers_finished, _detector_finished,
    _frame_data_map,    \* meta data by frame, until the frame is written
    _frame_offset_map,  \* offset by frame, until its meta data comes
    table,              \* the datasets with a value per frame, by offset
    global              \* the datasets of the global header that are written

processorVars == <<late, processed, delivered, written, stopped, reported>>
endVars == <<finished, _processes_running, _writers_finished, _detector_finished>>
frameVars == <<_frame_data_map, _frame_offset_map, table>>
vars == <<processorVars, _series, file_open, endVars, frameVars, global>>

\* A mapping with a further or another entry, and one without it.
Put(map, key, value) ==
    [k \in DOMAIN map \cup {key} |-> IF k = key THEN value ELSE map[k]]
Pop(map, key) == [k \in DOMAIN map \ {key} |-> map[k]]
Empty == [k \in {} |-> 0]

Init ==
    /\ late \in [Processors -> 0 .. MaxLate]
    /\ processed = [p \in Processors |-> 0]
    /\ delivered = [p \in Processors |-> 0]
    /\ written = [p \in Processors |-> 0]
    /\ stopped = [p \in Processors |-> FALSE]
    /\ reported = [p \in Processors |-> 0]
    /\ _series = NoSeries
    /\ file_open = FALSE
    /\ finished = FALSE
    /\ _processes_running = {}
    /\ _writers_finished = FALSE
    /\ _detector_finished = FALSE
    /\ _frame_data_map = Empty
    /\ _frame_offset_map = Empty
    /\ table = Empty
    /\ global = {}

-----------------------------------------------------------------------------
(***************************************************************************)
(* The frames of a processor                                               *)
(***************************************************************************)

\* Ends of the earlier series, the global header, its images, the end.
HeaderEnd(p) == late[p] + Len(Header)
ImagesEnd(p) == HeaderEnd(p) + Len(Share[p])
Total(p) == ImagesEnd(p) + 1

KindAt(p, i) ==
    CASE i <= late[p] -> "end"
      [] i > late[p] /\ i <= HeaderEnd(p) -> Header[i - late[p]]
      [] i > HeaderEnd(p) /\ i <= ImagesEnd(p) -> "imagedata"
      [] i > ImagesEnd(p) -> "end"

SeriesAt(p, i) == IF i <= late[p] THEN OldSeries ELSE Series
FrameAt(p, i) == Share[p][i - HeaderEnd(p)]

\* EigerProcessPlugin::process_frame publishes one message for a frame, with
\* the fields of the frame's own header, and pushes an image to the file writer.
ProcessFrame(p) ==
    /\ processed[p] < Total(p)
    /\ processed' = [processed EXCEPT ![p] = @ + 1]
    /\ UNCHANGED <<late, delivered, written, stopped, reported, _series,
                   file_open, endVars, frameVars, global>>

\* The file writer: startacquisition has been published before the detector is
\* armed; the images follow as they are pushed, and stopacquisition after the
\* last one.  A start takes less time to arrive than an acquisition takes.
WriteFrame(p) ==
    /\ written[p] < Len(Share[p])
    /\ HeaderEnd(p) + written[p] < processed[p]
    /\ written' = [written EXCEPT ![p] = @ + 1]
    /\ UNCHANGED <<late, processed, delivered, stopped, reported, _series,
                   file_open, endVars, frameVars, global>>

StopWriting(p) ==
    /\ written[p] = Len(Share[p])
    /\ ~stopped[p]
    /\ \A q \in Processors : reported[q] > 0
    /\ stopped' = [stopped EXCEPT ![p] = TRUE]
    /\ UNCHANGED <<late, processed, delivered, written, reported, _series,
                   file_open, endVars, frameVars, global>>

Published(p) == 1 + written[p] + (IF stopped[p] THEN 1 ELSE 0)

-----------------------------------------------------------------------------
(***************************************************************************)
(* The handlers of EigerMetaWriter                                         *)
(***************************************************************************)
Datum(f) == [series |-> Series, frame |-> f]

\* The base class closes the file and counts as finished once both the detector
\* and every writer have: whoever is second stops it.
StopIf(both) ==
    /\ finished' = (finished \/ both)
    /\ file_open' = (file_open /\ ~both)

\* The mutant does not wait for the writers.
StopAtOnce ==
    /\ _detector_finished' = TRUE
    /\ StopIf(TRUE)
    /\ UNCHANGED _writers_finished

stop_when_writers_finished ==
    /\ _detector_finished' = TRUE
    /\ StopIf(_writers_finished)
    /\ UNCHANGED _writers_finished

\* Two slips: the file is left to the writers' start, and the series is not
\* registered.
FileOfTheWriters(series) ==
    /\ _series' = series
    /\ UNCHANGED file_open

FileOnly(series) ==
    /\ file_open' = TRUE
    /\ UNCHANGED _series

\* The file is created here if no writer has started; the series is the one to
\* expect from now on, and it is written.
RegisterSeries(series) ==
    /\ file_open' = TRUE
    /\ _series' = series

handle_global_header_none(series) ==
    /\ RegisterSeries(series)
    /\ global' = global \cup {"series"}
    /\ UNCHANGED <<endVars, frameVars>>

handle_global_header_config(series) ==
    /\ RegisterSeries(series)
    /\ global' = global \cup {"series", "globalconfig"}
    /\ UNCHANGED <<endVars, frameVars>>

\* Flatfield, mask, count rate table and appendix: a dataset each.
handle_header_part(kind) ==
    /\ global' = global \cup {kind}
    /\ UNCHANGED <<_series, file_open, endVars, frameVars>>

_series_valid(series) == _series = series

\* Two slips: the offset that has come is kept when used, and is not used.
ImageDataNotPopped(series, f) ==
    /\ IF f \in DOMAIN _frame_offset_map
       THEN table' = Put(table, _frame_offset_map[f], Datum(f)) /\ UNCHANGED _frame_data_map
       ELSE _frame_data_map' = Put(_frame_data_map, f, Datum(f)) /\ UNCHANGED table
    /\ UNCHANGED <<_series, file_open, endVars, _frame_offset_map, global>>

ImageDataAtFrame(series, f) ==
    /\ IF f \in DOMAIN _frame_offset_map
       THEN /\ table' = Put(table, f, Datum(f))
            /\ _frame_offset_map' = Pop(_frame_offset_map, f)
            /\ UNCHANGED _frame_data_map
       ELSE /\ _frame_data_map' = Put(_frame_data_map, f, Datum(f))
            /\ UNCHANGED <<_frame_offset_map, table>>
    /\ UNCHANGED <<_series, file_open, endVars, global>>

\* The frame is written already: its offset is known.  Otherwise its data waits
\* for the file writer.
handle_image_data(series, f) ==
    /\ IF ~_series_valid(series) THEN UNCHANGED frameVars
       ELSE IF f \in DOMAIN _frame_offset_map
       THEN /\ table' = Put(table, _frame_offset_map[f],
                            [series |-> series, frame |-> f])
            /\ _frame_offset_map' = Pop(_frame_offset_map, f)
            /\ UNCHANGED _frame_data_map
       ELSE /\ _frame_data_map' = Put(_frame_data_map, f,
                                      [series |-> series, frame |-> f])
            /\ UNCHANGED <<_frame_offset_map, table>>
    /\ UNCHANGED <<_series, file_open, endVars, global>>

\* The mutant takes any end for the end of this acquisition.
EndOfAnySeries(series) ==
    /\ stop_when_writers_finished
    /\ UNCHANGED <<_series, _processes_running, frameVars, global>>

handle_end(series) ==
    /\ IF _series_valid(series) THEN stop_when_writers_finished
       ELSE UNCHANGED <<finished, file_open, _writers_finished, _detector_finished>>
    /\ UNCHANGED <<_series, _processes_running, frameVars, global>>

\* The writer handles the next message of processor p's plugin.  Once it has
\* finished, the meta listener hands it nothing more.
HandlePlugin(p) ==
    LET i == delivered[p] + 1
        kind == KindAt(p, i)
        series == SeriesAt(p, i) IN
    /\ ~finished
    /\ delivered[p] < processed[p]
    /\ delivered' = [delivered EXCEPT ![p] = i]
    /\ CASE kind = "globalnone" -> handle_global_header_none(series)
         [] kind = "globalconfig" -> handle_global_header_config(series)
         [] kind = "imagedata" -> handle_image_data(series, FrameAt(p, i))
         [] kind = "end" -> handle_end(series)
         [] kind \in {"flatfield", "mask", "countrate", "headerappendix"} ->
                handle_header_part(kind)
    /\ UNCHANGED <<late, processed, written, stopped, reported>>

-----------------------------------------------------------------------------
(***************************************************************************)
(* The handlers of the base class                                          *)
(***************************************************************************)
handle_start_acquisition(p) ==
    /\ file_open' = TRUE
    /\ _processes_running' = _processes_running \cup {p}
    /\ UNCHANGED <<finished, _writers_finished, _detector_finished, frameVars>>

\* write_detector_frame_data: the data has come already, or its offset is kept.
handle_write_frame(f) ==
    /\ IF f \in DOMAIN _frame_data_map
       THEN /\ table' = Put(table, OffsetOf[f], _frame_data_map[f])
            /\ _frame_data_map' = Pop(_frame_data_map, f)
            /\ UNCHANGED _frame_offset_map
       ELSE /\ _frame_offset_map' = Put(_frame_offset_map, f, OffsetOf[f])
            /\ UNCHANGED <<_frame_data_map, table>>
    /\ UNCHANGED <<file_open, endVars>>

\* stop_when_detector_finished, when no process is left running.
handle_stop_acquisition(p) ==
    /\ _processes_running' = _processes_running \ {p}
    /\ _writers_finished' = (_writers_finished \/ _processes_running' = {})
    /\ StopIf(_processes_running' = {} /\ _detector_finished)
    /\ UNCHANGED <<_detector_finished, frameVars>>

HandleWriter(p) ==
    LET i == reported[p] IN
    /\ ~finished
    /\ i < Published(p)
    /\ reported' = [reported EXCEPT ![p] = i + 1]
    /\ \/ i = 0 /\ handle_start_acquisition(p)
       \/ i \in 1 .. Len(Share[p]) /\ handle_write_frame(Share[p][i])
       \/ i > Len(Share[p]) /\ handle_stop_acquisition(p)
    /\ UNCHANGED <<late, processed, delivered, written, stopped, _series, global>>

-----------------------------------------------------------------------------
Step(p) ==
    \/ ProcessFrame(p) \/ WriteFrame(p) \/ StopWriting(p)
    \/ HandlePlugin(p) \/ HandleWriter(p)

Next == \E p \in Processors : Step(p)

Spec == Init /\ [][Next]_vars

\* Every processor and its file writer run, and the meta listener polls all its
\* endpoints.
FairSpec ==
    /\ Spec
    /\ \A p \in Processors :
           /\ WF_vars(ProcessFrame(p)) /\ WF_vars(WriteFrame(p))
           /\ WF_vars(StopWriting(p))
           /\ WF_vars(HandlePlugin(p)) /\ WF_vars(HandleWriter(p))

-----------------------------------------------------------------------------
(***************************************************************************)
(* Properties                                                              *)
(***************************************************************************)
TypeOK ==
    /\ late \in [Processors -> 0 .. MaxLate]
    /\ processed \in [Processors -> Nat]
    /\ delivered \in [Processors -> Nat]
    /\ written \in [Processors -> Nat]
    /\ stopped \in [Processors -> BOOLEAN]
    /\ reported \in [Processors -> Nat]
    /\ _series \in {Series, NoSeries}
    /\ file_open \in BOOLEAN
    /\ finished \in BOOLEAN
    /\ _processes_running \subseteq Processors
    /\ _writers_finished \in BOOLEAN
    /\ _detector_finished \in BOOLEAN
    /\ DOMAIN _frame_data_map \subseteq Frames
    /\ DOMAIN _frame_offset_map \subseteq Frames
    /\ DOMAIN table \subseteq {OffsetOf[f] : f \in Frames}
    /\ global \subseteq HeaderKinds \cup {"series"}

\* The two halves of a frame: its meta data from the plugin and the report of
\* the file writer.
DataCame(p, i) == delivered[p] >= HeaderEnd(p) + i
WriteCame(p, i) == reported[p] > i

\* The halves of every frame are joined exactly when both have come, in
\* whichever order they come and whatever the other processors send meanwhile:
\* the file has the frame's own data at the frame's own offset, a half that
\* came alone waits, none is refused and none waits for ever
\* (eiger_meta_writer.py:327-344).
Joined ==
    \A p \in Processors : \A i \in 1 .. Len(Share[p]) :
        LET f == Share[p][i] IN
        /\ OffsetOf[f] \in DOMAIN table <=> DataCame(p, i) /\ WriteCame(p, i)
        /\ OffsetOf[f] \in DOMAIN table => table[OffsetOf[f]] = Datum(f)
        /\ f \in DOMAIN _frame_data_map <=> DataCame(p, i) /\ ~WriteCame(p, i)
        /\ f \in DOMAIN _frame_offset_map <=> ~DataCame(p, i) /\ WriteCame(p, i)

\* When the file is closed, every image of every processor has been reported
\* written and the end of this series has been handled; only the meta data of a
\* processor whose plugin lags behind all of that is missing, never that of one
\* whose end has been handled (handle_end, eiger_meta_writer.py:351-356).
Complete ==
    finished =>
        /\ \A p \in Processors : reported[p] = Len(Share[p]) + 2
        /\ \E p \in Processors : delivered[p] = Total(p)
        /\ \A p \in Processors : delivered[p] = Total(p) =>
               \A i \in 1 .. Len(Share[p]) : OffsetOf[Share[p][i]] \in DOMAIN table

\* Nothing is written to a file that is not open: neither a dataset of the
\* header nor a frame's meta data, whichever of the processors' headers and
\* starts comes first (eiger_meta_writer.py:267-271).
WrittenWhenOpen ==
    [][ table' # table \/ global' # global => file_open' ]_vars

\* The file is closed in the end (stop_when_writers_finished is reached with a
\* valid series on one of the end messages).
Finishes == <>finished

-----------------------------------------------------------------------------
(***************************************************************************)
(* The abstract specification                                              *)
(***************************************************************************)
Rows == INSTANCE FrameTable
            WITH RowOf <- [f \in Frames |-> Datum(f)], closed <- finished

\* The meta writer implements the table of rows that are filled once.
ImplementsTable == Rows!TableSpec
=============================================================================
