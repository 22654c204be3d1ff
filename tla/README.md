# A TLA+ model of eiger-detector

eiger-detector is the data acquisition chain for Dectris Eiger detectors: a fan process that pulls
the detector's zeromq stream and distributes it over several file writer nodes, odin-data plugins on
every node that receive, describe and publish the frames, a meta data writer, and a control adapter
that drives the detector's REST interface.  This directory holds TLA+ modules of the parts in which
ordering, concurrency and bounded resources matter, TLC configurations that check them on small
instances, and proofs checked by TLAPS of what matters most for every instance.

`PROJECT.json` lists, for every definition, the lines of code it stands for (`map`), and every
component, run, mutant, hazard, finding and theorem.

## The system

| component | source | state | operations |
| --- | --- | --- | --- |
| MultiPullBroker | `src/cpp/data/eigerfan/src/MultiPullBroker.cpp` | one PULL socket and one inproc PUSH socket per worker thread, `messages_received_`, `shutdown_requested_` | `connect`, `worker_loop`, `start_message_counter`, `messages_received`, `shutdown` |
| EigerFan | `src/cpp/data/eigerfan/src/EigerFan.cpp` | `killRequested`, `state`, configuration, connection counters, frame counters, a file-scope `more` | `run` (connect loop, wait, serve loop), `HandleRxSocket`, `HandleStreamMessage` and its handlers, the three send functions, `HandleControlMessage`, `HandleMonitorMessage`, `SendFabricatedEndMessage` |
| image distribution | `EigerFan.cpp:429-443` | `currentOffset`, `block_size`, `currentConsumerIndexToSendTo`, frame counters | the choice of a consumer for an image |
| settings and shared memory cache | `EigerFan.cpp:1135-1169`, `WriteMessageToFile` | configured offset, acquisition ID and block size, the cache flag, the files of the parts of an acquisition | configure, take at a header, write and rename, `remove_all` |
| eigerfan executable | `eigerfan_main.cpp` | none beyond the options | parse, start, signal handler |
| EigerFrameDecoder | `src/cpp/data/frameReceiver/src/EigerFrameDecoder.cpp` | the part counter, the header under construction, the buffer in use, the queue of empty buffers, drop counters | `get_next_message_buffer`, `process_message`, `frame_meta_data` |
| EigerProcessPlugin | `src/cpp/data/frameProcessor/src/EigerProcessPlugin.cpp` | none | one frame header into meta data messages |
| EigerMetaWriter | `src/python/src/eiger_detector/data/eiger_meta_writer.py` | `_series`, `_frame_data_map`, `_frame_offset_map`, an HDF5 file | one handler per kind of meta data message |
| EigerDetector control | `src/python/src/eiger_detector/control/eiger_detector.py` | stale parameters under a lock, flags and events shared by five threads | `set_value`, `fetch_stale_parameters`, `start_acquisition`, `do_acquisition`, `stop_acquisition`, `do_check_status`, `do_hv_reset`, `shutdown`, the commands of the parameter tree |
| adapters, simulators, deployment, web pages | rest of `src/` | - | REST pass-through, test input, scripts |

How they interact: the detector pushes every zeromq multipart message (header, images, end of
series) to one of the broker's PULL sockets.  The broker's workers forward parts over inproc sockets
to the fan's rx thread, which sends headers and end messages to every consumer and each image to one
of them.  Every consumer is the ZMQ rx thread of an odin-data frame receiver; it puts the parts into
buffers its `EigerFrameDecoder` chooses.  The frame processor's `EigerProcessPlugin` publishes what
is in a buffer, the buffer returns to the decoder, and the `EigerMetaWriter` of the acquisition
collects what all the processors publish.  The control adapter arms and triggers the detector and is
the client of the fan's control socket.

### What is hard here

* **Threads without locks.**  The fan's main and rx threads share members and even one file-scope
  variable `more`, which both pass to `getsockopt` and test afterwards.
* **Multipart messages cut apart.**  Parts travel one by one through two hops with several senders on
  one socket; a message must never be mixed with another, cut, or glued to its successor.
* **Blocking calls.**  A PUSH socket without a peer blocks for ever in `send`; `recv` in the drain loops
  blocks for a message nobody has to send; `poll(-1)` notices no flag.
* **Shutdown by two callers.**  The rx thread and the destructor both call `shutdown()`, which tests and sets a
  plain bool: one joins, or both do.
* **Clients that come and go**, second clients of the same socket, forwarding clients.
* **Settings of the next series given during this one**, one parameter after the other, while the rx thread
  copies and clears them in two statements; a directory removed while the rx thread writes into it.
* **A bounded pool of buffers** that runs empty in the middle of a message.
* **A counter, a remainder and an offset** that decide where an image goes.
* **Two halves of a frame** that reach the meta writer on streams that nothing orders against each other.
* **Cached values of another machine's parameters**, refreshed by three threads of which one may be between
  reading and storing while another writes; only the list of what is stale is behind a lock.

### What makes each component correct

* Broker: it is a channel that loses, repeats and cuts nothing; the counter overstates by one at most; a
  shutdown leaves no half message, and no worker once both its callers are back.
* Fan: consumers receive whole messages, in order; counters bound what was sent; connection counters
  follow the clients; a kill ends `run()`; waiting messages are taken.
* Image distribution: blocks of images stay together, consumers take turns, the load is balanced.
* Settings and cache: a series takes what was configured for it and an offset serves once; turning the cache
  off between acquisitions costs nothing and leaves one file behind at most.
* Decoder: no buffer leaks or is used twice; what is handed over is described by its own message; what
  is not handed over is counted.
* Meta writer: every frame's data is written once, at the offset of its own frame, in whichever order data and
  offset arrive, to a file that is open; the file is closed in the end, and complete when closed.
* Control: no stale parameter is forgotten; an acquisition uses no stale one; the detector gets no more
  triggers than configured; an acquisition, a high voltage reset and a shutdown end.

## The modules

| module | what it models |
| --- | --- |
| `DetectorStream` | the detector's messages: kind, number of parts, frame number, detail (external) |
| `StreamChannel` | abstract specification: a channel per connection, whole messages in order, until the reader closes |
| `MultiPullBroker` | the workers statement by statement, `rx` as the owner of the receiving end, `shutdown` by its two callers |
| `FanDistribution` | the C++ expression of `EigerFan.cpp:432` with truncating `/` and `%` |
| `ImageDistribution` | one acquisition's images dispatched by that expression |
| `FanAcquisition` | extends it to acquisitions in a row: a client's plan, the settings, the shared memory cache |
| `EigerFan` | both threads of the fan at the granularity of parts and of accesses to what they share |
| `EigerFrameDecoder` | the decoder, its pool of buffers, and the frame processors that give them back |
| `FrameTable` | abstract specification: a table whose rows are filled once, and not after it is closed |
| `EigerMetaWriter` | the plugin of every frame processor, the file writer's messages, and the writer that joins both |
| `EigerDetector` | the control object: cached and stale parameters, the REST, acquisition, initialize, high voltage reset and status threads, and the detector behind HTTP |
| `MC...` | instances for TLC |
| `ImageDistribution_proofs`, `FanAcquisition_proofs`, `MultiPullBroker_proofs`, `EigerFan_proofs`, `EigerFrameDecoder_proofs`, `EigerMetaWriter_proofs`, `EigerDetector_proofs`, `EigerDetectorStale_proofs` | the theorems |

`FanAcquisition` EXTENDS `ImageDistribution`, which EXTENDS `FanDistribution`; `MultiPullBroker` instantiates
`StreamChannel`, and `EigerMetaWriter` `FrameTable`, under their refinement mappings; broker, fan and decoder
take their messages from `DetectorStream`.

### How state and actions correspond to the code

`MultiPullBroker`.  Every worker is a program counter over the statements of `worker_loop` that touch
shared state: test the flag (`WorkerCheck`), time out (`WorkerTimeout`), receive a part (`WorkerRecv`),
forward it with the flag `RCVMORE` calls for (`WorkerSend`), count the message after its last part
(`WorkerCount`).  `source`, `hand` and `pipe` are the parts in a worker's PULL socket, in its hands and
in the inproc pipe.  The rx thread is modelled by what it does to the broker: it reads a message to its
end, restarts the counter for a header, closes its socket when killed and then calls `shutdown`, as the
destructor does.  The test of `shutdown_requested_`, its set and the joins are a step each for both callers
(`RxShutdownTest`, `RxShutdownSet`, `RxJoin`, `DestructorTest`, ...).  The pipe holds `HWM` complete messages, and
a send to a closed socket blocks.

`EigerFan`.  `phase` is the section of `run()` the main thread is in (connect, wait, run, closed),
`main` and `rx` are the program counters of the two threads with their local data, and the members they
share keep the names of the source.  `getsockopt(RCVMORE)` and the test of `more` are separate steps,
as are the two statements that copy and clear `configuredOffset` and the test of `connected` and the
send that follows it.  A handler that touches nothing shared in between is one step.  Attach,
detach, control requests and the detector are the world outside, bounded by a budget.  A control request is an
identity part, a body and perhaps further ones, received one at a time (`CtlRecvPart`): `CtlRecvId` and `CtlRecv`
are the two `recv` of `run()`, `CtlApply` and `CtlReply` the body of `HandleControlMessage` (`CtlAbort` its end for
want of an id), `CtlMore`, `CtlTestMore` and `CtlDrop` its drain loop, where `CtlDrop` takes one part, also the
identity of a further request, and `CtlMore` then sets the shared `more`.  A client that leaves in the middle of a
message loses what it had of it, and the rest is dropped (`Lose`, `Put`).  `disturbed` only observes: the main
thread has, since the consumers were there, handled a client's event, received a control part with another behind
it, or fabricated an end message.

`FanAcquisition`.  The rest of the fan's state, at the granularity of the statements that touch it:
`MainOffset` to `MainBlock` apply the parameters of a configure command in the order of
`HandleControlMessage`, the assignment of the acquisition ID (a `std::string`) in two steps with `Garbled`
between them; `RxOffset`, `RxReset` and `RxAcquisition` take offset and ID for a header; `RxWrite` to
`RxRename` are `WriteMessageToFile` system call by system call, `MainRemove` to `MainRmdir` are `remove_all` by
what it lists, enters, unlinks and removes.  `fs` holds the paths below `/dev/shm`, `<<>>` the root, `<<id>>` a
directory, `<<id, file>>` a file.  A `plan` is what one client does, each step after the reply to the one before;
`expected`, `wishes` and `taken` only observe.

`EigerMetaWriter`.  `ProcessFrame` is `EigerProcessPlugin::process_frame`: one message per frame, with the kind,
series and number of the frame's own header.  A stream of messages is a pair of cursors, what a processor has
published and what the writer has handled (`processed` and `delivered` for the plugin, `written`, `stopped` and
`reported` for the file writer); `HandlePlugin` dispatches on the kind, and every handler of the Python class is
an operator of its name.  `_frame_data_map` and `_frame_offset_map` are the two maps, `table` the datasets by
offset.

`EigerFrameDecoder`.  One thread runs it, so that a part is one step: choose a buffer, receive into it,
process it, and, after the last part, reset.  Every field of the `FrameHeader` is abstracted to
the number of the message it was taken from, which is what the properties tell apart: a stale field
is one with another message's number.  `content` is what the shared memory holds, `lent` the
buffers that the frame processors have.  `tally` only observes.  `dropped` counts from the making of the decoder,
since the header of an acquisition resets `allocated` alone.

`EigerDetector`.  Each Python thread is a program counter over the statements that touch what another
thread uses.  A put writes the detector (`PutValue`), then lists what the reply says has changed
(`RestAdd`), or reads the parameter back when the reply is not JSON, or does nothing more when it is other JSON,
or ends when the call raises; `StaleCopy`, `FetchRead`,
`FetchStore` and `StaleRemove` are `fetch_stale_parameters`, whose HTTP read and `setattr` are separate
steps.  A read whose reply is not JSON yields `NoValue` (`parse_response` returns None), which is stored like any
other, and the entry is taken off the list; `RestStart` to `RestFlag` are `start_acquisition`, `AcqWake` to `Unflag("acq")` one turn of
`do_acquisition`, `InitCommand` to `InitClear` one of `do_initialize`, the `Hv...` actions the loops of
`do_hv_reset` with its counters of iterations and waits.  `RawArm`, `RawDisarm` and `RawInitialize` are the
commands that the parameter tree passes straight to the detector, `Shutdown` clears `_executing`, which every
loop tests.  `HttpFails` is a call that raises, whether the detector has obeyed it (`Obeyed`) or not.  `actual` and
`hw` are the detector.  `disturbed` only observes: two fetches have overlapped, a read that nobody repeats has
raised, or something has changed that is neither listed nor read by the one who changed it: by a put that is not
answered by a list, a raw initialize, or an initialize whose reply is lost.

### Modelling decisions

* zeromq is external: multipart messages are delivered whole, pipes are first in first out, a PUSH send
  blocks while no peer is attached and throws on a closed socket.  The high water marks of the consumer
  sockets (100000 messages) are taken as not reached.
* `EigerFan` sees the broker through what `StreamChannel` promises, which the run `broker` and the
  theorem `BrokerImplementsChannel` justify.
* A parameter's value is the number of the write that set it: cached and actual values are equal exactly
  when nothing was written in between.
* A put is answered by the list of what it changed, by a text that is not JSON, by other JSON, or the call raises.
  Without a list it may have changed all that it affects, or nothing.
* The fetch of an empty list of stale parameters changes nothing and is one step.
* An HTTP call that raises: a request ends in an error reply (the adapter catches it), the
  status thread passes over it, the acquisition and the initialize thread end.  Retries are not in the code.  An
  arm also raises when its reply has no sequence id, and is then obeyed all the same.
* `trigger_mode`, `manual_trigger` and `ntrigger` are configured before the behaviour begins, and are not among the
  parameters whose reads may yield None.
* The state that a high voltage reset waits for is any: it comes, or the reset gives up after `MaxWaits`.
* A configure command that carries only parameters the model leaves out changes the modelled state as
  `status` does, and is represented by it.
* zeromq's `recv` on the control socket, when no part of a request is left, waits for the next request and takes its
  first part, the identity that the ROUTER socket puts before it: the drain loop, which rx may send there by setting
  `more`, thus drops a further request part by part, and its own `getsockopt` sets `more` in between.
* A request without an id is answered in a build without assertions and ends the process in one with them
  (`rapidjson`); both are in the model.  The values of a command's parameters have the types that are asked for.
* `join()` on a `boost::thread` may be called by two threads at once, and returns to both when the thread has ended.
  A caller of `shutdown()` that finds the flag set returns at once, while workers may still run and the other one
  waits for them; nothing in the source says otherwise.
* A block size of 0 would divide by zero at the next image; `FanAssumption` and `AcquisitionAssumption` exclude it.
* A read of `configuredAcquisitionID` while it is assigned is undefined; it yields `Garbled`.
* `remove_all` removes what a directory lists when it is opened; what is created there later may or may not be
  seen, and a directory that is then not empty is an exception that ends the process.  A failed `mkdir` of the
  rx thread is an exception that gives up the message.
* The cache of `FanAcquisition` is written for messages without appendices, and what is in a file is left out.
* The meta writer's base class and the file writer are external.  A file writer's start arrives before any stop is
  published (an acquisition takes longer than a message); once the writer has finished, the meta listener hands it
  nothing more; leftovers of an earlier series under the same acquisition ID are end messages; a frame number
  occurs once in a series.  The plugin sends the header of detail none, which has no acquisition ID yet, to the
  writer of the empty ID; that other writer is not part of the model.
* The decoder's constructor leaves `currentHeader` uninitialised; the model gives its fields the number of
  no message.

## The runs

| run | question | instance |
| --- | --- | --- |
| `acquisitions` | are blocks kept together, turns taken and the load balanced; does a series take the settings meant for it, an offset serve once; what does turning the cache off cost and leave? | 3 consumers, block sizes 1-4, offsets 0-5, 26 frames: more than twice round for the largest block; two plans that configure a second series during the first or after it; three plans that turn the cache off at any time of one or two acquisitions or between them |
| `broker` | is the broker the channel it should be, whatever the schedule, with a full pipe and a kill at any time? | 2 workers, high water mark 1, 4 messages of 1 to 3 parts |
| `broker_shutdown` | does a shutdown stop the workers? (it need not) | the same |
| `fan_control` | are messages whole while clients send control commands, until the main thread touches `more` or the connections; does a kill end the wait? | 2 consumers, 2 workers, a series of a header of two parts, an image with an appendix and an end, 2 connection events, 2 commands of 3 kinds: a kill, a negative offset without an id, which leaves the image without a consumer, an unknown one with a part too many; fair threads |
| `fan_churn` | order, counters and connections under clients that come and go, a second client, forwarding and close; are waiting messages taken? | 1 consumer, up to 2 clients a socket, 3 connection events, so that the consumer may leave, also in mid-message, and come again, 1 command, a header and an image of a series that goes on, fair threads |
| `fan_short`, `fan_close` | statements of the source that the code does not keep | 1 consumer, 1 command at most |
| `decoder` | buffers, descriptions and counts with a pool that runs empty | 2 buffers, 3 messages of 7 kinds in any order |
| `decoder_drops` | does the count of drops start fresh with an acquisition? (it does not) | the same |
| `meta` | are the halves of every frame joined, whatever their order; is the file open when written and complete when closed; is it closed? | 2 processors, 4 frames in turns, a header of detail basic with an appendix, at most 1 late end per processor, fair |
| `control` | do cached values follow the detector, is it armed with known values and triggered as often as configured; do an acquisition, a high voltage reset and a shutdown end? | 2 parameters of which one changes the other, 9 setups of trigger mode and of 2 to 4 requests out of 8 kinds, 4 kinds of replies to a put, 2 triggers, 2 iterations of the reset, 1 wait, 1 call that raises or yields None |
| `control_forgotten` | is no stale parameter forgotten? (one is, when two threads fetch) | the same without failures, 3 puts and starts, every put answered by a list |

Why the bounds are enough.  Two workers suffice for the mixing, overtaking and double counting the
broker could do, one more worker adds no new pair; a high water mark of 1 makes the pipe full all the
time.  An image is cut short in `fan_control` whenever the main thread clears `more`, and
truly short in `fan_short`.  The fan's races are between its two threads, one command and one event each: every violation run
finds its trace with one of each, and the passing runs use more.  Two events connect the two consumers of
`fan_control`; a client that leaves while messages flow is the business of `fan_churn`, whose one consumer has a third
event to leave with.  The distribution formula is periodic
in block size times consumers, which the instance covers twice.  A decoder message leaves behind a header,
a part counter and a buffer; three messages show what the first leaves to a third through a second
that is dropped; two buffers are one lent and one in hand.  Two processors are what it takes for the meta writer to be sent a frame by one while the other begins or ends,
and with four frames each processor has a first and a last.  What does not depend on an instance is proved.
Three requests let a put fall into a fetch that an earlier start began, or a stop and a second start
into the run of a first; two triggers are one taken and one outstanding; a second parameter that the put of
the first changes makes the list of a reply longer than the request.

Deadlock is not checked in any run: every instance has a finite stream and finite clients and really
stops.  The liveness properties say what must not be left undone instead.

**Fairness.**  `MultiPullBroker!Fairness`, `EigerFan!FairSpec`, `EigerMetaWriter!FairSpec` and `EigerDetector!FairSpec`
assume weak fairness of every thread of the process (of every processor's plugin and file writer, and of the meta
listener for each of its endpoints, which it polls in turn), and of nothing else: the operating system runs runnable threads; the detector, the clients and
the user owe nothing.  `StreamServed` and `EverythingRead` therefore say that what is there is taken, not that
anything comes.  `AcquisitionEnds` holds without a stop from a client: the acquisition thread sends the
triggers itself, and the property excludes manual triggers, which clients owe nothing, and a thread that
an HTTP failure has ended.  `HvResetEnds` and `ShutdownEnds` ask nothing of clients either: the waits of the
reset are bounded, and after a shutdown every loop tests `_executing`, all but the wait for a manual trigger.
`Finishes` needs that every processor goes on to its end message, which is the fairness of that processor.

Every property of a passing run has a mutant in `PROJECT.json`: a plausible bug in a mapped definition
under which TLC finds that property violated.  The mutants are written next to the definition they replace.

### What the violation runs show

* `broker_shutdown`: the rx thread closes its socket before `shutdown()`; a worker that then forwards
  blocks in `send` with no peer, does not see the flag, and `join` waits for ever.
* `fan_short`: the main thread handles a control message between the rx thread's `getsockopt` and its test
  of `more`; a complete image is dropped as short.
* `fan_close`: the fabricated end message is sent from the main thread while the rx thread is in the middle
  of a message on the same socket, and the stream goes on after it.
* `decoder_drops`: parts of a first message are dropped, and the header of the next acquisition resets
  `frames_allocated_` and not `frames_dropped_`, as the comment above the reset says it should; `monitor_buffers` goes
  on to report the drops of both as those of the last acquisition.
* `control_forgotten`: the status thread reads a stale parameter; before it stores the value a put writes the
  parameter again and lists it, and a start fetches the new value and takes both entries off the list; then
  the status thread stores the old value, and nothing is listed as stale any more.

`WholeMessages` is stated until, with messages flowing, a client's event is handled or a control part with another
behind it is received.  Without that condition TLC refutes it: both set the shared `more`, the rx thread takes that
for its own answer and receives the next message as the rest of the present one; and a consumer that is counted again
in mid-image gets the rest of it.  The control part is one of a request with a part too many, or the identity of a
further request in the drain loop.  No comment or test promises more, so that no violation run is made of it.
`InOrder` holds even then.

`KeptWhileAlone` and `ArmedFresh` say that the control object has no wrong idea of a value; None, which one reply that
is not JSON leaves for good, is no value and accepted.  `ArmedFresh` excepts, for the modes inte and exte, the
parameters that the put of `nimages` changes: `start_acquisition` makes that put after the fetch, so that the detector
is armed while they are still listed as stale.

`Described` excepts the acquisition ID of a header of detail none, which `process_message` sends before it copies the
ID: such a buffer goes out with an empty one (the first of a decoder with an uninitialised one), and never with an earlier message's, because `frame_meta_data` clears the
header after every message.

Some hazards are listed without a property, each with the reason: no statement of the source or its documents
promises anything there.  Two are the fan's: the main thread samples `state` once a second for
`WAITING_STREAM`, which the rx thread may have left already, and until the acquisition is over no control
message is served; and `more` set by the rx thread sends the main thread into the drain loop of the
control socket, where it blocks though a kill has been requested.

## The proofs

`ImageDistribution_proofs`, for every number of consumers, offset and block size:
`IndexInRange` shows by the uniqueness of quotient and remainder that the C++ expression is the number
of the block modulo the number of consumers, which needs only that the operands are not negative.
`TypeCorrect`, `BlocksStayTogetherAlways` and `NextConsumerAlways` follow from it with an invariant that
ties the length of the present run of images to the position within the block.  `BalancedAlways` needs to know the
counters themselves, and a closed form in place of an induction over the frames: `Dealt` says that every rank has
had the same number in the full rounds and, of the present round, its block, the part before the position, or
nothing, by its `Turn` after the rank that the offset begins with; the first block lacks what the offset skips.
`DealtNext` shows that one image more keeps that form, `DealtBalanced` that two counters in that form differ by at
most a block.  They are about one acquisition with its settings fixed.

`FanAcquisition_proofs`, for every set of plans, number of consumers and set of acquisition IDs.  `Types` adds to
`TypeOK` what the rest of the state ranges over.  Four arguments are built on it.

* *The cache.*  `TreeInv` (what exists lies in a directory that exists) and `QuietInv` (unless a client turned the
  cache off during an acquisition: the rx thread rests until the command is over, and the listing of `remove_all`
  has whatever is in the directory) give `QuietRemovalIsSafeAlways`.  `LeftInv` says what is left once the cache
  is off, by the place of the rx thread: no file before it opens one, one at most after, since it tests the flag
  before each; with `NothingLeft` (an empty root means an empty tree) it gives `OneLeftOverAlways`.
* *The offset.*  An offset is in the plan, in the command at hand, configured, copied or taken.  `OnceInv`
  says that it is in one of these places at a time, but for the moment between the statements that copy and clear
  it; `OffsetUsedOnceAlways` follows, under the hypothesis that a plan configures each offset once.
* *The settings.*  `AheadInv` counts: series armed = series served + header in hand + headers in the queue, by
  the cardinality of the headers' positions.  `ExpectedInv` relates what the next series may expect to what will
  be configured when the command at hand is over, `WishInv` what each waiting series may expect to what is
  configured or copied now.  `TakesWhatWasConfiguredAlways` is what they say at the moment a series takes.
* *The round robin over several series.*  `RoundInv` holds the lemmas of `ImageDistribution_proofs` (an instance of
  that module) against the rx thread's steps: at any time there is an offset for which the counters, the last
  consumer and the length of its run are those of the series, the current offset except between the two statements
  of a header that take it and clear the counters.  `BalancedUnlessLostAlways`, `BlocksStayTogetherAlways` and
  `NextConsumerAlways` follow under the hypothesis `BlocksFirst`, that a client which configures block sizes does so
  before its first series: the code uses a block size from the next image on, so that one configured in mid-series,
  or between an image's choice and the next, breaks the present block up.  Every plan that TLC runs keeps to it.

`MultiPullBroker_proofs`, for every stream, set of workers and high water mark.  `TypeOK` is not inductive
for the properties, so `IInv` adds: `ReaderInv` (the connection that rx is reading from has the rest of
its message somewhere between the pipe and the source), `WholeInv` (what a worker has not pulled or holds
begins where what it forwarded ended, and ends with a last part), and `JoinInv` (whoever joins has
set the flag, and once it is set one of the callers is joining or every worker is done: none, one or both of the
callers may have passed the test).
`Invariance` proves it step by step, one action at a time; `SomebodyJoinedAlways` and
`NothingHalfForwardedAlways` follow.  `BrokerImplementsChannel` proves refinement of `StreamChannel` under
the mapping `pending <- pipe \o hand \o source`: a pull or a forward moves a part within the concatenation
and stutters, reading takes the head of it, closing drops a prefix.

`CountsAtMostOneTwiceAlways` counts.  `HeldInv`: a message is in the hands or before one worker only, and after its
last part the worker has no more of it, so that forwarding a last part completes one message more
(`CompletedGrows`).  `CountInv`: the workers that have forwarded a last part and not counted it are no more than the
completed messages, and the counter and they together one more at most.  The first part is what lets
`start_message_counter` set the counter to 1 while others are about to increment it.  Cardinalities need a finite
set of workers, which `BrokerAssumption` says.

`EigerFan_proofs`, for every stream, number of consumers and workers, set of commands and bound on what clients do.
`MainInv` and `RxInv` add to the types what each thread holds at each place: a message for a control socket that is
ready, a first part of the kind its handler takes it for, as many parts as that kind needs before a send loop, and a
position within the loop.  The lemmas on who changes what (`RxLeaves`, `MainLeaves`, `OutMoves`, ...) keep the two
threads apart; `AdvanceToOne`, `AdvanceToAll` and `SkipToAll` say how the loops go on.

* *Order*, under the hypothesis that there is one worker.  What has been received, whether in hand or sent, comes
  before what waits (`QueueInv`, `HaveInv`, `SentInv`).  `DueFrom(s)` is the first part in hand that the loops may
  still send to socket `s`; `DueInv` says that all sent to `s` comes before it, and both a send and a skip only
  raise it.  None of it mentions `more` or `connected`, which is why `InOrderAlways` holds whatever is done to them.
* *Whole messages.*  `CalmInv`: undisturbed, no event is handled once the rx thread runs and every consumer counts
  as connected.  The main thread then sets `more` only by receiving a control part with another behind it, which
  disturbs; as long as it only clears it `OwnInv` holds: a `more` found set is
  the rx thread's own, and the parts in hand are the first ones of the message being received.  `OpenInv`: a zeromq
  message is open on a socket only between two parts of the loop that sends there, and its last part is the one
  before the next.  `WholeMessagesAlways` follows, since a loop begins only with all the parts that are needed.
* *Connections.*  `Reaches(from, evs, to)`: the events lead from one number of clients to another over natural
  numbers only.  `LevelInv(s)`: the events that wait on a socket lead from the number that is counted, with the event
  in hand (`Due`), to the number attached.  The levels in between are why the floor at zero never hides a client;
  `OwnMore` (the main thread finds the `more` that it has set) is why no event's second part is taken for an
  event, and holds only while the rx thread does not run.  `ConnectedKnownAlways` is the case of no event waiting.
* *Images counted.*  With one worker.  `GatherInv`: the socket stands behind the last part in hand, and the n-th part
  in hand is at most the n-th of its message; hence `EarlyInv`: what is sent with a header or an end message
  completes no image.  `CountedInv`: a consumer has been sent no more images since the header than are counted,
  or owed, which is one between the last send and the count (`Owed`).  A header clears the counters when nothing
  later has been sent (`NoneSince`, from `SentInv`).  The hypothesis `FullHeaders`, that headers of detail all have
  their eight parts, is needed: such a header with fewer is filled up, when a client's event sets `more`, with the
  parts of the image behind it, which is then sent and not counted, as TLC shows for five parts and an image.  The
  code expects all eight ("expected 8 for 'all' detail", `EigerFan.cpp:557`); the streams of the runs have no such
  header at all.

`EigerFrameDecoder_proofs`, for every pool and any number of messages, under the hypothesis that the messages are
`WellFormed`, with as many parts as their kind has and perhaps an appendix; for a malformed one the code promises
nothing.  `DecInv` adds to the types where the decoder is in the message (`PartInv`), that it keeps a buffer from
one part to the next only between the data of an image and its times (`HoldInv`), that no buffer is in two places
and none in no place (`PlaceInv`), and which fields of the header already come from the present message
(`FieldInv`).  A part is one of five kinds (without a payload, announced, header data, image data, times) and
moves buffers in one of three ways (keeps, takes from the queue, hands over), which the lemmas follow.  The
acquisition ID is that of no message until the first part has been processed, since the end of a message clears it.
`BuffersAccountedAlways` turns `PlaceInv` into the count of the pool by an injection of the queue's positions into
the pool; `NothingVanishesAlways`, `LentUntouchedAlways` and `DescribedAlways` read off the step.

`EigerMetaWriter_proofs`, for every number of processors, share of the frames and header.  `Joined` itself is
nearly inductive; what it needs is `Flow` (nothing is handled before it is published, and no stop is published
before every start has arrived), `Registered` (who is past the first part of the header has registered the series
and opened the file), `Waiting` (what waits in a map is the frame's own) and `Ending` (the flags say who is done).
`PluginCases` and `WriterCases` name what a cursor's next message is, so that the rest is free of arithmetic on
streams.  `CompleteAlways` and `WrittenWhenOpenAlways` follow, and `TableImplemented` proves the refinement of
`FrameTable`.

`EigerDetector_proofs`, for every set of parameters, every `ntrigger` and every bound on requests and
failures: `TypeCorrect` and `ShotsBoundedAlways`.  The bound on the triggers is not inductive: `ShotInv`
relates what the detector has taken since it was armed to the thread's own count, by the place of the thread,
and says that an armed detector whose thread is waiting has taken none.  That holds because the thread
leaves a run only through a disarm, even when the run was stopped and the detector armed again meanwhile.
`JobInv` says what a thread may be fetching and where it goes afterwards, and `HvInv` keeps the counters of the
high voltage reset below their limits, which the types need.

`EigerDetectorStale_proofs` builds on that: `KeptWhileAloneAlways` (undisturbed, a cached value that is neither the
detector's nor None is listed, or in a thread's hands) and `ArmedFreshAlways`.  A fetch removes from the list as many
entries of a parameter as its copy of the list had, so that the invariant has to say, while there is one fetch:
what it copied is still listed (`Listed`), what it has read and stored, or is about to, is up to date unless the
parameter has been listed, or is about to be, once more than the copy says (`Done`, `Held`), and everything else
that is not up to date is listed (`Kept`).  A None that has been read counts as up to date.  `NothingListed` carries
the result from the last fetch of a start to the arming of the detector, with the exception of what the put of
`nimages` changes (`ChangedLate`).

The assumptions are those of the modules (`StreamAssumption`, `BrokerAssumption`, `FanAssumption`, `DistributionAssumption`,
`AcquisitionAssumption`, `MetaAssumption`, `ControlAssumption`), which say what the parameters range over, and the
hypotheses named above: each offset configured once (`OffsetUsedOnceAlways`), `BlocksFirst` (the round robin),
`OneWorker` (`InOrderAlways`, `CountedWhenSentAlways`), `FullHeaders` (`CountedWhenSentAlways`) and `WellFormed` (the
decoder).  Every instance that TLC runs of these properties satisfies them.  Nothing else is taken for granted.

**Only model-checked:** everything under fairness (`EverythingRead`, `KilledBeforeStream`, `StreamServed`,
`Finishes`, `AcquisitionEnds`, `HvResetEnds`, `ShutdownEnds`), which the prover does not handle.  Every invariant and
every action property that a passing run checks is proved.

## Not modelled

* Of the fan: the series number, the statistics of the status reply and the contents of the cache files, which are
  data that nothing depends on; a write to the cache that fails; a restart of the process, after which nothing is
  read back; parameters of a command with values of other types than those asked for.
* Of the decoder: JSON parse errors and unknown header types; `init`, which only sizes the buffers.
* Of `EigerProcessPlugin`: encoding, data type and shape, which no property tells apart; an image appendix, which
  changes nothing downstream.
* Of the meta writer: a header of an earlier series that comes late (listed as a hazard), the names and types of the
  datasets.
* Of the control object: puts of `trigger_mode`, `manual_trigger` and `ntrigger`, and a None read for one of them;
  `set_mode` and the live view.  The puts of the modes use the same HTTP calls as the modelled ones; the live view passes
  images on.
* The frame simulator is a sequential generator of test messages: whatever could be said of it holds by
  construction.  The adapters pass requests on and keep no state; the executable parses options.  Deployment
  scripts and web pages have no logic of the acquisition.
* `src/cpp/data/include/rapidjson` is vendored third-party code; it is the larger half of the C++ lines, and none of
  them is mapped.

## What is left

Done, in the order of the plan: the dispatch, the broker with its abstract channel, the fan, the decoder, the control
object, the meta writer with its abstract table, the settings and the cache; proofs of all of them.

1. A composition of the fan and several decoders would add the high water marks of the consumer sockets, which are
   taken as not reached.
2. The reading of one socket by several workers: `InOrder` and `CountedWhenSent` are about one, since with two the
   order of the stream is the broker's choice.
