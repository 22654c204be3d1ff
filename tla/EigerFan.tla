-------------------------------- MODULE EigerFan --------------------------------
(***************************************************************************)
(* The EigerFan process, at the granularity of zeromq parts.               *)
(*                                                                         *)
(* Two threads run in it: the main thread (EigerFan::run) waits for the    *)
(* consumers, spawns the rx thread and then serves the control socket and  *)
(* the monitor sockets; the rx thread (HandleRxSocket) receives the        *)
(* detector's messages from the broker and sends them to the consumers.    *)
(* They share plain members and the file-scope variable more, without a    *)
(* lock: each step below touches the shared state at most once where the   *)
(* order matters, and the steps of the two threads interleave freely.      *)
(*                                                                         *)
(* The broker is seen through what StreamChannel promises: whole messages, *)
(* in order per worker.  zeromq sockets are external: a PUSH send blocks   *)
(* while no peer is attached (the high water marks, 100000 messages, are   *)
(* not reached) and throws on a socket that has been closed; when a client *)
(* leaves in the middle of a message that it was being sent, it has        *)
(* received nothing of it, and the rest of the message is dropped.         *)
(***************************************************************************)
EXTENDS DetectorStream, FanDistribution, FiniteSets

CONSTANTS
    Workers,       \* the broker's workers, each a first-in first-out source
    NumConsumers,  \* config.num_consumers
    BlockSize,     \* config.block_size at the start
    Commands,      \* the control messages clients may send
    Absent,        \* value of a parameter that a command does not carry
    MaxPeers,      \* bound: clients attached to one socket at a time
    MaxEvents,     \* bound: connections and disconnections in a behaviour
    MaxCommands    \* bound: control messages in a behaviour

Ranks == 0 .. NumConsumers - 1
Fwd == NumConsumers             \* the forwarding socket
Sockets == Ranks \cup {Fwd}
Ctl == -1                       \* the control socket in the poll set

ParamSet(S) == S \cup {Absent}

CommandSet ==
    [op : {"configure", "status", "request_configuration", "request_version",
           "request_commands", "unknown", "unparsable"},
     id : BOOLEAN,      \* whether it carries an id
     extra : Nat,       \* parts after the identity and the body
     kill : BOOLEAN, close : BOOLEAN,
     offset : ParamSet(Int), forward : ParamSet(BOOLEAN),
     block : ParamSet(Nat \ {0})]

ASSUME FanAssumption ==
    /\ NumConsumers \in Nat \ {0}
    /\ BlockSize \in Nat \ {0}
    /\ Absent \notin Int \cup BOOLEAN
    /\ Commands \subseteq CommandSet
    /\ MaxPeers \in Nat /\ MaxEvents \in Nat /\ MaxCommands \in Nat

VARIABLES
    \* the stream, through the broker
    produced,   \* number of messages the detector has sent
    pending,    \* per worker, the messages the rx socket has not delivered
    rxsock,     \* the message rx reads from and its next unread part
    \* members shared by the two threads
    killRequested, state, configuredOffset, block_size, forwardStream,
    connected,  \* consumers[i].connected and numConnectedForwardingSockets
    more,       \* the file-scope variable that both threads give to getsockopt
    \* members used by the rx thread
    rx,         \* pc, parts received of this message, position in the send loops
    currentOffset, currentConsumerIndexToSendTo,
    lastFrameSent, num_frames_sent, num_frames_consumed,
    \* the main thread
    phase,      \* the section of run() it is in
    main,       \* pc, sockets its poll() found ready, what it handles
    reply,      \* the last reply on the control socket
    disturbed,  \* observed only: since the consumers were there, the main
                \* thread has taken in that a client came or went, has read a
                \* control part with another behind it, or fabricated an end
    \* the sockets
    peers,      \* clients attached to each socket
    events,     \* monitor events not received yet, two parts each
    endpoint,   \* whether an event's second part is still unread
    control,    \* control messages not received to the end
    ctlread,    \* how many parts of the first of them have been received
    out,        \* parts sent on each socket
    dropping,   \* whether the rest of a socket's message is dropped
    budget      \* what the clients may still do

stream == <<produced, pending, rxsock>>
counters == <<lastFrameSent, num_frames_sent, num_frames_consumed>>
rxvars == <<rx, currentOffset, currentConsumerIndexToSendTo, counters>>
configured == <<configuredOffset, block_size, forwardStream>>
mainvars == <<phase, main, disturbed, reply>>
clients == <<peers, dropping, budget>>
inputs == <<events, endpoint, control, ctlread>>
vars == <<stream, killRequested, state, configured, connected, more, rxvars,
          mainvars, clients, inputs, out>>

RxIdle == [pc |-> "none", have |-> <<>>, dest |-> 1, part |-> 1]
MainIdle == [pc |-> "poll", ready |-> {}, command |-> Absent,
             event |-> "none", dest |-> 1]

Init ==
    /\ produced = 0
    /\ pending = [w \in Workers |-> <<>>]
    /\ rxsock = [msg |-> 0, next |-> 1]
    /\ killRequested = FALSE
    /\ state = "WAITING_CONSUMERS"
    /\ configuredOffset = 0
    /\ block_size = BlockSize
    /\ forwardStream = FALSE
    /\ connected = [s \in Sockets |-> 0]
    /\ more = FALSE
    /\ rx = RxIdle
    /\ currentOffset = 0
    /\ currentConsumerIndexToSendTo = 0
    /\ lastFrameSent = 0
    /\ num_frames_sent = 0
    /\ num_frames_consumed = [c \in Ranks |-> 0]
    /\ phase = "connect"
    /\ main = MainIdle
    /\ reply = "none"
    /\ disturbed = FALSE
    /\ peers = [s \in Sockets |-> 0]
    /\ events = [s \in Sockets |-> <<>>]
    /\ endpoint = [s \in Sockets |-> FALSE]
    /\ control = <<>>
    /\ ctlread = 0
    /\ out = [s \in Sockets |-> <<>>]
    /\ dropping = [s \in Sockets |-> FALSE]
    /\ budget = [events |-> MaxEvents, commands |-> MaxCommands]

-----------------------------------------------------------------------------
(***************************************************************************)
(* Sending to the consumers, common to both threads                        *)
(***************************************************************************)

\* SendMessageToAllConsumers and SendMessagesToAllConsumers go through the
\* forwarding socket and the consumers, SendMessageToSingleConsumer through the
\* forwarding socket and one consumer.
DestOfAll(d) == IF d = 1 THEN Fwd ELSE d - 2

\* Whether the sender goes on to send; a stale answer is not noticed.
Wants(s) ==
    /\ connected[s] > 0
    /\ s = Fwd => forwardStream

SocketsOpen == phase \notin {"closed", "aborted"}

\* send(): the rest of a message whose client has left is dropped.
Put(s, msg, part, sndmore) ==
    \/ /\ dropping[s]
       /\ dropping' = [dropping EXCEPT ![s] = sndmore]
       /\ UNCHANGED out
    \/ /\ ~dropping[s]
       /\ peers[s] > 0
       /\ out' = [out EXCEPT ![s] =
                     Append(@, [msg |-> msg, part |-> part, more |-> sndmore])]
       /\ UNCHANGED dropping

-----------------------------------------------------------------------------
(***************************************************************************)
(* The world outside                                                       *)
(***************************************************************************)
Produce(w) ==
    /\ produced < Len(Stream)
    /\ produced' = produced + 1
    /\ pending' = [pending EXCEPT ![w] = Append(@, produced + 1)]
    /\ UNCHANGED <<rxsock, killRequested, state, configured, connected, more,
                   rxvars, mainvars, clients, inputs, out>>

Attach(s) ==
    /\ SocketsOpen
    /\ budget.events > 0
    /\ peers[s] < MaxPeers
    /\ peers' = [peers EXCEPT ![s] = @ + 1]
    /\ events' = [events EXCEPT ![s] = Append(@, "accepted")]
    /\ budget' = [budget EXCEPT !.events = @ - 1]
    /\ UNCHANGED <<stream, killRequested, state, configured, connected, more,
                   rxvars, mainvars, endpoint, control, ctlread, out, dropping>>

Underway(s) == out[s] # <<>> /\ out[s][Len(out[s])].more

\* The client that leaves was being sent a message: what has been sent of it is
\* lost, and so will be the rest of it.
Lose(s) ==
    /\ Underway(s)
    /\ \E n \in 0 .. Len(out[s]) :
           /\ n > 0 => ~out[s][n].more
           /\ \A i \in n + 1 .. Len(out[s]) : out[s][i].more
           /\ out' = [out EXCEPT ![s] = SubSeq(@, 1, n)]
    /\ dropping' = [dropping EXCEPT ![s] = TRUE]

Detach(s) ==
    /\ SocketsOpen
    /\ budget.events > 0
    /\ peers[s] > 0
    /\ peers' = [peers EXCEPT ![s] = @ - 1]
    /\ events' = [events EXCEPT ![s] = Append(@, "disconnected")]
    /\ budget' = [budget EXCEPT !.events = @ - 1]
    /\ \/ Lose(s)
       \/ /\ ~Underway(s) \/ peers[s] > 1
          /\ UNCHANGED <<out, dropping>>
    /\ UNCHANGED <<stream, killRequested, state, configured, connected, more,
                   rxvars, mainvars, endpoint, control, ctlread>>

Request(c) ==
    /\ SocketsOpen
    /\ budget.commands > 0
    /\ control' = Append(control, c)
    /\ budget' = [budget EXCEPT !.commands = @ - 1]
    /\ UNCHANGED <<stream, killRequested, state, configured, connected, more,
                   rxvars, mainvars, peers, dropping, events, endpoint, ctlread,
                   out>>

Outside ==
    \/ \E w \in Workers : Produce(w)
    \/ \E s \in Sockets : Attach(s) \/ Detach(s)
    \/ \E c \in Commands : Request(c)

-----------------------------------------------------------------------------
(***************************************************************************)
(* The main thread: the loops of run()                                     *)
(***************************************************************************)
ExpectedConsumersConnected == \A c \in Ranks : connected[c] = 1

Readable ==
    {s \in Sockets : events[s] # <<>> \/ endpoint[s]}
        \cup (IF control = <<>> THEN {} ELSE {Ctl})

\* The conditions of the two loops.  The mutant does not let a kill end the
\* wait for the consumers.
LoopUntilConnected ==
    CASE phase = "connect" -> ~ExpectedConsumersConnected
      [] phase = "run" -> ~killRequested
      [] OTHER -> FALSE
Looping ==
    CASE phase = "connect" -> ~ExpectedConsumersConnected /\ ~killRequested
      [] phase = "run" -> ~killRequested
      [] OTHER -> FALSE

\* poll(-1), in either loop: revents are those of the sockets ready now.
MainPoll ==
    /\ main.pc = "poll"
    /\ Looping
    /\ Readable # {}
    /\ main' = [main EXCEPT !.pc = "dispatch", !.ready = Readable]
    /\ UNCHANGED <<stream, killRequested, state, configured, connected, more,
                   rxvars, phase, disturbed, reply, clients, inputs, out>>

\* Every consumer is there: spawn the rx thread, then sleep until it reports
\* WAITING_STREAM.
MainSpawnRx ==
    /\ phase = "connect"
    /\ main.pc = "poll"
    /\ ~Looping
    /\ ~killRequested
    /\ phase' = "wait"
    /\ rx' = [rx EXCEPT !.pc = "start"]
    /\ UNCHANGED <<stream, killRequested, state, configured, connected, more,
                   currentOffset, currentConsumerIndexToSendTo, counters,
                   main, disturbed, reply, clients, inputs, out>>

MainWake ==
    /\ phase = "wait"
    /\ state = "WAITING_STREAM"
    /\ phase' = "run"
    /\ UNCHANGED <<stream, killRequested, state, configured, connected, more,
                   rxvars, main, disturbed, reply, clients, inputs, out>>

\* After a kill either loop ends and run() closes its sockets and returns.
MainClose ==
    /\ phase \in {"connect", "run"}
    /\ main.pc = "poll"
    /\ ~Looping
    /\ killRequested
    /\ phase' = "closed"
    /\ UNCHANGED <<stream, killRequested, state, configured, connected, more,
                   rxvars, main, disturbed, reply, clients, inputs, out>>

\* The sockets are served in the order of the poll set: control, consumers by
\* rank, forwarding.
Serving(s, pc) ==
    /\ main.pc = pc
    /\ s \in main.ready
    /\ \A t \in main.ready : s <= t

MainServed ==
    /\ main.pc = "dispatch"
    /\ main.ready = {}
    /\ main' = [main EXCEPT !.pc = "poll"]
    /\ UNCHANGED <<stream, killRequested, state, configured, connected, more,
                   rxvars, phase, disturbed, reply, clients, inputs, out>>

-----------------------------------------------------------------------------
(***************************************************************************)
(* The main thread: HandleControlMessage                                   *)
(***************************************************************************)
Acquiring == state \in {"DSTR_HEADER", "DSTR_IMAGE"}

\* recv() on the control socket: the next part of the first request.
CtlRecvPart ==
    /\ control # <<>>
    /\ IF ctlread + 1 < 2 + Head(control).extra
       THEN ctlread' = ctlread + 1 /\ control' = control
       ELSE ctlread' = 0 /\ control' = Tail(control)

\* run() receives two parts and takes them for the identity and the body.
CtlRecvId ==
    /\ Serving(Ctl, "dispatch")
    /\ CtlRecvPart
    /\ main' = [main EXCEPT !.pc = "ctlbody", !.ready = @ \ {Ctl}]
    /\ UNCHANGED <<stream, killRequested, state, configured, connected, more,
                   rxvars, phase, disturbed, reply, clients, events, endpoint,
                   out>>

\* A part that is not the body of a request, to HandleControlMessage.
NotABody == [op |-> "unparsable", id |-> FALSE, extra |-> 0,
             kill |-> FALSE, close |-> FALSE,
             offset |-> Absent, forward |-> Absent, block |-> Absent]

\* A close while acquiring sends a fabricated end message first.
CtlRecv ==
    /\ main.pc = "ctlbody"
    /\ CtlRecvPart
    /\ LET c == IF ctlread = 1 THEN Head(control) ELSE NotABody IN
           main' = [main EXCEPT
                      !.pc = IF c.close /\ ~c.kill /\ Acquiring THEN "fabricate"
                                                                ELSE "apply",
                      !.command = c, !.dest = 1]
    /\ UNCHANGED <<stream, killRequested, state, configured, connected, more,
                   rxvars, phase, disturbed, reply, clients, events, endpoint,
                   out>>

\* SendFabricatedEndMessage, one socket after the other, with the rx thread
\* sending on the same sockets.
FabricateNext ==
    /\ main.pc = "fabricate"
    /\ main.dest <= NumConsumers + 1
    /\ main' = IF Wants(DestOfAll(main.dest))
               THEN [main EXCEPT !.pc = "fabricated"]
               ELSE [main EXCEPT !.dest = @ + 1]
    /\ UNCHANGED <<stream, killRequested, state, configured, connected, more,
                   rxvars, phase, disturbed, reply, clients, inputs, out>>

FabricatePut ==
    /\ main.pc = "fabricated"
    /\ Put(DestOfAll(main.dest), 0, 1, FALSE)
    /\ disturbed' = TRUE
    /\ main' = [main EXCEPT !.pc = "fabricate", !.dest = @ + 1]
    /\ UNCHANGED <<stream, killRequested, state, configured, connected, more,
                   rxvars, phase, reply, peers, budget, inputs>>

FabricateEnd ==
    /\ main.pc = "fabricate"
    /\ main.dest = NumConsumers + 2
    /\ state' = "DSTR_END"
    /\ main' = [main EXCEPT !.pc = "apply"]
    /\ UNCHANGED <<stream, killRequested, configured, connected, more,
                   rxvars, phase, disturbed, reply, clients, inputs, out>>

Given(param, old) == IF param = Absent THEN old ELSE param

\* An unknown command or a configure without a known parameter is refused.
Empty(c) == /\ ~c.kill /\ ~c.close
            /\ c.offset = Absent /\ c.forward = Absent /\ c.block = Absent

ReplyTo(c) ==
    CASE c.op \in {"unknown", "unparsable"} -> "nack"
      [] c.op = "configure" /\ Empty(c) -> "nack"
      [] OTHER -> "ack"

\* The parameters, in the order of the code.
CtlApply ==
    /\ main.pc = "apply"
    /\ LET c == main.command IN
           /\ killRequested' = (killRequested \/ c.kill \/ c.close)
           /\ state' = IF c.kill \/ c.close THEN "KILL_REQUESTED" ELSE state
           /\ configuredOffset' = Given(c.offset, configuredOffset)
           /\ forwardStream' = Given(c.forward, forwardStream)
           /\ block_size' = Given(c.block, block_size)
    /\ main' = [main EXCEPT !.pc = "reply"]
    /\ UNCHANGED <<stream, connected, more, rxvars, phase, disturbed, reply,
                   clients, inputs, out>>

\* The reply repeats the id of the request; without one the id is that of a
\* null value in a build without assertions ...
CtlReply ==
    /\ main.pc = "reply"
    /\ reply' = ReplyTo(main.command)
    /\ main' = [main EXCEPT !.pc = "ctlmore", !.command = Absent]
    /\ UNCHANGED <<stream, killRequested, state, configured, connected, more,
                   rxvars, phase, disturbed, clients, inputs, out>>

\* ... and in a build with them the process ends there.
CtlAbort ==
    /\ main.pc = "reply"
    /\ ~main.command.id
    /\ phase' = "aborted"
    /\ main' = MainIdle
    /\ UNCHANGED <<stream, killRequested, state, configured, connected, more,
                   rxvars, disturbed, reply, clients, inputs, out>>

\* getsockopt(ZMQ_RCVMORE): the last part received has another behind it.
CtlMore ==
    /\ main.pc = "ctlmore"
    /\ more' = (ctlread # 0)
    /\ disturbed' = (disturbed \/ (phase = "run" /\ ctlread # 0))
    /\ main' = [main EXCEPT !.pc = "ctltest"]
    /\ UNCHANGED <<stream, killRequested, state, configured, connected,
                   rxvars, phase, reply, clients, inputs, out>>

\* while (more): if rx has set it meanwhile, the loop goes on to a recv() that
\* blocks for a further request and drops its identity; the getsockopt after
\* that sets more.  After a kill the run loop is left.
CtlTestMore ==
    /\ main.pc = "ctltest"
    /\ main' = IF more THEN [main EXCEPT !.pc = "ctlrecv"]
               ELSE IF killRequested /\ phase = "run" THEN MainIdle
               ELSE [main EXCEPT !.pc = "dispatch"]
    /\ UNCHANGED <<stream, killRequested, state, configured, connected, more,
                   rxvars, phase, disturbed, reply, clients, inputs, out>>

CtlDrop ==
    /\ main.pc = "ctlrecv"
    /\ CtlRecvPart
    /\ main' = [main EXCEPT !.pc = "ctlmore"]
    /\ UNCHANGED <<stream, killRequested, state, configured, connected, more,
                   rxvars, phase, disturbed, reply, clients, events, endpoint,
                   out>>

-----------------------------------------------------------------------------
(***************************************************************************)
(* The main thread: HandleMonitorMessage, HandleForwardMonitorMessage      *)
(***************************************************************************)
MonReadable(s) == endpoint[s] \/ events[s] # <<>>

\* recv() on a monitor socket: the endpoint that is left of an event, or the
\* first part of the next event.
MonRecvPart(s) ==
    /\ MonReadable(s)
    /\ endpoint' = [endpoint EXCEPT ![s] = ~@]
    /\ events' = IF endpoint[s] THEN events
                                ELSE [events EXCEPT ![s] = Tail(@)]

\* The first part is taken for an event code even when it is an endpoint.
MonRecv(s) ==
    /\ Serving(s, "dispatch")
    /\ s # Ctl
    /\ MonRecvPart(s)
    /\ main' = [main EXCEPT
                  !.pc = "event",
                  !.event = IF endpoint[s] THEN "other" ELSE Head(events[s])]
    /\ more' = ~endpoint[s]
    /\ disturbed' = (disturbed \/ phase = "run")
    /\ UNCHANGED <<stream, killRequested, state, configured, connected,
                   rxvars, phase, reply, clients, control, ctlread, out>>

\* The counter of a consumer has a floor at zero, that of the forwarding
\* socket has not.
Uncounted(s) == IF s # Fwd /\ connected[s] = 0 THEN 0 ELSE connected[s] - 1

\* The mutant takes a disconnection for the end of all of a socket's peers.
CountedAsFlag(s, event) ==
    CASE event = "accepted" -> connected[s] + 1
      [] event = "disconnected" -> 0
      [] OTHER -> connected[s]
Counted(s, event) ==
    CASE event = "accepted" -> connected[s] + 1
      [] event = "disconnected" -> Uncounted(s)
      [] OTHER -> connected[s]

\* The endpoint is received if more still says so, and the event is counted in
\* any case.
Count(s) ==
    /\ connected' = [connected EXCEPT ![s] = Counted(s, main.event)]
    /\ main' = [main EXCEPT !.pc = "monmore", !.event = "none"]

MonTestMore(s) ==
    /\ Serving(s, "event")
    /\ IF more THEN /\ main' = [main EXCEPT !.pc = "endpoint"]
                    /\ UNCHANGED connected
               ELSE Count(s)
    /\ UNCHANGED <<stream, killRequested, state, configured, more,
                   rxvars, phase, disturbed, reply, clients, inputs, out>>

MonEndpoint(s) ==
    /\ Serving(s, "endpoint")
    /\ MonRecvPart(s)
    /\ Count(s)
    /\ UNCHANGED <<stream, killRequested, state, configured, more,
                   rxvars, phase, disturbed, reply, clients, control, ctlread,
                   out>>

MonMore(s) ==
    /\ Serving(s, "monmore")
    /\ more' = endpoint[s]
    /\ main' = [main EXCEPT !.pc = "montest"]
    /\ UNCHANGED <<stream, killRequested, state, configured, connected,
                   rxvars, phase, disturbed, reply, clients, inputs, out>>

MonTestRest(s) ==
    /\ Serving(s, "montest")
    /\ main' = IF more THEN [main EXCEPT !.pc = "monrecv"]
               ELSE [main EXCEPT !.pc = "dispatch", !.ready = @ \ {s}]
    /\ UNCHANGED <<stream, killRequested, state, configured, connected, more,
                   rxvars, phase, disturbed, reply, clients, inputs, out>>

MonDrop(s) ==
    /\ Serving(s, "monrecv")
    /\ MonRecvPart(s)
    /\ main' = [main EXCEPT !.pc = "monmore"]
    /\ UNCHANGED <<stream, killRequested, state, configured, connected, more,
                   rxvars, phase, disturbed, reply, clients, control, ctlread,
                   out>>

Monitor(s) ==
    \/ MonRecv(s) \/ MonTestMore(s) \/ MonEndpoint(s)
    \/ MonMore(s) \/ MonTestRest(s) \/ MonDrop(s)

Main ==
    \/ MainPoll \/ MainSpawnRx \/ MainWake \/ MainClose \/ MainServed
    \/ CtlRecvId \/ CtlRecv \/ FabricateNext \/ FabricatePut \/ FabricateEnd
    \/ CtlApply \/ CtlReply \/ CtlAbort \/ CtlMore \/ CtlTestMore \/ CtlDrop
    \/ \E s \in Sockets : Monitor(s)

-----------------------------------------------------------------------------
(***************************************************************************)
(* The rx thread: HandleRxSocket                                           *)
(***************************************************************************)
RcvMore == rxsock.msg # 0 /\ rxsock.next <= Stream[rxsock.msg].parts

\* The parts that recv() on the rx socket may return next, and its effect.
NextParts ==
    IF RcvMore
    THEN {[msg |-> rxsock.msg, part |-> rxsock.next]}
    ELSE {[msg |-> Head(pending[w]), part |-> 1] :
              w \in {v \in Workers : pending[v] # <<>>}}

RxRecvPart(p) ==
    /\ rxsock' = [msg |-> p.msg, next |-> p.part + 1]
    /\ pending' = IF RcvMore THEN pending
                  ELSE [w \in Workers |->
                           IF pending[w] # <<>> /\ Head(pending[w]) = p.msg
                           THEN Tail(pending[w]) ELSE pending[w]]

At(pc) == rx.pc = pc
Goto(pc) == rx' = [rx EXCEPT !.pc = pc]

RxStart ==
    /\ At("start")
    /\ state' = "WAITING_STREAM"
    /\ Goto("loop")
    /\ UNCHANGED <<stream, killRequested, configured, connected, more,
                   currentOffset, currentConsumerIndexToSendTo, counters,
                   mainvars, clients, inputs, out>>

\* What the rx thread leaves alone in every step but one or two.
RxKeeps == UNCHANGED <<produced, killRequested, block_size, forwardStream,
                       connected, mainvars, clients, inputs>>

RxLoop ==
    /\ At("loop")
    /\ Goto(IF killRequested THEN "done" ELSE "poll")
    /\ RxKeeps
    /\ UNCHANGED <<pending, rxsock, state, configuredOffset, more, currentOffset,
                   currentConsumerIndexToSendTo, counters, out>>

-----------------------------------------------------------------------------
(***************************************************************************)
(* The rx thread: HandleStreamMessage and the handlers of each kind        *)
(***************************************************************************)
Kind == Stream[rx.have[1].msg].kind
Detail == Stream[rx.have[1].msg].detail

\* Parts a handler insists on before it looks for an appendix.  The mutant
\* forgets the last part of an image.
NeededButLast ==
    CASE Kind = "image" -> 3
      [] Kind = "header" /\ Detail = "basic" -> 2
      [] Kind = "header" /\ Detail = "all" -> 8
      [] OTHER -> 1
Needed ==
    CASE Kind = "image" -> 4
      [] Kind = "header" /\ Detail = "basic" -> 2
      [] Kind = "header" /\ Detail = "all" -> 8
      [] OTHER -> 1

\* Only the first part of a message has one of the htypes; a later part that
\* has been left on the socket is an unknown message.
HandlerOf(p) ==
    IF p.part > 1 \/ Stream[p.msg].kind = "unknown" THEN "drainmore"
    ELSE CASE Stream[p.msg].kind = "header" -> "offset"
           [] Stream[p.msg].kind = "image" -> "index"
           [] Stream[p.msg].kind = "end" -> "decide"

RxRecv ==
    /\ At("poll")
    /\ \E p \in NextParts :
           /\ RxRecvPart(p)
           /\ rx' = [pc |-> HandlerOf(p), have |-> <<p>>, dest |-> 1, part |-> 1]
    /\ RxKeeps
    /\ UNCHANGED <<state, configuredOffset, more, currentOffset,
                   currentConsumerIndexToSendTo, counters, out>>

\* A header takes over the configured offset, in two steps that the main
\* thread may come between, and restarts the counters.
RxOffset ==
    /\ At("offset")
    /\ currentOffset' = configuredOffset
    /\ Goto("reset")
    /\ RxKeeps
    /\ UNCHANGED <<pending, rxsock, state, configuredOffset, more,
                   currentConsumerIndexToSendTo, counters, out>>

RxReset ==
    /\ At("reset")
    /\ configuredOffset' = 0
    /\ lastFrameSent' = 0
    /\ num_frames_sent' = 0
    /\ num_frames_consumed' = [c \in Ranks |-> 0]
    /\ Goto(IF Detail = "unknown" THEN "handled" ELSE "getmore")
    /\ RxKeeps
    /\ UNCHANGED <<pending, rxsock, state, more, currentOffset,
                   currentConsumerIndexToSendTo, out>>

RxIndex ==
    /\ At("index")
    /\ currentConsumerIndexToSendTo' =
           ConsumerIndex(Stream[rx.have[1].msg].frame, currentOffset,
                         block_size, NumConsumers)
    /\ Goto("getmore")
    /\ RxKeeps
    /\ UNCHANGED <<pending, rxsock, state, configuredOffset, more, currentOffset,
                   counters, out>>

\* getsockopt(ZMQ_RCVMORE) writes more ...
RxGetMore ==
    /\ At("getmore")
    /\ more' = RcvMore
    /\ Goto("testmore")
    /\ RxKeeps
    /\ UNCHANGED <<pending, rxsock, state, configuredOffset, currentOffset,
                   currentConsumerIndexToSendTo, counters, out>>

\* ... and the handler reads it: another part or an appendix to receive, a
\* message with too few parts to give up, or a complete one to send.  An image
\* that was given up is still counted.
RxTestMore ==
    /\ At("testmore")
    /\ Goto(CASE more -> "recvpart"
              [] ~more /\ Len(rx.have) >= Needed -> "decide"
              [] OTHER -> IF Kind = "image" THEN "count" ELSE "drainmore")
    /\ RxKeeps
    /\ UNCHANGED <<pending, rxsock, state, configuredOffset, more, currentOffset,
                   currentConsumerIndexToSendTo, counters, out>>

\* recv() of a further part; it blocks when there is none.  The appendix is the
\* last part, whatever follows.
RxRecvNext ==
    /\ At("recvpart")
    /\ \E p \in NextParts :
           /\ RxRecvPart(p)
           /\ rx' = [rx EXCEPT
                       !.have = Append(@, p),
                       !.pc = IF Len(rx.have) = Needed THEN "decide" ELSE "getmore"]
    /\ RxKeeps
    /\ UNCHANGED <<state, configuredOffset, more, currentOffset,
                   currentConsumerIndexToSendTo, counters, out>>

-----------------------------------------------------------------------------
(***************************************************************************)
(* The rx thread: the send loops                                           *)
(***************************************************************************)
ToOne == Kind = "image"

Dest == IF ToOne /\ rx.dest = 2 THEN currentConsumerIndexToSendTo
                                ELSE DestOfAll(rx.dest)

Last == rx.part = Len(rx.have)

\* A loop over the parts that does not advance.
AdvanceDestOnly == [rx EXCEPT !.dest = 3 - @, !.pc = "decide"]

\* All parts to a socket before the next socket, or, for an image, each part to
\* the forwarding socket and then to the consumer.
Advance ==
    IF ToOne
    THEN CASE rx.dest = 1 -> [rx EXCEPT !.dest = 2, !.pc = "decide"]
           [] rx.dest = 2 /\ ~Last -> [rx EXCEPT !.dest = 1, !.part = @ + 1,
                                                 !.pc = "decide"]
           [] OTHER -> [rx EXCEPT !.pc = "handled"]
    ELSE CASE ~Last -> [rx EXCEPT !.part = @ + 1]
           [] Last /\ rx.dest <= NumConsumers ->
                  [rx EXCEPT !.dest = @ + 1, !.part = 1, !.pc = "decide"]
           [] OTHER -> [rx EXCEPT !.pc = "handled"]

\* A loop over the consumers that runs one too far, and one that waits for a
\* consumer that is not connected.
SkipBeyond == IF ToOne THEN Advance ELSE [rx EXCEPT !.dest = @ + 1]
SkipNever == rx

\* A destination that is passed over is passed over for all the parts of a
\* message to all, and for one part of an image.
Skip ==
    IF ToOne THEN Advance
    ELSE IF rx.dest <= NumConsumers THEN [rx EXCEPT !.dest = @ + 1]
    ELSE [rx EXCEPT !.pc = "handled"]

\* consumers.at() throws on an index out of range; the exception ends the
\* handling of the message.
RxDecide ==
    /\ At("decide")
    /\ rx' = IF Dest \notin Sockets THEN [rx EXCEPT !.pc = "drainmore"]
             ELSE IF Wants(Dest) THEN [rx EXCEPT !.pc = "put"]
             ELSE Skip
    /\ RxKeeps
    /\ UNCHANGED <<pending, rxsock, state, configuredOffset, more, currentOffset,
                   currentConsumerIndexToSendTo, counters, out>>

RxPut ==
    /\ At("put")
    /\ SocketsOpen
    /\ LET p == rx.have[rx.part] IN Put(Dest, p.msg, p.part, ~Last)
    /\ rx' = Advance
    /\ UNCHANGED <<stream, killRequested, state, configured, connected, more,
                   currentOffset, currentConsumerIndexToSendTo, counters,
                   mainvars, peers, budget, inputs>>

\* send() on a closed socket throws.
RxPutFails ==
    /\ At("put")
    /\ ~SocketsOpen
    /\ Goto("drainmore")
    /\ RxKeeps
    /\ UNCHANGED <<pending, rxsock, state, configuredOffset, more, currentOffset,
                   currentConsumerIndexToSendTo, counters, out>>

RxHandled ==
    /\ At("handled")
    /\ state' = CASE Kind = "header" -> "DSTR_HEADER"
                  [] Kind = "image" -> "DSTR_IMAGE"
                  [] Kind = "end" -> "DSTR_END"
    /\ Goto(CASE Kind = "header" -> "drainmore"
              [] Kind = "image" -> "count"
              [] Kind = "end" -> "ended")
    /\ RxKeeps
    /\ UNCHANGED <<pending, rxsock, configuredOffset, more, currentOffset,
                   currentConsumerIndexToSendTo, counters, out>>

RxEnded ==
    /\ At("ended")
    /\ state' = "WAITING_STREAM"
    /\ Goto("drainmore")
    /\ RxKeeps
    /\ UNCHANGED <<pending, rxsock, configuredOffset, more, currentOffset,
                   currentConsumerIndexToSendTo, counters, out>>

\* The mutant takes ranks to start from one.
RankFromOne == currentConsumerIndexToSendTo + 1
CountedRank == currentConsumerIndexToSendTo

RxCount ==
    /\ At("count")
    /\ LET frame == Stream[rx.have[1].msg].frame IN
           lastFrameSent' = IF frame > lastFrameSent THEN frame ELSE lastFrameSent
    /\ num_frames_sent' = num_frames_sent + 1
    /\ num_frames_consumed' =
           [c \in Ranks |-> num_frames_consumed[c]
                + IF c = CountedRank THEN 1 ELSE 0]
    /\ Goto("drainmore")
    /\ RxKeeps
    /\ UNCHANGED <<pending, rxsock, state, configuredOffset, more, currentOffset,
                   currentConsumerIndexToSendTo, out>>

\* The leftover loop at the end of HandleStreamMessage, on the same more.
RxDrainMore ==
    /\ At("drainmore")
    /\ more' = RcvMore
    /\ Goto("drain")
    /\ RxKeeps
    /\ UNCHANGED <<pending, rxsock, state, configuredOffset, currentOffset,
                   currentConsumerIndexToSendTo, counters, out>>

RxTestRest ==
    /\ At("drain")
    /\ rx' = IF more THEN [rx EXCEPT !.pc = "drop"]
                     ELSE [RxIdle EXCEPT !.pc = "loop"]
    /\ RxKeeps
    /\ UNCHANGED <<pending, rxsock, state, configuredOffset, more, currentOffset,
                   currentConsumerIndexToSendTo, counters, out>>

RxDrop ==
    /\ At("drop")
    /\ \E p \in NextParts : RxRecvPart(p)
    /\ Goto("drainmore")
    /\ RxKeeps
    /\ UNCHANGED <<state, configuredOffset, more, currentOffset,
                   currentConsumerIndexToSendTo, counters, out>>

Rx ==
    /\ phase # "aborted"
    /\ \/ RxStart \/ RxLoop \/ RxRecv \/ RxOffset \/ RxReset \/ RxIndex
       \/ RxGetMore \/ RxTestMore \/ RxRecvNext
       \/ RxDecide \/ RxPut \/ RxPutFails \/ RxHandled \/ RxEnded \/ RxCount
       \/ RxDrainMore \/ RxTestRest \/ RxDrop

-----------------------------------------------------------------------------
Next == Outside \/ Main \/ Rx

Spec == Init /\ [][Next]_vars

\* The operating system runs both threads; detector and clients owe nothing.
FairSpec == Spec /\ WF_vars(Main) /\ WF_vars(Rx)

-----------------------------------------------------------------------------
(***************************************************************************)
(* Properties                                                              *)
(***************************************************************************)
States == {"WAITING_CONSUMERS", "WAITING_STREAM", "DSTR_HEADER", "DSTR_IMAGE",
           "DSTR_END", "KILL_REQUESTED"}

PartIds == [msg : MsgIds, part : Nat \ {0}]

RxPcs == {"none", "start", "loop", "poll", "offset", "reset", "index", "getmore",
          "testmore", "recvpart", "decide", "put", "handled", "ended", "count",
          "drainmore", "drain", "drop", "done"}

MainPcs == {"poll", "dispatch", "ctlbody", "fabricate", "fabricated", "apply",
            "reply", "ctlmore", "ctltest", "ctlrecv", "event", "endpoint",
            "monmore", "montest", "monrecv"}

EventSet == {"accepted", "disconnected"}

TypeOK ==
    /\ produced \in 0 .. Len(Stream)
    /\ pending \in [Workers -> Seq(MsgIds)]
    /\ rxsock \in [msg : MsgIds \cup {0}, next : Nat \ {0}]
    /\ killRequested \in BOOLEAN
    /\ state \in States
    /\ configuredOffset \in Int
    /\ block_size \in Nat \ {0}
    /\ forwardStream \in BOOLEAN
    /\ connected \in [Sockets -> Int]
    /\ more \in BOOLEAN
    /\ rx \in [pc : RxPcs, have : Seq(PartIds), dest : 1 .. NumConsumers + 1,
               part : Nat \ {0}]
    /\ currentOffset \in Int
    /\ currentConsumerIndexToSendTo \in Int
    /\ lastFrameSent \in Nat
    /\ num_frames_sent \in Nat
    /\ num_frames_consumed \in [Ranks -> Nat]
    /\ phase \in {"connect", "wait", "run", "closed", "aborted"}
    /\ main \in [pc : MainPcs, ready : SUBSET (Sockets \cup {Ctl}),
                 command : Commands \cup {Absent, NotABody},
                 event : EventSet \cup {"other", "none"},
                 dest : 1 .. NumConsumers + 2]
    /\ reply \in {"none", "ack", "nack"}
    /\ disturbed \in BOOLEAN
    /\ peers \in [Sockets -> 0 .. MaxPeers]
    /\ events \in [Sockets -> Seq(EventSet)]
    /\ endpoint \in [Sockets -> BOOLEAN]
    /\ control \in Seq(Commands)
    /\ ctlread \in Nat
    /\ out \in [Sockets -> Seq([msg : MsgIds \cup {0}, part : Nat \ {0},
                                more : BOOLEAN])]
    /\ dropping \in [Sockets -> BOOLEAN]
    /\ budget \in [events : 0 .. MaxEvents, commands : 0 .. MaxCommands]

Before(p, q) == p.msg < q.msg \/ (p.msg = q.msg /\ p.part < q.part)

\* With one worker, no socket ever gets a part of the detector twice, nor a part
\* of an earlier message or an earlier part after a later one, whatever the main
\* thread does to more, to the connection counters and to the forwarding
\* meanwhile (the receive and send loops of EigerFan.cpp:404-759 and 1221-1362).
InOrder ==
    \A s \in Sockets : \A i, j \in 1 .. Len(out[s]) :
        i < j /\ out[s][i].msg # 0 /\ out[s][j].msg # 0 =>
            Before(out[s][i], out[s][j])

\* A part that opens a zeromq message on a socket, and one that ends it.
Opens(s, i) == i = 1 \/ ~out[s][i - 1].more

\* Until the main thread, with messages flowing, takes in that a client has come
\* or gone, receives a part of a control request with another one behind it, or
\* fabricates an end message, every zeromq message on a consumer's socket is one
\* detector message from its first part on without a gap, with all the parts its
\* kind demands, only the last one being allowed to be still under way: whatever
\* the main thread's clearing of more does, a message that is given up leaves no
\* fragment, and parts of different messages are never glued together.  (A
\* client's event, or the identity of a further request in the drain loop, sets
\* more for the rx thread, which then takes the next message for the rest of this
\* one; a client that is counted changes connected between two parts of an image;
\* HandleGlobalHeaderMessage, HandleImageDataMessage, HandleControlMessage.)
NeededBy(m) ==
    CASE Stream[m].kind = "image" -> 4
      [] Stream[m].kind = "header" /\ Stream[m].detail = "basic" -> 2
      [] Stream[m].kind = "header" /\ Stream[m].detail = "all" -> 8
      [] OTHER -> 1

WholeMessages ==
    ~disturbed => \A c \in Ranks : \A i \in 1 .. Len(out[c]) :
        LET p == out[c][i] IN
            /\ IF Opens(c, i) THEN p.part = 1
               ELSE p.msg = out[c][i - 1].msg /\ p.part = out[c][i - 1].part + 1
            /\ ~p.more => p.msg = 0 \/ p.part >= NeededBy(p.msg)

\* A consumer is never sent more images of an acquisition than are counted for
\* it, whatever the main thread does meanwhile and whatever is given up: the
\* counters that the log prints at the end of a series, and that the status
\* adds up, bound what was really sent (EigerFan.cpp:436-443).  The detector is
\* taken to send no header of all details with fewer parts than that detail has.
ImagesSent(c) ==
    {m \in MsgIds :
        /\ Stream[m].kind = "image"
        /\ \A h \in m .. rxsock.msg : Stream[h].kind # "header"
        /\ \E i \in 1 .. Len(out[c]) : LET p == out[c][i] IN
               p.msg = m /\ p.part >= 4 /\ ~p.more}

CountedWhenSent ==
    \A c \in Ranks :
        Cardinality(ImagesSent(c)) <=
            num_frames_consumed[c]
                + IF At("handled") \/ At("count") THEN 1 ELSE 0

\* While the fan waits for its consumers, the counters are the numbers of
\* clients attached as soon as every event of a socket is taken in, whoever
\* comes and goes meanwhile (HandleMonitorMessage and
\* HandleForwardMonitorMessage: the floor at zero never hides a client).
ConnectedKnown ==
    phase = "connect" => \A s \in Sockets :
        events[s] = <<>> /\ main.pc = "poll" => connected[s] = peers[s]

\* A kill before all the consumers have come ends run(), or the process with a
\* request that has no id (EigerFan.cpp:233-266, 1187).
KilledBeforeStream ==
    killRequested /\ phase = "connect" ~> phase \in {"closed", "aborted"}

\* Messages that wait for the rx thread are taken, unless the fan is killed or
\* aborts, or the thread waits in send() for a client that has left: neither the
\* shared more nor a consumer that is not connected, nor one that leaves in the
\* middle of a message, can wedge it (EigerFan.cpp:360-481).
StreamServed ==
    \A w \in Workers :
        (pending[w] # <<>> /\ ~At("none")) ~>
            \/ pending[w] = <<>>
            \/ killRequested \/ phase = "aborted"
            \/ At("put") /\ peers[Dest] = 0 /\ ~dropping[Dest]

-----------------------------------------------------------------------------
(***************************************************************************)
(* Statements of the source that the runs refute                           *)
(***************************************************************************)

\* "Image Data only contained 1 part" (EigerFan.cpp:693, and 708, 718): an image
\* is given up as short only when the detector sent no further part.
ShortImagesAreShort ==
    At("testmore") /\ ~more /\ Kind = "image" /\ Len(rx.have) < 4 =>
        Len(rx.have) = Stream[rx.have[1].msg].parts

\* "Sending a fabricated end message means that any downstream processors can
\* close cleanly" (EigerFan.cpp:1368): a consumer gets it as a message of its
\* own, and nothing of the acquisition after it.
FabricatedEndIsTheEnd ==
    \A c \in Ranks : \A i \in 1 .. Len(out[c]) :
        out[c][i].msg = 0 => Opens(c, i) /\ i = Len(out[c])
=================================================================================
