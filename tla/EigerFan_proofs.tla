---------------------------- MODULE EigerFan_proofs ----------------------------
(***************************************************************************)
(* What holds of the fan for every stream, every number of consumers and   *)
(* workers, every set of commands and every bound on what clients do.      *)
(***************************************************************************)
EXTENDS EigerFan, FiniteSetTheorems, SequenceTheorems, TLAPS

-----------------------------------------------------------------------------
(***************************************************************************)
(* The invariants                                                          *)
(***************************************************************************)

\* Where the rx thread collects the parts of a message, where it sends them,
\* and where it knows which message it handles.
Collecting == {"offset", "reset", "index", "getmore", "testmore", "recvpart"}
Sending == {"decide", "put"}
Handling == Collecting \cup Sending \cup {"handled", "ended", "count"}

\* Where the main thread handles a command, and where an event.
Commanding == {"fabricate", "fabricated", "apply", "reply"}
Control == Commanding \cup {"ctlbody", "ctlmore", "ctltest", "ctlrecv"}
Monitoring == {"event", "endpoint", "monmore", "montest", "monrecv"}

\* What the main thread holds: a message is there for the control socket that
\* poll() has found ready, and a command in hand is one, or a part taken for one.
MainInv ==
    /\ Ctl \in main.ready => control # <<>>
    /\ main.pc \in Commanding => main.command \in Commands \cup {NotABody}
    /\ main.pc \in Control => Ctl \notin main.ready
    /\ main.pc = "fabricated" => main.dest <= NumConsumers + 1
    /\ phase \in {"wait", "closed", "aborted"} => main.pc = "poll"

\* What the rx thread holds: the first part says what kind of message it is, and
\* a message is not sent before it has the parts that this kind needs.
RxInv ==
    /\ rx.pc \in Handling => rx.have # <<>>
    /\ rx.pc \in {"offset", "reset"} => Kind = "header"
    /\ rx.pc \in {"index", "count"} => Kind = "image"
    /\ rx.pc \in Collecting => Kind \in {"header", "image"}
    /\ rx.pc \in Sending \cup {"handled"} => Kind \in {"header", "image", "end"}
    /\ rx.pc = "ended" => Kind = "end"
    /\ rx.pc \in Collecting => rx.dest = 1 /\ rx.part = 1
    /\ rx.pc \in Sending => /\ rx.part <= Len(rx.have)
                            /\ Needed <= Len(rx.have)
                            /\ ToOne => rx.dest <= 2
    /\ rx.pc = "decide" /\ ~ToOne => rx.part = 1
    /\ currentConsumerIndexToSendTo < NumConsumers
    /\ phase = "connect" => rx.pc = "none"

IInv == TypeOK /\ MainInv /\ RxInv

\* With one worker: the parts received so far, ...
SeenBy(sock, p) == \/ p.msg < sock.msg
                   \/ p.msg = sock.msg /\ p.part < sock.next
Seen(p) == SeenBy(rxsock, p)

\* ... which come before what waits, ...
QueueInv ==
    /\ rxsock.msg <= produced
    /\ \A w \in Workers :
           /\ \A i \in 1 .. Len(pending[w]) :
                  rxsock.msg < pending[w][i] /\ pending[w][i] <= produced
           /\ \A i, j \in 1 .. Len(pending[w]) :
                  i < j => pending[w][i] < pending[w][j]

\* ... the parts in hand, in order, ...
HaveInv ==
    /\ \A i \in 1 .. Len(rx.have) : Seen(rx.have[i])
    /\ \A i, j \in 1 .. Len(rx.have) : i < j => Before(rx.have[i], rx.have[j])

\* ... and the parts sent, which come before what is still due on their socket.
SentInv ==
    \A s \in Sockets : \A i \in 1 .. Len(out[s]) :
        out[s][i].msg # 0 => Seen(out[s][i])

Turn(s) == IF s = Fwd THEN 1 ELSE s + 2
DueFrom(s) ==
    IF ToOne THEN IF s = Fwd /\ rx.dest = 2 THEN rx.part + 1 ELSE rx.part
    ELSE IF Turn(s) < rx.dest THEN Len(rx.have) + 1
    ELSE IF Turn(s) = rx.dest THEN rx.part
    ELSE 1

DueInv ==
    rx.pc \in Collecting \cup Sending =>
        \A s \in Sockets : \A i \in 1 .. Len(out[s]) :
            \A k \in DueFrom(s) .. Len(rx.have) :
                out[s][i].msg # 0 => Before(out[s][i], rx.have[k])

OrderInv == QueueInv /\ HaveInv /\ SentInv /\ DueInv /\ InOrder

\* Undisturbed: the main thread handles events only before the rx thread runs,
\* and the consumers stay connected, ...
CalmInv ==
    /\ phase = "connect" => \A c \in Ranks : out[c] = <<>>
    /\ phase # "connect" => main.pc \notin Monitoring
    /\ phase \in {"wait", "run"} => \A c \in Ranks : connected[c] = 1

\* ... a more that the rx thread finds set is its own, so that the parts in hand
\* are the first ones of the message that is being received, ...
OwnInv ==
    /\ rx.pc \in {"testmore", "drain"} /\ more => RcvMore
    /\ rx.pc \in {"recvpart", "drop"} => RcvMore
    /\ rx.pc \in Collecting \cup Sending =>
           /\ rxsock.next = Len(rx.have) + 1
           /\ \A k \in 1 .. Len(rx.have) :
                  rx.have[k] = [msg |-> rxsock.msg, part |-> k]

\* ... and the zeromq message on a socket is open only between two parts that
\* the rx thread sends there, or is being dropped.
Amid(c) ==
    /\ rx.pc \in Sending
    /\ rx.part > 1
    /\ c = IF ToOne THEN currentConsumerIndexToSendTo ELSE rx.dest - 2

OpenAt(c) ==
    IF Amid(c) /\ ~dropping[c]
    THEN /\ out[c] # <<>>
         /\ out[c][Len(out[c])] =
                [msg |-> rxsock.msg, part |-> rx.part - 1, more |-> TRUE]
    ELSE /\ out[c] # <<>> => ~out[c][Len(out[c])].more
         /\ dropping[c] => Amid(c)

OpenInv == SocketsOpen => \A c \in Ranks : OpenAt(c)

WholeInv == (~disturbed => CalmInv /\ OwnInv /\ OpenInv) /\ WholeMessages

\* The groups in which the state is typed.
Types ==
    /\ produced \in 0 .. Len(Stream)
    /\ pending \in [Workers -> Seq(MsgIds)]
    /\ rxsock \in [msg : MsgIds \cup {0}, next : Nat \ {0}]

SharedTypes ==
    /\ killRequested \in BOOLEAN
    /\ state \in States
    /\ configuredOffset \in Int
    /\ block_size \in Nat \ {0}
    /\ forwardStream \in BOOLEAN
    /\ connected \in [Sockets -> Int]
    /\ more \in BOOLEAN

RxTypes ==
    rx \in [pc : RxPcs, have : Seq(PartIds), dest : 1 .. NumConsumers + 1,
            part : Nat \ {0}]

CountTypes ==
    /\ currentOffset \in Int
    /\ currentConsumerIndexToSendTo \in Int
    /\ lastFrameSent \in Nat
    /\ num_frames_sent \in Nat
    /\ num_frames_consumed \in [Ranks -> Nat]

MainTypes ==
    /\ phase \in {"connect", "wait", "run", "closed", "aborted"}
    /\ main \in [pc : MainPcs, ready : SUBSET (Sockets \cup {Ctl}),
                 command : Commands \cup {Absent, NotABody},
                 event : EventSet \cup {"other", "none"},
                 dest : 1 .. NumConsumers + 2]
    /\ reply \in {"none", "ack", "nack"}
    /\ disturbed \in BOOLEAN

ClientTypes ==
    /\ peers \in [Sockets -> 0 .. MaxPeers]
    /\ dropping \in [Sockets -> BOOLEAN]
    /\ budget \in [events : 0 .. MaxEvents, commands : 0 .. MaxCommands]

InputTypes ==
    /\ events \in [Sockets -> Seq(EventSet)]
    /\ endpoint \in [Sockets -> BOOLEAN]
    /\ control \in Seq(Commands)
    /\ ctlread \in Nat

OutTypes ==
    out \in [Sockets -> Seq([msg : MsgIds \cup {0}, part : Nat \ {0},
                             more : BOOLEAN])]

LEMMA TypeGroups ==
    TypeOK <=> /\ Types /\ SharedTypes /\ RxTypes /\ CountTypes
               /\ MainTypes /\ ClientTypes /\ InputTypes /\ OutTypes
  BY DEF TypeOK, Types, SharedTypes, RxTypes, CountTypes, MainTypes,
         ClientTypes, InputTypes, OutTypes

-----------------------------------------------------------------------------
(***************************************************************************)
(* Who changes what                                                        *)
(***************************************************************************)

\* The stream moves when the detector sends and when the rx thread receives.
LEMMA StreamMoves ==
    ASSUME [Next]_vars
    PROVE  \/ UNCHANGED stream
           \/ \E w \in Workers : Produce(w)
           \/ Rx /\ (RxRecv \/ RxRecvNext \/ RxDrop)
  BY DEF Next, vars, Outside, Attach, Detach, Request, Main, MainPoll,
         MainSpawnRx, MainWake, MainClose, MainServed, CtlRecvId, CtlRecv,
         FabricateNext,
         FabricatePut, FabricateEnd, CtlApply, CtlReply, CtlAbort, CtlMore,
         CtlTestMore, CtlDrop,
         Monitor, MonRecv, MonTestMore, MonEndpoint, MonMore, MonTestRest,
         MonDrop, Rx, RxStart, RxLoop, RxOffset, RxReset, RxIndex, RxGetMore,
         RxTestMore, RxDecide, RxPut, RxPutFails, RxHandled, RxEnded, RxCount,
         RxDrainMore, RxTestRest, RxKeeps, stream

\* The rx thread's own state changes in its steps and when it is spawned.
LEMMA RxMoves ==
    ASSUME [Next]_vars
    PROVE  UNCHANGED rx \/ MainSpawnRx \/ Rx
  BY DEF Next, vars, rxvars, Outside, Produce, Attach, Detach, Request, Main,
         MainPoll, MainWake, MainClose, MainServed, CtlRecvId, CtlRecv,
         FabricateNext,
         FabricatePut, FabricateEnd, CtlApply, CtlReply, CtlAbort, CtlMore,
         CtlTestMore, CtlDrop,
         Monitor, MonRecv, MonTestMore, MonEndpoint, MonMore, MonTestRest,
         MonDrop

\* The clients, what they have sent and the main thread's state do not change in
\* a step of the rx thread, which takes none after an abort.
LEMMA RxLeaves ==
    ASSUME Rx
    PROVE  /\ phase # "aborted"
           /\ UNCHANGED <<mainvars, peers, budget, inputs, connected,
                          killRequested, block_size, forwardStream>>
  BY DEF Rx, RxStart, RxLoop, RxRecv, RxOffset, RxReset, RxIndex, RxGetMore,
         RxTestMore, RxRecvNext, RxDecide, RxPut, RxPutFails, RxHandled, RxEnded,
         RxCount, RxDrainMore, RxTestRest, RxDrop, RxKeeps, configured, clients

\* Nor does what the rx thread uses in a step of the main thread, ...
LEMMA MainLeaves ==
    ASSUME Main
    PROVE  UNCHANGED <<stream, currentOffset, currentConsumerIndexToSendTo,
                       counters>>
  BY DEF Main, MainPoll, MainSpawnRx, MainWake, MainClose, MainServed,
         CtlRecvId, CtlRecv,
         FabricateNext, FabricatePut, FabricateEnd, CtlApply, CtlReply,
         CtlAbort, CtlMore,
         CtlTestMore, CtlDrop, Monitor, MonRecv, MonTestMore, MonEndpoint,
         MonMore, MonTestRest, MonDrop, rxvars

\* ... nor either's in a step of the world outside.
LEMMA OutsideLeaves ==
    ASSUME Outside
    PROVE  UNCHANGED <<rxsock, killRequested, state, configured, connected, more,
                       rxvars, mainvars, endpoint, ctlread>>
  BY DEF Outside, Produce, Attach, Detach, Request, inputs, stream

LEMMA OutMoves ==
    ASSUME [Next]_vars
    PROVE  \/ UNCHANGED <<out, dropping>>
           \/ FabricatePut
           \/ Rx /\ RxPut
           \/ \E s \in Sockets : Detach(s)
  BY DEF Next, vars, clients, Outside, Produce, Attach, Request, Main, MainPoll,
         MainSpawnRx, MainWake, MainClose, MainServed, CtlRecvId, CtlRecv,
         FabricateNext,
         FabricateEnd, CtlApply, CtlReply, CtlAbort, CtlMore, CtlTestMore,
         CtlDrop,
         Monitor, MonRecv, MonTestMore, MonEndpoint, MonMore, MonTestRest,
         MonDrop, Rx, RxStart, RxLoop, RxRecv, RxOffset, RxReset, RxIndex,
         RxGetMore, RxTestMore, RxRecvNext, RxDecide, RxPutFails, RxHandled,
         RxEnded, RxCount, RxDrainMore, RxTestRest, RxDrop, RxKeeps

-----------------------------------------------------------------------------
(***************************************************************************)
(* The types                                                               *)
(***************************************************************************)

\* A message of the stream, and the part that recv() returns.
LEMMA StreamTypes ==
    /\ Len(Stream) \in Nat
    /\ \A m \in MsgIds : /\ m \in Nat \ {0}
                         /\ Stream[m].kind \in Kinds
                         /\ Stream[m].parts \in Nat \ {0}
                         /\ Stream[m].frame \in Nat
                         /\ Stream[m].detail \in Details
<1>1. Len(Stream) \in Nat
  BY StreamAssumption
<1>2. ASSUME NEW m \in MsgIds
      PROVE  m \in Nat \ {0} /\ Stream[m] \in MessageSet
  BY <1>2, StreamAssumption DEF MsgIds
<1>3. QED
  BY <1>1, <1>2 DEF MessageSet

LEMMA PartTypes ==
    ASSUME Types, NEW p \in NextParts
    PROVE  p \in PartIds
<1>1. CASE RcvMore
  BY <1>1 DEF NextParts, Types, PartIds, RcvMore
<1>2. CASE ~RcvMore
  <2>1. PICK w \in Workers : /\ pending[w] # <<>>
                             /\ p = [msg |-> Head(pending[w]), part |-> 1]
    BY <1>2 DEF NextParts
  <2>2. pending[w] \in Seq(MsgIds)
    BY DEF Types
  <2>3. Head(pending[w]) \in MsgIds
    BY <2>1, <2>2
  <2>4. QED
    BY <2>1, <2>3 DEF PartIds
<1>3. QED
  BY <1>1, <1>2

LEMMA RecvTypes ==
    ASSUME Types, NEW p \in NextParts, RxRecvPart(p), produced' = produced
    PROVE  Types'
<1>1. p \in PartIds
  BY PartTypes
<1>2. rxsock' \in [msg : MsgIds \cup {0}, next : Nat \ {0}]
  BY <1>1 DEF RxRecvPart, PartIds
<1>3. pending' \in [Workers -> Seq(MsgIds)]
  BY DEF RxRecvPart, Types
<1>4. QED
  BY <1>2, <1>3 DEF Types

LEMMA TypesStep ==
    ASSUME Types, [Next]_vars
    PROVE  Types'
<1>1. CASE UNCHANGED stream
  BY <1>1 DEF Types, stream
<1>2. ASSUME NEW w \in Workers, Produce(w)
      PROVE  Types'
  <2>1. produced + 1 \in MsgIds /\ produced' \in 0 .. Len(Stream)
    BY <1>2, StreamTypes DEF Produce, Types, MsgIds
  <2>2. QED
    BY <1>2, <2>1 DEF Produce, Types
<1>3. CASE RxRecv \/ RxRecvNext \/ RxDrop
  BY <1>3, RecvTypes DEF RxRecv, RxRecvNext, RxDrop, RxKeeps
<1>4. QED
  BY <1>1, <1>2, <1>3, StreamMoves

LEMMA BudgetStep ==
    ASSUME ClientTypes, [Next]_vars
    PROVE  /\ peers' \in [Sockets -> 0 .. MaxPeers]
           /\ budget' \in [events : 0 .. MaxEvents, commands : 0 .. MaxCommands]
<1> USE DEF ClientTypes
<1>1. CASE UNCHANGED <<peers, budget>>
  BY <1>1
<1>2. CASE Outside
  <2>1. ASSUME NEW s \in Sockets, Attach(s)
        PROVE  /\ peers' \in [Sockets -> 0 .. MaxPeers]
               /\ budget' \in [events : 0 .. MaxEvents,
                               commands : 0 .. MaxCommands]
    <3>1. /\ peers[s] < MaxPeers
          /\ peers' = [peers EXCEPT ![s] = @ + 1]
          /\ budget.events > 0
          /\ budget' = [budget EXCEPT !.events = @ - 1]
      BY <2>1 DEF Attach
    <3>2. QED
      BY <3>1, FanAssumption
  <2>2. ASSUME NEW s \in Sockets, Detach(s)
        PROVE  /\ peers' \in [Sockets -> 0 .. MaxPeers]
               /\ budget' \in [events : 0 .. MaxEvents,
                               commands : 0 .. MaxCommands]
    <3>1. /\ peers[s] > 0
          /\ peers' = [peers EXCEPT ![s] = @ - 1]
          /\ budget.events > 0
          /\ budget' = [budget EXCEPT !.events = @ - 1]
      BY <2>2 DEF Detach
    <3>2. QED
      BY <3>1, FanAssumption
  <2>3. ASSUME NEW c \in Commands, Request(c)
        PROVE  /\ peers' \in [Sockets -> 0 .. MaxPeers]
               /\ budget' \in [events : 0 .. MaxEvents,
                               commands : 0 .. MaxCommands]
    <3>1. /\ peers' = peers
          /\ budget.commands > 0
          /\ budget' = [budget EXCEPT !.commands = @ - 1]
      BY <2>3 DEF Request
    <3>2. QED
      BY <3>1, FanAssumption
  <2>4. ASSUME NEW w \in Workers, Produce(w)
        PROVE  UNCHANGED <<peers, budget>>
    BY <2>4 DEF Produce, clients
  <2>5. QED
    BY <1>1, <1>2, <2>1, <2>2, <2>3, <2>4 DEF Outside
<1>3. CASE Main
  <2>1. UNCHANGED <<peers, budget>>
    BY <1>3
       DEF Main, MainPoll, MainSpawnRx, MainWake, MainClose, MainServed,
           CtlRecvId, CtlRecv, FabricateNext, FabricatePut, FabricateEnd,
           CtlApply, CtlReply, CtlAbort, CtlMore, CtlTestMore, CtlDrop, Monitor,
           MonRecv, MonTestMore, MonEndpoint, MonMore, MonTestRest, MonDrop,
           clients
  <2>2. QED
    BY <1>1, <2>1
<1>4. CASE Rx
  BY <1>4, <1>1, RxLeaves
<1>5. CASE UNCHANGED vars
  BY <1>5, <1>1 DEF vars, clients
<1>6. QED
  BY <1>2, <1>3, <1>4, <1>5 DEF Next

\* What recv() on a monitor socket leaves.
LEMMA MonRecvTypes ==
    ASSUME InputTypes, NEW s \in Sockets, MonRecvPart(s),
           control' = control, ctlread' = ctlread
    PROVE  InputTypes'
<1>1. endpoint' \in [Sockets -> BOOLEAN]
  BY DEF MonRecvPart, InputTypes
<1>2. events' \in [Sockets -> Seq(EventSet)]
  <2>1. CASE endpoint[s]
    BY <2>1 DEF MonRecvPart, InputTypes
  <2>2. CASE ~endpoint[s]
    <3>1. events[s] # <<>> /\ events[s] \in Seq(EventSet)
      BY <2>2 DEF MonRecvPart, MonReadable, InputTypes
    <3>2. Tail(events[s]) \in Seq(EventSet)
      BY <3>1
    <3>3. QED
      BY <2>2, <3>2 DEF MonRecvPart, InputTypes
  <2>3. QED
    BY <2>1, <2>2
<1>3. QED
  BY <1>1, <1>2 DEF InputTypes

\* What recv() on the control socket takes, and what it leaves.
LEMMA CtlRecvTypes ==
    ASSUME InputTypes, CtlRecvPart, events' = events, endpoint' = endpoint
    PROVE  InputTypes' /\ Head(control) \in Commands
<1>1. control # <<>> /\ control \in Seq(Commands) /\ ctlread \in Nat
  BY DEF CtlRecvPart, InputTypes
<1>2. Head(control) \in Commands /\ Tail(control) \in Seq(Commands)
  BY <1>1
<1>3. /\ control' = control \/ control' = Tail(control)
      /\ ctlread' = 0 \/ ctlread' = ctlread + 1
  BY DEF CtlRecvPart
<1>4. events' \in [Sockets -> Seq(EventSet)] /\ endpoint' \in [Sockets -> BOOLEAN]
  BY DEF InputTypes
<1>5. control' \in Seq(Commands)
  BY <1>1, <1>2, <1>3
<1>6. ctlread' \in Nat
  BY <1>1, <1>3
<1>7. QED
  BY <1>2, <1>4, <1>5, <1>6 DEF InputTypes

LEMMA InputMoves ==
    ASSUME Main
    PROVE  \/ UNCHANGED inputs
           \/ CtlRecvId \/ CtlRecv \/ CtlDrop
           \/ \E s \in Sockets : MonRecv(s) \/ MonEndpoint(s) \/ MonDrop(s)
  BY DEF Main, MainPoll, MainSpawnRx, MainWake, MainClose, MainServed,
         FabricateNext, FabricatePut, FabricateEnd, CtlApply, CtlReply,
         CtlAbort, CtlMore,
         CtlTestMore, Monitor, MonTestMore, MonMore, MonTestRest

LEMMA InputTypesStep ==
    ASSUME InputTypes, MainTypes, MainInv, [Next]_vars
    PROVE  InputTypes'
<1>1. CASE UNCHANGED inputs
  BY <1>1 DEF InputTypes, inputs
<1>2. CASE Outside
  <2>1. ASSUME NEW s \in Sockets, Attach(s)
        PROVE  InputTypes'
    BY <2>1 DEF Attach, InputTypes, EventSet
  <2>2. ASSUME NEW s \in Sockets, Detach(s)
        PROVE  InputTypes'
    BY <2>2 DEF Detach, InputTypes, EventSet
  <2>3. ASSUME NEW c \in Commands, Request(c)
        PROVE  InputTypes'
    BY <2>3 DEF Request, InputTypes
  <2>4. ASSUME NEW w \in Workers, Produce(w)
        PROVE  InputTypes'
    BY <2>4, <1>1 DEF Produce
  <2>5. QED
    BY <1>2, <2>1, <2>2, <2>3, <2>4 DEF Outside
<1>3. CASE Main
  <2>1. CASE CtlRecvId \/ CtlRecv \/ CtlDrop
    BY <2>1, CtlRecvTypes DEF CtlRecvId, CtlRecv, CtlDrop
  <2>3. ASSUME NEW s \in Sockets, MonRecv(s) \/ MonEndpoint(s) \/ MonDrop(s)
        PROVE  InputTypes'
    BY <2>3, MonRecvTypes DEF MonRecv, MonEndpoint, MonDrop
  <2>4. QED
    BY <1>3, <1>1, <2>1, <2>3, InputMoves
<1>4. CASE Rx
  BY <1>4, <1>1, RxLeaves
<1>5. CASE UNCHANGED vars
  BY <1>5, <1>1 DEF vars
<1>6. QED
  BY <1>2, <1>3, <1>4, <1>5 DEF Next

\* A send puts one part behind the parts sent, or drops it.
LEMMA PutTypes ==
    ASSUME OutTypes, dropping \in [Sockets -> BOOLEAN],
           NEW s, NEW m \in MsgIds \cup {0},
           NEW k \in Nat \ {0}, NEW b \in BOOLEAN, Put(s, m, k, b)
    PROVE  OutTypes' /\ dropping' \in [Sockets -> BOOLEAN]
<1> DEFINE e == [msg |-> m, part |-> k, more |-> b]
           E == [msg : MsgIds \cup {0}, part : Nat \ {0}, more : BOOLEAN]
<1>1. e \in E
  OBVIOUS
<1>2. \/ s \in Sockets /\ out' = [out EXCEPT ![s] = Append(@, e)]
      \/ out' = out
  BY DEF Put, OutTypes
<1>3. dropping' \in [Sockets -> BOOLEAN]
  BY DEF Put
<1> HIDE DEF e, E
<1>4. out \in [Sockets -> Seq(E)]
  BY DEF OutTypes, E
<1>5. out' \in [Sockets -> Seq(E)]
  <2>1. CASE s \in Sockets /\ out' = [out EXCEPT ![s] = Append(@, e)]
    <3>1. Append(out[s], e) \in Seq(E)
      BY <1>1, <1>4, <2>1
    <3>2. QED
      BY <1>4, <2>1, <3>1
  <2>2. QED
    BY <1>2, <1>4, <2>1
<1>6. QED
  BY <1>3, <1>5 DEF OutTypes, E

\* What a client that leaves is not sent to the end is taken off the parts sent,
\* of which a beginning is left.
LEMMA DetachKeeps ==
    ASSUME OutTypes, dropping \in [Sockets -> BOOLEAN],
           NEW s \in Sockets, Detach(s)
    PROVE  /\ OutTypes' /\ dropping' \in [Sockets -> BOOLEAN]
           /\ \A t \in Sockets :
                  /\ Len(out'[t]) <= Len(out[t])
                  /\ \A i \in 1 .. Len(out'[t]) : out'[t][i] = out[t][i]
<1> DEFINE E == [msg : MsgIds \cup {0}, part : Nat \ {0}, more : BOOLEAN]
<1>1. CASE UNCHANGED <<out, dropping>>
  <2>1. OutTypes' /\ dropping' \in [Sockets -> BOOLEAN]
    BY <1>1 DEF OutTypes
  <2>2. \A t \in Sockets : Len(out[t]) \in Nat
    BY DEF OutTypes
  <2>3. QED
    BY <1>1, <2>1, <2>2
<1>2. CASE Lose(s)
  <2>1. PICK n \in 0 .. Len(out[s]) : out' = [out EXCEPT ![s] = SubSeq(@, 1, n)]
    BY <1>2 DEF Lose
  <2>2. out \in [Sockets -> Seq(E)]
    BY DEF OutTypes
  <2> HIDE DEF E
  <2>3. /\ SubSeq(out[s], 1, n) \in Seq(E)
        /\ Len(SubSeq(out[s], 1, n)) = n
        /\ \A i \in 1 .. n : SubSeq(out[s], 1, n)[i] = out[s][i]
    BY <2>2
  <2>4. out' \in [Sockets -> Seq(E)]
    BY <2>1, <2>2, <2>3
  <2>5. dropping' \in [Sockets -> BOOLEAN]
    BY <1>2 DEF Lose
  <2>6. ASSUME NEW t \in Sockets
        PROVE  /\ Len(out'[t]) <= Len(out[t])
               /\ \A i \in 1 .. Len(out'[t]) : out'[t][i] = out[t][i]
    <3>1. CASE t = s
      BY <2>1, <2>2, <2>3, <3>1
    <3>2. CASE t # s
      <4>1. out'[t] = out[t] /\ Len(out[t]) \in Nat
        BY <2>1, <2>2, <3>2
      <4>2. QED
        BY <4>1
    <3>3. QED
      BY <3>1, <3>2
  <2>7. QED
    BY <2>4, <2>5, <2>6 DEF OutTypes, E
<1>3. QED
  BY <1>1, <1>2 DEF Detach

-----------------------------------------------------------------------------
(***************************************************************************)
(* The main thread                                                         *)
(***************************************************************************)

\* A step of the other thread, or of the world outside, takes nothing away from
\* the main thread.
LEMMA MainUndisturbed ==
    ASSUME MainTypes, MainInv, InputTypes, Outside \/ Rx \/ UNCHANGED vars
    PROVE  MainTypes' /\ MainInv'
<1>1. UNCHANGED mainvars
  BY OutsideLeaves, RxLeaves DEF vars
<1>2. control # <<>> => control' # <<>>
  <2>1. CASE Outside
    <3>1. ASSUME NEW c \in Commands, Request(c)
          PROVE  control' # <<>>
      BY <3>1 DEF Request, InputTypes
    <3>2. ASSUME NEW s \in Sockets, Attach(s) \/ Detach(s)
          PROVE  control' = control
      BY <3>2 DEF Attach, Detach
    <3>3. ASSUME NEW w \in Workers, Produce(w)
          PROVE  control' = control
      BY <3>3 DEF Produce, inputs
    <3>4. QED
      BY <2>1, <3>1, <3>2, <3>3 DEF Outside
  <2>2. CASE Rx
    BY <2>2, RxLeaves DEF inputs
  <2>3. CASE UNCHANGED vars
    BY <2>3 DEF vars, inputs
  <2>4. QED
    BY <2>1, <2>2, <2>3
<1>3. QED
  BY <1>1, <1>2 DEF MainTypes, MainInv, mainvars

\* The loops of run().
LEMMA MainLoop ==
    ASSUME MainTypes, MainInv,
           MainPoll \/ MainSpawnRx \/ MainWake \/ MainClose \/ MainServed
    PROVE  MainTypes' /\ MainInv'
<1>1. CASE MainPoll
  <2>1. /\ main' = [main EXCEPT !.pc = "dispatch", !.ready = Readable]
        /\ phase' = phase /\ reply' = reply /\ disturbed' = disturbed
        /\ control' = control
        /\ phase \in {"connect", "run"}
    BY <1>1 DEF MainPoll, Looping, inputs, MainTypes
  <2>2. Readable \subseteq Sockets \cup {Ctl} /\ (Ctl \in Readable => control # <<>>)
    BY FanAssumption DEF Readable, Ctl, Sockets, Ranks, Fwd
  <2>3. QED
    BY <2>1, <2>2 DEF MainTypes, MainInv, MainPcs, Commanding, Control
<1>2. CASE MainSpawnRx
  BY <1>2 DEF MainSpawnRx, MainTypes, MainInv, inputs
<1>3. CASE MainWake
  BY <1>3 DEF MainWake, MainTypes, MainInv, inputs
<1>4. CASE MainClose
  BY <1>4 DEF MainClose, MainTypes, MainInv, inputs
<1>5. CASE MainServed
  BY <1>5 DEF MainServed, MainTypes, MainInv, MainPcs, inputs, Commanding, Control
<1>6. QED
  BY <1>1, <1>2, <1>3, <1>4, <1>5

\* What the main thread holds when it has received a command.
LEMMA CommandInHand ==
    ASSUME MainTypes, NEW q \in {"fabricate", "apply"},
           NEW c \in Commands \cup {NotABody},
           main' = [main EXCEPT !.pc = q, !.command = c, !.dest = 1],
           phase' = phase, reply' = reply, disturbed' = disturbed
    PROVE  MainTypes'
<1>1. 1 \in 1 .. NumConsumers + 2
  BY FanAssumption
<1>2. q \in MainPcs
  BY DEF MainPcs
<1>3. main' \in [pc : MainPcs, ready : SUBSET (Sockets \cup {Ctl}),
                 command : Commands \cup {Absent, NotABody},
                 event : EventSet \cup {"other", "none"},
                 dest : 1 .. NumConsumers + 2]
  BY <1>1, <1>2 DEF MainTypes
<1>4. QED
  BY <1>3 DEF MainTypes

\* A control message.
LEMMA MainControl ==
    ASSUME MainTypes, MainInv, InputTypes,
           \/ CtlRecvId \/ CtlRecv
           \/ FabricateNext \/ FabricatePut \/ FabricateEnd
           \/ CtlApply \/ CtlReply \/ CtlAbort
           \/ CtlMore \/ CtlTestMore \/ CtlDrop
    PROVE  MainTypes' /\ MainInv'
<1> USE DEF MainTypes, MainInv, MainPcs, Commanding, Control
<1>0. CASE CtlRecvId
  <2>1. main.ready \ {Ctl} \in SUBSET (Sockets \cup {Ctl})
    OBVIOUS
  <2>2. /\ main.pc = "dispatch"
        /\ main' = [main EXCEPT !.pc = "ctlbody", !.ready = @ \ {Ctl}]
        /\ phase' = phase /\ reply' = reply /\ disturbed' = disturbed
    BY <1>0 DEF CtlRecvId, Serving
  <2>3. QED
    BY <2>1, <2>2
<1>1. CASE CtlRecv
  <2>1. main.pc = "ctlbody"
    BY <1>1 DEF CtlRecv
  <2>2. CtlRecvPart /\ events' = events /\ endpoint' = endpoint
    BY <1>1 DEF CtlRecv
  <2>3. Head(control) \in Commands
    BY <2>2, CtlRecvTypes
  <2>4. PICK c \in Commands \cup {NotABody}, q \in {"fabricate", "apply"} :
            main' = [main EXCEPT !.pc = q, !.command = c, !.dest = 1]
    BY <1>1, <2>3 DEF CtlRecv
  <2>9. phase' = phase /\ reply' = reply /\ disturbed' = disturbed
    BY <1>1 DEF CtlRecv
  <2>5. /\ main'.ready = main.ready /\ main'.dest = 1
        /\ main'.command = c /\ main'.pc = q
    BY <2>4
  <2>6. MainTypes'
    BY <2>4, <2>9, CommandInHand
  <2>7. MainInv'
    BY <2>1, <2>5, <2>9
  <2>8. QED
    BY <2>6, <2>7
<1>2. CASE FabricateNext
  <2>1. /\ main.pc = "fabricate" /\ main.dest <= NumConsumers + 1
        /\ \/ main' = [main EXCEPT !.pc = "fabricated"]
           \/ main' = [main EXCEPT !.dest = @ + 1]
        /\ phase' = phase /\ reply' = reply /\ control' = control
        /\ disturbed' = disturbed
    BY <1>2 DEF FabricateNext, inputs
  <2>2. NumConsumers \in Nat /\ main.dest \in 1 .. NumConsumers + 2
    BY FanAssumption
  <2>3. main.dest + 1 \in 1 .. NumConsumers + 2
    BY <2>1, <2>2
  <2>4. CASE main' = [main EXCEPT !.pc = "fabricated"]
    BY <2>1, <2>4
  <2>5. CASE main' = [main EXCEPT !.dest = @ + 1]
    BY <2>1, <2>3, <2>5
  <2>6. QED
    BY <2>1, <2>4, <2>5
<1>3. CASE FabricatePut
  <2>1. /\ main.pc = "fabricated"
        /\ main' = [main EXCEPT !.pc = "fabricate", !.dest = @ + 1]
        /\ phase' = phase /\ reply' = reply /\ control' = control
        /\ disturbed' = TRUE
    BY <1>3 DEF FabricatePut, inputs
  <2>2. main.dest + 1 \in 1 .. NumConsumers + 2
    BY <2>1, FanAssumption
  <2>3. MainTypes'
    BY <2>1, <2>2
  <2>4. MainInv'
    BY <2>1, <2>2
  <2>5. QED
    BY <2>3, <2>4
<1>4. CASE FabricateEnd
  BY <1>4 DEF FabricateEnd, inputs
<1>5. CASE CtlApply
  BY <1>5 DEF CtlApply, inputs
<1>10. CASE CtlReply
  BY <1>10 DEF CtlReply, inputs, ReplyTo
<1>11. CASE CtlAbort
  <2>1. /\ main' = MainIdle /\ phase' = "aborted"
        /\ reply' = reply /\ disturbed' = disturbed
    BY <1>11 DEF CtlAbort
  <2>2. QED
    BY <2>1, FanAssumption DEF MainIdle
<1>6. CASE CtlMore
  BY <1>6 DEF CtlMore, inputs
<1>7. CASE CtlTestMore
  BY <1>7, FanAssumption DEF CtlTestMore, inputs, MainIdle
<1>8. CASE CtlDrop
  BY <1>8 DEF CtlDrop
<1>9. QED
  BY <1>0, <1>1, <1>2, <1>3, <1>4, <1>5, <1>6, <1>7, <1>8, <1>10, <1>11

\* A monitor event.
LEMMA MainMonitor ==
    ASSUME MainTypes, MainInv, InputTypes, NEW s \in Sockets, Monitor(s)
    PROVE  MainTypes' /\ MainInv'
<1> USE DEF MainTypes, MainInv, MainPcs, Commanding, Control
<1>1. CASE MonRecv(s)
  <2>1. (IF endpoint[s] THEN "other" ELSE Head(events[s]))
            \in EventSet \cup {"other", "none"}
    BY <1>1 DEF MonRecv, MonRecvPart, MonReadable, InputTypes
  <2>2. /\ main.pc = "dispatch"
        /\ main' = [main EXCEPT !.pc = "event", !.event = main'.event]
        /\ main'.event = IF endpoint[s] THEN "other" ELSE Head(events[s])
        /\ phase' = phase /\ reply' = reply /\ control' = control
        /\ disturbed' = (disturbed \/ phase = "run")
    BY <1>1 DEF MonRecv, Serving
  <2>3. QED
    BY <2>1, <2>2
<1>2. CASE MonTestMore(s)
  <2>1. /\ main.pc = "event"
        /\ \/ main' = [main EXCEPT !.pc = "endpoint"]
           \/ main' = [main EXCEPT !.pc = "monmore", !.event = "none"]
        /\ phase' = phase /\ reply' = reply /\ control' = control
        /\ disturbed' = disturbed
    BY <1>2 DEF MonTestMore, Serving, Count, inputs
  <2>2. CASE main' = [main EXCEPT !.pc = "endpoint"]
    BY <2>1, <2>2
  <2>3. CASE main' = [main EXCEPT !.pc = "monmore", !.event = "none"]
    BY <2>1, <2>3
  <2>4. QED
    BY <2>1, <2>2, <2>3
<1>3. CASE MonEndpoint(s)
  BY <1>3 DEF MonEndpoint, Serving, Count
<1>4. CASE MonMore(s)
  BY <1>4 DEF MonMore, Serving, inputs
<1>5. CASE MonTestRest(s)
  BY <1>5 DEF MonTestRest, Serving, inputs
<1>6. CASE MonDrop(s)
  BY <1>6 DEF MonDrop, Serving
<1>7. QED
  BY <1>1, <1>2, <1>3, <1>4, <1>5, <1>6 DEF Monitor

LEMMA MainStep ==
    ASSUME MainTypes, MainInv, InputTypes, [Next]_vars
    PROVE  MainTypes' /\ MainInv'
  BY MainUndisturbed, MainLoop, MainControl, MainMonitor DEF Next, Main

-----------------------------------------------------------------------------
(***************************************************************************)
(* The rx thread                                                           *)
(***************************************************************************)

\* Quotient and remainder of the division by a positive number.
LEMMA DivMod ==
    ASSUME NEW a \in Int, NEW b \in Nat \ {0}
    PROVE  /\ a \div b \in Int
           /\ a % b \in 0 .. b - 1
           /\ a = b * (a \div b) + (a % b)
  OBVIOUS

LEMMA CDivision ==
    ASSUME NEW a \in Int, NEW b \in Nat \ {0}
    PROVE  CDiv(a, b) \in Int /\ CRem(a, b) \in Int /\ CRem(a, b) < b
<1>1. CASE a >= 0
  <2>1. CDiv(a, b) = a \div b
    BY <1>1 DEF CDiv
  <2>2. CRem(a, b) = a - (b * (a \div b))
    BY <2>1 DEF CRem
  <2>3. b * (a \div b) \in Int
    BY DivMod
  <2>4. QED
    BY <2>1, <2>2, <2>3, DivMod
<1>2. CASE ~(a >= 0)
  <2>1. -a \in Int /\ CDiv(a, b) = -((-a) \div b)
    BY <1>2 DEF CDiv
  <2>2. /\ (-a) \div b \in Int
        /\ (-a) % b \in 0 .. b - 1
        /\ -a = b * ((-a) \div b) + ((-a) % b)
    BY <2>1, DivMod
  <2>3. CRem(a, b) = a - (b * (-((-a) \div b)))
    BY <2>1 DEF CRem
  <2>4. b * (-((-a) \div b)) = -(b * ((-a) \div b))
    BY <2>2, SMT
  <2>5. b * ((-a) \div b) \in Int
    BY <2>2
  <2>6. CRem(a, b) = -((-a) % b)
    BY <2>2, <2>3, <2>4, <2>5
  <2>7. QED
    BY <2>1, <2>2, <2>6
<1>3. QED
  BY <1>1, <1>2

\* An index that is out of range is negative, so it is never that of the
\* forwarding socket.
LEMMA IndexBelow ==
    ASSUME NEW f \in Nat, NEW o \in Int, NEW B \in Nat \ {0}, NEW N \in Nat \ {0}
    PROVE  ConsumerIndex(f, o, B, N) \in Int /\ ConsumerIndex(f, o, B, N) < N
<1>1. f + o \in Int
  OBVIOUS
<1>2. CDiv(f + o, B) \in Int
  BY <1>1, CDivision
<1>3. QED
  BY <1>2, CDivision DEF ConsumerIndex

\* As long as the parts in hand are the same, the message handled is.
LEMMA SameMessage ==
    ASSUME rx'.have = rx.have
    PROVE  Kind' = Kind /\ Detail' = Detail /\ Needed' = Needed /\ ToOne' = ToOne
  BY DEF Kind, Detail, Needed, ToOne

\* The message in hand is one of the stream.
LEMMA InHand ==
    ASSUME RxTypes, rx.have # <<>>
    PROVE  /\ Len(rx.have) \in Nat \ {0}
           /\ rx.have[1] \in PartIds
           /\ rx.have[1].msg \in MsgIds
           /\ Kind \in Kinds
           /\ Detail \in Details
           /\ Needed \in 1 .. 8
           /\ Stream[rx.have[1].msg].frame \in Nat
<1>1. Len(rx.have) \in Nat \ {0}
  BY DEF RxTypes
<1>2. rx.have[1] \in PartIds
  BY <1>1 DEF RxTypes
<1>3. rx.have[1].msg \in MsgIds
  BY <1>2 DEF PartIds
<1>4. Kind \in Kinds /\ Detail \in Details /\ Stream[rx.have[1].msg].frame \in Nat
  BY <1>3, StreamTypes DEF Kind, Detail
<1>5. Needed \in 1 .. 8
  BY DEF Needed
<1>6. QED
  BY <1>1, <1>2, <1>3, <1>4, <1>5

\* A step that goes elsewhere with the message in hand.
LEMMA GotoStep ==
    ASSUME RxTypes, NEW q \in RxPcs, Goto(q)
    PROVE  /\ RxTypes'
           /\ rx'.pc = q /\ rx'.have = rx.have
           /\ rx'.dest = rx.dest /\ rx'.part = rx.part
           /\ Kind' = Kind /\ Detail' = Detail /\ Needed' = Needed
           /\ ToOne' = ToOne
<1>1. rx' = [rx EXCEPT !.pc = q]
  BY DEF Goto
<1>2. /\ RxTypes'
      /\ rx'.pc = q /\ rx'.have = rx.have
      /\ rx'.dest = rx.dest /\ rx'.part = rx.part
  BY <1>1 DEF RxTypes
<1>3. QED
  BY <1>2, SameMessage

\* The places in the order in which a message passes them.
LEMMA RxWait ==
    ASSUME RxTypes, RxInv, phase' = phase,
           RxStart \/ RxLoop \/ RxTestRest \/ RxDrainMore \/ RxDrop
    PROVE  RxTypes' /\ RxInv'
<1>1. phase # "connect"
  BY DEF RxInv, RxStart, RxLoop, RxTestRest, RxDrainMore, RxDrop, At
<1>2. currentConsumerIndexToSendTo' = currentConsumerIndexToSendTo
  BY DEF RxStart, RxLoop, RxTestRest, RxDrainMore, RxDrop
<1>3. CASE RxTestRest
  <2>1. \/ rx' = [rx EXCEPT !.pc = "drop"]
        \/ rx' = [pc |-> "loop", have |-> <<>>, dest |-> 1, part |-> 1]
    BY <1>3 DEF RxTestRest, RxIdle
  <2>2. RxTypes' /\ rx'.pc \in {"drop", "loop"}
    <3>1. CASE rx' = [rx EXCEPT !.pc = "drop"]
      BY <3>1 DEF RxTypes, RxPcs
    <3>2. CASE rx' = [pc |-> "loop", have |-> <<>>, dest |-> 1, part |-> 1]
      <4>1. 1 \in 1 .. NumConsumers + 1 /\ <<>> \in Seq(PartIds)
        BY FanAssumption
      <4>2. QED
        BY <3>2, <4>1 DEF RxTypes, RxPcs
    <3>3. QED
      BY <2>1, <3>1, <3>2
  <2>3. QED
    BY <1>1, <1>2, <2>2 DEF RxInv, Handling, Collecting, Sending
<1>4. CASE ~RxTestRest
  <2>1. PICK q \in {"loop", "done", "poll", "drain", "drainmore"} : Goto(q)
    BY <1>4 DEF RxStart, RxLoop, RxDrainMore, RxDrop
  <2>2. RxTypes' /\ rx'.pc = q
    BY <2>1, GotoStep DEF RxPcs
  <2>3. QED
    BY <1>1, <1>2, <2>1, <2>2 DEF RxInv, Handling, Collecting, Sending
<1>5. QED
  BY <1>3, <1>4

\* A message is taken in hand ...
LEMMA RxTake ==
    ASSUME Types, RxTypes, RxInv, phase' = phase, RxRecv
    PROVE  RxTypes' /\ RxInv'
<1>1. PICK p \in NextParts :
          rx' = [pc |-> HandlerOf(p), have |-> <<p>>, dest |-> 1, part |-> 1]
  BY DEF RxRecv
<1>2. p \in PartIds /\ p.msg \in MsgIds
  BY PartTypes DEF PartIds
<1>3. /\ Stream[p.msg].kind \in Kinds
      /\ <<p>> \in Seq(PartIds) /\ Len(<<p>>) = 1 /\ <<p>>[1] = p /\ <<p>> # <<>>
  BY <1>2, StreamTypes
<1>4. /\ HandlerOf(p) \in {"drainmore", "offset", "index", "decide"}
      /\ HandlerOf(p) = "offset" => Stream[p.msg].kind = "header"
      /\ HandlerOf(p) = "index" => Stream[p.msg].kind = "image"
      /\ HandlerOf(p) = "decide" => Stream[p.msg].kind = "end"
  BY <1>3 DEF HandlerOf, Kinds
<1>5. RxTypes'
  BY <1>1, <1>3, <1>4, FanAssumption DEF RxTypes, RxPcs
<1>6. /\ rx'.pc = HandlerOf(p) /\ rx'.have = <<p>> /\ rx'.dest = 1 /\ rx'.part = 1
      /\ Kind' = Stream[p.msg].kind
  BY <1>1, <1>3 DEF Kind
<1>7. rx'.pc = "decide" => Needed' = 1
  BY <1>4, <1>6 DEF Needed
<1>8. phase # "connect"
  BY DEF RxInv, RxRecv, At
<1>9. currentConsumerIndexToSendTo' = currentConsumerIndexToSendTo
  BY DEF RxRecv
<1>10. QED
  BY <1>3, <1>4, <1>5, <1>6, <1>7, <1>8, <1>9
     DEF RxInv, Handling, Collecting, Sending

\* ... completed part by part, or given up, ...
LEMMA RxCollect ==
    ASSUME Types, SharedTypes, RxTypes, CountTypes, RxInv, phase' = phase,
           RxOffset \/ RxReset \/ RxIndex \/ RxGetMore \/ RxTestMore \/ RxRecvNext
    PROVE  RxTypes' /\ RxInv'
<1>1. phase # "connect"
  BY DEF RxInv, RxOffset, RxReset, RxIndex, RxGetMore, RxTestMore, RxRecvNext, At
<1>2. rx.pc \in Collecting
  BY DEF RxOffset, RxReset, RxIndex, RxGetMore, RxTestMore, RxRecvNext, At,
         Collecting
<1>3. /\ rx.have # <<>> /\ rx.dest = 1 /\ rx.part = 1
      /\ Kind \in {"header", "image"}
  BY <1>2 DEF RxInv, Handling
<1>4. currentConsumerIndexToSendTo' < NumConsumers
  <2>1. CASE RxIndex
    BY <1>3, <2>1, InHand, IndexBelow, FanAssumption
       DEF RxIndex, CountTypes, SharedTypes
  <2>2. CASE ~RxIndex
    BY <2>2 DEF RxOffset, RxReset, RxGetMore, RxTestMore, RxRecvNext, RxInv
  <2>3. QED
    BY <2>1, <2>2
<1>5. CASE RxOffset \/ RxReset \/ RxIndex \/ RxGetMore
  <2>1. PICK q \in {"reset", "handled", "getmore", "testmore"} :
            /\ Goto(q)
            /\ q \in {"reset", "handled"} => Kind = "header"
    BY <1>5 DEF RxOffset, RxReset, RxIndex, RxGetMore, RxInv, At
  <2>2. /\ RxTypes'
        /\ rx'.pc = q /\ rx'.have = rx.have /\ rx'.dest = rx.dest
        /\ rx'.part = rx.part /\ Kind' = Kind
    BY <2>1, GotoStep DEF RxPcs
  <2>3. QED
    BY <1>1, <1>3, <1>4, <2>1, <2>2 DEF RxInv, Handling, Collecting, Sending
<1>6. CASE RxTestMore
  <2>1. PICK q \in {"recvpart", "decide", "count", "drainmore"} :
            /\ Goto(q)
            /\ q = "decide" => Needed <= Len(rx.have)
            /\ q = "count" => Kind = "image"
    BY <1>3, <1>6, InHand DEF RxTestMore
  <2>2. /\ RxTypes'
        /\ rx'.pc = q /\ rx'.have = rx.have /\ rx'.dest = rx.dest
        /\ rx'.part = rx.part /\ Kind' = Kind /\ Needed' = Needed
    BY <2>1, GotoStep DEF RxPcs
  <2>3. QED
    BY <1>1, <1>3, <1>4, <2>1, <2>2, InHand
       DEF RxInv, Handling, Collecting, Sending
<1>7. CASE RxRecvNext
  <2>1. PICK p \in NextParts, q \in {"decide", "getmore"} :
            /\ rx' = [rx EXCEPT !.have = Append(@, p), !.pc = q]
            /\ q = "decide" => Len(rx.have) = Needed
    BY <1>7 DEF RxRecvNext
  <2>2. p \in PartIds /\ rx.have \in Seq(PartIds) /\ Len(rx.have) \in Nat \ {0}
    BY PartTypes, InHand, <1>3 DEF RxTypes
  <2>3. /\ Append(rx.have, p) \in Seq(PartIds)
        /\ Len(Append(rx.have, p)) = Len(rx.have) + 1
        /\ Append(rx.have, p)[1] = rx.have[1]
        /\ Append(rx.have, p) # <<>>
    BY <2>2
  <2>4. RxTypes'
    BY <2>1, <2>3 DEF RxTypes, RxPcs
  <2>5. /\ rx'.pc = q /\ rx'.have = Append(rx.have, p)
        /\ rx'.dest = rx.dest /\ rx'.part = rx.part
    BY <2>1 DEF RxTypes
  <2>6. Kind' = Kind /\ Needed' = Needed
    BY <2>3, <2>5 DEF Kind, Detail, Needed
  <2>7. QED
    BY <1>1, <1>3, <1>4, <2>1, <2>2, <2>3, <2>4, <2>5, <2>6, InHand
       DEF RxInv, Handling, Collecting, Sending
<1>8. QED
  BY <1>5, <1>6, <1>7

\* A step to a place and a position in the send loops.
LEMMA RxSet ==
    ASSUME RxTypes, NEW q \in RxPcs, NEW d \in 1 .. NumConsumers + 1,
           NEW k \in Nat \ {0},
           rx' = [rx EXCEPT !.pc = q, !.dest = d, !.part = k]
    PROVE  /\ RxTypes'
           /\ rx'.pc = q /\ rx'.have = rx.have /\ rx'.dest = d /\ rx'.part = k
           /\ Kind' = Kind /\ Detail' = Detail /\ Needed' = Needed
           /\ ToOne' = ToOne
<1>1. /\ RxTypes'
      /\ rx'.pc = q /\ rx'.have = rx.have /\ rx'.dest = d /\ rx'.part = k
  BY DEF RxTypes
<1>2. QED
  BY <1>1, SameMessage

\* How the send loops go on after a part, to one consumer ...
ToOneNext(q, d, k) ==
    \/ rx.dest = 1 /\ q = "decide" /\ d = 2 /\ k = rx.part
    \/ /\ rx.dest = 2 /\ rx.part < Len(rx.have)
       /\ q = "decide" /\ d = 1 /\ k = rx.part + 1
    \/ rx.dest = 2 /\ rx.part = Len(rx.have) /\ q = "handled"

LEMMA AdvanceToOne ==
    ASSUME RxTypes, RxInv, rx.pc \in Sending, ToOne
    PROVE  \E q \in {"decide", "handled"}, d \in {1, 2}, k \in Nat \ {0} :
               /\ Advance = [rx EXCEPT !.pc = q, !.dest = d, !.part = k]
               /\ ToOneNext(q, d, k)
<1>1. /\ Len(rx.have) \in Nat \ {0} /\ rx.part <= Len(rx.have)
      /\ rx.dest \in {1, 2} /\ rx.part \in Nat \ {0}
  BY InHand, FanAssumption DEF RxInv, RxTypes, Handling, Sending
<1>2. CASE rx.dest = 1
  <2>1. Advance = [rx EXCEPT !.dest = 2, !.pc = "decide"]
    BY <1>2 DEF Advance
  <2>2. Advance = [rx EXCEPT !.pc = "decide", !.dest = 2, !.part = rx.part]
    BY <2>1 DEF RxTypes
  <2>3. QED
    BY <1>1, <1>2, <2>2 DEF ToOneNext
<1>3. CASE rx.dest = 2 /\ rx.part < Len(rx.have)
  <2>1. Advance = [rx EXCEPT !.dest = 1, !.part = rx.part + 1, !.pc = "decide"]
    BY <1>1, <1>3 DEF Advance, Last
  <2>2. Advance = [rx EXCEPT !.pc = "decide", !.dest = 1, !.part = rx.part + 1]
    BY <2>1 DEF RxTypes
  <2>3. rx.part + 1 \in Nat \ {0}
    BY <1>1
  <2>4. QED
    BY <1>3, <2>2, <2>3 DEF ToOneNext
<1>4. CASE rx.dest = 2 /\ rx.part = Len(rx.have)
  <2>1. Advance = [rx EXCEPT !.pc = "handled"]
    BY <1>4 DEF Advance, Last
  <2>2. Advance = [rx EXCEPT !.pc = "handled", !.dest = 2, !.part = rx.part]
    BY <1>4, <2>1 DEF RxTypes
  <2>3. QED
    BY <1>1, <1>4, <2>2 DEF ToOneNext
<1>5. \/ rx.dest = 1
      \/ rx.dest = 2 /\ rx.part < Len(rx.have)
      \/ rx.dest = 2 /\ rx.part = Len(rx.have)
  BY <1>1 DEF RxTypes
<1>6. QED
  BY <1>2, <1>3, <1>4, <1>5

\* ... and to all of them.
ToAllNext(q, d, k) ==
    \/ /\ rx.part < Len(rx.have)
       /\ q = rx.pc /\ d = rx.dest /\ k = rx.part + 1
    \/ /\ rx.part = Len(rx.have) /\ rx.dest <= NumConsumers
       /\ q = "decide" /\ d = rx.dest + 1 /\ k = 1
    \/ rx.part = Len(rx.have) /\ q = "handled"

LEMMA AdvanceToAll ==
    ASSUME RxTypes, RxInv, rx.pc \in Sending, ~ToOne
    PROVE  \E q \in {rx.pc, "decide", "handled"}, d \in 1 .. NumConsumers + 1,
              k \in Nat \ {0} :
               /\ Advance = [rx EXCEPT !.pc = q, !.dest = d, !.part = k]
               /\ ToAllNext(q, d, k)
<1>1. /\ Len(rx.have) \in Nat \ {0} /\ rx.part <= Len(rx.have)
      /\ rx.dest \in 1 .. NumConsumers + 1 /\ rx.part \in Nat \ {0}
  BY InHand DEF RxInv, RxTypes, Handling, Sending
<1>2. CASE rx.part < Len(rx.have)
  <2>1. Advance = [rx EXCEPT !.part = @ + 1]
    BY <1>1, <1>2 DEF Advance, Last
  <2>2. Advance = [rx EXCEPT !.pc = rx.pc, !.dest = rx.dest, !.part = rx.part + 1]
    BY <2>1 DEF RxTypes
  <2>3. rx.part + 1 \in Nat \ {0}
    BY <1>1
  <2>4. QED
    BY <1>1, <1>2, <2>2, <2>3 DEF ToAllNext
<1>3. CASE rx.part = Len(rx.have) /\ rx.dest <= NumConsumers
  <2>1. Advance = [rx EXCEPT !.dest = @ + 1, !.part = 1, !.pc = "decide"]
    BY <1>3 DEF Advance, Last
  <2>2. Advance = [rx EXCEPT !.pc = "decide", !.dest = rx.dest + 1, !.part = 1]
    BY <2>1 DEF RxTypes
  <2>3. rx.dest + 1 \in 1 .. NumConsumers + 1
    BY <1>1, <1>3, FanAssumption
  <2>4. ToAllNext("decide", rx.dest + 1, 1) /\ 1 \in Nat \ {0}
    BY <1>3 DEF ToAllNext
  <2>5. QED
    BY <2>2, <2>3, <2>4
<1>4. CASE rx.part = Len(rx.have) /\ ~(rx.dest <= NumConsumers)
  <2>1. Advance = [rx EXCEPT !.pc = "handled"]
    BY <1>4 DEF Advance, Last
  <2>2. Advance = [rx EXCEPT !.pc = "handled", !.dest = rx.dest, !.part = rx.part]
    BY <2>1 DEF RxTypes
  <2>3. QED
    BY <1>1, <1>4, <2>2 DEF ToAllNext
<1>5. \/ rx.part < Len(rx.have)
      \/ rx.part = Len(rx.have) /\ rx.dest <= NumConsumers
      \/ rx.part = Len(rx.have) /\ ~(rx.dest <= NumConsumers)
  BY <1>1
<1>6. QED
  BY <1>2, <1>3, <1>4, <1>5

\* How they go on when a socket is passed over.
LEMMA SkipToAll ==
    ASSUME RxTypes, RxInv, ~ToOne
    PROVE  \E q \in {rx.pc, "handled"}, d \in 1 .. NumConsumers + 1 :
               /\ Skip = [rx EXCEPT !.pc = q, !.dest = d, !.part = rx.part]
               /\ \/ q = rx.pc /\ rx.dest <= NumConsumers /\ d = rx.dest + 1
                  \/ q = "handled"
<1>1. rx.dest \in 1 .. NumConsumers + 1
  BY DEF RxTypes
<1>2. CASE rx.dest <= NumConsumers
  <2>1. Skip = [rx EXCEPT !.dest = @ + 1]
    BY <1>2 DEF Skip
  <2>2. Skip = [rx EXCEPT !.pc = rx.pc, !.dest = rx.dest + 1, !.part = rx.part]
    BY <2>1 DEF RxTypes
  <2>3. rx.dest + 1 \in 1 .. NumConsumers + 1
    BY <1>1, <1>2, FanAssumption
  <2>4. QED
    BY <1>2, <2>2, <2>3
<1>3. CASE ~(rx.dest <= NumConsumers)
  <2>1. Skip = [rx EXCEPT !.pc = "handled"]
    BY <1>3 DEF Skip
  <2>2. Skip = [rx EXCEPT !.pc = "handled", !.dest = rx.dest, !.part = rx.part]
    BY <2>1 DEF RxTypes
  <2>3. QED
    BY <1>1, <2>2
<1>4. QED
  BY <1>2, <1>3

\* What one pass through a send loop is, as seen from the position in it.
Position(q, d, k) ==
    /\ rx' = [rx EXCEPT !.pc = q, !.dest = d, !.part = k]
    /\ q \in {rx.pc, "put", "decide", "handled", "drainmore"}
    /\ d \in 1 .. NumConsumers + 1
    /\ k \in Nat \ {0}
    /\ ToOne => d \in {1, 2}
    /\ q \in Sending => k <= Len(rx.have) /\ (q = "decide" /\ ~ToOne => k = 1)

LEMMA PositionStep ==
    ASSUME RxTypes, RxInv, rx.pc \in Sending, phase' = phase,
           currentConsumerIndexToSendTo' = currentConsumerIndexToSendTo,
           NEW q, NEW d, NEW k, Position(q, d, k)
    PROVE  RxTypes' /\ RxInv'
<1>1. q \in RxPcs
  BY DEF Position, RxTypes, RxPcs
<1>2. /\ RxTypes'
      /\ rx'.pc = q /\ rx'.have = rx.have /\ rx'.dest = d /\ rx'.part = k
      /\ Kind' = Kind /\ Needed' = Needed /\ ToOne' = ToOne
  BY <1>1, RxSet DEF Position
<1>3. q \in Sending \cup {"handled", "drainmore"}
  BY DEF Position, Sending
<1>4. QED
  BY <1>2, <1>3 DEF RxInv, Position, Handling, Collecting, Sending

\* ... sent part by part, or given up because its index is out of range or the
\* sockets are closed, ...
LEMMA PassOn ==
    ASSUME RxTypes, RxInv, rx.pc \in Sending,
           \/ rx.pc = "put" /\ rx' = Advance
           \/ rx.pc = "decide" /\ rx' = Skip
    PROVE  \E q, d, k : Position(q, d, k)
<1>1. /\ Len(rx.have) \in Nat \ {0} /\ rx.part <= Len(rx.have)
      /\ rx.part \in Nat \ {0} /\ rx.dest \in 1 .. NumConsumers + 1
      /\ {1, 2} \subseteq 1 .. NumConsumers + 1
  BY InHand, FanAssumption DEF RxInv, RxTypes, Handling, Sending
<1>2. CASE ToOne
  <2>1. rx' = Advance
    BY <1>2 DEF Skip
  <2>2. PICK q \in {"decide", "handled"}, d \in {1, 2}, k \in Nat \ {0} :
            /\ Advance = [rx EXCEPT !.pc = q, !.dest = d, !.part = k]
            /\ ToOneNext(q, d, k)
    BY <1>2, AdvanceToOne
  <2>3. q = "decide" => k <= Len(rx.have)
    BY <1>1, <2>2 DEF ToOneNext
  <2>4. Position(q, d, k)
    BY <1>1, <1>2, <2>1, <2>2, <2>3 DEF Position, Sending
  <2>5. QED
    BY <2>4
<1>3. CASE ~ToOne /\ rx.pc = "put"
  <2>1. PICK q \in {rx.pc, "decide", "handled"}, d \in 1 .. NumConsumers + 1,
             k \in Nat \ {0} :
            /\ Advance = [rx EXCEPT !.pc = q, !.dest = d, !.part = k]
            /\ ToAllNext(q, d, k)
    BY <1>3, AdvanceToAll
  <2>2. q \in Sending => k <= Len(rx.have)
    BY <1>1, <2>1 DEF ToAllNext, Sending
  <2>3. Position(q, d, k)
    BY <1>1, <1>3, <2>1, <2>2 DEF Position, ToAllNext
  <2>4. QED
    BY <2>3
<1>4. CASE ~ToOne /\ rx.pc = "decide"
  <2>1. PICK q \in {rx.pc, "handled"}, d \in 1 .. NumConsumers + 1 :
            Skip = [rx EXCEPT !.pc = q, !.dest = d, !.part = rx.part]
    BY <1>4, SkipToAll
  <2>2. Position(q, d, rx.part)
    BY <1>1, <1>4, <2>1 DEF Position, RxInv
  <2>3. QED
    BY <2>2
<1>5. QED
  BY <1>2, <1>3, <1>4

LEMMA RxSend ==
    ASSUME RxTypes, RxInv, phase' = phase, RxDecide \/ RxPut \/ RxPutFails
    PROVE  RxTypes' /\ RxInv'
<1>1. rx.pc \in Sending
  BY DEF RxDecide, RxPut, RxPutFails, At, Sending
<1>2. currentConsumerIndexToSendTo' = currentConsumerIndexToSendTo
  BY DEF RxDecide, RxPut, RxPutFails
<1>3. /\ Len(rx.have) \in Nat \ {0} /\ rx.part <= Len(rx.have)
      /\ rx.part \in Nat \ {0} /\ rx.dest \in 1 .. NumConsumers + 1
      /\ ToOne => rx.dest \in {1, 2}
  BY <1>1, InHand DEF RxInv, RxTypes, Handling, Sending
<1>4. CASE rx' = [rx EXCEPT !.pc = "put"] /\ rx.pc = "decide"
  <2>1. rx' = [rx EXCEPT !.pc = "put", !.dest = rx.dest, !.part = rx.part]
    BY <1>4 DEF RxTypes
  <2>2. Position("put", rx.dest, rx.part)
    BY <1>3, <2>1 DEF Position
  <2>3. QED
    BY <1>1, <1>2, <2>2, PositionStep
<1>5. CASE rx' = [rx EXCEPT !.pc = "drainmore"]
  <2>1. rx' = [rx EXCEPT !.pc = "drainmore", !.dest = rx.dest, !.part = rx.part]
    BY <1>5 DEF RxTypes
  <2>2. Position("drainmore", rx.dest, rx.part)
    BY <1>3, <2>1 DEF Position, Sending
  <2>3. QED
    BY <1>1, <1>2, <2>2, PositionStep
<1>6. CASE \/ rx.pc = "put" /\ rx' = Advance
           \/ rx.pc = "decide" /\ rx' = Skip
  <2>1. PICK q, d, k : Position(q, d, k)
    BY <1>1, <1>6, PassOn
  <2>2. QED
    BY <1>1, <1>2, <2>1, PositionStep
<1>7. QED
  BY <1>4, <1>5, <1>6 DEF RxDecide, RxPut, RxPutFails, At, Goto

\* ... and counted.
LEMMA RxFinish ==
    ASSUME RxTypes, RxInv, phase' = phase, RxHandled \/ RxEnded \/ RxCount
    PROVE  RxTypes' /\ RxInv'
<1>1. rx.pc \in {"handled", "ended", "count"}
  BY DEF RxHandled, RxEnded, RxCount, At
<1>2. currentConsumerIndexToSendTo' = currentConsumerIndexToSendTo
  BY DEF RxHandled, RxEnded, RxCount
<1>3. PICK q \in {"drainmore", "count", "ended"} :
          /\ Goto(q)
          /\ q = "count" => Kind = "image"
          /\ q = "ended" => Kind = "end"
  BY DEF RxHandled, RxEnded, RxCount, RxInv, At
<1>4. /\ RxTypes'
      /\ rx'.pc = q /\ rx'.have = rx.have /\ Kind' = Kind
  BY <1>3, GotoStep DEF RxPcs
<1>5. QED
  BY <1>1, <1>2, <1>3, <1>4 DEF RxInv, Handling, Collecting, Sending

LEMMA RxStep ==
    ASSUME TypeOK, RxInv, [Next]_vars
    PROVE  RxTypes' /\ RxInv'
<1> USE TypeGroups
<1>1. CASE Rx
  <2>1. phase' = phase
    BY <1>1, RxLeaves DEF mainvars
  <2>2. QED
    BY <1>1, <2>1, RxWait, RxTake, RxCollect, RxSend, RxFinish DEF Rx
<1>2. CASE MainSpawnRx
  <2>1. /\ Goto("start")
        /\ phase' = "wait"
        /\ currentConsumerIndexToSendTo' = currentConsumerIndexToSendTo
    BY <1>2 DEF MainSpawnRx, Goto
  <2>2. RxTypes' /\ rx'.pc = "start"
    BY <2>1, GotoStep DEF RxPcs
  <2>3. QED
    BY <2>1, <2>2 DEF RxInv, Handling, Collecting, Sending
<1>3. CASE UNCHANGED rx /\ ~Rx
  <2>1. currentConsumerIndexToSendTo' = currentConsumerIndexToSendTo
    BY <1>3, MainLeaves, OutsideLeaves DEF Next, vars, rxvars
  <2>2. phase' = "connect" => phase = "connect"
    <3>1. CASE Main
      BY <3>1 DEF Main, MainPoll, MainSpawnRx, MainWake, MainClose, MainServed,
             CtlRecvId, CtlRecv, FabricateNext, FabricatePut, FabricateEnd,
             CtlApply, CtlReply, CtlAbort, CtlMore, CtlTestMore, CtlDrop,
             Monitor, MonRecv, MonTestMore, MonEndpoint,
             MonMore, MonTestRest, MonDrop
    <3>2. CASE Outside \/ UNCHANGED vars
      BY <3>2, OutsideLeaves DEF vars, mainvars
    <3>3. QED
      BY <1>3, <3>1, <3>2 DEF Next
  <2>3. Kind' = Kind /\ Needed' = Needed /\ ToOne' = ToOne
    BY <1>3, SameMessage
  <2>4. QED
    BY <1>3, <2>1, <2>2, <2>3 DEF RxInv, RxTypes
<1>4. QED
  BY <1>1, <1>2, <1>3, RxMoves

\* The rx thread's choice of a consumer and its counters.
LEMMA CountTypesStep ==
    ASSUME TypeOK, RxInv, [Next]_vars
    PROVE  CountTypes'
<1> USE TypeGroups
<1> DEFINE same == UNCHANGED <<currentOffset, currentConsumerIndexToSendTo, counters>>
<1>1. CASE same
  BY <1>1 DEF CountTypes, counters
<1>2. CASE RxOffset
  BY <1>2 DEF RxOffset, CountTypes, SharedTypes, counters
<1>3. CASE RxReset
  BY <1>3 DEF RxReset, CountTypes
<1>4. CASE RxIndex
  <2>1. rx.have # <<>>
    BY <1>4 DEF RxIndex, RxInv, Handling, Collecting, At
  <2>2. QED
    BY <1>4, <2>1, InHand, IndexBelow, FanAssumption
       DEF RxIndex, CountTypes, SharedTypes, counters
<1>5. CASE RxCount
  <2>1. Stream[rx.have[1].msg].frame \in Nat
    BY <1>5, InHand DEF RxCount, RxInv, Handling, At
  <2>2. lastFrameSent' \in Nat
    BY <1>5, <2>1 DEF RxCount, CountTypes
  <2>3. \A c \in Ranks : num_frames_consumed[c]
                + (IF c = CountedRank THEN 1 ELSE 0) \in Nat
    BY DEF CountTypes
  <2>4. num_frames_consumed' \in [Ranks -> Nat]
    BY <1>5, <2>3 DEF RxCount
  <2>5. QED
    BY <1>5, <2>2, <2>4 DEF RxCount, CountTypes
<1>6. CASE RxStart \/ RxLoop \/ RxRecv \/ RxGetMore \/ RxTestMore \/ RxRecvNext
            \/ RxDecide \/ RxPut \/ RxPutFails \/ RxHandled \/ RxEnded
            \/ RxDrainMore \/ RxTestRest \/ RxDrop
  BY <1>1, <1>6
     DEF RxStart, RxLoop, RxRecv, RxGetMore, RxTestMore, RxRecvNext, RxDecide,
         RxPut, RxPutFails, RxHandled, RxEnded, RxDrainMore, RxTestRest, RxDrop
<1>7. CASE Outside \/ Main \/ UNCHANGED vars
  BY <1>1, <1>7, OutsideLeaves, MainLeaves DEF vars, rxvars
<1>8. QED
  BY <1>2, <1>3, <1>4, <1>5, <1>6, <1>7 DEF Next, Rx

\* What the two threads share.
LEMMA CountedTypes ==
    ASSUME SharedTypes, MainTypes, NEW s \in Sockets, Count(s)
    PROVE  connected' \in [Sockets -> Int]
<1>1. Counted(s, main.event) \in Int
  BY DEF Counted, Uncounted, SharedTypes
<1>2. QED
  BY <1>1 DEF Count, SharedTypes

LEMMA SharedByRx ==
    ASSUME TypeOK, RxInv, Rx
    PROVE  SharedTypes'
<1> USE TypeGroups
<1>1. UNCHANGED <<connected, killRequested, block_size, forwardStream>>
  BY RxLeaves
<1>2. more' \in BOOLEAN
  <2>1. \/ more' = more
        \/ more' = RcvMore
    BY DEF Rx, RxStart, RxLoop, RxRecv, RxOffset, RxReset, RxIndex, RxGetMore,
           RxTestMore, RxRecvNext, RxDecide, RxPut, RxPutFails, RxHandled,
           RxEnded, RxCount, RxDrainMore, RxTestRest, RxDrop
  <2>2. RcvMore \in BOOLEAN
    BY DEF RcvMore
  <2>3. QED
    BY <2>1, <2>2 DEF SharedTypes
<1>3. configuredOffset' = configuredOffset \/ configuredOffset' = 0
  BY DEF Rx, RxStart, RxLoop, RxRecv, RxOffset, RxReset, RxIndex, RxGetMore,
         RxTestMore, RxRecvNext, RxDecide, RxPut, RxPutFails, RxHandled,
         RxEnded, RxCount, RxDrainMore, RxTestRest, RxDrop, configured
<1>4. state' \in States
  <2>1. CASE RxHandled
    BY <2>1 DEF RxHandled, RxInv, At, States
  <2>2. CASE ~RxHandled
    <3>1. state' = state \/ state' = "WAITING_STREAM"
      BY <2>2 DEF Rx, RxStart, RxLoop, RxRecv, RxOffset, RxReset, RxIndex,
             RxGetMore, RxTestMore, RxRecvNext, RxDecide, RxPut, RxPutFails,
             RxEnded, RxCount, RxDrainMore, RxTestRest, RxDrop
    <3>2. QED
      BY <3>1 DEF SharedTypes, States
  <2>3. QED
    BY <2>1, <2>2
<1>5. QED
  BY <1>1, <1>2, <1>3, <1>4 DEF SharedTypes

LEMMA SharedByMain ==
    ASSUME TypeOK, MainInv, Main
    PROVE  SharedTypes'
<1> USE TypeGroups
<1> DEFINE rest == UNCHANGED <<killRequested, state, configured>>
<1>1. CASE CtlApply
  <2>0. NotABody \in CommandSet
    BY DEF NotABody, CommandSet, ParamSet
  <2>1. main.command \in CommandSet
    BY <1>1, <2>0, FanAssumption DEF CtlApply, MainInv, Commanding
  <2>2. /\ Given(main.command.offset, configuredOffset) \in Int
        /\ Given(main.command.block, block_size) \in Nat \ {0}
    BY <2>1 DEF CommandSet, ParamSet, Given, SharedTypes
  <2>3. Given(main.command.forward, forwardStream) \in BOOLEAN
    BY <2>1, Zenon DEF CommandSet, ParamSet, Given, SharedTypes
  <2>4. (killRequested \/ main.command.kill \/ main.command.close) \in BOOLEAN
    OBVIOUS
  <2>5. state' \in States
    BY <1>1 DEF CtlApply, SharedTypes, States
  <2>6. QED
    BY <1>1, <2>2, <2>3, <2>4, <2>5 DEF CtlApply, SharedTypes
<1>2. CASE FabricateEnd
  BY <1>2 DEF FabricateEnd, SharedTypes, States, configured
<1>3. ASSUME NEW s \in Sockets, Monitor(s)
      PROVE  SharedTypes'
  <2>1. UNCHANGED <<killRequested, state, configured>>
    BY <1>3 DEF Monitor, MonRecv, MonTestMore, MonEndpoint, MonMore, MonTestRest,
           MonDrop
  <2>2. more' \in BOOLEAN
    <3>1. \/ more' = more
          \/ more' = ~endpoint[s]
          \/ more' = endpoint[s]
      BY <1>3 DEF Monitor, MonRecv, MonTestMore, MonEndpoint, MonMore,
             MonTestRest, MonDrop
    <3>2. endpoint[s] \in BOOLEAN /\ more \in BOOLEAN
      BY DEF InputTypes, SharedTypes
    <3>3. QED
      BY <3>1, <3>2
  <2>3. connected' \in [Sockets -> Int]
    <3>1. connected' = connected \/ Count(s)
      BY <1>3 DEF Monitor, MonRecv, MonTestMore, MonEndpoint, MonMore,
             MonTestRest, MonDrop
    <3>2. QED
      BY <3>1, CountedTypes DEF SharedTypes
  <2>4. QED
    BY <2>1, <2>2, <2>3 DEF SharedTypes, configured
<1>4. CASE MainPoll \/ MainSpawnRx \/ MainWake \/ MainClose \/ MainServed
           \/ CtlRecvId \/ CtlRecv \/ FabricateNext \/ FabricatePut
           \/ CtlReply \/ CtlAbort \/ CtlMore \/ CtlTestMore \/ CtlDrop
  <2>1. /\ UNCHANGED <<killRequested, state, configured, connected>>
        /\ more' = more \/ more' = (ctlread # 0)
    BY <1>4 DEF MainPoll, MainSpawnRx, MainWake, MainClose, MainServed,
           CtlRecvId, CtlRecv, FabricateNext, FabricatePut, CtlReply, CtlAbort,
           CtlMore, CtlTestMore, CtlDrop
  <2>2. QED
    BY <2>1 DEF SharedTypes, configured
<1>5. QED
  BY <1>1, <1>2, <1>3, <1>4 DEF Main

LEMMA SharedTypesStep ==
    ASSUME TypeOK, MainInv, RxInv, [Next]_vars
    PROVE  SharedTypes'
<1>1. CASE Outside \/ UNCHANGED vars
  BY <1>1, OutsideLeaves, TypeGroups DEF SharedTypes, configured, vars
<1>2. QED
  BY <1>1, SharedByRx, SharedByMain DEF Next

\* What is sent.
LEMMA OutTypesStep ==
    ASSUME TypeOK, MainInv, RxInv, [Next]_vars
    PROVE  OutTypes' /\ dropping' \in [Sockets -> BOOLEAN]
<1>0. OutTypes /\ dropping \in [Sockets -> BOOLEAN]
  BY TypeGroups DEF ClientTypes
<1>1. CASE UNCHANGED <<out, dropping>>
  BY <1>0, <1>1 DEF OutTypes
<1>2. CASE FabricatePut
  <2>1. Put(DestOfAll(main.dest), 0, 1, FALSE)
    BY <1>2 DEF FabricatePut
  <2>2. 0 \in MsgIds \cup {0} /\ 1 \in Nat \ {0} /\ FALSE \in BOOLEAN
    OBVIOUS
  <2>3. QED
    BY <1>0, <2>1, <2>2, PutTypes
<1>3. CASE RxPut
  <2>1. rx.part \in 1 .. Len(rx.have) /\ rx.have \in Seq(PartIds)
    BY <1>3, TypeGroups DEF RxPut, RxInv, RxTypes, At, Sending
  <2>2. rx.have[rx.part] \in PartIds
    BY <2>1
  <2>3. Put(Dest, rx.have[rx.part].msg, rx.have[rx.part].part, ~Last)
    BY <1>3 DEF RxPut
  <2>4. QED
    BY <1>0, <2>2, <2>3, PutTypes DEF PartIds
<1>4. ASSUME NEW s \in Sockets, Detach(s)
      PROVE  OutTypes' /\ dropping' \in [Sockets -> BOOLEAN]
  BY <1>0, <1>4, DetachKeeps
<1>5. QED
  BY <1>1, <1>2, <1>3, <1>4, OutMoves

-----------------------------------------------------------------------------
(***************************************************************************)
(* Type correctness                                                        *)
(***************************************************************************)

LEMMA Initially == Init => IInv
<1> SUFFICES ASSUME Init PROVE IInv
  OBVIOUS
<1>1. /\ <<>> \in Seq(MsgIds) /\ <<>> \in Seq(PartIds) /\ <<>> \in Seq(EventSet)
      /\ <<>> \in Seq(Commands)
      /\ <<>> \in Seq([msg : MsgIds \cup {0}, part : Nat \ {0}, more : BOOLEAN])
  OBVIOUS
<1>2. Types
  BY <1>1, StreamTypes DEF Init, Types
<1>7. SharedTypes
  <2>1. /\ killRequested = FALSE /\ forwardStream = FALSE /\ more = FALSE
        /\ state = "WAITING_CONSUMERS" /\ configuredOffset = 0
        /\ block_size = BlockSize /\ connected = [s \in Sockets |-> 0]
    BY DEF Init
  <2>2. connected \in [Sockets -> Int]
    BY <2>1
  <2>3. state \in States /\ block_size \in Nat \ {0} /\ configuredOffset \in Int
    BY <2>1, FanAssumption DEF States
  <2>4. QED
    BY <2>1, <2>2, <2>3 DEF SharedTypes
<1>8. CountTypes
  BY DEF Init, CountTypes
<1>3. RxTypes /\ RxInv
  BY <1>1, FanAssumption
     DEF Init, RxTypes, RxIdle, RxPcs, RxInv, Handling, Collecting, Sending
<1>4. MainTypes /\ MainInv
  <2>1. 1 \in 1 .. NumConsumers + 2 /\ {} \in SUBSET (Sockets \cup {Ctl})
    BY FanAssumption
  <2>2. MainTypes
    BY <2>1 DEF Init, MainTypes, MainIdle, MainPcs
  <2>3. MainInv
    BY DEF Init, MainIdle, MainInv, Commanding, Control
  <2>4. QED
    BY <2>2, <2>3
<1>5. ClientTypes /\ InputTypes /\ OutTypes
  BY <1>1, FanAssumption DEF Init, ClientTypes, InputTypes, OutTypes
<1>6. QED
  BY <1>2, <1>3, <1>4, <1>5, <1>7, <1>8, TypeGroups DEF IInv

LEMMA Invariance == IInv /\ [Next]_vars => IInv'
<1> SUFFICES ASSUME IInv, [Next]_vars
             PROVE  IInv'
  OBVIOUS
<1> USE DEF IInv
<1>1. Types' /\ ClientTypes'
  BY TypesStep, BudgetStep, OutTypesStep, TypeGroups DEF ClientTypes
<1>2. InputTypes' /\ MainTypes' /\ MainInv'
  BY InputTypesStep, MainStep, TypeGroups
<1>3. RxTypes' /\ RxInv' /\ CountTypes'
  BY RxStep, CountTypesStep
<1>4. SharedTypes' /\ OutTypes'
  BY SharedTypesStep, OutTypesStep
<1>5. TypeOK'
  BY <1>1, <1>2, <1>3, <1>4
     DEF TypeOK, Types, SharedTypes, RxTypes, CountTypes, MainTypes, ClientTypes,
         InputTypes, OutTypes
<1>6. QED
  BY <1>2, <1>3, <1>5

\* The state of the fan always has its types: in particular no part is indexed
\* beyond the parts in hand, the positions in the send loops stay within the
\* sockets, and a header, image or end is what its handler takes it for
\* (EigerFan.cpp:404-759 and 1221-1362).
THEOREM TypeCorrect == Spec => []TypeOK
<1>1. Spec => []IInv
  BY Initially, Invariance, PTL DEF Spec
<1>2. IInv => TypeOK
  BY DEF IInv
<1>3. QED
  BY <1>1, <1>2, PTL

-----------------------------------------------------------------------------
(***************************************************************************)
(* The order of the parts                                                  *)
(***************************************************************************)

\* The parts that a socket is still due.
LEMMA DueTypes ==
    ASSUME RxTypes, NEW s \in Sockets
    PROVE  DueFrom(s) \in Nat \ {0}
  BY DEF RxTypes, DueFrom

\* The part that is sent is due.
LEMMA DestDue ==
    ASSUME RxTypes, RxInv, rx.pc \in Sending, Dest \in Sockets
    PROVE  DueFrom(Dest) = rx.part
<1>1. /\ NumConsumers \in Nat \ {0} /\ Fwd = NumConsumers
      /\ rx.dest \in 1 .. NumConsumers + 1
      /\ rx.part \in Nat \ {0}
  BY FanAssumption DEF RxTypes, Fwd
<1>2. CASE ToOne
  <2>1. rx.dest \in {1, 2} /\ currentConsumerIndexToSendTo < NumConsumers
    BY <1>1, <1>2 DEF RxInv
  <2>2. rx.dest = 1 => DueFrom(Dest) = rx.part
    BY <1>2 DEF DueFrom
  <2>3. rx.dest = 2 => Dest = currentConsumerIndexToSendTo
    BY <1>2 DEF Dest
  <2>4. rx.dest = 2 => Dest # Fwd
    BY <1>1, <2>1, <2>3 DEF Sockets, Ranks
  <2>5. QED
    BY <1>2, <2>1, <2>2, <2>4 DEF DueFrom
<1>3. CASE ~ToOne
  <2>1. Dest = IF rx.dest = 1 THEN Fwd ELSE rx.dest - 2
    BY <1>3 DEF Dest, DestOfAll
  <2>2. Turn(Dest) = rx.dest
    BY <1>1, <2>1 DEF Turn
  <2>3. QED
    BY <1>1, <1>3, <2>2 DEF DueFrom
<1>4. QED
  BY <1>2, <1>3

\* Once it has been sent it is not, and what was not due before is not due.
LEMMA DueAfterPut ==
    ASSUME RxTypes, RxInv, rx.pc = "put" \/ (rx.pc = "decide" /\ ToOne),
           rx' = Advance, rx'.pc \in Sending, NEW s \in Sockets
    PROVE  /\ DueFrom(s) <= DueFrom(s)'
           /\ s = Dest => rx.part < DueFrom(s)'
<1>1. /\ NumConsumers \in Nat \ {0} /\ Fwd = NumConsumers
      /\ rx.dest \in 1 .. NumConsumers + 1 /\ rx.part \in Nat \ {0}
      /\ Len(rx.have) \in Nat /\ rx.part <= Len(rx.have)
      /\ rx.pc \in Sending
      /\ s \in 0 .. NumConsumers
  BY FanAssumption DEF RxTypes, RxInv, Fwd, Sending, Sockets, Ranks
<1>2. CASE ToOne
  <2>1. PICK q \in {"decide", "handled"}, d \in {1, 2}, k \in Nat \ {0} :
            /\ Advance = [rx EXCEPT !.pc = q, !.dest = d, !.part = k]
            /\ ToOneNext(q, d, k)
    BY <1>1, <1>2, AdvanceToOne
  <2>2. q \in RxPcs /\ d \in 1 .. NumConsumers + 1
    BY <1>1, <2>1 DEF RxPcs
  <2>3. /\ rx'.pc = q /\ rx'.have = rx.have /\ rx'.dest = d /\ rx'.part = k
        /\ ToOne' = ToOne
    BY <2>1, <2>2, RxSet
  <2>4. DueFrom(s)' = IF s = Fwd /\ d = 2 THEN k + 1 ELSE k
    BY <1>2, <2>3 DEF DueFrom, Fwd
  <2>5. DueFrom(s) = IF s = Fwd /\ rx.dest = 2 THEN rx.part + 1 ELSE rx.part
    BY <1>2 DEF DueFrom
  <2>6. s = Dest /\ rx.dest = 1 => s = Fwd
    BY <1>2 DEF Dest, DestOfAll
  <2>7. q = "decide"
    BY <2>3 DEF Sending
  <2>8. QED
    BY <1>1, <2>1, <2>4, <2>5, <2>6, <2>7 DEF ToOneNext
<1>3. CASE ~ToOne
  <2>1. PICK q \in {rx.pc, "decide", "handled"}, d \in 1 .. NumConsumers + 1,
             k \in Nat \ {0} :
            /\ Advance = [rx EXCEPT !.pc = q, !.dest = d, !.part = k]
            /\ ToAllNext(q, d, k)
    BY <1>1, <1>3, AdvanceToAll
  <2>2. q \in RxPcs
    BY <1>1, <2>1 DEF RxPcs, Sending
  <2>3. /\ rx'.pc = q /\ rx'.have = rx.have /\ rx'.dest = d /\ rx'.part = k
        /\ ToOne' = ToOne
    BY <2>1, <2>2, RxSet
  <2>4. DueFrom(s)' = IF Turn(s) < d THEN Len(rx.have) + 1
                      ELSE IF Turn(s) = d THEN k ELSE 1
    BY <1>3, <2>3 DEF DueFrom, Turn, Fwd
  <2>5. DueFrom(s) = IF Turn(s) < rx.dest THEN Len(rx.have) + 1
                     ELSE IF Turn(s) = rx.dest THEN rx.part ELSE 1
    BY <1>3 DEF DueFrom
  <2>6. s = Dest => Turn(s) = rx.dest
    BY <1>1, <1>3 DEF Dest, DestOfAll, Turn
  <2>7. Turn(s) \in Int
    BY <1>1 DEF Turn
  <2>8. \/ /\ rx.part < Len(rx.have) /\ d = rx.dest /\ k = rx.part + 1
        \/ /\ rx.part = Len(rx.have) /\ d = rx.dest + 1 /\ k = 1
    BY <2>1, <2>3 DEF ToAllNext, Sending
  <2>9. QED
    BY <1>1, <2>4, <2>5, <2>6, <2>7, <2>8
<1>4. QED
  BY <1>2, <1>3

\* Nor is anything more due when a socket is passed over.
LEMMA DueAfterSkip ==
    ASSUME RxTypes, RxInv, rx.pc = "decide", rx' = Skip, rx'.pc \in Sending,
           NEW s \in Sockets
    PROVE  DueFrom(s) <= DueFrom(s)'
<1>1. CASE ToOne
  BY <1>1, DueAfterPut DEF Skip
<1>2. CASE ~ToOne
  <2>1. PICK q \in {rx.pc, "handled"}, d \in 1 .. NumConsumers + 1 :
            /\ Skip = [rx EXCEPT !.pc = q, !.dest = d, !.part = rx.part]
            /\ \/ q = rx.pc /\ rx.dest <= NumConsumers /\ d = rx.dest + 1
               \/ q = "handled"
    BY <1>2, SkipToAll
  <2>2. q \in RxPcs /\ rx.part \in Nat \ {0} /\ rx.dest \in Nat /\ Len(rx.have) \in Nat
    BY <2>1 DEF RxTypes, RxPcs
  <2>3. /\ rx'.pc = q /\ rx'.have = rx.have /\ rx'.dest = d /\ rx'.part = rx.part
        /\ ToOne' = ToOne
    BY <2>1, <2>2, RxSet
  <2>4. d = rx.dest + 1
    BY <2>1, <2>3 DEF Sending
  <2>5. rx.part = 1
    BY <1>2 DEF RxInv
  <2>6. DueFrom(s)' = IF Turn(s) < d THEN Len(rx.have) + 1
                      ELSE IF Turn(s) = d THEN rx.part ELSE 1
    BY <1>2, <2>3 DEF DueFrom, Turn, Fwd
  <2>7. DueFrom(s) = IF Turn(s) < rx.dest THEN Len(rx.have) + 1
                     ELSE IF Turn(s) = rx.dest THEN rx.part ELSE 1
    BY <1>2 DEF DueFrom
  <2>8. Turn(s) \in Int
    BY FanAssumption DEF Turn, Sockets, Ranks, Fwd
  <2>9. QED
    BY <2>2, <2>4, <2>5, <2>6, <2>7, <2>8
<1>3. QED
  BY <1>1, <1>2

\* With one worker, a part that recv() returns comes after all those before.
OneWorker == \A v, w \in Workers : v = w

LEMMA LaterPart ==
    ASSUME OneWorker, Types, QueueInv, NEW p \in NextParts, RxRecvPart(p),
           produced' = produced
    PROVE  /\ QueueInv'
           /\ SeenBy(rxsock', p)
           /\ \A q : q.msg \in MsgIds /\ q.part \in Nat /\ Seen(q) =>
                  SeenBy(rxsock', q) /\ Before(q, p)
<1>1. p \in PartIds
  BY PartTypes
<1>2. rxsock' = [msg |-> p.msg, next |-> p.part + 1]
  BY DEF RxRecvPart
<1>3. SeenBy(rxsock', p)
  BY <1>1, <1>2 DEF Seen, SeenBy, PartIds, MsgIds
<1>4. CASE RcvMore
  <2>1. /\ p.msg = rxsock.msg /\ p.part = rxsock.next
        /\ pending' = pending
    BY <1>4 DEF NextParts, RxRecvPart
  <2>2. rxsock.msg \in Nat /\ rxsock.next \in Nat
    BY DEF Types, MsgIds
  <2>3. QueueInv'
    BY <1>2, <2>1 DEF QueueInv
  <2>4. ASSUME NEW q, q.msg \in MsgIds, q.part \in Nat, Seen(q)
        PROVE  SeenBy(rxsock', q) /\ Before(q, p)
    BY <1>2, <2>1, <2>2, <2>4 DEF Seen, SeenBy, Before, PartIds, MsgIds
  <2>5. QED
    BY <1>3, <2>3, <2>4
<1>5. CASE ~RcvMore
  <2>1. PICK w \in Workers : /\ pending[w] # <<>>
                             /\ p = [msg |-> Head(pending[w]), part |-> 1]
    BY <1>5 DEF NextParts
  <2>2. /\ pending[w] \in Seq(MsgIds) /\ Len(pending[w]) \in Nat \ {0}
        /\ Head(pending[w]) = pending[w][1]
    BY <2>1 DEF Types
  <2>3. p.msg = pending[w][1] /\ p.part = 1
    BY <2>1, <2>2
  <2>4. rxsock.msg < p.msg /\ p.msg <= produced
    BY <2>2, <2>3 DEF QueueInv
  <2>5. pending'[w] = Tail(pending[w])
    BY <1>5, <2>1 DEF RxRecvPart
  <2>6. /\ Len(pending'[w]) = Len(pending[w]) - 1
        /\ \A i \in 1 .. Len(pending'[w]) : pending'[w][i] = pending[w][i + 1]
    BY <2>1, <2>2, <2>5
  <2>7. \A i \in 1 .. Len(pending'[w]) :
            p.msg < pending'[w][i] /\ pending'[w][i] <= produced
    BY <2>2, <2>3, <2>6 DEF QueueInv
  <2>8. \A i, j \in 1 .. Len(pending'[w]) :
            i < j => pending'[w][i] < pending'[w][j]
    <3>1. SUFFICES ASSUME NEW i \in 1 .. Len(pending'[w]),
                          NEW j \in 1 .. Len(pending'[w]), i < j
                   PROVE  pending'[w][i] < pending'[w][j]
      OBVIOUS
    <3>2. i + 1 \in 1 .. Len(pending[w]) /\ j + 1 \in 1 .. Len(pending[w])
      BY <2>2, <2>6, <3>1
    <3>3. pending[w][i + 1] < pending[w][j + 1]
      BY <3>1, <3>2 DEF QueueInv
    <3>4. QED
      BY <2>6, <3>1, <3>3
  <2>9. QueueInv'
    BY <1>2, <2>4, <2>7, <2>8 DEF QueueInv, OneWorker
  <2>10. ASSUME NEW q, q.msg \in MsgIds, q.part \in Nat, Seen(q)
         PROVE  SeenBy(rxsock', q) /\ Before(q, p)
    <3>1. q.msg < p.msg
      BY <1>1, <2>4, <2>10 DEF Seen, SeenBy, PartIds, MsgIds, Types
    <3>2. QED
      BY <1>2, <3>1 DEF Seen, SeenBy, Before
  <2>11. QED
    BY <1>3, <2>9, <2>10
<1>6. QED
  BY <1>4, <1>5

\* What the detector sends comes after all that it has sent.
LEMMA LaterMessage ==
    ASSUME OneWorker, Types, QueueInv, NEW w \in Workers, Produce(w)
    PROVE  QueueInv'
<1>1. /\ produced \in Nat /\ produced' = produced + 1 /\ rxsock' = rxsock
      /\ pending'[w] = Append(pending[w], produced + 1)
      /\ pending[w] \in Seq(MsgIds)
      /\ rxsock.msg \in Nat
  BY DEF Produce, Types, MsgIds
<1>2. /\ Len(pending'[w]) = Len(pending[w]) + 1
      /\ \A i \in 1 .. Len(pending[w]) : pending'[w][i] = pending[w][i]
      /\ pending'[w][Len(pending[w]) + 1] = produced + 1
      /\ Len(pending[w]) \in Nat
      /\ \A i \in 1 .. Len(pending[w]) : pending[w][i] \in Nat
  BY <1>1 DEF MsgIds
<1>3. /\ rxsock.msg <= produced
      /\ \A i \in 1 .. Len(pending[w]) :
             rxsock.msg < pending[w][i] /\ pending[w][i] <= produced
      /\ \A i, j \in 1 .. Len(pending[w]) : i < j => pending[w][i] < pending[w][j]
  BY DEF QueueInv
<1>4. ASSUME NEW i \in 1 .. Len(pending'[w])
      PROVE  rxsock'.msg < pending'[w][i] /\ pending'[w][i] <= produced'
  <2>1. CASE i <= Len(pending[w])
    BY <1>1, <1>2, <1>3, <2>1
  <2>2. CASE i = Len(pending[w]) + 1
    BY <1>1, <1>2, <1>3, <2>2
  <2>3. QED
    BY <1>2, <2>1, <2>2
<1>5. ASSUME NEW i \in 1 .. Len(pending'[w]), NEW j \in 1 .. Len(pending'[w]),
             i < j
      PROVE  pending'[w][i] < pending'[w][j]
  <2>1. i \in 1 .. Len(pending[w])
    BY <1>2, <1>5
  <2>2. CASE j <= Len(pending[w])
    BY <1>2, <1>3, <1>5, <2>1, <2>2
  <2>3. CASE j = Len(pending[w]) + 1
    BY <1>1, <1>2, <1>3, <2>1, <2>3
  <2>4. QED
    BY <1>2, <2>2, <2>3
<1>6. rxsock'.msg <= produced'
  BY <1>1, <1>3
<1>7. QED
  BY <1>4, <1>5, <1>6 DEF QueueInv, OneWorker

\* A part in hand, and one sent that the detector has sent.
LEMMA PartsHeld ==
    ASSUME TypeOK
    PROVE  /\ Len(rx.have) \in Nat
           /\ \A i \in 1 .. Len(rx.have) :
                  rx.have[i].msg \in MsgIds /\ rx.have[i].part \in Nat
           /\ \A s \in Sockets : Len(out[s]) \in Nat
           /\ \A s \in Sockets : \A i \in 1 .. Len(out[s]) :
                  /\ out[s][i] \in [msg : MsgIds \cup {0}, part : Nat \ {0},
                                    more : BOOLEAN]
                  /\ out[s][i].msg # 0 =>
                         out[s][i].msg \in MsgIds /\ out[s][i].part \in Nat
<1>1. rx.have \in Seq(PartIds)
  BY DEF TypeOK
<1>2. ASSUME NEW s \in Sockets
      PROVE  out[s] \in Seq([msg : MsgIds \cup {0}, part : Nat \ {0},
                             more : BOOLEAN])
  BY DEF TypeOK
<1>3. ASSUME NEW s \in Sockets, NEW i \in 1 .. Len(out[s])
      PROVE  /\ out[s][i] \in [msg : MsgIds \cup {0}, part : Nat \ {0},
                              more : BOOLEAN]
             /\ out[s][i].msg # 0 =>
                    out[s][i].msg \in MsgIds /\ out[s][i].part \in Nat
  <2> DEFINE E == [msg : MsgIds \cup {0}, part : Nat \ {0}, more : BOOLEAN]
  <2>1. out[s][i] \in E
    <3>1. out[s] \in Seq(E)
      BY <1>2
    <3> HIDE DEF E
    <3>2. QED
      BY <1>3, <3>1
  <2>2. QED
    BY <2>1
<1>4. /\ Len(rx.have) \in Nat
      /\ \A i \in 1 .. Len(rx.have) :
             rx.have[i].msg \in MsgIds /\ rx.have[i].part \in Nat
  <2>1. Len(rx.have) \in Nat /\ \A i \in 1 .. Len(rx.have) : rx.have[i] \in PartIds
    BY <1>1
  <2>2. QED
    BY <2>1 DEF PartIds
<1>5. \A s \in Sockets : Len(out[s]) \in Nat
  BY <1>2
<1>6. QED
  BY <1>3, <1>4, <1>5

\* A step that sends nothing and receives nothing keeps the order, if it makes no
\* part due that was not.
LEMMA OrderKept ==
    ASSUME OrderInv, TypeOK, RxTypes',
           rxsock' = rxsock, out' = out, QueueInv',
           rx'.have = rx.have \/ rx'.have = <<>>,
           rx'.pc \in Collecting \cup Sending =>
               /\ rx.pc \in Collecting \cup Sending
               /\ rx'.have = rx.have
               /\ \A s \in Sockets : DueFrom(s) <= DueFrom(s)'
    PROVE  OrderInv'
<1>1. HaveInv'
  <2>1. CASE rx'.have = rx.have
    BY <2>1 DEF OrderInv, HaveInv, Seen
  <2>2. CASE rx'.have = <<>>
    BY <2>2 DEF HaveInv
  <2>3. QED
    BY <2>1, <2>2
<1>2. SentInv' /\ InOrder'
  BY DEF OrderInv, SentInv, InOrder, Seen, Sockets, Ranks, Fwd
<1>3. DueInv'
  <2>1. SUFFICES ASSUME rx'.pc \in Collecting \cup Sending,
                        NEW s \in Sockets, NEW i \in 1 .. Len(out[s]),
                        NEW k \in DueFrom(s)' .. Len(rx.have),
                        out[s][i].msg # 0
                 PROVE  Before(out[s][i], rx.have[k])
    BY DEF DueInv, Sockets, Ranks, Fwd
  <2>2. DueFrom(s) \in Nat /\ Len(rx.have) \in Nat /\ DueFrom(s) <= DueFrom(s)'
    BY <2>1, DueTypes, TypeGroups, PartsHeld
  <2>3. DueFrom(s)' \in Nat
    BY <2>1 DEF RxTypes, DueFrom
  <2>5. k \in DueFrom(s) .. Len(rx.have)
    BY <2>2, <2>3
  <2>4. QED
    BY <2>1, <2>5 DEF OrderInv, DueInv
<1>4. QED
  BY <1>1, <1>2, <1>3 DEF OrderInv

\* A part that is received comes after all that are in hand and all that are
\* sent.
LEMMA OrderReceived ==
    ASSUME OneWorker, OrderInv, TypeOK, RxInv, NEW p \in NextParts, RxRecvPart(p),
           produced' = produced, out' = out, RxTypes',
           \/ rx'.have = rx.have /\ rx'.pc \notin Collecting \cup Sending
           \/ /\ rx'.have = Append(rx.have, p) /\ rx.pc \in Collecting
              /\ rx'.part = 1 /\ rx'.dest = 1
           \/ rx'.have = <<p>> /\ rx'.part = 1 /\ rx'.dest = 1
    PROVE  OrderInv'
<1>1. /\ QueueInv'
      /\ SeenBy(rxsock', p)
      /\ \A q : q.msg \in MsgIds /\ q.part \in Nat /\ Seen(q) =>
                    SeenBy(rxsock', q) /\ Before(q, p)
  BY LaterPart, TypeGroups DEF OrderInv
<1>2. p \in PartIds
  BY PartTypes, TypeGroups
<1>3. /\ Len(rx.have) \in Nat
      /\ \A i \in 1 .. Len(rx.have) :
             rx.have[i].msg \in MsgIds /\ rx.have[i].part \in Nat
      /\ \A s \in Sockets : \A i \in 1 .. Len(out[s]) : out[s][i].msg # 0 =>
             out[s][i].msg \in MsgIds /\ out[s][i].part \in Nat
      /\ rx.have \in Seq(PartIds)
  BY PartsHeld DEF TypeOK
<1>4. \A i \in 1 .. Len(rx.have) :
          SeenBy(rxsock', rx.have[i]) /\ Before(rx.have[i], p)
  BY <1>1, <1>3 DEF OrderInv, HaveInv
<1>5. \A s \in Sockets : \A i \in 1 .. Len(out[s]) : out[s][i].msg # 0 =>
          SeenBy(rxsock', out[s][i]) /\ Before(out[s][i], p)
  BY <1>1, <1>3 DEF OrderInv, SentInv
<1>6. SentInv' /\ InOrder'
  BY <1>5 DEF OrderInv, SentInv, InOrder, Seen, Sockets, Ranks, Fwd
<1>7. CASE rx'.have = rx.have /\ rx'.pc \notin Collecting \cup Sending
  <2>1. HaveInv' /\ DueInv'
    BY <1>4, <1>7 DEF OrderInv, HaveInv, Seen, DueInv
  <2>2. QED
    BY <1>1, <1>6, <2>1 DEF OrderInv
<1>8. CASE rx'.have = <<p>> /\ rx'.part = 1 /\ rx'.dest = 1
  <2>1. Len(<<p>>) = 1 /\ <<p>>[1] = p
    OBVIOUS
  <2>2. HaveInv'
    BY <1>1, <1>8, <2>1 DEF HaveInv, Seen
  <2>3. \A s \in Sockets : DueFrom(s)' \in Nat \ {0}
    BY DEF RxTypes, DueFrom
  <2>4. DueInv'
    <3>1. SUFFICES ASSUME NEW s \in Sockets, NEW i \in 1 .. Len(out[s]),
                          NEW k \in DueFrom(s)' .. 1, out[s][i].msg # 0
                   PROVE  Before(out[s][i], <<p>>[k])
      BY <1>8, <2>1 DEF DueInv, Sockets, Ranks, Fwd
    <3>2. k = 1
      BY <2>3
    <3>3. QED
      BY <1>5, <2>1, <3>1, <3>2
  <2>5. QED
    BY <1>1, <1>6, <2>2, <2>4 DEF OrderInv
<1>9. CASE /\ rx'.have = Append(rx.have, p) /\ rx.pc \in Collecting
           /\ rx'.part = 1 /\ rx'.dest = 1
  <2>1. /\ Len(rx'.have) = Len(rx.have) + 1
        /\ \A i \in 1 .. Len(rx.have) : rx'.have[i] = rx.have[i]
        /\ rx'.have[Len(rx.have) + 1] = p
    BY <1>2, <1>3, <1>9
  <2>2. HaveInv'
    <3>1. ASSUME NEW i \in 1 .. Len(rx'.have)
          PROVE  SeenBy(rxsock', rx'.have[i])
      BY <1>1, <1>3, <1>4, <2>1
    <3>2. ASSUME NEW i \in 1 .. Len(rx'.have), NEW j \in 1 .. Len(rx'.have),
                 i < j
          PROVE  Before(rx'.have[i], rx'.have[j])
      <4>1. i \in 1 .. Len(rx.have)
        BY <1>3, <2>1, <3>2
      <4>2. CASE j \in 1 .. Len(rx.have)
        BY <2>1, <3>2, <4>1, <4>2 DEF OrderInv, HaveInv
      <4>3. CASE j = Len(rx.have) + 1
        BY <1>4, <2>1, <4>1, <4>3
      <4>4. QED
        BY <1>3, <2>1, <4>2, <4>3
    <3>3. QED
      BY <3>1, <3>2 DEF HaveInv, Seen
  <2>3. \A s \in Sockets : DueFrom(s) = 1
    <3>1. rx.dest = 1 /\ rx.part = 1
      BY <1>9 DEF RxInv
    <3>2. \A s \in Sockets : Turn(s) >= 1
      BY FanAssumption DEF Turn, Sockets, Ranks, Fwd
    <3>3. \A s \in Sockets : Turn(s) \in Int
      BY FanAssumption DEF Turn, Sockets, Ranks, Fwd
    <3>4. QED
      BY <3>1, <3>2, <3>3 DEF DueFrom
  <2>4. \A s \in Sockets : DueFrom(s)' \in Nat \ {0}
    BY DEF RxTypes, DueFrom
  <2>5. DueInv'
    <3>1. SUFFICES ASSUME NEW s \in Sockets, NEW i \in 1 .. Len(out[s]),
                          NEW k \in DueFrom(s)' .. Len(rx'.have),
                          out[s][i].msg # 0
                   PROVE  Before(out[s][i], rx'.have[k])
      BY DEF DueInv, Sockets, Ranks, Fwd
    <3>2. CASE k = Len(rx.have) + 1
      BY <1>5, <2>1, <3>1, <3>2
    <3>3. CASE k \in 1 .. Len(rx.have)
      <4>1. Before(out[s][i], rx.have[k])
        BY <1>9, <2>3, <3>1, <3>3 DEF OrderInv, DueInv
      <4>2. QED
        BY <2>1, <3>3, <4>1
    <3>4. QED
      BY <1>3, <2>1, <2>4, <3>2, <3>3
  <2>6. QED
    BY <1>1, <1>6, <2>2, <2>5 DEF OrderInv
<1>10. QED
  BY <1>7, <1>8, <1>9

\* A part that is sent comes after those sent on the same socket and before those
\* that are due there.
LEMMA OrderSent ==
    ASSUME OrderInv, TypeOK, RxInv, RxPut, RxTypes', Dest \in Sockets,
           ~dropping[Dest]
    PROVE  OrderInv'
<1>1. /\ rx.pc = "put" /\ rx.pc \in Sending /\ rx' = Advance
      /\ rxsock' = rxsock /\ pending' = pending /\ produced' = produced
      /\ Put(Dest, rx.have[rx.part].msg, rx.have[rx.part].part, ~Last)
  BY DEF RxPut, At, Sending, stream
<1>2. /\ Len(rx.have) \in Nat
      /\ \A i \in 1 .. Len(rx.have) :
             rx.have[i].msg \in MsgIds /\ rx.have[i].part \in Nat
      /\ \A s \in Sockets : Len(out[s]) \in Nat
      /\ rx.part \in 1 .. Len(rx.have)
  BY <1>1, PartsHeld, TypeGroups DEF RxInv, RxTypes
<1>3. rx'.pc \in Sending \cup {"handled"} /\ rx'.have = rx.have
  <2>1. PICK q, d, k : Position(q, d, k)
    BY <1>1, PassOn, TypeGroups
  <2>2. /\ rx'.pc = q /\ rx'.have = rx.have
    BY <2>1, TypeGroups DEF Position, RxTypes
  <2>3. CASE ToOne
    <3>1. \E r \in {"decide", "handled"}, e \in {1, 2}, j \in Nat \ {0} :
              Advance = [rx EXCEPT !.pc = r, !.dest = e, !.part = j]
      BY <1>1, <2>3, AdvanceToOne, TypeGroups
    <3>2. QED
      BY <1>1, <2>2, <3>1, TypeGroups DEF RxTypes, Sending
  <2>4. CASE ~ToOne
    <3>1. \E r \in {rx.pc, "decide", "handled"}, e \in 1 .. NumConsumers + 1,
             j \in Nat \ {0} :
              Advance = [rx EXCEPT !.pc = r, !.dest = e, !.part = j]
      BY <1>1, <2>4, AdvanceToAll, TypeGroups
    <3>2. QED
      BY <1>1, <2>2, <3>1, TypeGroups DEF RxTypes, Sending
  <2>5. QED
    BY <2>3, <2>4
<1> DEFINE h == rx.have[rx.part]
           e == [msg |-> h.msg, part |-> h.part, more |-> ~Last]
           n == Len(out[Dest]) + 1
<1>4. /\ out'[Dest] = Append(out[Dest], e)
      /\ \A s \in Sockets : s # Dest => out'[s] = out[s]
      /\ out[Dest] \in Seq([msg : MsgIds \cup {0}, part : Nat \ {0}, more : BOOLEAN])
  BY <1>1 DEF Put, TypeOK
<1>5. /\ Len(out'[Dest]) = n
      /\ \A i \in 1 .. Len(out[Dest]) : out'[Dest][i] = out[Dest][i]
      /\ out'[Dest][n] = e
      /\ n \in Nat
  BY <1>2, <1>4
<1>6. /\ e.msg = h.msg /\ e.part = h.part
      /\ \A r : Before(r, h) <=> Before(r, e)
      /\ \A r : Before(h, r) <=> Before(e, r)
      /\ Seen(h) <=> Seen(e)
  BY DEF Before, Seen, SeenBy
<1>7. Seen(e)
  BY <1>2, <1>6 DEF OrderInv, HaveInv
<1>8. \A i \in 1 .. Len(out[Dest]) : out[Dest][i].msg # 0 => Before(out[Dest][i], e)
  <2>1. DueFrom(Dest) = rx.part
    BY <1>1, DestDue, TypeGroups
  <2>2. QED
    BY <1>1, <1>2, <1>6, <2>1 DEF OrderInv, DueInv
<1> HIDE DEF h, e, n
<1>9. QueueInv' /\ HaveInv'
  BY <1>1, <1>3 DEF OrderInv, QueueInv, HaveInv, Seen
<1>10. SentInv'
  <2>1. ASSUME NEW s \in Sockets, NEW i \in 1 .. Len(out'[s]), out'[s][i].msg # 0
        PROVE  Seen(out'[s][i])
    <3>1. CASE s # Dest
      BY <1>4, <2>1, <3>1 DEF OrderInv, SentInv
    <3>2. CASE s = Dest /\ i \in 1 .. Len(out[Dest])
      BY <1>5, <2>1, <3>2 DEF OrderInv, SentInv
    <3>3. CASE s = Dest /\ i = n
      BY <1>5, <1>7, <3>3
    <3>4. n = Len(out[Dest]) + 1
      BY DEF n
    <3>5. QED
      BY <1>2, <1>5, <2>1, <3>1, <3>2, <3>3, <3>4
  <2>2. QED
    BY <1>1, <2>1 DEF SentInv, Seen, Sockets, Ranks, Fwd
<1>11. InOrder'
  <2>1. SUFFICES ASSUME NEW s \in Sockets, NEW i \in 1 .. Len(out'[s]),
                        NEW j \in 1 .. Len(out'[s]), i < j,
                        out'[s][i].msg # 0, out'[s][j].msg # 0
                 PROVE  Before(out'[s][i], out'[s][j])
    BY DEF InOrder, Sockets, Ranks, Fwd
  <2>2. CASE s # Dest
    BY <1>4, <2>1, <2>2 DEF OrderInv, InOrder
  <2>3. CASE s = Dest
    <3>1. n = Len(out[Dest]) + 1
      BY DEF n
    <3>2. i \in 1 .. Len(out[Dest])
      BY <1>2, <1>5, <2>1, <2>3, <3>1
    <3>3. CASE j \in 1 .. Len(out[Dest])
      BY <1>5, <2>1, <2>3, <3>2, <3>3 DEF OrderInv, InOrder
    <3>4. CASE j = n
      BY <1>5, <1>8, <2>1, <2>3, <3>2, <3>4
    <3>5. QED
      BY <1>2, <1>5, <2>1, <2>3, <3>1, <3>3, <3>4
  <2>4. QED
    BY <2>2, <2>3
<1>12. DueInv'
  <2>1. SUFFICES ASSUME rx'.pc \in Collecting \cup Sending,
                        NEW s \in Sockets, NEW i \in 1 .. Len(out'[s]),
                        NEW k \in DueFrom(s)' .. Len(rx.have),
                        out'[s][i].msg # 0
                 PROVE  Before(out'[s][i], rx.have[k])
    BY <1>3 DEF DueInv, Sockets, Ranks, Fwd
  <2>2. rx'.pc \in Sending
    BY <1>3, <2>1 DEF Collecting, Sending
  <2>3. /\ DueFrom(s) <= DueFrom(s)'
        /\ s = Dest => rx.part < DueFrom(s)'
    BY <1>1, <2>2, DueAfterPut, TypeGroups
  <2>4. DueFrom(s) \in Nat \ {0}
    BY DueTypes, TypeGroups
  <2>5. DueFrom(s)' \in Nat \ {0}
    BY DEF RxTypes, DueFrom
  <2>6. k \in DueFrom(s) .. Len(rx.have) /\ k \in 1 .. Len(rx.have)
    BY <1>2, <2>3, <2>4, <2>5
  <2>7. CASE s # Dest
    BY <1>1, <1>4, <2>1, <2>6, <2>7 DEF OrderInv, DueInv
  <2>8. CASE s = Dest /\ i \in 1 .. Len(out[Dest])
    BY <1>1, <1>5, <2>1, <2>6, <2>8 DEF OrderInv, DueInv
  <2>9. CASE s = Dest /\ i = n
    <3>1. rx.part < k
      BY <1>2, <2>3, <2>5, <2>6, <2>9
    <3>2. Before(h, rx.have[k])
      BY <1>2, <2>6, <3>1 DEF OrderInv, HaveInv, h
    <3>3. QED
      BY <1>5, <1>6, <2>9, <3>2
  <2>10. n = Len(out[Dest]) + 1
    BY DEF n
  <2>11. QED
    BY <1>2, <1>5, <2>1, <2>7, <2>8, <2>9, <2>10
<1>13. QED
  BY <1>9, <1>10, <1>11, <1>12 DEF OrderInv

\* A fabricated end message is none of the detector's parts.
LEMMA OrderFabricated ==
    ASSUME OrderInv, TypeOK, FabricatePut
    PROVE  OrderInv'
<1>1. UNCHANGED <<rx, rxsock, pending, produced>>
  BY DEF FabricatePut, rxvars, stream
<1> DEFINE t == DestOfAll(main.dest)
           e == [msg |-> 0, part |-> 1, more |-> FALSE]
<1>2. out' = out \/ out' = [out EXCEPT ![t] = Append(@, e)]
  BY DEF FabricatePut, Put
<1>3. ASSUME NEW s \in Sockets
      PROVE  /\ Len(out[s]) \in Nat
             /\ Len(out[s]) <= Len(out'[s])
             /\ \A i \in 1 .. Len(out[s]) : out'[s][i] = out[s][i]
             /\ \A i \in 1 .. Len(out'[s]) :
                    i \in 1 .. Len(out[s]) \/ out'[s][i].msg = 0
  <2>1. out[s] \in Seq([msg : MsgIds \cup {0}, part : Nat \ {0}, more : BOOLEAN])
    BY DEF TypeOK
  <2>2. e.msg = 0
    OBVIOUS
  <2>3. out'[s] = out[s] \/ out'[s] = Append(out[s], e)
    <3>1. DOMAIN out = Sockets
      BY DEF TypeOK
    <3> HIDE DEF e, t
    <3>2. QED
      BY <1>2, <3>1
  <2> HIDE DEF e, t
  <2>4. CASE out'[s] = out[s]
    BY <2>1, <2>4
  <2>5. CASE out'[s] = Append(out[s], e)
    <3>1. /\ Len(out'[s]) = Len(out[s]) + 1
          /\ \A i \in 1 .. Len(out[s]) : out'[s][i] = out[s][i]
          /\ out'[s][Len(out[s]) + 1] = e
          /\ Len(out[s]) \in Nat
      BY <2>1, <2>5
    <3>2. QED
      BY <2>2, <3>1
  <2>6. QED
    BY <2>3, <2>4, <2>5
<1>4. QueueInv' /\ HaveInv'
  BY <1>1 DEF OrderInv, QueueInv, HaveInv, Seen
<1>5. SentInv'
  BY <1>1, <1>3 DEF OrderInv, SentInv, Seen, Sockets, Ranks, Fwd
<1>6. InOrder'
  BY <1>1, <1>3 DEF OrderInv, InOrder, Sockets, Ranks, Fwd
<1>7. DueInv'
  <2>1. \A s : DueFrom(s)' = DueFrom(s)
    BY <1>1 DEF DueFrom, ToOne, Kind, Turn, Fwd
  <2>2. QED
    BY <1>1, <1>3, <2>1 DEF OrderInv, DueInv, Sockets, Ranks, Fwd
<1>8. QED
  BY <1>4, <1>5, <1>6, <1>7 DEF OrderInv

\* A client that leaves takes parts off the end of those sent.
LEMMA OrderDetached ==
    ASSUME OrderInv, TypeOK, NEW s \in Sockets, Detach(s)
    PROVE  OrderInv'
<1>1. UNCHANGED <<rx, rxsock, pending, produced>>
  BY DEF Detach, rxvars, stream
<1>2. ASSUME NEW t \in Sockets
      PROVE  /\ Len(out[t]) \in Nat /\ Len(out'[t]) \in Nat
             /\ \A i \in 1 .. Len(out'[t]) :
                    i \in 1 .. Len(out[t]) /\ out'[t][i] = out[t][i]
  <2>1. /\ OutTypes' /\ Len(out'[t]) <= Len(out[t])
        /\ \A i \in 1 .. Len(out'[t]) : out'[t][i] = out[t][i]
    BY DetachKeeps, TypeGroups DEF ClientTypes
  <2>2. Len(out[t]) \in Nat /\ Len(out'[t]) \in Nat
    BY <2>1, TypeGroups DEF OutTypes, Sockets, Ranks, Fwd
  <2>3. QED
    BY <2>1, <2>2
<1>3. QueueInv' /\ HaveInv'
  BY <1>1 DEF OrderInv, QueueInv, HaveInv, Seen
<1>4. SentInv'
  BY <1>1, <1>2 DEF OrderInv, SentInv, Seen, Sockets, Ranks, Fwd
<1>5. InOrder'
  BY <1>1, <1>2 DEF OrderInv, InOrder, Sockets, Ranks, Fwd
<1>6. DueInv'
  <2>1. \A t : DueFrom(t)' = DueFrom(t)
    BY <1>1 DEF DueFrom, ToOne, Kind, Turn, Fwd
  <2>2. QED
    BY <1>1, <1>2, <2>1 DEF OrderInv, DueInv, Sockets, Ranks, Fwd
<1>7. QED
  BY <1>3, <1>4, <1>5, <1>6 DEF OrderInv

\* A step of the rx thread that goes elsewhere with the message in hand, or lets
\* go of it.
LEMMA OrderGoto ==
    ASSUME OrderInv, TypeOK, RxTypes', UNCHANGED <<stream, out>>,
           \/ \E q \in RxPcs :
                  /\ Goto(q)
                  /\ q \in Collecting \cup Sending =>
                         rx.pc \in Collecting \cup Sending
           \/ rx' = [RxIdle EXCEPT !.pc = "loop"]
    PROVE  OrderInv'
<1>1. QueueInv' /\ rxsock' = rxsock /\ out' = out
  BY DEF OrderInv, QueueInv, stream
<1>2. CASE rx' = [RxIdle EXCEPT !.pc = "loop"]
  <2>1. rx'.have = <<>> /\ rx'.pc \notin Collecting \cup Sending
    BY <1>2 DEF RxIdle, Collecting, Sending
  <2>2. QED
    BY <1>1, <2>1, OrderKept
<1>3. ASSUME NEW q \in RxPcs, Goto(q),
             q \in Collecting \cup Sending => rx.pc \in Collecting \cup Sending
      PROVE  OrderInv'
  <2>1. /\ rx'.pc = q /\ rx'.have = rx.have /\ rx'.dest = rx.dest
        /\ rx'.part = rx.part /\ ToOne' = ToOne
    BY <1>3, GotoStep, TypeGroups
  <2>2. \A s \in Sockets : DueFrom(s)' = DueFrom(s)
    BY <2>1 DEF DueFrom, Turn, Fwd
  <2>3. \A s \in Sockets : DueFrom(s) \in Nat
    BY DueTypes, TypeGroups
  <2>4. \A s \in Sockets : DueFrom(s) <= DueFrom(s)'
    BY <2>2, <2>3
  <2>5. QED
    BY <1>1, <1>3, <2>1, <2>4, OrderKept
<1>4. QED
  BY <1>2, <1>3

LEMMA OrderByRx ==
    ASSUME OneWorker, OrderInv, TypeOK, RxInv, RxTypes', Rx
    PROVE  OrderInv'
<1>1. CASE RxStart \/ RxLoop \/ RxOffset \/ RxReset \/ RxIndex \/ RxGetMore
            \/ RxTestMore \/ RxPutFails \/ RxHandled \/ RxEnded \/ RxCount
            \/ RxDrainMore \/ RxTestRest
  <2>1. UNCHANGED <<stream, out>>
    BY <1>1 DEF RxStart, RxLoop, RxOffset, RxReset, RxIndex, RxGetMore,
                RxTestMore,
           RxPutFails, RxHandled, RxEnded, RxCount, RxDrainMore, RxTestRest,
           RxKeeps, stream
  <2>2. CASE RxTestRest
    <3>1. Goto("drop") \/ rx' = [RxIdle EXCEPT !.pc = "loop"]
      BY <2>2 DEF RxTestRest, Goto
    <3>2. "drop" \in RxPcs /\ "drop" \notin Collecting \cup Sending
      BY DEF RxPcs, Collecting, Sending
    <3>3. QED
      BY <2>1, <3>1, <3>2, OrderGoto
  <2>3. CASE RxOffset \/ RxReset \/ RxIndex \/ RxGetMore \/ RxTestMore
    <3>1. rx.pc \in Collecting \cup Sending
      BY <2>3 DEF RxOffset, RxReset, RxIndex, RxGetMore, RxTestMore, At,
                  Collecting
    <3>2. \E q \in RxPcs : Goto(q)
      BY <2>3 DEF RxOffset, RxReset, RxIndex, RxGetMore, RxTestMore, RxPcs
    <3>3. QED
      BY <2>1, <3>1, <3>2, OrderGoto
  <2>4. CASE RxStart \/ RxLoop \/ RxPutFails \/ RxHandled \/ RxEnded \/ RxCount
              \/ RxDrainMore
    <3>1. \E q \in RxPcs \ (Collecting \cup Sending) : Goto(q)
      <4>1. \E q \in {"loop", "done", "poll", "drainmore", "count", "ended",
                      "drain"} : Goto(q)
        BY <2>4 DEF RxStart, RxLoop, RxPutFails, RxHandled, RxEnded, RxCount,
               RxDrainMore, RxInv, At
      <4>2. QED
        BY <4>1 DEF RxPcs, Collecting, Sending
    <3>2. QED
      BY <2>1, <3>1, OrderGoto
  <2>5. QED
    BY <1>1, <2>2, <2>3, <2>4
<1>2. CASE RxRecv \/ RxRecvNext \/ RxDrop
  <2>1. produced' = produced /\ out' = out
    BY <1>2 DEF RxRecv, RxRecvNext, RxDrop, RxKeeps
  <2>2. CASE RxRecv
    <3>1. PICK p \in NextParts :
              /\ RxRecvPart(p)
              /\ rx' = [pc |-> HandlerOf(p), have |-> <<p>>, dest |-> 1, part |-> 1]
      BY <2>2 DEF RxRecv
    <3>2. rx'.have = <<p>> /\ rx'.part = 1 /\ rx'.dest = 1
      BY <3>1
    <3>3. QED
      BY <2>1, <3>1, <3>2, OrderReceived
  <2>3. CASE RxRecvNext
    <3>1. PICK p \in NextParts :
              /\ RxRecvPart(p)
              /\ rx' = [rx EXCEPT !.have = Append(@, p), !.pc = rx'.pc]
      <4>1. PICK p \in NextParts :
                /\ RxRecvPart(p)
                /\ rx' = [rx EXCEPT
                       !.have = Append(@, p),
                       !.pc = IF Len(rx.have) = Needed THEN "decide" ELSE "getmore"]
        BY <2>3 DEF RxRecvNext
      <4>2. rx' = [rx EXCEPT !.have = Append(@, p), !.pc = rx'.pc]
        BY <4>1 DEF TypeOK
      <4>3. QED
        BY <4>1, <4>2
    <3>2. rx.pc \in Collecting
      BY <2>3 DEF RxRecvNext, At, Collecting
    <3>3. rx'.have = Append(rx.have, p) /\ rx'.part = 1 /\ rx'.dest = 1
      BY <3>1, <3>2 DEF TypeOK, RxInv
    <3>4. QED
      BY <2>1, <3>1, <3>2, <3>3, OrderReceived
  <2>4. CASE RxDrop
    <3>1. PICK p \in NextParts : RxRecvPart(p)
      BY <2>4 DEF RxDrop
    <3>2. Goto("drainmore")
      BY <2>4 DEF RxDrop
    <3>3. rx'.have = rx.have /\ rx'.pc \notin Collecting \cup Sending
      BY <3>2 DEF Goto, TypeOK, Collecting, Sending
    <3>4. QED
      BY <2>1, <3>1, <3>3, OrderReceived
  <2>5. QED
    BY <1>2, <2>2, <2>3, <2>4
<1>3. CASE RxPut /\ Dest \in Sockets /\ ~dropping[Dest]
  BY <1>3, OrderSent
<1>4. CASE RxDecide \/ (RxPut /\ (Dest \notin Sockets \/ dropping[Dest]))
  <2>1. UNCHANGED <<stream, out>>
    <3>1. CASE RxDecide
      BY <3>1 DEF RxDecide, RxKeeps, stream
    <3>2. CASE RxPut /\ (Dest \notin Sockets \/ dropping[Dest])
      <4>1. UNCHANGED stream
        BY <3>2 DEF RxPut
      <4>2. out' = out \/ \E e : out' = [out EXCEPT ![Dest] = Append(@, e)]
        BY <3>2 DEF RxPut, Put
      <4>3. dropping[Dest] => out' = out
        BY <3>2 DEF RxPut, Put
      <4>4. DOMAIN out = Sockets /\ out = [s \in Sockets |-> out[s]]
        BY DEF TypeOK
      <4>5. out' = out
        BY <3>2, <4>2, <4>3, <4>4
      <4>6. QED
        BY <4>1, <4>5
    <3>3. QED
      BY <1>4, <3>1, <3>2
  <2>2. CASE \E q \in RxPcs : Goto(q)
    BY <1>4, <2>1, <2>2, OrderGoto DEF RxDecide, RxPut, At, Sending
  <2>3. CASE \/ rx.pc = "put" /\ rx' = Advance
             \/ rx.pc = "decide" /\ rx' = Skip
    <3>1. rx.pc \in Sending
      BY <2>3 DEF Sending
    <3>2. PICK q, d, k : Position(q, d, k)
      BY <2>3, <3>1, PassOn, TypeGroups
    <3>3. rx'.have = rx.have /\ rx'.pc = q
      BY <3>2 DEF Position, TypeOK
    <3>4. q \in Sending \/ q \notin Collecting \cup Sending
      BY <3>1, <3>2 DEF Position, Collecting, Sending
    <3>5. rx'.pc \in Sending => \A s \in Sockets : DueFrom(s) <= DueFrom(s)'
      BY <2>3, DueAfterPut, DueAfterSkip, TypeGroups
    <3>6. QueueInv' /\ rxsock' = rxsock /\ out' = out
      BY <2>1 DEF OrderInv, QueueInv, stream
    <3>7. QED
      BY <3>1, <3>3, <3>4, <3>5, <3>6, OrderKept
  <2>4. \/ \E q \in RxPcs : Goto(q)
        \/ rx.pc = "put" /\ rx' = Advance
        \/ rx.pc = "decide" /\ rx' = Skip
    BY <1>4 DEF RxDecide, RxPut, At, Goto, RxPcs
  <2>5. QED
    BY <2>2, <2>3, <2>4
<1>5. QED
  BY <1>1, <1>2, <1>3, <1>4 DEF Rx

LEMMA OrderStep ==
    ASSUME OneWorker, OrderInv, IInv, [Next]_vars
    PROVE  OrderInv'
<1>1. TypeOK /\ RxInv /\ RxTypes'
  BY RxStep DEF IInv
<1>2. CASE Rx
  BY <1>1, <1>2, OrderByRx
<1>3. CASE FabricatePut
  BY <1>1, <1>3, OrderFabricated
<1>4. CASE MainSpawnRx
  <2>1. UNCHANGED <<stream, out>> /\ Goto("start")
    BY <1>4 DEF MainSpawnRx, Goto
  <2>2. "start" \in RxPcs /\ "start" \notin Collecting \cup Sending
    BY DEF RxPcs, Collecting, Sending
  <2>3. QED
    BY <1>1, <2>1, <2>2, OrderGoto
<1>7. ASSUME NEW s \in Sockets, Detach(s)
      PROVE  OrderInv'
  BY <1>1, <1>7, OrderDetached
<1>5. CASE /\ UNCHANGED rx /\ ~Rx /\ ~FabricatePut
           /\ ~\E s \in Sockets : Detach(s)
  <2>1. out' = out
    BY <1>5, OutMoves
  <2>2. rxsock' = rxsock
    BY <1>5, MainLeaves, OutsideLeaves DEF Next, vars, stream
  <2>3. QueueInv'
    <3>1. CASE \E w \in Workers : Produce(w)
      BY <1>1, <3>1, LaterMessage, TypeGroups DEF OrderInv
    <3>2. CASE UNCHANGED stream
      BY <3>2 DEF OrderInv, QueueInv, stream
    <3>3. QED
      BY <1>5, <3>1, <3>2, StreamMoves
  <2>4. \A s \in Sockets : DueFrom(s)' = DueFrom(s) /\ DueFrom(s) \in Nat
    BY <1>1, <1>5, DueTypes, TypeGroups DEF DueFrom, ToOne, Kind, Turn, Fwd
  <2>5. QED
    BY <1>1, <1>5, <2>1, <2>2, <2>3, <2>4, OrderKept
<1>6. QED
  BY <1>2, <1>3, <1>4, <1>5, <1>7, RxMoves

\* With one worker, whatever the main thread does to what the threads share, no
\* socket gets a part of the detector twice or out of order (EigerFan.cpp:404-759
\* and 1221-1362).
THEOREM InOrderAlways ==
    ASSUME OneWorker
    PROVE  Spec => []InOrder
<1>1. Init => OrderInv
  BY DEF Init, RxIdle, OrderInv, QueueInv, HaveInv, SentInv, DueInv, InOrder,
         Collecting, Sending
<1>2. OrderInv /\ IInv /\ [Next]_vars => OrderInv'
  BY OrderStep
<1>3. OrderInv => InOrder
  BY DEF OrderInv
<1>4. Spec => []IInv
  BY Initially, Invariance, PTL DEF Spec
<1>5. QED
  BY <1>1, <1>2, <1>3, <1>4, PTL DEF Spec

-----------------------------------------------------------------------------
(***************************************************************************)
(* Whole messages                                                          *)
(***************************************************************************)

\* Nothing is disturbed that was disturbed before.
LEMMA DisturbedBefore ==
    ASSUME [Next]_vars, ~disturbed'
    PROVE  /\ ~disturbed
           /\ ~FabricatePut
           /\ CtlMore => phase # "run" \/ ctlread = 0
           /\ \A s \in Sockets : MonRecv(s) => phase # "run"
<1>1. CASE Main
  <2>1. CASE FabricatePut
    BY <2>1 DEF FabricatePut
  <2>2. ASSUME NEW s \in Sockets, MonRecv(s)
        PROVE  ~disturbed /\ phase # "run"
    BY <2>2 DEF MonRecv
  <2>6. CASE CtlMore
    BY <2>6 DEF CtlMore, FabricatePut, MonRecv, Serving
  <2>3. CASE ~FabricatePut /\ ~CtlMore /\ ~\E s \in Sockets : MonRecv(s)
    <3>1. disturbed' = disturbed
      <4>1. ASSUME NEW s \in Sockets, Monitor(s)
            PROVE  disturbed' = disturbed
        BY <2>3, <4>1
           DEF Monitor, MonTestMore, MonEndpoint, MonMore, MonTestRest, MonDrop
      <4>2. QED
        BY <1>1, <2>3, <4>1
           DEF Main, MainPoll, MainSpawnRx, MainWake, MainClose, MainServed,
               CtlRecvId, CtlRecv, FabricateNext, FabricateEnd, CtlApply,
               CtlReply, CtlAbort, CtlTestMore, CtlDrop
    <3>2. QED
      BY <2>3, <3>1
  <2>4. CtlMore => ~\E s \in Sockets : MonRecv(s)
    BY DEF CtlMore, MonRecv, Serving
  <2>5. QED
    BY <2>1, <2>2, <2>3, <2>4, <2>6
<1>2. CASE (Outside \/ Rx \/ UNCHANGED vars) /\ ~Main
  <2>1. ~disturbed
    BY <1>2, OutsideLeaves, RxLeaves DEF mainvars, vars
  <2>2. QED
    BY <2>1, <1>2 DEF Main, Monitor
<1>3. QED
  BY <1>1, <1>2 DEF Next

\* The sections of run() follow each other.
LEMMA PhaseSteps ==
    ASSUME [Next]_vars
    PROVE  \/ phase' = phase
           \/ MainSpawnRx \/ MainWake \/ MainClose \/ CtlAbort
<1>1. CASE Main
  BY <1>1
     DEF Main, MainPoll, MainServed, CtlRecvId, CtlRecv, FabricateNext,
         FabricatePut, FabricateEnd, CtlApply, CtlReply, CtlMore, CtlTestMore,
         CtlDrop, Monitor, MonRecv, MonTestMore, MonEndpoint, MonMore,
         MonTestRest, MonDrop
<1>2. CASE Outside \/ Rx \/ UNCHANGED vars
  BY <1>2, OutsideLeaves, RxLeaves DEF mainvars, vars
<1>3. QED
  BY <1>1, <1>2 DEF Next

\* Undisturbed, no event is handled while messages flow.
LEMMA CalmStep ==
    ASSUME IInv, CalmInv, [Next]_vars, ~disturbed'
    PROVE  CalmInv'
<1>1. /\ ~FabricatePut
      /\ \A s \in Sockets : MonRecv(s) => phase # "run"
  BY DisturbedBefore
<1>2. phase' = "connect" => \A c \in Ranks : out'[c] = <<>>
  <2>1. SUFFICES ASSUME phase' = "connect"
                 PROVE  \A c \in Ranks : out'[c] = <<>>
    OBVIOUS
  <2>2. phase = "connect"
    BY <2>1, PhaseSteps DEF MainSpawnRx, MainWake, MainClose, CtlAbort
  <2>3. out' = out \/ \E s \in Sockets : Detach(s)
    BY <1>1, <2>2, OutMoves DEF RxPut, At, IInv, RxInv
  <2>4. ASSUME NEW s \in Sockets, Detach(s), NEW c \in Ranks
        PROVE  out'[c] = <<>>
    <3>1. out[c] = <<>> /\ c \in Sockets
      BY <2>2 DEF CalmInv, Sockets
    <3>2. OutTypes' /\ Len(out'[c]) <= Len(out[c])
      BY <2>4, <3>1, DetachKeeps, TypeGroups DEF IInv, ClientTypes
    <3>3. out'[c] \in Seq([msg : MsgIds \cup {0}, part : Nat \ {0},
                           more : BOOLEAN])
      BY <3>1, <3>2 DEF OutTypes, Sockets, Ranks, Fwd
    <3>4. Len(out'[c]) = 0
      BY <3>1, <3>2, <3>3
    <3>5. QED
      BY <3>3, <3>4
  <2>5. QED
    BY <2>2, <2>3, <2>4 DEF CalmInv
<1>3. phase # "connect" => ~\E s \in Sockets : Monitor(s)
  <2>1. SUFFICES ASSUME phase # "connect", NEW s \in Sockets, Monitor(s)
                 PROVE  FALSE
    OBVIOUS
  <2>2. main.pc \in Monitoring \/ MonRecv(s)
    BY <2>1 DEF Monitor, MonTestMore, MonEndpoint, MonMore, MonTestRest, MonDrop,
           Serving, Monitoring
  <2>3. MonRecv(s) /\ main.pc = "dispatch"
    BY <2>1, <2>2 DEF CalmInv, MonRecv, Serving
  <2>4. phase \in {"connect", "run"}
    BY <2>3 DEF IInv, TypeOK, MainInv
  <2>5. QED
    BY <1>1, <2>1, <2>3, <2>4
<1>4. phase' # "connect" => main'.pc \notin Monitoring
  <2>1. SUFFICES ASSUME phase' # "connect"
                 PROVE  main'.pc \notin Monitoring
    OBVIOUS
  <2>2. CASE phase = "connect"
    <3>1. MainSpawnRx \/ MainClose \/ CtlAbort
      BY <2>1, <2>2, PhaseSteps DEF MainWake
    <3>2. main'.pc = "poll"
      BY <3>1 DEF MainSpawnRx, MainClose, CtlAbort, MainIdle
    <3>3. QED
      BY <3>2 DEF Monitoring
  <2>3. CASE phase # "connect"
    <3>1. main.pc \notin Monitoring
      BY <2>3 DEF CalmInv
    <3>2. CASE main' = main
      BY <3>1, <3>2
    <3>3. CASE main'.pc \in {"poll", "dispatch", "ctlbody", "fabricate",
                             "fabricated", "apply", "reply", "ctlmore",
                             "ctltest", "ctlrecv"}
      BY <3>3 DEF Monitoring
    <3>4. main \in [pc : MainPcs, ready : SUBSET (Sockets \cup {Ctl}),
                    command : Commands \cup {Absent, NotABody},
                    event : EventSet \cup {"other", "none"},
                    dest : 1 .. NumConsumers + 2]
      BY DEF IInv, TypeOK
    <3>5. CASE Main
      <4>1. CASE MainPoll \/ MainSpawnRx \/ MainWake \/ MainClose \/ MainServed
        BY <3>2, <3>3, <3>4, <4>1
           DEF MainPoll, MainSpawnRx, MainWake, MainClose, MainServed
      <4>2. CASE CtlRecvId \/ CtlRecv
        <5>1. main'.pc \in {"ctlbody", "fabricate", "apply"}
          BY <3>4, <4>2 DEF CtlRecvId, CtlRecv
        <5>2. QED
          BY <3>3, <5>1
      <4>3. CASE FabricateNext \/ FabricatePut \/ FabricateEnd
        BY <3>1, <3>4, <4>3
           DEF FabricateNext, FabricatePut, FabricateEnd, Monitoring
      <4>4. CASE CtlApply \/ CtlReply \/ CtlMore \/ CtlDrop
        BY <3>3, <3>4, <4>4 DEF CtlApply, CtlReply, CtlMore, CtlDrop
      <4>7. CASE CtlAbort
        BY <3>3, <4>7 DEF CtlAbort, MainIdle
      <4>5. CASE CtlTestMore
        BY <3>3, <3>4, <4>5 DEF CtlTestMore, MainIdle
      <4>6. QED
        BY <1>3, <2>3, <3>5, <4>1, <4>2, <4>3, <4>4, <4>5, <4>7 DEF Main
    <3>6. CASE Outside \/ Rx \/ UNCHANGED vars
      BY <3>2, <3>6, OutsideLeaves, RxLeaves DEF mainvars, vars
    <3>7. QED
      BY <3>5, <3>6 DEF Next
  <2>4. QED
    BY <2>2, <2>3
<1>5. phase' \in {"wait", "run"} => \A c \in Ranks : connected'[c] = 1
  <2>1. SUFFICES ASSUME phase' \in {"wait", "run"}
                 PROVE  \A c \in Ranks : connected'[c] = 1
    OBVIOUS
  <2>2. CASE MainSpawnRx
    BY <2>2 DEF MainSpawnRx, Looping, ExpectedConsumersConnected
  <2>3. CASE ~MainSpawnRx
    <3>1. phase \in {"wait", "run"}
      BY <2>1, <2>3, PhaseSteps DEF MainWake, MainClose, CtlAbort
    <3>2. connected' = connected
      <4>1. CASE Main
        BY <1>3, <3>1, <4>1
           DEF Main, MainPoll, MainSpawnRx, MainWake, MainClose, MainServed,
               CtlRecvId, CtlRecv, FabricateNext, FabricatePut, FabricateEnd,
               CtlApply, CtlReply, CtlAbort, CtlMore, CtlTestMore, CtlDrop
      <4>2. CASE Outside \/ Rx \/ UNCHANGED vars
        BY <4>2, OutsideLeaves, RxLeaves DEF vars
      <4>3. QED
        BY <4>1, <4>2 DEF Next
    <3>3. QED
      BY <3>1, <3>2 DEF CalmInv
  <2>4. QED
    BY <2>2, <2>3
<1>6. QED
  BY <1>2, <1>4, <1>5 DEF CalmInv

\* Nor does the main thread set the more of the rx thread.
LEMMA MoreByMain ==
    ASSUME IInv, CalmInv, Main, ~disturbed', phase # "connect"
    PROVE  more' = more \/ more' = FALSE
<1>1. CASE \E s \in Sockets : Monitor(s)
  <2>1. PICK s \in Sockets : Monitor(s)
    BY <1>1
  <2>2. main.pc \in Monitoring \/ MonRecv(s)
    BY <2>1 DEF Monitor, MonTestMore, MonEndpoint, MonMore, MonTestRest, MonDrop,
           Serving, Monitoring
  <2>3. MonRecv(s) /\ main.pc = "dispatch"
    BY <2>2 DEF CalmInv, MonRecv, Serving
  <2>4. phase = "run"
    BY <2>3 DEF IInv, TypeOK, MainInv
  <2>5. QED
    BY <2>3, <2>4 DEF MonRecv
<1>2. CASE CtlMore
  <2>1. phase = "run"
    BY <1>2 DEF CtlMore, IInv, TypeOK, MainInv
  <2>2. QED
    BY <1>2, <2>1, DisturbedBefore DEF CtlMore, Next
<1>3. CASE ~CtlMore /\ ~\E s \in Sockets : Monitor(s)
  BY <1>3
     DEF Main, MainPoll, MainSpawnRx, MainWake, MainClose, MainServed,
         CtlRecvId, CtlRecv, FabricateNext, FabricatePut, FabricateEnd, CtlApply,
         CtlReply, CtlAbort, CtlTestMore, CtlDrop
<1>4. QED
  BY <1>1, <1>2, <1>3

\* The parts in hand stay what they are in a step that receives none.
LEMMA OwnKept ==
    ASSUME OwnInv, rxsock' = rxsock,
           rx'.pc \in Collecting \cup Sending =>
               rx.pc \in Collecting \cup Sending /\ rx'.have = rx.have,
           rx'.pc \in {"testmore", "drain"} /\ more' => RcvMore,
           rx'.pc \in {"recvpart", "drop"} => RcvMore
    PROVE  OwnInv'
<1>1. RcvMore' = RcvMore
  BY DEF RcvMore
<1>2. QED
  BY <1>1 DEF OwnInv

LEMMA OwnByRx ==
    ASSUME TypeOK, RxInv, OwnInv, Rx
    PROVE  OwnInv'
<1>1. CASE RxStart \/ RxLoop \/ RxPutFails \/ RxHandled \/ RxEnded \/ RxCount
  <2>1. rxsock' = rxsock
    BY <1>1 DEF RxStart, RxLoop, RxPutFails, RxHandled, RxEnded, RxCount, stream
  <2>2. \E q \in {"loop", "done", "poll", "drainmore", "count", "ended"} : Goto(q)
    BY <1>1 DEF RxStart, RxLoop, RxPutFails, RxHandled, RxEnded, RxCount, RxInv,
                At
  <2>3. rx'.pc \in {"loop", "done", "poll", "drainmore", "count", "ended"}
    BY <2>2 DEF Goto, TypeOK
  <2>4. QED
    BY <2>1, <2>3, OwnKept DEF Collecting, Sending
<1>2. CASE RxOffset \/ RxReset \/ RxIndex
  <2>1. rxsock' = rxsock /\ rx.pc \in Collecting
    BY <1>2 DEF RxOffset, RxReset, RxIndex, At, Collecting
  <2>2. \E q \in {"reset", "handled", "getmore"} : Goto(q)
    BY <1>2 DEF RxOffset, RxReset, RxIndex
  <2>3. rx'.pc \in {"reset", "handled", "getmore"} /\ rx'.have = rx.have
    BY <2>2 DEF Goto, TypeOK
  <2>4. QED
    BY <2>1, <2>3, OwnKept
<1>3. CASE RxGetMore \/ RxDrainMore
  <2>1. /\ rxsock' = rxsock /\ more' = RcvMore
        /\ rx'.pc \in {"testmore", "drain"} /\ rx'.have = rx.have
        /\ rx'.pc = "testmore" => rx.pc = "getmore"
    BY <1>3 DEF RxGetMore, RxDrainMore, Goto, At, TypeOK
  <2>2. QED
    BY <2>1, OwnKept DEF Collecting, Sending
<1>4. CASE RxTestMore
  <2>1. /\ rxsock' = rxsock /\ rx.pc = "testmore"
        /\ rx'.pc \in {"recvpart", "decide", "count", "drainmore"}
        /\ rx'.pc = "recvpart" => more
        /\ rx'.have = rx.have
    BY <1>4 DEF RxTestMore, Goto, At, TypeOK
  <2>2. rx'.pc = "recvpart" => RcvMore
    BY <2>1 DEF OwnInv
  <2>3. QED
    BY <2>1, <2>2, OwnKept DEF Collecting, Sending
<1>5. CASE RxTestRest
  <2>1. /\ rxsock' = rxsock /\ rx.pc = "drain"
        /\ rx'.pc \in {"drop", "loop"}
        /\ rx'.pc = "drop" => more
    BY <1>5 DEF RxTestRest, RxIdle, At, TypeOK
  <2>2. rx'.pc = "drop" => RcvMore
    BY <2>1 DEF OwnInv
  <2>3. QED
    BY <2>1, <2>2, OwnKept DEF Collecting, Sending
<1>6. CASE RxDecide \/ RxPut
  <2>1. rxsock' = rxsock /\ rx.pc \in Sending
    BY <1>6 DEF RxDecide, RxPut, At, Sending, stream
  <2>2. \/ rx' = [rx EXCEPT !.pc = "drainmore"]
        \/ rx' = [rx EXCEPT !.pc = "put"]
        \/ \E q, d, k : Position(q, d, k)
    BY <1>6, <2>1, PassOn, TypeGroups DEF RxDecide, RxPut, At
  <2>3. rx'.have = rx.have /\ rx'.pc \in Sending \cup {"handled", "drainmore"}
    <3>1. DOMAIN rx = {"pc", "have", "dest", "part"}
      BY DEF TypeOK
    <3>2. ASSUME NEW q, NEW d, NEW k, Position(q, d, k)
          PROVE  /\ rx'.have = rx.have
                 /\ rx'.pc \in {rx.pc, "put", "decide", "handled", "drainmore"}
      BY <3>1, <3>2 DEF Position
    <3>3. QED
      BY <2>1, <2>2, <3>1, <3>2 DEF Sending
  <2>4. QED
    BY <2>1, <2>3, OwnKept DEF Sending
<1>7. CASE RxDrop
  <2>1. rx'.pc = "drainmore"
    BY <1>7 DEF RxDrop, Goto, TypeOK
  <2>2. QED
    BY <2>1 DEF OwnInv, Collecting, Sending
<1>8. CASE RxRecv
  <2>1. PICK p \in NextParts :
            /\ RxRecvPart(p)
            /\ rx' = [pc |-> HandlerOf(p), have |-> <<p>>, dest |-> 1, part |-> 1]
    BY <1>8 DEF RxRecv
  <2>2. p \in PartIds
    BY PartTypes, TypeGroups
  <2>3. /\ rx'.pc = HandlerOf(p) /\ rx'.have = <<p>>
        /\ rxsock' = [msg |-> p.msg, next |-> p.part + 1]
    BY <2>1 DEF RxRecvPart
  <2>4. CASE p.part > 1 \/ Stream[p.msg].kind = "unknown"
    <3>1. rx'.pc = "drainmore"
      BY <2>3, <2>4 DEF HandlerOf
    <3>2. QED
      BY <3>1 DEF OwnInv, Collecting, Sending
  <2>5. CASE ~(p.part > 1 \/ Stream[p.msg].kind = "unknown")
    <3>1. p = [msg |-> p.msg, part |-> 1]
      BY <2>2, <2>5 DEF PartIds
    <3>2. rx'.pc \in {"offset", "index", "decide"}
      <4>1. Stream[p.msg].kind \in {"header", "image", "end"}
        BY <2>2, <2>5, StreamTypes DEF PartIds, Kinds
      <4>2. QED
        BY <2>3, <2>5, <4>1 DEF HandlerOf
    <3>3. /\ Len(rx'.have) = 1 /\ rx'.have[1] = p
          /\ rxsock'.msg = p.msg /\ rxsock'.next = 2
      BY <2>3, <3>1
    <3>4. QED
      BY <3>1, <3>2, <3>3 DEF OwnInv
  <2>6. QED
    BY <2>4, <2>5
<1>9. CASE RxRecvNext
  <2>1. PICK p \in NextParts :
            /\ RxRecvPart(p)
            /\ rx' = [rx EXCEPT
                   !.have = Append(@, p),
                   !.pc = IF Len(rx.have) = Needed THEN "decide" ELSE "getmore"]
    BY <1>9 DEF RxRecvNext
  <2>2. p \in PartIds
    BY PartTypes, TypeGroups
  <2>3. RcvMore /\ rx.pc = "recvpart"
    BY <1>9 DEF RxRecvNext, At, OwnInv
  <2>4. p = [msg |-> rxsock.msg, part |-> rxsock.next]
    BY <2>3 DEF NextParts
  <2>5. /\ rx.have \in Seq(PartIds) /\ rxsock.next = Len(rx.have) + 1
        /\ \A k \in 1 .. Len(rx.have) :
               rx.have[k] = [msg |-> rxsock.msg, part |-> k]
    BY <2>3 DEF TypeOK, OwnInv, Collecting
  <2>6. /\ rx'.have = Append(rx.have, p)
        /\ rx'.pc \in {"decide", "getmore"}
        /\ rxsock' = [msg |-> p.msg, next |-> p.part + 1]
    BY <2>1 DEF TypeOK, RxRecvPart
  <2>7. /\ Len(rx'.have) = Len(rx.have) + 1
        /\ \A k \in 1 .. Len(rx.have) : rx'.have[k] = rx.have[k]
        /\ rx'.have[Len(rx.have) + 1] = p
        /\ Len(rx.have) \in Nat
    BY <2>2, <2>5, <2>6
  <2>8. rxsock'.msg = rxsock.msg /\ rxsock'.next = Len(rx'.have) + 1
    BY <2>4, <2>5, <2>6, <2>7
  <2>9. \A k \in 1 .. Len(rx'.have) :
            rx'.have[k] = [msg |-> rxsock'.msg, part |-> k]
    BY <2>4, <2>5, <2>7, <2>8
  <2>10. QED
    BY <2>6, <2>8, <2>9 DEF OwnInv
<1>10. QED
  BY <1>1, <1>2, <1>3, <1>4, <1>5, <1>6, <1>7, <1>8, <1>9 DEF Rx

LEMMA OwnStep ==
    ASSUME IInv, CalmInv, OwnInv, [Next]_vars, ~disturbed'
    PROVE  OwnInv'
<1>1. CASE Rx
  BY <1>1, OwnByRx DEF IInv
<1>2. CASE Main /\ phase = "connect"
  <2>1. rx.pc = "none"
    BY <1>2 DEF IInv, RxInv
  <2>2. rx' = rx \/ MainSpawnRx
    BY <1>2, RxMoves, <2>1
       DEF Rx, RxStart, RxLoop, RxRecv, RxOffset, RxReset, RxIndex, RxGetMore,
           RxTestMore, RxRecvNext, RxDecide, RxPut, RxPutFails, RxHandled,
           RxEnded, RxCount, RxDrainMore, RxTestRest, RxDrop, At
  <2>3. rx'.pc \in {"none", "start"}
    BY <2>1, <2>2 DEF MainSpawnRx, IInv, TypeOK
  <2>4. QED
    BY <2>3 DEF OwnInv, Collecting, Sending
<1>3. CASE Main /\ phase # "connect"
  <2>1. rx' = rx
    BY <1>3
       DEF Main, MainPoll, MainSpawnRx, MainWake, MainClose, MainServed,
           CtlRecvId, CtlRecv,
           FabricateNext, FabricatePut, FabricateEnd, CtlApply, CtlReply,
           CtlAbort, CtlMore,
           CtlTestMore, CtlDrop, Monitor, MonRecv, MonTestMore, MonEndpoint,
           MonMore, MonTestRest, MonDrop, rxvars
  <2>2. rxsock' = rxsock
    BY <1>3, MainLeaves DEF stream
  <2>3. more' => more
    BY <1>3, MoreByMain
  <2>4. QED
    BY <2>1, <2>2, <2>3, OwnKept DEF OwnInv
<1>4. CASE Outside \/ UNCHANGED vars
  <2>1. rx' = rx /\ rxsock' = rxsock /\ more' = more
    BY <1>4, OutsideLeaves DEF vars, stream, rxvars
  <2>2. QED
    BY <2>1, OwnKept DEF OwnInv
<1>5. QED
  BY <1>1, <1>2, <1>3, <1>4 DEF Next

\* Whom the message in hand goes to, when its destination is a consumer.
Target == IF ToOne THEN currentConsumerIndexToSendTo ELSE rx.dest - 2

LEMMA TargetIsDest ==
    ASSUME TypeOK, RxInv, rx.pc \in Sending
    PROVE  /\ Dest \in Ranks => Dest = Target
           /\ ToOne /\ Dest \notin Ranks => rx.dest = 1 \/ Target \notin Ranks
           /\ ~ToOne /\ Dest \notin Ranks => rx.dest = 1
           /\ rx.dest = 1 => Dest = Fwd /\ Fwd \notin Ranks
           /\ Dest \notin Sockets => Target \notin Ranks /\ ToOne
<1>1. /\ NumConsumers \in Nat \ {0} /\ rx.dest \in 1 .. NumConsumers + 1
      /\ currentConsumerIndexToSendTo \in Int
      /\ currentConsumerIndexToSendTo < NumConsumers
      /\ ToOne => rx.dest \in {1, 2}
  <2>1. /\ NumConsumers \in Nat \ {0} /\ rx.dest \in 1 .. NumConsumers + 1
        /\ currentConsumerIndexToSendTo \in Int
    BY FanAssumption DEF TypeOK
  <2>2. currentConsumerIndexToSendTo < NumConsumers /\ (ToOne => rx.dest <= 2)
    BY DEF RxInv
  <2>3. ToOne => rx.dest \in {1, 2}
    BY <2>1, <2>2
  <2>4. QED
    BY <2>1, <2>2, <2>3
<1>2. CASE ToOne
  <2>1. Dest = IF rx.dest = 2 THEN Target ELSE Fwd
    BY <1>1, <1>2 DEF Dest, Target, DestOfAll
  <2>2. QED
    BY <1>1, <1>2, <2>1 DEF Sockets, Ranks, Fwd
<1>3. CASE ~ToOne
  <2>1. Dest = IF rx.dest = 1 THEN Fwd ELSE Target
    BY <1>3 DEF Dest, Target, DestOfAll
  <2>2. Target = rx.dest - 2
    BY <1>3 DEF Target
  <2>3. QED
    BY <1>1, <1>3, <2>1, <2>2 DEF Sockets, Ranks, Fwd
<1>4. QED
  BY <1>2, <1>3

\* After a part has been sent to a consumer, its message is open there when a
\* part follows ...
LEMMA AfterPart ==
    ASSUME TypeOK, RxInv, rx.pc = "put", rx' = Advance, Dest \in Ranks,
           currentConsumerIndexToSendTo' = currentConsumerIndexToSendTo,
           NEW c \in Ranks
    PROVE  /\ Amid(c)' <=> c = Dest /\ rx.part < Len(rx.have)
           /\ Amid(c)' => rx'.part = rx.part + 1
<1>1. /\ RxTypes /\ rx.pc \in Sending
      /\ Len(rx.have) \in Nat /\ rx.part \in Nat \ {0} /\ rx.part <= Len(rx.have)
      /\ Dest = Target /\ rx.dest # 1
  <2>1. RxTypes /\ rx.pc \in Sending
    BY TypeGroups DEF Sending
  <2>2. Dest = Target /\ rx.dest # 1
    BY <2>1, TargetIsDest
  <2>3. QED
    BY <2>1, <2>2 DEF RxTypes, RxInv
<1>2. CASE ToOne
  <2>1. PICK q \in {"decide", "handled"}, d \in {1, 2}, k \in Nat \ {0} :
            /\ Advance = [rx EXCEPT !.pc = q, !.dest = d, !.part = k]
            /\ ToOneNext(q, d, k)
    BY <1>1, <1>2, AdvanceToOne
  <2>2. q \in RxPcs /\ d \in 1 .. NumConsumers + 1
    BY <1>2, <2>1, FanAssumption DEF RxPcs
  <2>3. /\ rx'.pc = q /\ rx'.have = rx.have /\ rx'.dest = d /\ rx'.part = k
        /\ ToOne'
    <3>1. rx' = [rx EXCEPT !.pc = q, !.dest = d, !.part = k]
      BY <2>1
    <3>2. /\ rx'.pc = q /\ rx'.have = rx.have /\ rx'.dest = d /\ rx'.part = k
          /\ ToOne' = ToOne
      <4>1. RxTypes
        BY <1>1
      <4>2. rx'.pc = q /\ rx'.have = rx.have /\ rx'.dest = d /\ rx'.part = k
        BY <3>1, <4>1 DEF RxTypes
      <4>3. QED
        BY <4>2, SameMessage
    <3>3. QED
      BY <1>2, <3>2
  <2>4. Amid(c)' <=> q \in Sending /\ k > 1 /\ c = Dest
    BY <1>1, <1>2, <2>3 DEF Amid, Target
  <2>5. QED
    BY <1>1, <2>1, <2>3, <2>4 DEF ToOneNext, Sending
<1>3. CASE ~ToOne
  <2>1. PICK q \in {rx.pc, "decide", "handled"}, d \in 1 .. NumConsumers + 1,
             k \in Nat \ {0} :
            /\ Advance = [rx EXCEPT !.pc = q, !.dest = d, !.part = k]
            /\ ToAllNext(q, d, k)
    BY <1>1, <1>3, AdvanceToAll
  <2>2. q \in RxPcs
    BY <2>1 DEF RxPcs
  <2>3. /\ rx'.pc = q /\ rx'.have = rx.have /\ rx'.dest = d /\ rx'.part = k
        /\ ~ToOne'
    <3>1. RxTypes /\ rx' = [rx EXCEPT !.pc = q, !.dest = d, !.part = k]
      BY <1>1, <2>1
    <3>2. /\ rx'.pc = q /\ rx'.have = rx.have /\ rx'.dest = d /\ rx'.part = k
          /\ ToOne' = ToOne
      <4>1. rx'.pc = q /\ rx'.have = rx.have /\ rx'.dest = d /\ rx'.part = k
        BY <3>1 DEF RxTypes
      <4>2. QED
        BY <4>1, SameMessage
    <3>3. QED
      BY <1>3, <3>2
  <2>4. Amid(c)' <=> q \in Sending /\ k > 1 /\ c = d - 2
    BY <2>3 DEF Amid
  <2>5. Dest = rx.dest - 2
    BY <1>1, <1>3 DEF Target
  <2>6. QED
    BY <1>1, <2>1, <2>3, <2>4, <2>5 DEF ToAllNext, Sending
<1>4. QED
  BY <1>2, <1>3

\* ... and after one for the forwarding socket, or for an index that is none of
\* a consumer, nothing is open that was not.
LEMMA AfterForward ==
    ASSUME TypeOK, RxInv, rx.pc = "put" \/ (rx.pc = "decide" /\ ToOne),
           rx' = Advance, Dest \notin Ranks, rxsock' = rxsock,
           currentConsumerIndexToSendTo' = currentConsumerIndexToSendTo,
           NEW c \in Ranks
    PROVE  /\ Amid(c)' <=> Amid(c)
           /\ Amid(c) => rx'.part = rx.part
<1>1. /\ RxTypes /\ rx.pc \in Sending /\ c \in Nat
      /\ Len(rx.have) \in Nat /\ rx.part \in Nat \ {0} /\ rx.part <= Len(rx.have)
  <2>1. RxTypes /\ rx.pc \in Sending
    BY TypeGroups DEF Sending
  <2>2. QED
    BY <2>1 DEF RxTypes, RxInv, Ranks
<1>2. CASE ToOne
  <2>1. PICK q \in {"decide", "handled"}, d \in {1, 2}, k \in Nat \ {0} :
            /\ Advance = [rx EXCEPT !.pc = q, !.dest = d, !.part = k]
            /\ ToOneNext(q, d, k)
    BY <1>1, <1>2, AdvanceToOne
  <2>2. q \in RxPcs /\ d \in 1 .. NumConsumers + 1
    BY <1>2, <2>1, FanAssumption DEF RxPcs
  <2>3. /\ rx'.pc = q /\ rx'.have = rx.have /\ rx'.dest = d /\ rx'.part = k
        /\ ToOne'
    BY <1>1, <1>2, <2>1, <2>2, RxSet
  <2>4. /\ Amid(c)' <=> q \in Sending /\ k > 1 /\ c = Target
        /\ Amid(c) <=> rx.part > 1 /\ c = Target
    BY <1>1, <1>2, <2>3 DEF Amid, Target
  <2>5. CASE rx.dest = 1
    BY <2>1, <2>3, <2>4, <2>5 DEF ToOneNext, Sending
  <2>6. CASE Target \notin Ranks
    BY <2>4, <2>6
  <2>7. QED
    BY <1>1, <1>2, <2>5, <2>6, TargetIsDest
<1>3. CASE ~ToOne
  <2>1. PICK q \in {rx.pc, "decide", "handled"}, d \in 1 .. NumConsumers + 1,
             k \in Nat \ {0} :
            /\ Advance = [rx EXCEPT !.pc = q, !.dest = d, !.part = k]
            /\ ToAllNext(q, d, k)
    BY <1>1, <1>3, AdvanceToAll
  <2>2. q \in RxPcs
    BY <1>1, <2>1 DEF RxPcs, Sending
  <2>3. /\ rx'.pc = q /\ rx'.have = rx.have /\ rx'.dest = d /\ rx'.part = k
        /\ ~ToOne'
    BY <1>1, <1>3, <2>1, <2>2, RxSet
  <2>4. rx.dest = 1
    BY <1>1, <1>3, TargetIsDest
  <2>5. /\ Amid(c)' <=> q \in Sending /\ k > 1 /\ c = d - 2
        /\ Amid(c) <=> rx.part > 1 /\ c = 1 - 2
    BY <1>1, <1>3, <2>3, <2>4 DEF Amid
  <2>6. ~Amid(c) /\ ~Amid(c)'
    BY <1>1, <1>3, <2>1, <2>4, <2>5 DEF ToAllNext, Sending
  <2>7. QED
    BY <2>6
<1>4. QED
  BY <1>2, <1>3

\* The message on a socket stays open or not in a step that sends nothing there.
LEMMA OpenKept ==
    ASSUME OpenInv, SocketsOpen, rxsock' = rxsock, NEW c \in Ranks,
           out'[c] = out[c], dropping'[c] = dropping[c], Amid(c)' <=> Amid(c),
           Amid(c) => rx'.part = rx.part
    PROVE  OpenAt(c)'
  BY DEF OpenInv, OpenAt

LEMMA WholeKept ==
    ASSUME WholeMessages, ~disturbed, out' = out
    PROVE  WholeMessages'
  BY DEF WholeMessages, Opens, Ranks

\* A part sent to a consumer opens a message there with its first part, or goes
\* on with the message whose part before it has been sent.
LEMMA PartSent ==
    ASSUME TypeOK, RxInv, OwnInv, OpenInv, WholeMessages, ~disturbed,
           RxPut, Dest \in Ranks, ~dropping[Dest]
    PROVE  OpenInv' /\ WholeMessages'
<1>1. /\ rx.pc = "put" /\ rx.pc \in Sending /\ rx' = Advance
      /\ SocketsOpen /\ rxsock' = rxsock
      /\ currentConsumerIndexToSendTo' = currentConsumerIndexToSendTo
      /\ Put(Dest, rx.have[rx.part].msg, rx.have[rx.part].part, ~Last)
  BY DEF RxPut, At, Sending, stream
<1>2. /\ Len(rx.have) \in Nat /\ rx.part \in 1 .. Len(rx.have)
      /\ rx.have[rx.part] = [msg |-> rxsock.msg, part |-> rx.part]
      /\ rx.have[1].msg = rxsock.msg
      /\ Needed <= Len(rx.have)
  <2>1. RxTypes
    BY TypeGroups
  <2>2. Len(rx.have) \in Nat /\ rx.part \in Nat \ {0}
    BY <2>1 DEF RxTypes
  <2>3. rx.part <= Len(rx.have) /\ Needed <= Len(rx.have)
    BY <1>1 DEF RxInv
  <2>4. \A k \in 1 .. Len(rx.have) :
            rx.have[k] = [msg |-> rxsock.msg, part |-> k]
    BY <1>1 DEF OwnInv
  <2>5. rx.part \in 1 .. Len(rx.have) /\ 1 \in 1 .. Len(rx.have)
    BY <2>2, <2>3
  <2>6. rx.have[rx.part] = [msg |-> rxsock.msg, part |-> rx.part]
    BY <2>4, <2>5
  <2>7. rx.have[1] = [msg |-> rxsock.msg, part |-> 1]
    BY <2>4, <2>5
  <2>8. QED
    BY <2>2, <2>3, <2>5, <2>6, <2>7
<1> DEFINE b == ~Last
           e == [msg |-> rxsock.msg, part |-> rx.part, more |-> b]
           n == Len(out[Dest]) + 1
<1>3. b \in BOOLEAN /\ (b <=> rx.part < Len(rx.have))
  BY <1>2 DEF Last
<1>4. Put(Dest, rxsock.msg, rx.part, b)
  BY <1>1, <1>2
<1> HIDE DEF b
<1>5. /\ out'[Dest] = Append(out[Dest], e)
      /\ \A c \in Ranks : c # Dest => out'[c] = out[c]
      /\ out[Dest] \in Seq([msg : MsgIds \cup {0}, part : Nat \ {0}, more : BOOLEAN])
      /\ dropping' = dropping
  <2>1. out' = [out EXCEPT ![Dest] = Append(@, e)] /\ dropping' = dropping
    BY <1>4 DEF Put
  <2>2. Ranks \subseteq Sockets
    BY DEF Sockets
  <2> HIDE DEF e
  <2>3. QED
    BY <2>1, <2>2 DEF TypeOK
<1>6. /\ Len(out'[Dest]) = n
      /\ \A i \in 1 .. Len(out[Dest]) : out'[Dest][i] = out[Dest][i]
      /\ out'[Dest][n] = e
      /\ n \in Nat \ {0}
      /\ Len(out[Dest]) \in Nat
      /\ out'[Dest] # <<>>
  BY <1>5
<1>7. /\ e.msg = rxsock.msg /\ e.part = rx.part
      /\ e.more = b
  OBVIOUS
<1>8. Amid(Dest) <=> rx.part > 1
  BY <1>1, TargetIsDest DEF Amid, Target
<1>9. IF rx.part > 1
      THEN /\ out[Dest] # <<>>
           /\ out[Dest][Len(out[Dest])] =
                  [msg |-> rxsock.msg, part |-> rx.part - 1, more |-> TRUE]
      ELSE out[Dest] # <<>> => ~out[Dest][Len(out[Dest])].more
  BY <1>1, <1>8 DEF OpenInv, OpenAt
<1>10. OpenInv'
  <2>1. ASSUME NEW c \in Ranks
        PROVE  OpenAt(c)'
    <3>1. /\ Amid(c)' <=> c = Dest /\ rx.part < Len(rx.have)
          /\ Amid(c)' => rx'.part = rx.part + 1
      BY <1>1, AfterPart
    <3>2. CASE c = Dest /\ rx.part < Len(rx.have)
      <4>1. rx'.part - 1 = rx.part /\ e.more = TRUE
        BY <1>2, <1>7, <1>3, <3>1, <3>2
      <4>2. QED
        BY <1>1, <1>5, <1>6, <3>1, <3>2, <4>1 DEF OpenAt
    <3>3. CASE c = Dest /\ ~(rx.part < Len(rx.have))
      BY <1>5, <1>6, <1>7, <1>3, <3>1, <3>3 DEF OpenAt
    <3>4. CASE c # Dest
      <4>1. ~Amid(c)
        BY <1>1, <3>4, TargetIsDest DEF Amid, Target
      <4>2. QED
        BY <1>1, <1>5, <3>1, <3>4, <4>1 DEF OpenInv, OpenAt
    <3>5. QED
      BY <3>2, <3>3, <3>4
  <2>2. QED
    BY <2>1 DEF OpenInv, Ranks
<1>11. rx.part >= NeededBy(rxsock.msg) \/ rx.part < Len(rx.have)
  <2>1. Needed = NeededBy(rxsock.msg)
    BY <1>2 DEF Needed, NeededBy, Kind, Detail
  <2>2. Needed \in Nat
    <3>1. rx.have # <<>>
      BY <1>2
    <3>2. QED
      BY <3>1, InHand, TypeGroups
  <2>3. QED
    BY <1>2, <2>1, <2>2
<1> HIDE DEF e, n
<1>12. WholeMessages'
  <2> DEFINE Whole(s, i) ==
          /\ IF i = 1 \/ ~s[i - 1].more THEN s[i].part = 1
             ELSE s[i].msg = s[i - 1].msg /\ s[i].part = s[i - 1].part + 1
          /\ ~s[i].more => s[i].msg = 0 \/ s[i].part >= NeededBy(s[i].msg)
  <2>1. \A c \in Ranks : \A i \in 1 .. Len(out[c]) : Whole(out[c], i)
    BY DEF WholeMessages, Opens
  <2>2. ASSUME NEW c \in Ranks, NEW i \in 1 .. Len(out'[c])
        PROVE  Whole(out'[c], i)
    <3>1. CASE c # Dest
      <4>1. out'[c] = out[c]
        BY <1>5, <3>1
      <4>2. Whole(out[c], i)
        BY <2>1, <2>2, <4>1
      <4>3. QED
        BY <4>1, <4>2
    <3>2. CASE c = Dest /\ i \in 1 .. Len(out[Dest])
      <4>1. Whole(out[Dest], i)
        BY <2>1, <3>2
      <4>2. out'[Dest][i] = out[Dest][i]
        BY <1>6, <3>2
      <4>3. i # 1 => out'[Dest][i - 1] = out[Dest][i - 1]
        BY <1>6, <3>2
      <4>4. QED
        BY <3>2, <4>1, <4>2, <4>3
    <3>3. CASE c = Dest /\ i = n
      <4>1. ~e.more => e.part >= NeededBy(e.msg)
        BY <1>7, <1>11, <1>3
      <4>2. CASE rx.part > 1
        <5>1. /\ n # 1 /\ n - 1 = Len(out[Dest])
              /\ n - 1 \in 1 .. Len(out[Dest])
          BY <1>5, <1>6, <1>9, <4>2 DEF n
        <5>2. out'[Dest][n - 1] =
                  [msg |-> rxsock.msg, part |-> rx.part - 1, more |-> TRUE]
          BY <1>6, <1>9, <4>2, <5>1
        <5>3. QED
          BY <1>2, <1>6, <1>7, <3>3, <4>1, <5>1, <5>2
      <4>3. CASE ~(rx.part > 1)
        <5>1. e.part = 1
          BY <1>2, <1>7, <4>3
        <5>2. n = 1 \/ ~out'[Dest][n - 1].more
          BY <1>5, <1>6, <1>9, <4>3 DEF n
        <5>3. QED
          BY <1>6, <3>3, <4>1, <5>1, <5>2
      <4>4. QED
        BY <4>2, <4>3
    <3>4. n = Len(out[Dest]) + 1
      BY DEF n
    <3>5. QED
      BY <1>6, <2>2, <3>1, <3>2, <3>3, <3>4
  <2>3. \A c \in Ranks : \A i \in 1 .. Len(out'[c]) : Whole(out'[c], i)
    BY <2>2
  <2>4. QED
    BY <2>3 DEF WholeMessages, Opens, Ranks
<1>13. QED
  BY <1>10, <1>12

\* A part that is dropped leaves what is on its socket complete, and the last one
\* of the message ends the dropping.
LEMMA PartDropped ==
    ASSUME TypeOK, RxInv, OpenInv, RxPut, Dest \in Ranks, dropping[Dest]
    PROVE  OpenInv' /\ out' = out
<1>1. /\ rx.pc = "put" /\ rx.pc \in Sending /\ rx' = Advance /\ SocketsOpen
      /\ currentConsumerIndexToSendTo' = currentConsumerIndexToSendTo
  BY DEF RxPut, At, Sending
<1>2. /\ out' = out
      /\ dropping' = [dropping EXCEPT ![Dest] = ~Last]
  BY DEF RxPut, Put
<1>3. Len(rx.have) \in Nat /\ rx.part \in Nat /\ rx.part <= Len(rx.have)
  BY <1>1, TypeGroups DEF RxTypes, RxInv
<1>4. ASSUME NEW c \in Ranks
      PROVE  OpenAt(c)'
  <2>1. Amid(c)' <=> c = Dest /\ rx.part < Len(rx.have)
    BY <1>1, AfterPart
  <2>2. dropping'[c] = IF c = Dest THEN ~Last ELSE dropping[c]
    BY <1>2 DEF TypeOK, Sockets
  <2>3. c # Dest => ~Amid(c)
    BY <1>1, TargetIsDest DEF Amid, Target
  <2>4. Last <=> ~(rx.part < Len(rx.have))
    BY <1>3 DEF Last
  <2>5. OpenAt(c)
    BY <1>1 DEF OpenInv
  <2>6. CASE c = Dest
    BY <1>2, <2>1, <2>2, <2>4, <2>5, <2>6 DEF OpenAt
  <2>7. CASE c # Dest
    BY <1>2, <2>1, <2>2, <2>3, <2>5, <2>7 DEF OpenAt
  <2>8. QED
    BY <2>6, <2>7
<1>5. QED
  BY <1>2, <1>4 DEF OpenInv, Ranks

\* What else the rx thread does leaves the messages on the sockets as they are.
LEMMA OpenByRx ==
    ASSUME TypeOK, RxInv, CalmInv, OwnInv, OpenInv, WholeMessages, ~disturbed, Rx
    PROVE  OpenInv' /\ WholeMessages'
<1>1. phase' = phase
  BY RxLeaves DEF mainvars
<1>2. CASE ~SocketsOpen
  <2>1. out' = out
    BY <1>2 DEF Rx, RxStart, RxLoop, RxRecv, RxOffset, RxReset, RxIndex,
                RxGetMore,
           RxTestMore, RxRecvNext, RxDecide, RxPut, RxPutFails, RxHandled,
           RxEnded,
           RxCount, RxDrainMore, RxTestRest, RxDrop
  <2>2. QED
    BY <1>1, <1>2, <2>1, WholeKept DEF OpenInv, SocketsOpen
<1>3. CASE RxPut /\ Dest \in Ranks
  BY <1>3, PartSent, PartDropped, WholeKept
<1>4. CASE RxPut /\ Dest \notin Ranks /\ SocketsOpen
  <2>1. /\ rx.pc = "put" /\ rx' = Advance /\ rxsock' = rxsock
        /\ currentConsumerIndexToSendTo' = currentConsumerIndexToSendTo
    BY <1>4 DEF RxPut, At, stream
  <2>2. \A c \in Ranks : out'[c] = out[c] /\ dropping'[c] = dropping[c]
    BY <1>4 DEF RxPut, Put, TypeOK, Sockets
  <2>3. \A c \in Ranks : (Amid(c)' <=> Amid(c)) /\ (Amid(c) => rx'.part = rx.part)
    BY <1>4, <2>1, AfterForward
  <2>4. OpenInv'
    BY <1>4, <2>1, <2>2, <2>3, OpenKept DEF OpenInv, Ranks
  <2>5. WholeMessages'
    BY <2>2 DEF WholeMessages, Opens, Ranks
  <2>6. QED
    BY <2>4, <2>5
<1>5. CASE RxDecide /\ SocketsOpen
  <2>1. /\ rx.pc = "decide" /\ rxsock' = rxsock
        /\ out' = out /\ dropping' = dropping
        /\ currentConsumerIndexToSendTo' = currentConsumerIndexToSendTo
    BY <1>5 DEF RxDecide, At, RxKeeps, clients
  <2>2. \A c \in Ranks : (Amid(c)' <=> Amid(c)) /\ (Amid(c) => rx'.part = rx.part)
    <3>1. CASE Dest \notin Sockets
      <4>1. Goto("drainmore")
        BY <1>5, <3>1 DEF RxDecide, Goto
      <4>2. rx'.pc = "drainmore"
        BY <4>1 DEF Goto, TypeOK
      <4>3. ToOne /\ Target \notin Ranks
        BY <2>1, <3>1, TargetIsDest DEF Sending
      <4>4. QED
        BY <4>2, <4>3 DEF Amid, Target, Sending
    <3>2. CASE Dest \in Sockets /\ Wants(Dest)
      <4>1. Goto("put")
        BY <1>5, <3>2 DEF RxDecide, Goto
      <4>2. "put" \in RxPcs
        BY DEF RxPcs
      <4>3. /\ rx'.pc = "put" /\ rx'.dest = rx.dest /\ rx'.part = rx.part
            /\ ToOne' = ToOne
        BY <4>1, <4>2, GotoStep, TypeGroups
      <4>4. QED
        BY <2>1, <4>3 DEF Amid, Sending
    <3>3. CASE Dest \in Sockets /\ ~Wants(Dest)
      <4>1. rx' = Skip
        BY <1>5, <3>3 DEF RxDecide
      <4>2. CASE ToOne
        <5>1. Dest \notin Ranks
          <6>1. phase \in {"wait", "run"}
            BY <1>5, <2>1 DEF TypeOK, RxInv, SocketsOpen
          <6>2. \A c \in Ranks : Wants(c)
            BY <6>1, FanAssumption DEF CalmInv, Wants, Ranks, Fwd
          <6>3. QED
            BY <3>3, <6>2
        <5>2. QED
          BY <2>1, <4>1, <4>2, <5>1, AfterForward DEF Skip
      <4>3. CASE ~ToOne
        <5>1. PICK q \in {rx.pc, "handled"}, d \in 1 .. NumConsumers + 1 :
                  Skip = [rx EXCEPT !.pc = q, !.dest = d, !.part = rx.part]
          BY <4>3, SkipToAll, TypeGroups
        <5>2. rx.part = 1 /\ rx'.part = 1
          BY <2>1, <4>1, <4>3, <5>1 DEF RxInv, TypeOK
        <5>3. QED
          BY <5>2 DEF Amid
      <4>4. QED
        BY <4>2, <4>3
    <3>4. QED
      BY <3>1, <3>2, <3>3
  <2>3. OpenInv'
    BY <1>5, <2>1, <2>2, OpenKept DEF OpenInv, Ranks
  <2>4. QED
    BY <2>1, <2>3, WholeKept
<1>6. CASE ~RxPut /\ ~RxDecide /\ SocketsOpen
  <2>1. out' = out /\ dropping' = dropping
    BY <1>6 DEF Rx, RxStart, RxLoop, RxRecv, RxOffset, RxReset, RxIndex,
                RxGetMore,
           RxTestMore, RxRecvNext, RxPutFails, RxHandled, RxEnded, RxCount,
           RxDrainMore, RxTestRest, RxDrop, RxKeeps, clients
  <2>2. \A c \in Ranks : ~Amid(c)
    <3>1. rx.pc \notin Sending
      BY <1>6 DEF Rx, RxStart, RxLoop, RxRecv, RxOffset, RxReset, RxIndex,
             RxGetMore, RxTestMore, RxRecvNext, RxPutFails, RxHandled, RxEnded,
             RxCount, RxDrainMore, RxTestRest, RxDrop, At, Sending
    <3>2. QED
      BY <3>1 DEF Amid
  <2>3. \A c \in Ranks : ~Amid(c)'
    <3>1. CASE RxRecv
      <4>1. rx'.part = 1
        BY <3>1 DEF RxRecv
      <4>2. QED
        BY <4>1 DEF Amid
    <3>2. CASE RxTestMore \/ RxRecvNext
      <4>1. rx.pc \in Collecting
        BY <3>2 DEF RxTestMore, RxRecvNext, At, Collecting
      <4>2. rx'.part = rx.part
        BY <3>2 DEF RxTestMore, RxRecvNext, Goto, TypeOK
      <4>3. QED
        BY <4>1, <4>2 DEF RxInv, Amid
    <3>3. CASE RxTestRest
      <4>1. rx'.pc \in {"drop", "loop"}
        BY <3>3 DEF RxTestRest, RxIdle, TypeOK
      <4>2. QED
        BY <4>1 DEF Amid, Sending
    <3>4. CASE RxStart \/ RxLoop \/ RxOffset \/ RxReset \/ RxIndex \/ RxGetMore
                \/ RxPutFails \/ RxHandled \/ RxEnded \/ RxCount \/ RxDrainMore
                \/ RxDrop
      <4>1. \E q \in RxPcs \ Sending : Goto(q)
        <5>1. \E q \in {"loop", "done", "poll", "reset", "handled", "getmore",
                        "testmore", "drainmore", "count", "ended", "drain"} : Goto(q)
          BY <3>4 DEF RxStart, RxLoop, RxOffset, RxReset, RxIndex, RxGetMore,
                 RxPutFails, RxHandled, RxEnded, RxCount, RxDrainMore, RxDrop,
                 RxInv, At
        <5>2. QED
          BY <5>1 DEF RxPcs, Sending
      <4>2. rx'.pc \notin Sending
        BY <4>1 DEF Goto, TypeOK
      <4>3. QED
        BY <4>2 DEF Amid
    <3>5. QED
      BY <1>6, <3>1, <3>2, <3>3, <3>4 DEF Rx
  <2>4. OpenInv'
    BY <1>6, <2>1, <2>2, <2>3 DEF OpenInv, OpenAt, Ranks
  <2>5. QED
    BY <2>1, <2>4, WholeKept
<1>7. QED
  BY <1>2, <1>3, <1>4, <1>5, <1>6

\* Nor does a client that leaves: what it was being sent is taken off, and what
\* is left is complete.
LEMMA OpenDetached ==
    ASSUME TypeOK, OpenInv, WholeMessages, ~disturbed, NEW s \in Sockets, Detach(s)
    PROVE  OpenInv' /\ WholeMessages'
<1>1. /\ UNCHANGED <<rx, rxsock, phase, currentConsumerIndexToSendTo>>
      /\ SocketsOpen
  BY DEF Detach, rxvars, stream, mainvars
<1>2. \A c : Amid(c)' <=> Amid(c)
  BY <1>1 DEF Amid, ToOne, Kind
<1>3. ASSUME NEW t \in Sockets
      PROVE  /\ Len(out[t]) \in Nat /\ Len(out'[t]) \in Nat
             /\ \A i \in 1 .. Len(out'[t]) :
                    i \in 1 .. Len(out[t]) /\ out'[t][i] = out[t][i]
  <2>1. /\ OutTypes' /\ Len(out'[t]) <= Len(out[t])
        /\ \A i \in 1 .. Len(out'[t]) : out'[t][i] = out[t][i]
    BY DetachKeeps, TypeGroups DEF ClientTypes
  <2>2. Len(out[t]) \in Nat /\ Len(out'[t]) \in Nat
    BY <2>1, TypeGroups DEF OutTypes, Sockets, Ranks, Fwd
  <2>3. QED
    BY <2>1, <2>2
<1>4. WholeMessages'
  <2> DEFINE Whole(u, i) ==
          /\ IF i = 1 \/ ~u[i - 1].more THEN u[i].part = 1
             ELSE u[i].msg = u[i - 1].msg /\ u[i].part = u[i - 1].part + 1
          /\ ~u[i].more => u[i].msg = 0 \/ u[i].part >= NeededBy(u[i].msg)
  <2>1. ASSUME NEW c \in Ranks, NEW i \in 1 .. Len(out'[c])
        PROVE  Whole(out'[c], i)
    <3>1. c \in Sockets
      BY DEF Sockets
    <3>2. /\ i \in 1 .. Len(out[c]) /\ out'[c][i] = out[c][i]
          /\ i # 1 => out'[c][i - 1] = out[c][i - 1]
      BY <1>3, <2>1, <3>1
    <3>3. Whole(out[c], i)
      BY <3>2 DEF WholeMessages, Opens
    <3>4. QED
      BY <3>2, <3>3
  <2>2. QED
    BY <2>1 DEF WholeMessages, Opens, Ranks
<1>5. ASSUME NEW c \in Ranks
      PROVE  OpenAt(c)'
  <2>1. c \in Sockets /\ OpenAt(c)
    BY <1>1 DEF Sockets, OpenInv
  <2>2. CASE out'[c] = out[c] /\ dropping'[c] = dropping[c]
    BY <1>1, <1>2, <2>1, <2>2 DEF OpenAt
  <2>3. CASE ~(out'[c] = out[c] /\ dropping'[c] = dropping[c])
    <3>1. s = c /\ Lose(s)
      BY <2>1, <2>3 DEF Detach, Lose, TypeOK
    <3>2. Amid(c) /\ ~dropping[c]
      BY <2>1, <3>1 DEF Lose, Underway, OpenAt
    <3>3. dropping'[c]
      BY <2>1, <3>1 DEF Lose, TypeOK
    <3>4. PICK n \in 0 .. Len(out[c]) :
              /\ n > 0 => ~out[c][n].more
              /\ out' = [out EXCEPT ![c] = SubSeq(@, 1, n)]
      BY <3>1 DEF Lose
    <3>5. out'[c] = SubSeq(out[c], 1, n)
      BY <2>1, <3>4 DEF TypeOK
    <3>6. Len(out'[c]) = n
      <4>1. out[c] \in Seq([msg : MsgIds \cup {0}, part : Nat \ {0},
                            more : BOOLEAN])
        BY <2>1 DEF TypeOK
      <4>2. QED
        BY <3>5, <4>1
    <3>7. out'[c] # <<>> => n > 0
      <4>1. out'[c] \in Seq([msg : MsgIds \cup {0}, part : Nat \ {0},
                             more : BOOLEAN])
        <5>1. OutTypes'
          BY DetachKeeps, TypeGroups DEF ClientTypes
        <5>2. QED
          BY <2>1, <5>1 DEF OutTypes, Sockets, Ranks, Fwd
      <4>2. QED
        BY <3>6, <4>1
    <3>8. out'[c] # <<>> => ~out'[c][Len(out'[c])].more
      BY <1>3, <2>1, <3>4, <3>6, <3>7
    <3>9. QED
      BY <1>2, <3>2, <3>3, <3>8 DEF OpenAt
  <2>4. QED
    BY <2>2, <2>3
<1>6. QED
  BY <1>4, <1>5 DEF OpenInv, Ranks

LEMMA OpenStep ==
    ASSUME IInv, CalmInv, OwnInv, OpenInv, WholeMessages, [Next]_vars, ~disturbed'
    PROVE  OpenInv' /\ WholeMessages'
<1>1. ~disturbed /\ ~FabricatePut
  BY DisturbedBefore
<1>2. CASE Rx
  BY <1>1, <1>2, OpenByRx DEF IInv
<1>5. ASSUME NEW s \in Sockets, Detach(s)
      PROVE  OpenInv' /\ WholeMessages'
  BY <1>1, <1>5, OpenDetached DEF IInv
<1>3. CASE ~Rx /\ ~\E s \in Sockets : Detach(s)
  <2>1. out' = out /\ dropping' = dropping
    BY <1>1, <1>3, OutMoves
  <2>2. /\ rxsock' = rxsock
        /\ currentConsumerIndexToSendTo' = currentConsumerIndexToSendTo
    BY <1>3, MainLeaves, OutsideLeaves DEF Next, vars, stream, rxvars
  <2>3. SocketsOpen' => SocketsOpen
    BY PhaseSteps DEF MainSpawnRx, MainWake, MainClose, CtlAbort, MainInv, IInv,
       SocketsOpen
  <2>4. \A c \in Ranks : (Amid(c)' <=> Amid(c)) /\ (Amid(c) => rx'.part = rx.part)
    <3>1. CASE rx' = rx
      BY <2>2, <3>1 DEF Amid, ToOne, Kind
    <3>2. CASE MainSpawnRx
      <4>1. rx.pc = "none" /\ rx'.pc = "start"
        BY <3>2 DEF MainSpawnRx, IInv, RxInv, TypeOK
      <4>2. QED
        BY <4>1 DEF Amid, Sending
    <3>3. QED
      BY <1>3, <3>1, <3>2, RxMoves
  <2>5. OpenInv'
    BY <2>1, <2>2, <2>3, <2>4, OpenKept DEF OpenInv, Ranks
  <2>6. QED
    BY <1>1, <2>1, <2>5, WholeKept
<1>4. QED
  BY <1>2, <1>3, <1>5

LEMMA WholeStep ==
    ASSUME IInv, WholeInv, [Next]_vars
    PROVE  WholeInv'
<1>1. CASE disturbed'
  BY <1>1 DEF WholeInv, WholeMessages
<1>2. CASE ~disturbed'
  <2>1. CalmInv /\ OwnInv /\ OpenInv /\ WholeMessages
    BY <1>2, DisturbedBefore DEF WholeInv
  <2>2. CalmInv' /\ OwnInv' /\ OpenInv' /\ WholeMessages'
    BY <1>2, <2>1, CalmStep, OwnStep, OpenStep
  <2>3. QED
    BY <2>2 DEF WholeInv
<1>3. QED
  BY <1>1, <1>2

\* Until the main thread takes in that a client has come or gone, receives a part
\* of a request with another one behind it, or fabricates an end message, every
\* zeromq message on a consumer's socket is one detector message, from its
\* first part on and with all that its kind demands, for every number of
\* consumers and of workers (HandleGlobalHeaderMessage, HandleImageDataMessage,
\* HandleEndOfSeriesMessage and the send loops, EigerFan.cpp:532-759, 1221-1362).
THEOREM WholeMessagesAlways == Spec => []WholeMessages
<1>1. Init => WholeInv
  <2> SUFFICES ASSUME Init PROVE WholeInv
    OBVIOUS
  <2>1. /\ rx = RxIdle /\ phase = "connect" /\ main = MainIdle /\ more = FALSE
        /\ out = [s \in Sockets |-> <<>>]
    BY DEF Init
  <2>2. \A c \in Ranks : out[c] = <<>>
    BY <2>1 DEF Sockets
  <2>3. CalmInv
    BY <2>1, <2>2 DEF CalmInv
  <2>4. OwnInv /\ \A c \in Ranks : ~Amid(c)
    BY <2>1 DEF OwnInv, Amid, RxIdle, Collecting, Sending
  <2>5. OpenInv /\ WholeMessages
    BY <2>2, <2>4 DEF Init, OpenInv, OpenAt, WholeMessages, Sockets
  <2>6. QED
    BY <2>3, <2>4, <2>5 DEF WholeInv
<1>2. WholeInv /\ IInv /\ [Next]_vars => WholeInv'
  BY WholeStep
<1>3. WholeInv => WholeMessages
  BY DEF WholeInv
<1>4. Spec => []IInv
  BY Initially, Invariance, PTL DEF Spec
<1>5. QED
  BY <1>1, <1>2, <1>3, <1>4, PTL DEF Spec

-----------------------------------------------------------------------------
(***************************************************************************)
(* The clients that the main thread knows of                               *)
(***************************************************************************)

\* The main thread has the first part of an event of this socket in hand, ...
InEvent(s) == Serving(s, "event") \/ Serving(s, "endpoint")

\* ... which changes the number of clients by one ...
Change(e) == IF e = "accepted" THEN 1 ELSE -1

\* ... and has to be added to the counter.
Due(s) == connected[s] + (IF InEvent(s) THEN Change(main.event) ELSE 0)

\* The events lead from one number of clients to another, and there were never
\* fewer than none in between.
Reaches(from, evs, to) ==
    \E level \in [0 .. Len(evs) -> Nat] :
        /\ level[0] = from
        /\ level[Len(evs)] = to
        /\ \A i \in 1 .. Len(evs) : level[i] = level[i - 1] + Change(evs[i])

\* The events that have not been received lead from the number of clients that
\* is known, or is about to be, to the number attached.  That the levels in
\* between are natural numbers is why the floor at zero hides nobody.
LevelInv(s) ==
    /\ endpoint[s] <=> InEvent(s)
    /\ InEvent(s) => main.event \in EventSet
    /\ connected[s] \in Nat
    /\ Reaches(Due(s), events[s], peers[s])

\* Only the main thread writes more while it waits for the consumers.
OwnMore ==
    /\ main.pc = "event" => more
    /\ main.pc = "montest" => ~more
    /\ main.pc # "monrecv"

PeersInv == phase = "connect" => OwnMore /\ \A s \in Sockets : LevelInv(s)

LEMMA ReachNone ==
    ASSUME NEW from, NEW to, Reaches(from, <<>>, to)
    PROVE  from = to
  BY DEF Reaches

LEMMA ReachMore ==
    ASSUME NEW evs \in Seq(EventSet), NEW from, NEW to \in Nat, NEW e \in EventSet,
           to + Change(e) \in Nat, Reaches(from, evs, to)
    PROVE  Reaches(from, Append(evs, e), to + Change(e))
<1> DEFINE n == Len(evs)
           more2 == Append(evs, e)
<1>1. PICK level \in [0 .. n -> Nat] :
          /\ level[0] = from
          /\ level[n] = to
          /\ \A i \in 1 .. n : level[i] = level[i - 1] + Change(evs[i])
  BY DEF Reaches
<1> DEFINE next == [i \in 0 .. n + 1 |-> IF i = n + 1 THEN to + Change(e) ELSE level[i]]
<1>2. n \in Nat /\ Len(more2) = n + 1
  OBVIOUS
<1>3. next \in [0 .. n + 1 -> Nat]
  BY <1>1, <1>2
<1>4. next[0] = from /\ next[n + 1] = to + Change(e) /\ next[n] = to
  BY <1>1, <1>2
<1>5. ASSUME NEW i \in 1 .. n + 1
      PROVE  next[i] = next[i - 1] + Change(more2[i])
  <2>1. CASE i = n + 1
    <3>1. i - 1 = n /\ more2[i] = e
      BY <1>2, <2>1
    <3>2. QED
      BY <1>4, <2>1, <3>1
  <2>2. CASE i # n + 1
    <3>1. i \in 1 .. n /\ i - 1 \in 0 .. n /\ i - 1 # n + 1 /\ i \in 0 .. n
      BY <1>2, <2>2
    <3>2. more2[i] = evs[i] /\ next[i] = level[i] /\ next[i - 1] = level[i - 1]
      BY <1>2, <2>2, <3>1
    <3>3. QED
      BY <1>1, <3>1, <3>2
  <2>3. QED
    BY <2>1, <2>2
<1> HIDE DEF next, more2
<1>6. QED
  BY <1>2, <1>3, <1>4, <1>5 DEF Reaches, more2

LEMMA ReachRest ==
    ASSUME NEW evs \in Seq(EventSet), evs # <<>>, NEW from, NEW to,
           Reaches(from, evs, to)
    PROVE  /\ from \in Nat /\ from + Change(Head(evs)) \in Nat
           /\ Reaches(from + Change(Head(evs)), Tail(evs), to)
<1> DEFINE n == Len(evs)
           rest == Tail(evs)
<1>1. PICK level \in [0 .. n -> Nat] :
          /\ level[0] = from
          /\ level[n] = to
          /\ \A i \in 1 .. n : level[i] = level[i - 1] + Change(evs[i])
  BY DEF Reaches
<1>2. n \in Nat \ {0} /\ Len(rest) = n - 1 /\ Head(evs) = evs[1]
  OBVIOUS
<1>3. from \in Nat /\ level[1] = from + Change(Head(evs)) /\ level[1] \in Nat
  BY <1>1, <1>2
<1> DEFINE next == [i \in 0 .. n - 1 |-> level[i + 1]]
<1>4. next \in [0 .. n - 1 -> Nat] /\ next[0] = level[1] /\ next[n - 1] = to
  BY <1>1, <1>2
<1>5. ASSUME NEW i \in 1 .. n - 1
      PROVE  next[i] = next[i - 1] + Change(rest[i])
  <2>1. /\ i \in 0 .. n - 1 /\ i - 1 \in 0 .. n - 1 /\ i + 1 \in 1 .. n
        /\ (i - 1) + 1 = i /\ (i + 1) - 1 = i
    BY <1>2
  <2>2. rest[i] = evs[i + 1] /\ next[i] = level[i + 1] /\ next[i - 1] = level[i]
    BY <1>2, <2>1
  <2>3. QED
    BY <1>1, <2>1, <2>2
<1> HIDE DEF next, rest
<1>6. QED
  BY <1>2, <1>3, <1>4, <1>5 DEF Reaches, rest

\* A socket at a time.
LEMMA ServedAlone ==
    ASSUME MainTypes, NEW s \in Sockets, NEW t \in Sockets, NEW p, NEW q,
           Serving(s, p), Serving(t, q)
    PROVE  s = t /\ p = q
<1>1. s \in Int /\ t \in Int
  BY FanAssumption DEF Sockets, Ranks, Fwd
<1>2. s <= t /\ t <= s
  BY DEF Serving
<1>3. QED
  BY <1>1, <1>2 DEF Serving

\* Steps that have nothing to do with the clients.
LEMMA LevelsKept ==
    ASSUME PeersInv, phase' = "connect" => phase = "connect",
           UNCHANGED <<events, endpoint, connected, peers>>,
           \/ UNCHANGED <<main, more>>
           \/ /\ main.pc \notin {"event", "endpoint"}
              /\ main'.pc \notin {"event", "endpoint", "monrecv"}
              /\ main'.pc = "montest" => ~more'
    PROVE  PeersInv'
<1> SUFFICES ASSUME phase' = "connect"
             PROVE  OwnMore' /\ \A s \in Sockets : LevelInv(s)'
  BY DEF PeersInv
<1>1. OwnMore /\ \A s \in Sockets : LevelInv(s)
  BY DEF PeersInv
<1>2. OwnMore'
  BY <1>1 DEF OwnMore
<1>3. ASSUME NEW s \in Sockets
      PROVE  LevelInv(s)'
  <2>1. InEvent(s)' <=> InEvent(s)
    BY DEF InEvent, Serving
  <2>2. LevelInv(s)
    BY <1>1
  <2>3. InEvent(s) => main' = main
    BY DEF InEvent, Serving
  <2>4. Due(s)' = Due(s)
    BY <2>1, <2>3 DEF Due
  <2>5. QED
    BY <2>1, <2>2, <2>3, <2>4 DEF LevelInv
<1>4. QED
  BY <1>2, <1>3

\* The first part of an event is received.
LEMMA LevelReceived ==
    ASSUME IInv, PeersInv, phase = "connect", NEW s \in Sockets, MonRecv(s)
    PROVE  OwnMore' /\ \A t \in Sockets : LevelInv(t)'
<1>1. /\ MainTypes /\ InputTypes
      /\ OwnMore /\ \A t \in Sockets : LevelInv(t)
  BY TypeGroups DEF IInv, PeersInv
<1>2. main.pc = "dispatch" /\ Serving(s, "dispatch")
  BY DEF MonRecv, Serving
<1>3. \A t \in Sockets : ~InEvent(t) /\ endpoint[t] = FALSE
  BY <1>1, <1>2 DEF InEvent, Serving, LevelInv, InputTypes
<1>4. /\ events[s] # <<>> /\ events[s] \in Seq(EventSet)
      /\ Head(events[s]) \in EventSet
      /\ endpoint' = [endpoint EXCEPT ![s] = TRUE]
      /\ events' = [events EXCEPT ![s] = Tail(@)]
      /\ main'.pc = "event" /\ main'.event = Head(events[s])
      /\ main'.ready = main.ready
      /\ more' = TRUE
      /\ connected' = connected /\ peers' = peers
  <2>1. endpoint[s] = FALSE
    BY <1>3
  <2>2. events[s] # <<>> /\ events[s] \in Seq(EventSet)
    BY <1>1, <2>1 DEF MonRecv, MonRecvPart, MonReadable, InputTypes
  <2>3. Head(events[s]) \in EventSet
    BY <2>2
  <2>4. endpoint' = [endpoint EXCEPT ![s] = TRUE] /\ events' = [events EXCEPT ![s] = Tail(@)]
    BY <2>1 DEF MonRecv, MonRecvPart
  <2>5. main' = [main EXCEPT !.pc = "event", !.event = Head(events[s])]
    BY <2>1 DEF MonRecv
  <2>6. main'.pc = "event" /\ main'.event = Head(events[s]) /\ main'.ready = main.ready
    BY <1>1, <2>5 DEF MainTypes
  <2>7. more' = TRUE /\ connected' = connected /\ peers' = peers
    BY <2>1 DEF MonRecv, clients
  <2>8. QED
    BY <2>2, <2>3, <2>4, <2>6, <2>7
<1>5. OwnMore'
  BY <1>4 DEF OwnMore
<1>6. Serving(s, "event")'
  BY <1>2, <1>4 DEF Serving
<1>7. ASSUME NEW t \in Sockets
      PROVE  LevelInv(t)'
  <2>1. CASE t = s
    <3>1. InEvent(s)' /\ endpoint'[s] = TRUE
      BY <1>1, <1>4, <1>6 DEF InEvent, InputTypes
    <3>2. Due(s) = connected[s] /\ connected[s] \in Nat
      BY <1>1, <1>3 DEF Due, LevelInv
    <3>3. Due(s)' = connected[s] + Change(Head(events[s]))
      BY <1>4, <3>1 DEF Due
    <3>4. Reaches(Due(s), events[s], peers[s])
      BY <1>1 DEF LevelInv
    <3>5. Reaches(connected[s] + Change(Head(events[s])), Tail(events[s]), peers[s])
      BY <1>4, <3>2, <3>4, ReachRest
    <3>6. events'[s] = Tail(events[s]) /\ peers'[s] = peers[s]
          /\ connected'[s] = connected[s]
      BY <1>1, <1>4 DEF InputTypes
    <3>7. Reaches(Due(s), events[s], peers[s])'
      BY <3>3, <3>5, <3>6
    <3>8. QED
      BY <1>4, <2>1, <3>1, <3>2, <3>6, <3>7 DEF LevelInv
  <2>2. CASE t # s
    <3>1. ~InEvent(t)'
      <4>1. \A r \in main.ready : s <= r
        BY <1>2 DEF Serving
      <4>2. s \in main.ready /\ s \in Int /\ t \in Int
        BY <1>2, FanAssumption DEF Serving, Sockets, Ranks, Fwd
      <4>3. ~(t \in main.ready /\ \A r \in main.ready : t <= r)
        BY <2>2, <4>1, <4>2
      <4>4. QED
        BY <1>4, <4>3 DEF InEvent, Serving
    <3>2. endpoint'[t] = endpoint[t] /\ events'[t] = events[t] /\ peers'[t] = peers[t]
          /\ connected'[t] = connected[t]
      BY <1>1, <1>4, <2>2 DEF InputTypes
    <3>3. Due(t)' = Due(t)
      BY <1>3, <3>1, <3>2 DEF Due
    <3>4. LevelInv(t) /\ ~InEvent(t)
      BY <1>1, <1>3
    <3>5. QED
      BY <3>1, <3>2, <3>3, <3>4 DEF LevelInv
  <2>3. QED
    BY <2>1, <2>2
<1>8. QED
  BY <1>5, <1>7

\* The main thread goes on to the second part: more is its own.
LEMMA LevelTested ==
    ASSUME IInv, PeersInv, phase = "connect", NEW s \in Sockets, MonTestMore(s)
    PROVE  OwnMore' /\ \A t \in Sockets : LevelInv(t)'
<1>1. /\ MainTypes
      /\ OwnMore /\ \A t \in Sockets : LevelInv(t)
  BY TypeGroups DEF IInv, PeersInv
<1>2. /\ main.pc = "event"
      /\ main' = [main EXCEPT !.pc = "endpoint"]
      /\ UNCHANGED <<connected, peers, events, endpoint, more>>
  BY <1>1 DEF MonTestMore, Serving, OwnMore, clients, inputs
<1>3. /\ main'.pc = "endpoint" /\ main'.ready = main.ready
      /\ main'.event = main.event
  BY <1>1, <1>2 DEF MainTypes
<1>4. OwnMore'
  BY <1>3 DEF OwnMore
<1>5. ASSUME NEW t \in Sockets
      PROVE  LevelInv(t)'
  <2>1. InEvent(t)' <=> InEvent(t)
    BY <1>2, <1>3 DEF InEvent, Serving
  <2>2. Due(t)' = Due(t)
    BY <1>2, <1>3, <2>1 DEF Due
  <2>3. QED
    BY <1>1, <1>2, <1>3, <2>1, <2>2 DEF LevelInv
<1>6. QED
  BY <1>4, <1>5

\* The second part is received, and the event counted.
LEMMA LevelCounted ==
    ASSUME IInv, PeersInv, phase = "connect", NEW s \in Sockets, MonEndpoint(s)
    PROVE  OwnMore' /\ \A t \in Sockets : LevelInv(t)'
<1>1. /\ MainTypes /\ InputTypes /\ connected \in [Sockets -> Int]
      /\ OwnMore /\ \A t \in Sockets : LevelInv(t)
  BY TypeGroups DEF IInv, PeersInv, SharedTypes
<1>2. main.pc = "endpoint" /\ Serving(s, "endpoint") /\ InEvent(s)
  BY DEF MonEndpoint, Serving, InEvent
<1>3. endpoint[s] = TRUE /\ main.event \in EventSet
  BY <1>1, <1>2 DEF LevelInv, InputTypes
<1>4. /\ endpoint' = [endpoint EXCEPT ![s] = FALSE]
      /\ events' = events /\ peers' = peers
      /\ connected' = [connected EXCEPT ![s] = Counted(s, main.event)]
      /\ main'.pc = "monmore"
  BY <1>1, <1>3 DEF MonEndpoint, MonRecvPart, Count, clients, MainTypes
<1>5. OwnMore'
  BY <1>4 DEF OwnMore
<1>6. \A t \in Sockets : ~InEvent(t)'
  BY <1>4 DEF InEvent, Serving
<1>7. ASSUME NEW t \in Sockets
      PROVE  LevelInv(t)'
  <2>1. CASE t = s
    <3>1. /\ Due(s) = connected[s] + Change(main.event)
          /\ connected[s] \in Nat
          /\ Reaches(Due(s), events[s], peers[s])
      BY <1>1, <1>2 DEF Due, LevelInv
    <3>2. Due(s) \in Nat
      <4>1. Len(events[s]) \in Nat
        BY <1>1 DEF InputTypes
      <4>2. QED
        BY <3>1, <4>1 DEF Reaches
    <3>3. Counted(s, main.event) = connected[s] + Change(main.event)
      BY <1>3, <3>1, <3>2 DEF Counted, Uncounted, Change, EventSet
    <3>4. connected'[s] = Due(s) /\ endpoint'[s] = FALSE
      BY <1>1, <1>4, <3>1, <3>3 DEF InputTypes
    <3>5. Due(s)' = Due(s)
      BY <1>6, <3>2, <3>4 DEF Due
    <3>6. QED
      BY <1>4, <1>6, <2>1, <3>1, <3>2, <3>4, <3>5 DEF LevelInv
  <2>2. CASE t # s
    <3>1. ~InEvent(t)
      BY <1>1, <1>2, <2>2, ServedAlone DEF InEvent
    <3>2. endpoint'[t] = endpoint[t] /\ connected'[t] = connected[t]
      BY <1>1, <1>4, <2>2 DEF InputTypes
    <3>3. Due(t)' = Due(t)
      BY <1>6, <3>1, <3>2 DEF Due
    <3>4. QED
      BY <1>1, <1>4, <1>6, <3>1, <3>2, <3>3 DEF LevelInv
  <2>3. QED
    BY <2>1, <2>2
<1>8. QED
  BY <1>5, <1>7

\* A client comes or goes.
LEMMA LevelMoved ==
    ASSUME IInv, PeersInv, phase = "connect", NEW s \in Sockets,
           Attach(s) \/ Detach(s)
    PROVE  OwnMore' /\ \A t \in Sockets : LevelInv(t)'
<1>1. /\ InputTypes /\ peers \in [Sockets -> Nat]
      /\ OwnMore /\ \A t \in Sockets : LevelInv(t)
  BY TypeGroups, FanAssumption DEF IInv, PeersInv, ClientTypes
<1>2. UNCHANGED <<main, more, connected, endpoint>>
  BY DEF Attach, Detach, mainvars
<1>3. OwnMore'
  BY <1>1, <1>2 DEF OwnMore
<1>4. PICK e \in EventSet :
          /\ events' = [events EXCEPT ![s] = Append(@, e)]
          /\ peers' = [peers EXCEPT ![s] = @ + Change(e)]
          /\ peers[s] + Change(e) \in Nat
  <2>1. CASE Attach(s)
    BY <1>1, <2>1 DEF Attach, Change, EventSet
  <2>2. CASE Detach(s)
    <3>1. /\ events' = [events EXCEPT ![s] = Append(@, "disconnected")]
          /\ peers' = [peers EXCEPT ![s] = peers[s] + (-1)]
          /\ peers[s] + (-1) \in Nat
      <4>1. /\ events' = [events EXCEPT ![s] = Append(@, "disconnected")]
            /\ peers' = [peers EXCEPT ![s] = peers[s] - 1]
            /\ peers[s] > 0
        BY <2>2 DEF Detach
      <4>2. peers[s] \in Nat
        BY <1>1
      <4>3. peers[s] - 1 = peers[s] + (-1) /\ peers[s] + (-1) \in Nat
        BY <4>1, <4>2
      <4>4. QED
        BY <4>1, <4>3
    <3>2. Change("disconnected") = -1 /\ "disconnected" \in EventSet
      BY DEF Change, EventSet
    <3>3. QED
      BY <3>1, <3>2
  <2>3. QED
    BY <2>1, <2>2
<1>5. ASSUME NEW t \in Sockets
      PROVE  LevelInv(t)'
  <2>1. InEvent(t)' <=> InEvent(t)
    BY <1>2 DEF InEvent, Serving
  <2>2. Due(t)' = Due(t)
    BY <1>2, <2>1 DEF Due
  <2>3. Reaches(Due(t), events[t], peers[t])
    BY <1>1 DEF LevelInv
  <2>4. Reaches(Due(t), events'[t], peers'[t])
    <3>1. CASE t = s
      <4>1. /\ events'[t] = Append(events[t], e)
            /\ peers'[t] = peers[t] + Change(e)
            /\ events[t] \in Seq(EventSet) /\ peers[t] \in Nat
            /\ peers[t] + Change(e) \in Nat
        BY <1>1, <1>4, <3>1 DEF InputTypes
      <4>2. QED
        BY <2>3, <4>1, ReachMore
    <3>2. CASE t # s
      <4>1. events'[t] = events[t] /\ peers'[t] = peers[t]
        BY <1>1, <1>4, <3>2 DEF InputTypes
      <4>2. QED
        BY <2>3, <4>1
    <3>3. QED
      BY <3>1, <3>2
  <2>5. QED
    BY <1>1, <1>2, <2>1, <2>2, <2>4 DEF LevelInv
<1>6. QED
  BY <1>3, <1>5

LEMMA PeersStep ==
    ASSUME IInv, PeersInv, [Next]_vars
    PROVE  PeersInv'
<1>1. CASE phase' # "connect"
  BY <1>1 DEF PeersInv
<1>2. CASE phase' = "connect"
  <2>1. phase = "connect"
    BY <1>2, PhaseSteps DEF MainSpawnRx, MainWake, MainClose, CtlAbort
  <2>2. OwnMore /\ \A s \in Sockets : LevelInv(s)
    BY <2>1 DEF PeersInv
  <2>3. MainTypes /\ SharedTypes /\ rx.pc = "none"
    BY <2>1, TypeGroups DEF IInv, RxInv
  <2>4. CASE Outside
    <3>1. ASSUME NEW s \in Sockets, Attach(s) \/ Detach(s)
          PROVE  PeersInv'
      BY <2>1, <3>1, LevelMoved DEF PeersInv
    <3>2. CASE (\E w \in Workers : Produce(w)) \/ (\E c \in Commands : Request(c))
      <4>1. UNCHANGED <<events, endpoint, connected, peers, main, more>>
        BY <3>2 DEF Produce, Request, inputs, clients, mainvars
      <4>2. QED
        BY <2>1, <4>1, LevelsKept
    <3>3. QED
      BY <2>4, <3>1, <3>2 DEF Outside
  <2>5. CASE Rx
    BY <2>3, <2>5
       DEF Rx, At, RxStart, RxLoop, RxRecv, RxOffset, RxReset, RxIndex, RxGetMore,
           RxTestMore, RxRecvNext, RxDecide, RxPut, RxPutFails, RxHandled,
           RxEnded,
           RxCount, RxDrainMore, RxTestRest, RxDrop
  <2>6. CASE UNCHANGED vars
    BY <2>1, <2>6, LevelsKept DEF vars, inputs, clients, mainvars
  <2>7. ASSUME NEW s \in Sockets, Monitor(s)
        PROVE  PeersInv'
    <3>1. CASE MonRecv(s)
      BY <2>1, <3>1, LevelReceived DEF PeersInv
    <3>2. CASE MonTestMore(s)
      BY <2>1, <3>2, LevelTested DEF PeersInv
    <3>3. CASE MonEndpoint(s)
      BY <2>1, <3>3, LevelCounted DEF PeersInv
    <3>4. CASE MonMore(s)
      <4>1. /\ main.pc = "monmore" /\ main'.pc = "montest"
            /\ UNCHANGED <<events, endpoint, connected, peers>>
            /\ more' = endpoint[s]
        BY <2>3, <3>4 DEF MonMore, Serving, MainTypes, inputs, clients
      <4>2. ~endpoint[s]
        BY <2>2, <4>1 DEF LevelInv, InEvent, Serving
      <4>3. QED
        BY <2>1, <4>1, <4>2, LevelsKept
    <3>5. CASE MonTestRest(s)
      <4>1. /\ main.pc = "montest" /\ main'.pc = "dispatch"
            /\ UNCHANGED <<events, endpoint, connected, peers>>
        BY <2>2, <2>3, <3>5 DEF MonTestRest, Serving, MainTypes, inputs,
                                clients, OwnMore
      <4>2. QED
        BY <2>1, <4>1, LevelsKept
    <3>6. CASE MonDrop(s)
      BY <2>2, <3>6 DEF MonDrop, Serving, OwnMore
    <3>7. QED
      BY <2>7, <3>1, <3>2, <3>3, <3>4, <3>5, <3>6 DEF Monitor
  <2>8. CASE Main /\ ~\E s \in Sockets : Monitor(s)
    <3>1. /\ main.pc \notin Monitoring /\ main'.pc \notin Monitoring
          /\ UNCHANGED <<events, endpoint, connected, peers>>
      BY <1>2, <2>1, <2>3, <2>8
         DEF Main, MainPoll, MainSpawnRx, MainWake, MainClose, MainServed,
             CtlRecvId, CtlRecv, FabricateNext, FabricatePut, FabricateEnd,
             CtlApply, CtlReply, CtlAbort, CtlMore,
             CtlTestMore, CtlDrop, Serving, Monitoring, MainTypes, MainIdle,
             inputs,
             clients
    <3>2. QED
      BY <2>1, <3>1, LevelsKept DEF Monitoring
  <2>9. QED
    BY <2>4, <2>5, <2>6, <2>7, <2>8 DEF Next
<1>3. QED
  BY <1>1, <1>2

LEMMA PeersInitially ==
    ASSUME Init
    PROVE  PeersInv
<1>1. OwnMore
  BY DEF Init, OwnMore, MainIdle
<1>2. ASSUME NEW s \in Sockets
      PROVE  LevelInv(s)
  <2>1. /\ connected[s] = 0 /\ events[s] = <<>> /\ peers[s] = 0
        /\ endpoint[s] = FALSE /\ ~InEvent(s)
    BY DEF Init, MainIdle, InEvent, Serving
  <2>2. Due(s) = 0
    BY <2>1 DEF Due
  <2>3. Reaches(0, <<>>, 0)
    <3> DEFINE level == [i \in 0 .. 0 |-> 0]
    <3>1. level \in [0 .. 0 -> Nat] /\ level[0] = 0
      OBVIOUS
    <3>2. Len(<<>>) = 0 /\ 1 .. 0 = {}
      OBVIOUS
    <3> HIDE DEF level
    <3>3. QED
      BY <3>1, <3>2 DEF Reaches
  <2>4. QED
    BY <2>1, <2>2, <2>3 DEF LevelInv
<1>3. QED
  BY <1>1, <1>2 DEF PeersInv

\* While the fan waits for its consumers, whoever comes and goes, the counter of
\* a socket is the number of clients attached to it as soon as its events are
\* taken in: for every number of consumers, of clients and of events.
THEOREM ConnectedKnownAlways == Spec => []ConnectedKnown
<1>1. Init => IInv /\ PeersInv
  BY Initially, PeersInitially
<1>2. IInv /\ PeersInv /\ [Next]_vars => IInv' /\ PeersInv'
  BY Invariance, PeersStep
<1>3. IInv /\ PeersInv => ConnectedKnown
  <2> SUFFICES ASSUME IInv, PeersInv, phase = "connect", NEW s \in Sockets,
                      events[s] = <<>>, main.pc = "poll"
               PROVE  connected[s] = peers[s]
    BY DEF ConnectedKnown
  <2>1. LevelInv(s) /\ ~InEvent(s)
    BY DEF PeersInv, InEvent, Serving
  <2>2. Due(s) = connected[s]
    BY <2>1 DEF Due, LevelInv
  <2>3. QED
    BY <2>1, <2>2, ReachNone DEF LevelInv
<1>4. QED
  BY <1>1, <1>2, <1>3, PTL DEF Spec

-----------------------------------------------------------------------------
(***************************************************************************)
(* The images that are counted                                             *)
(***************************************************************************)

\* A header of all details has the eight parts that its handler insists on.  One
\* with fewer may be filled up, when the main thread has set more, with the parts
\* of the image behind it, which is then sent to the consumers and not counted.
FullHeaders ==
    \A m \in MsgIds :
        Stream[m].kind = "header" /\ Stream[m].detail = "all" => Stream[m].parts >= 8

\* A part that cannot complete an image, ...
Early(p) == Stream[p.msg].kind = "image" => p.part <= 3

\* ... as are all that are sent with a header or an end message: a handler that
\* wants more parts than three gets those of its own message first.
GatherInv ==
    rx.pc \in Collecting =>
        LET n == Len(rx.have)
            p == rx.have[n]
        IN  /\ rxsock = [msg |-> p.msg, next |-> p.part + 1]
            /\ rx.pc \in {"offset", "reset"} => n = 1
            /\ n <= Needed /\ p.part <= n
            /\ Kind = "header" /\ Detail = "all" =>
                   p = [msg |-> rx.have[1].msg, part |-> n]

EarlyInv ==
    rx.pc \in Handling /\ ~ToOne =>
        \A i \in 1 .. Len(rx.have) : Early(rx.have[i])

\* The image in hand has been sent, or given up, and is about to be counted.
Owed(c) ==
    IF rx.pc \in {"handled", "count"} /\ ToOne /\ c = currentConsumerIndexToSendTo
    THEN 1 ELSE 0

CountedInv ==
    \A c \in Ranks : Cardinality(ImagesSent(c)) <= num_frames_consumed[c] + Owed(c)

\* A step that leaves the parts in hand and the socket alone.
LEMMA GatherKept ==
    ASSUME GatherInv, EarlyInv, rx'.have = rx.have,
           rx'.pc \in Handling => rx.pc \in Handling,
           rx'.pc \in Collecting => rx.pc \in Collecting /\ rxsock' = rxsock,
           rx'.pc \in {"offset", "reset"} => rx.pc \in {"offset", "reset"}
    PROVE  GatherInv' /\ EarlyInv'
<1>1. Kind' = Kind /\ Detail' = Detail /\ Needed' = Needed /\ ToOne' = ToOne
  BY SameMessage
<1>2. GatherInv'
  BY <1>1 DEF GatherInv
<1>3. EarlyInv'
  BY <1>1 DEF EarlyInv, Early
<1>4. QED
  BY <1>2, <1>3

\* The part that is received: the next one of the message that the socket is in,
\* or the first one of another.
LEMMA NextPart ==
    ASSUME Types, QueueInv, NEW p \in NextParts, RxRecvPart(p)
    PROVE  /\ p \in PartIds
           /\ rxsock' = [msg |-> p.msg, next |-> p.part + 1]
           /\ IF RcvMore THEN p = [msg |-> rxsock.msg, part |-> rxsock.next]
                         ELSE p.part = 1
           /\ rxsock.msg <= rxsock'.msg
<1>1. p \in PartIds
  BY PartTypes
<1>2. rxsock' = [msg |-> p.msg, next |-> p.part + 1]
  BY DEF RxRecvPart
<1>3. IF RcvMore THEN p = [msg |-> rxsock.msg, part |-> rxsock.next]
                 ELSE p.part = 1
  BY DEF NextParts
<1>4. rxsock.msg \in Nat
  BY DEF Types, MsgIds
<1>5. rxsock.msg <= p.msg
  <2>1. CASE RcvMore
    BY <1>3, <1>4, <2>1
  <2>2. CASE ~RcvMore
    <3>1. PICK w \in Workers : /\ pending[w] # <<>>
                               /\ p = [msg |-> Head(pending[w]), part |-> 1]
      BY <2>2 DEF NextParts
    <3>2. /\ Len(pending[w]) \in Nat \ {0} /\ Head(pending[w]) = pending[w][1]
          /\ pending[w][1] \in MsgIds
      BY <3>1 DEF Types
    <3>3. rxsock.msg < pending[w][1] /\ pending[w][1] \in Nat
      BY <3>2 DEF QueueInv, MsgIds
    <3>4. QED
      BY <1>4, <3>1, <3>2, <3>3
  <2>3. QED
    BY <2>1, <2>2
<1>6. QED
  BY <1>1, <1>2, <1>3, <1>5

\* The first part of a message.
LEMMA GatherFirst ==
    ASSUME IInv, QueueInv, RxRecv
    PROVE  GatherInv' /\ EarlyInv'
<1>1. Types /\ RxTypes
  BY TypeGroups DEF IInv
<1>2. PICK p \in NextParts :
          /\ RxRecvPart(p)
          /\ rx' = [pc |-> HandlerOf(p), have |-> <<p>>, dest |-> 1, part |-> 1]
  BY DEF RxRecv
<1>3. /\ p \in PartIds
      /\ rxsock' = [msg |-> p.msg, next |-> p.part + 1]
  BY <1>1, <1>2, NextPart
<1>4. p.part \in Nat \ {0} /\ p.msg \in MsgIds /\ p = [msg |-> p.msg, part |-> p.part]
  BY <1>3 DEF PartIds
<1>5. /\ rx'.pc = HandlerOf(p) /\ rx'.have = <<p>>
      /\ Len(rx'.have) = 1 /\ rx'.have[1] = p
  BY <1>2
<1>6. rx'.pc \in Handling => p.part = 1
  BY <1>4, <1>5 DEF HandlerOf, Handling, Collecting, Sending
<1>7. Collecting \subseteq Handling
  BY DEF Handling
<1>8. Needed' \in 1 .. 8
  BY DEF Needed
<1>9. GatherInv'
  BY <1>3, <1>4, <1>5, <1>6, <1>7, <1>8 DEF GatherInv
<1>10. EarlyInv'
  BY <1>5, <1>6 DEF EarlyInv, Early
<1>11. QED
  BY <1>9, <1>10

\* A further part.
LEMMA GatherNext ==
    ASSUME FullHeaders, IInv, QueueInv, GatherInv, EarlyInv, RxRecvNext
    PROVE  GatherInv' /\ EarlyInv'
<1> DEFINE n == Len(rx.have)
           q == IF n = Needed THEN "decide" ELSE "getmore"
<1>1. /\ Types /\ RxTypes
      /\ rx.pc = "recvpart" /\ rx.pc \in Collecting /\ rx.pc \in Handling
      /\ rx.have # <<>> /\ Kind \in {"header", "image"}
  BY TypeGroups DEF IInv, RxInv, RxRecvNext, At, Collecting, Handling
<1>2. /\ n \in Nat \ {0} /\ rx.have[1].msg \in MsgIds /\ Needed \in 1 .. 8
      /\ rx.have \in Seq(PartIds)
  BY <1>1, InHand DEF RxTypes
<1>3. PICK p \in NextParts :
          RxRecvPart(p) /\ rx' = [rx EXCEPT !.have = Append(@, p), !.pc = q]
  BY DEF RxRecvNext
<1>4. /\ p \in PartIds
      /\ rxsock' = [msg |-> p.msg, next |-> p.part + 1]
      /\ IF RcvMore THEN p = [msg |-> rxsock.msg, part |-> rxsock.next]
                    ELSE p.part = 1
  BY <1>1, <1>3, NextPart
<1>5. p.part \in Nat \ {0} /\ p.msg \in MsgIds
  BY <1>4 DEF PartIds
<1>6. /\ rxsock = [msg |-> rx.have[n].msg, next |-> rx.have[n].part + 1]
      /\ n <= Needed /\ rx.have[n].part <= n
      /\ Kind = "header" /\ Detail = "all" =>
             rx.have[n] = [msg |-> rx.have[1].msg, part |-> n]
  BY <1>1 DEF GatherInv
<1>7. rx.have[n].part \in Nat
  <2>1. rx.have[n] \in PartIds
    BY <1>2
  <2>2. QED
    BY <2>1 DEF PartIds
<1>8. p.part <= n + 1
  BY <1>2, <1>4, <1>6, <1>7
<1>9. ASSUME Kind = "header", Detail = "all"
      PROVE  /\ Needed = 8
             /\ n < 8 => p = [msg |-> rx.have[1].msg, part |-> n + 1]
             /\ Stream[p.msg].kind = "image" => p.part = 1
  <2>1. Needed = 8
    BY <1>9 DEF Needed
  <2>2. rxsock.msg = rx.have[1].msg /\ rxsock.next = n + 1
    BY <1>6, <1>9
  <2>3. Stream[rxsock.msg].kind = "header" /\ Stream[rxsock.msg].parts >= 8
    BY <1>2, <1>9, <2>2 DEF FullHeaders, Kind, Detail
  <2>4. rxsock.msg # 0 /\ Stream[rxsock.msg].parts \in Nat
    BY <1>2, <2>2, StreamTypes
  <2>5. n < 8 => RcvMore
    BY <1>2, <2>2, <2>3, <2>4 DEF RcvMore
  <2>6. RcvMore => p = [msg |-> rx.have[1].msg, part |-> n + 1]
    BY <1>4, <2>2
  <2>7. Stream[p.msg].kind = "image" => p.part = 1
    BY <1>4, <2>2, <2>3, <2>6
  <2>8. QED
    BY <2>1, <2>5, <2>6, <2>7
<1>10. Kind = "header" /\ Detail # "all" => Needed <= 2
  BY DEF Needed
<1>11. ~ToOne => Early(p)
  <2>1. CASE Kind = "header" /\ Detail = "all"
    BY <1>9, <2>1 DEF Early
  <2>2. CASE Kind = "header" /\ Detail # "all"
    <3>1. Needed <= 2 /\ Needed \in Nat
      BY <1>2, <1>10, <2>2
    <3>2. p.part <= 3
      BY <1>2, <1>5, <1>6, <1>8, <3>1
    <3>3. QED
      BY <3>2 DEF Early
  <2>3. QED
    BY <1>1, <2>1, <2>2 DEF ToOne
<1>12. /\ rx'.have = Append(rx.have, p) /\ rx'.pc = q
       /\ Len(rx'.have) = n + 1 /\ rx'.have[n + 1] = p
       /\ \A i \in 1 .. n : rx'.have[i] = rx.have[i]
  BY <1>1, <1>2, <1>3, <1>4 DEF RxTypes
<1>13. rx'.have[1] = rx.have[1]
  BY <1>2, <1>12
<1>14. Kind' = Kind /\ Detail' = Detail /\ Needed' = Needed /\ ToOne' = ToOne
  BY <1>13 DEF Kind, Detail, Needed, ToOne
<1>15. rx'.pc \in Collecting => n < Needed /\ rx'.pc = "getmore"
  BY <1>2, <1>6, <1>12 DEF Collecting
<1>16. GatherInv'
  <2> SUFFICES ASSUME rx'.pc \in Collecting
               PROVE  /\ rxsock' = [msg |-> p.msg, next |-> p.part + 1]
                      /\ rx'.pc \notin {"offset", "reset"}
                      /\ n + 1 <= Needed /\ p.part <= n + 1
                      /\ Kind = "header" /\ Detail = "all" =>
                             p = [msg |-> rx.have[1].msg, part |-> n + 1]
    BY <1>12, <1>13, <1>14 DEF GatherInv
  <2>1. n + 1 <= Needed
    BY <1>2, <1>15
  <2>2. Kind = "header" /\ Detail = "all" => n < 8
    BY <1>2, <1>9, <1>15
  <2>3. QED
    BY <1>4, <1>8, <1>9, <1>15, <2>1, <2>2
<1>17. EarlyInv'
  <2> SUFFICES ASSUME ~ToOne, NEW i \in 1 .. n + 1
               PROVE  Early(rx'.have[i])
    BY <1>12, <1>14 DEF EarlyInv, Early
  <2>1. CASE i = n + 1
    BY <1>11, <1>12, <2>1
  <2>2. CASE i # n + 1
    <3>1. i \in 1 .. n
      BY <1>2, <2>2
    <3>2. QED
      BY <1>1, <1>12, <3>1 DEF EarlyInv
  <2>3. QED
    BY <2>1, <2>2
<1>18. QED
  BY <1>16, <1>17

LEMMA GatherStep ==
    ASSUME FullHeaders, IInv, QueueInv, GatherInv, EarlyInv, [Next]_vars
    PROVE  GatherInv' /\ EarlyInv'
<1>1. RxTypes /\ RxInv
  BY TypeGroups DEF IInv
<1>2. CASE RxRecv
  BY <1>2, GatherFirst
<1>3. CASE RxRecvNext
  BY <1>3, GatherNext
<1>4. CASE RxOffset \/ RxReset \/ RxIndex \/ RxGetMore \/ RxTestMore
  <2>1. PICK q \in {"reset", "handled", "getmore", "testmore", "recvpart", "decide",
                    "count", "drainmore"} : Goto(q) /\ (q = "reset" => rx.pc = "offset")
    BY <1>4 DEF RxOffset, RxReset, RxIndex, RxGetMore, RxTestMore, At
  <2>2. rx'.pc = q /\ rx'.have = rx.have
    BY <1>1, <2>1, GotoStep DEF RxPcs
  <2>3. rx.pc \in Collecting /\ rx.pc \in Handling /\ rxsock' = rxsock
    BY <1>4
       DEF RxOffset, RxReset, RxIndex, RxGetMore, RxTestMore, At, Collecting,
           Handling
  <2>4. QED
    BY <2>1, <2>2, <2>3, GatherKept
<1>5. CASE RxDecide \/ RxPut \/ RxPutFails
  <2>1. rx.pc \in Sending
    BY <1>5 DEF RxDecide, RxPut, RxPutFails, At, Sending
  <2>2. rx'.have = rx.have /\ rx'.pc \notin Collecting
    <3>1. CASE rx' = [rx EXCEPT !.pc = "put"] \/ rx' = [rx EXCEPT !.pc = "drainmore"]
      BY <1>1, <3>1 DEF RxTypes, Collecting
    <3>2. CASE \/ rx.pc = "put" /\ rx' = Advance
               \/ rx.pc = "decide" /\ rx' = Skip
      <4>1. PICK q, d, k : Position(q, d, k)
        BY <1>1, <2>1, <3>2, PassOn
      <4>2. rx' = [rx EXCEPT !.pc = q, !.dest = d, !.part = k] /\ q \notin Collecting
        BY <2>1, <4>1 DEF Position, Collecting, Sending
      <4>3. QED
        BY <1>1, <4>2 DEF RxTypes
    <3>3. QED
      BY <1>5, <3>1, <3>2 DEF RxDecide, RxPut, RxPutFails, At, Goto
  <2>3. QED
    BY <2>1, <2>2, GatherKept DEF Collecting, Handling
<1>6. CASE RxHandled \/ RxEnded
  <2>1. PICK q \in {"drainmore", "count", "ended"} : Goto(q)
    BY <1>1, <1>6 DEF RxHandled, RxEnded, RxInv, At
  <2>2. rx'.pc = q /\ rx'.have = rx.have
    BY <1>1, <2>1, GotoStep DEF RxPcs
  <2>3. rx.pc \in Handling
    BY <1>6 DEF RxHandled, RxEnded, At, Handling
  <2>4. QED
    BY <2>2, <2>3, GatherKept DEF Collecting
<1>7. CASE RxStart \/ RxLoop \/ RxCount \/ RxDrainMore \/ RxTestRest \/ RxDrop
           \/ MainSpawnRx
  <2>1. rx'.pc \in {"start", "loop", "done", "poll", "drainmore", "drain", "drop"}
    <3>1. CASE RxTestRest
      BY <1>1, <3>1 DEF RxTestRest, RxIdle, RxTypes
    <3>2. CASE RxStart \/ RxLoop \/ RxCount \/ RxDrainMore \/ RxDrop \/ MainSpawnRx
      <4>1. PICK q \in {"start", "loop", "done", "poll", "drainmore", "drain"} : Goto(q)
        BY <3>2
           DEF RxStart, RxLoop, RxCount, RxDrainMore, RxDrop, MainSpawnRx, Goto
      <4>2. QED
        BY <1>1, <4>1, GotoStep DEF RxPcs
    <3>3. QED
      BY <1>7, <3>1, <3>2
  <2>2. rx'.pc \notin Handling /\ rx'.pc \notin Collecting
    BY <2>1 DEF Handling, Collecting, Sending
  <2>3. QED
    BY <2>2 DEF GatherInv, EarlyInv
<1>8. CASE UNCHANGED rx /\ ~Rx
  <2>1. rxsock' = rxsock
    BY <1>8, StreamMoves DEF stream, Produce, Rx
  <2>2. QED
    BY <1>8, <2>1, GatherKept
<1>9. QED
  BY <1>2, <1>3, <1>4, <1>5, <1>6, <1>7, <1>8, RxMoves DEF Rx

\* The messages that end on a socket with a part that completes an image.
LEMMA SentFinite ==
    ASSUME NEW c \in Ranks
    PROVE  /\ IsFiniteSet(ImagesSent(c)) /\ IsFiniteSet(ImagesSent(c)')
           /\ Cardinality(ImagesSent(c)) \in Nat
           /\ Cardinality(ImagesSent(c)') \in Nat
<1>1. IsFiniteSet(MsgIds)
  <2>1. Len(Stream) \in Int /\ 1 \in Int
    BY StreamTypes
  <2>2. QED
    BY <2>1, FS_Interval DEF MsgIds
<1>2. ImagesSent(c) \in SUBSET MsgIds /\ ImagesSent(c)' \in SUBSET MsgIds
  BY DEF ImagesSent
<1>3. IsFiniteSet(ImagesSent(c)) /\ IsFiniteSet(ImagesSent(c)')
  BY <1>1, <1>2, FS_Subset
<1>4. QED
  BY <1>3, FS_CardinalityType

LEMMA SentAtMost ==
    ASSUME NEW c \in Ranks, ImagesSent(c)' \subseteq ImagesSent(c)
    PROVE  Cardinality(ImagesSent(c)') <= Cardinality(ImagesSent(c))
  BY SentFinite, FS_Subset

LEMMA SentOneMore ==
    ASSUME NEW c \in Ranks, NEW m, ImagesSent(c)' \subseteq ImagesSent(c) \cup {m}
    PROVE  Cardinality(ImagesSent(c)') <= Cardinality(ImagesSent(c)) + 1
<1>1. /\ IsFiniteSet(ImagesSent(c) \cup {m})
      /\ Cardinality(ImagesSent(c) \cup {m}) <= Cardinality(ImagesSent(c)) + 1
  <2>1. IsFiniteSet(ImagesSent(c)) /\ Cardinality(ImagesSent(c)) \in Nat
    BY SentFinite
  <2>2. /\ IsFiniteSet(ImagesSent(c) \cup {m})
        /\ Cardinality(ImagesSent(c) \cup {m}) =
               IF m \in ImagesSent(c) THEN Cardinality(ImagesSent(c))
               ELSE Cardinality(ImagesSent(c)) + 1
    BY <2>1, FS_AddElement
  <2>3. QED
    BY <2>1, <2>2
<1>2. Cardinality(ImagesSent(c)') <= Cardinality(ImagesSent(c) \cup {m})
  BY <1>1, FS_Subset
<1>3. /\ Cardinality(ImagesSent(c) \cup {m}) \in Nat
      /\ Cardinality(ImagesSent(c)) \in Nat /\ Cardinality(ImagesSent(c)') \in Nat
  BY <1>1, SentFinite, FS_CardinalityType
<1>4. QED
  BY <1>1, <1>2, <1>3

\* The socket does not go back to an earlier message.
LEMMA SocketAdvances ==
    ASSUME Types, QueueInv, [Next]_vars
    PROVE  rxsock.msg \in Nat /\ rxsock'.msg \in Int /\ rxsock.msg <= rxsock'.msg
<1>1. rxsock.msg \in Nat /\ rxsock'.msg \in Int
  BY TypesStep DEF Types, MsgIds
<1>2. CASE UNCHANGED rxsock
  BY <1>1, <1>2
<1>3. CASE RxRecv \/ RxRecvNext \/ RxDrop
  <2>1. PICK p \in NextParts : RxRecvPart(p)
    BY <1>3 DEF RxRecv, RxRecvNext, RxDrop
  <2>2. QED
    BY <1>1, <2>1, NextPart
<1>4. QED
  BY <1>2, <1>3, StreamMoves DEF stream, Produce

\* What a step does to the images sent to a consumer: nothing is added when
\* nothing is sent there, ...
LEMMA SentSame ==
    ASSUME NEW c \in Ranks, out'[c] = out[c],
           rxsock.msg \in Int, rxsock'.msg \in Int, rxsock.msg <= rxsock'.msg
    PROVE  ImagesSent(c)' \subseteq ImagesSent(c)
<1>1. ASSUME NEW m \in MsgIds
      PROVE  m .. rxsock.msg \subseteq m .. rxsock'.msg
  BY StreamTypes
<1>2. QED
  BY <1>1 DEF ImagesSent

\* A socket of which only the first parts are left.
LEMMA SentFewer ==
    ASSUME NEW c \in Ranks, rxsock' = rxsock,
           OutTypes, OutTypes', Len(out'[c]) <= Len(out[c]),
           \A i \in 1 .. Len(out'[c]) : out'[c][i] = out[c][i]
    PROVE  ImagesSent(c)' \subseteq ImagesSent(c)
<1>1. c \in Sockets /\ Len(out[c]) \in Nat /\ Len(out'[c]) \in Nat
  BY DEF Sockets, OutTypes
<1>2. 1 .. Len(out'[c]) \subseteq 1 .. Len(out[c])
  BY <1>1
<1>3. QED
  BY <1>2 DEF ImagesSent

\* ... and at most the message of the part that is.
LEMMA SentAppended ==
    ASSUME TypeOK, NEW c \in Ranks, rxsock' = rxsock, NEW e,
           out'[c] = Append(out[c], e)
    PROVE  /\ ImagesSent(c)' \subseteq ImagesSent(c) \cup {e.msg}
           /\ ~(/\ e.msg \in MsgIds /\ Stream[e.msg].kind = "image"
                /\ e.part >= 4 /\ ~e.more) =>
                  ImagesSent(c)' \subseteq ImagesSent(c)
<1> DEFINE n == Len(out[c])
<1>1. n \in Nat /\ Len(Append(out[c], e)) = n + 1
  <2>1. c \in Sockets
    BY DEF Sockets
  <2>2. n \in Nat
    BY <2>1, PartsHeld
  <2>3. out[c] \in Seq([msg : MsgIds \cup {0}, part : Nat \ {0}, more : BOOLEAN])
    BY <2>1 DEF TypeOK
  <2>4. QED
    BY <2>2, <2>3
<1>2. /\ Append(out[c], e)[n + 1] = e
      /\ \A i \in 1 .. n : Append(out[c], e)[i] = out[c][i]
  <2>1. c \in Sockets
    BY DEF Sockets
  <2>2. out[c] \in Seq([msg : MsgIds \cup {0}, part : Nat \ {0}, more : BOOLEAN])
    BY <2>1 DEF TypeOK
  <2>3. QED
    BY <2>2
<1>3. ASSUME NEW m \in MsgIds, m \in ImagesSent(c)', m \notin ImagesSent(c)
      PROVE  m = e.msg /\ Stream[m].kind = "image" /\ e.part >= 4 /\ ~e.more
  <2>1. /\ Stream[m].kind = "image"
        /\ \A h \in m .. rxsock.msg : Stream[h].kind # "header"
    BY <1>3 DEF ImagesSent
  <2>2. PICK i \in 1 .. n + 1 :
            /\ out'[c][i].msg = m /\ out'[c][i].part >= 4 /\ ~out'[c][i].more
    BY <1>1, <1>3 DEF ImagesSent
  <2>3. i \notin 1 .. n
    BY <1>2, <1>3, <2>1, <2>2 DEF ImagesSent
  <2>4. i = n + 1
    BY <1>1, <2>3
  <2>5. QED
    BY <1>2, <2>1, <2>2, <2>4
<1>4. ImagesSent(c)' \subseteq MsgIds
  BY DEF ImagesSent
<1>5. QED
  BY <1>3, <1>4

\* A header restarts the counters when no part of a later message has been sent.
LEMMA NoneSince ==
    ASSUME IInv, GatherInv, SentInv, rx.pc = "reset", out' = out, rxsock' = rxsock,
           NEW c \in Ranks
    PROVE  ImagesSent(c)' = {}
<1>1. /\ rxsock.msg = rx.have[1].msg /\ Stream[rxsock.msg].kind = "header"
  BY DEF IInv, RxInv, GatherInv, Collecting, Kind
<1>2. SUFFICES ASSUME NEW m \in MsgIds, m \in ImagesSent(c)'
               PROVE  FALSE
  BY DEF ImagesSent
<1>3. /\ \A h \in m .. rxsock.msg : Stream[h].kind # "header"
      /\ \E i \in 1 .. Len(out[c]) : out[c][i].msg = m
  BY <1>2 DEF ImagesSent
<1>4. m \in Nat \ {0} /\ rxsock.msg \in Nat
  BY StreamTypes, TypeGroups DEF IInv, Types, MsgIds
<1>5. c \in Sockets
  BY DEF Sockets
<1>6. m <= rxsock.msg
  BY <1>3, <1>4, <1>5 DEF SentInv, Seen, SeenBy
<1>7. rxsock.msg \in m .. rxsock.msg
  BY <1>4, <1>6
<1>8. QED
  BY <1>1, <1>3, <1>7

\* An image that is owed stays so until it is counted.
LEMMA OwedKept ==
    ASSUME IInv, [Next]_vars, ~RxReset, NEW c \in Ranks
    PROVE  num_frames_consumed[c] + Owed(c) <= num_frames_consumed'[c] + Owed(c)'
<1>1. /\ num_frames_consumed[c] \in Nat /\ Owed(c) \in {0, 1} /\ Owed(c)' \in {0, 1}
      /\ RxTypes /\ RxInv
  BY TypeGroups DEF IInv, CountTypes, Owed
<1>2. CASE RxCount
  <2>1. num_frames_consumed'[c] =
            num_frames_consumed[c] + (IF c = currentConsumerIndexToSendTo THEN 1 ELSE 0)
    BY <1>2 DEF RxCount, CountedRank
  <2>2. c # currentConsumerIndexToSendTo => Owed(c) = 0
    BY DEF Owed
  <2>3. QED
    BY <1>1, <2>1, <2>2
<1>3. CASE ~RxCount
  <2>1. num_frames_consumed' = num_frames_consumed
    BY <1>3, MainLeaves, OutsideLeaves
       DEF Next, vars, rxvars, counters, Rx, RxStart, RxLoop, RxRecv, RxOffset,
           RxIndex, RxGetMore, RxTestMore, RxRecvNext, RxDecide, RxPut,
           RxPutFails,
           RxHandled, RxEnded, RxDrainMore, RxTestRest, RxDrop
  <2>2. Owed(c) <= Owed(c)'
    <3>1. CASE rx.pc \notin {"handled", "count"}
      <4>1. Owed(c) = 0
        BY <3>1 DEF Owed
      <4>2. QED
        BY <1>1, <4>1
    <3>2. CASE RxHandled
      <4>1. CASE ToOne
        <5>1. Goto("count") /\ "count" \in RxPcs
          BY <3>2, <4>1 DEF RxHandled, ToOne, RxPcs
        <5>2. rx'.pc = "count" /\ ToOne'
          BY <1>1, <4>1, <5>1, GotoStep
        <5>3. currentConsumerIndexToSendTo' = currentConsumerIndexToSendTo
          BY <3>2 DEF RxHandled
        <5>4. QED
          BY <1>1, <5>2, <5>3 DEF Owed
      <4>2. CASE ~ToOne
        <5>1. Owed(c) = 0
          BY <4>2 DEF Owed
        <5>2. QED
          BY <1>1, <5>1
      <4>3. QED
        BY <4>1, <4>2
    <3>3. CASE ~Rx /\ rx.pc \in {"handled", "count"}
      <4>1. UNCHANGED rx
        BY <3>3, RxMoves DEF MainSpawnRx, IInv, RxInv
      <4>2. currentConsumerIndexToSendTo' = currentConsumerIndexToSendTo
        BY <3>3, MainLeaves, OutsideLeaves DEF Next, vars, rxvars
      <4>3. QED
        BY <1>1, <4>1, <4>2 DEF Owed, ToOne, Kind
    <3>4. CASE Rx /\ ~RxHandled /\ rx.pc \in {"handled", "count"}
      BY <1>3, <3>4
         DEF Rx, At, RxStart, RxLoop, RxRecv, RxOffset, RxReset, RxIndex,
             RxGetMore,
             RxTestMore, RxRecvNext, RxDecide, RxPut, RxPutFails, RxEnded,
             RxDrainMore, RxTestRest, RxDrop
    <3>5. QED
      BY <3>1, <3>2, <3>3, <3>4
  <2>3. QED
    BY <1>1, <2>1, <2>2
<1>4. QED
  BY <1>2, <1>3

\* The part that completes an image is sent by the last step before it is owed.
LEMMA CountedWhenPut ==
    ASSUME IInv, EarlyInv, RxPut, NEW c \in Ranks
    PROVE  \/ ImagesSent(c)' \subseteq ImagesSent(c)
           \/ /\ Owed(c) = 0 /\ Owed(c)' = 1
              /\ \E m : ImagesSent(c)' \subseteq ImagesSent(c) \cup {m}
<1> DEFINE p == rx.have[rx.part]
           e == [msg |-> p.msg, part |-> p.part, more |-> ~Last]
<1>1. /\ TypeOK /\ RxTypes /\ RxInv /\ rx.pc = "put" /\ rx.pc \in Sending
      /\ rx' = Advance /\ rxsock' = rxsock
      /\ currentConsumerIndexToSendTo' = currentConsumerIndexToSendTo
  BY TypeGroups DEF IInv, RxPut, At, Sending, stream
<1>2. \/ out' = out
      \/ out' = [out EXCEPT ![Dest] = Append(@, e)]
  BY DEF RxPut, Put
<1>3. out \in [Sockets -> Seq([msg : MsgIds \cup {0}, part : Nat \ {0}, more : BOOLEAN])]
  BY <1>1 DEF TypeOK
<1>4. c \in Sockets
  BY DEF Sockets
<1>5. rxsock.msg \in Int
  BY <1>1 DEF TypeOK, MsgIds
<1>6. CASE c # Dest \/ out' = out
  <2>1. out'[c] = out[c]
    BY <1>2, <1>3, <1>4, <1>6
  <2>2. QED
    BY <1>1, <1>5, <2>1, SentSame
<1>7. CASE c = Dest /\ out' # out
  <2>1. out'[c] = Append(out[c], e)
    BY <1>2, <1>3, <1>4, <1>7
  <2>2. /\ ImagesSent(c)' \subseteq ImagesSent(c) \cup {e.msg}
        /\ ~(/\ e.msg \in MsgIds /\ Stream[e.msg].kind = "image"
             /\ e.part >= 4 /\ ~e.more) =>
               ImagesSent(c)' \subseteq ImagesSent(c)
    BY <1>1, <2>1, SentAppended
  <2>3. CASE ~Last
    BY <2>2, <2>3
  <2>4. CASE ~ToOne
    <3>1. rx.part \in 1 .. Len(rx.have) /\ p.part \in Nat
      <4>1. rx.part \in Nat \ {0} /\ Len(rx.have) \in Nat /\ rx.part <= Len(rx.have)
        BY <1>1 DEF RxTypes, RxInv
      <4>2. rx.part \in 1 .. Len(rx.have)
        BY <4>1
      <4>3. QED
        BY <1>1, <4>2, PartsHeld
    <3>2. Early(p)
      BY <1>1, <2>4, <3>1 DEF EarlyInv, Handling
    <3>3. ~(Stream[e.msg].kind = "image" /\ e.part >= 4)
      BY <3>1, <3>2 DEF Early
    <3>4. QED
      BY <2>2, <3>3
  <2>5. CASE Last /\ ToOne
    <3>1. c = currentConsumerIndexToSendTo /\ rx.dest # 1
      BY <1>1, <1>7, <2>5, TargetIsDest DEF Target
    <3>2. rx' = [rx EXCEPT !.pc = "handled"]
      <4>1. rx.dest = 2
        BY <1>1, <2>5, <3>1, FanAssumption DEF RxInv, RxTypes
      <4>2. QED
        BY <1>1, <2>5, <4>1 DEF Advance
    <3>3. rx'.pc = "handled" /\ ToOne' = ToOne
      BY <1>1, <3>2, GotoStep DEF Goto, RxPcs
    <3>4. Owed(c) = 0 /\ Owed(c)' = 1
      BY <1>1, <2>5, <3>1, <3>3 DEF Owed
    <3>5. QED
      BY <2>2, <3>4
  <2>6. QED
    BY <2>3, <2>4, <2>5
<1>8. QED
  BY <1>6, <1>7

LEMMA CountedStep ==
    ASSUME IInv, IInv', OrderInv, GatherInv, EarlyInv, CountedInv, [Next]_vars
    PROVE  CountedInv'
<1> SUFFICES ASSUME NEW c \in Ranks
             PROVE  Cardinality(ImagesSent(c)') <= num_frames_consumed'[c] + Owed(c)'
  BY DEF CountedInv, Ranks
<1>1. /\ num_frames_consumed[c] \in Nat /\ num_frames_consumed'[c] \in Nat
      /\ Owed(c) \in {0, 1} /\ Owed(c)' \in {0, 1}
      /\ Cardinality(ImagesSent(c)) \in Nat /\ Cardinality(ImagesSent(c)') \in Nat
      /\ Cardinality(ImagesSent(c)) <= num_frames_consumed[c] + Owed(c)
  BY SentFinite, TypeGroups DEF IInv, TypeOK, Owed, CountedInv
<1>2. rxsock.msg \in Nat /\ rxsock'.msg \in Int /\ rxsock.msg <= rxsock'.msg
  BY SocketAdvances, TypeGroups DEF IInv, OrderInv
<1>3. CASE RxReset
  <2>1. ImagesSent(c)' = {}
    BY <1>3, NoneSince DEF RxReset, At, OrderInv
  <2>2. QED
    BY <1>1, <2>1, FS_EmptySet
<1>4. CASE ~RxReset
  <2>1. num_frames_consumed[c] + Owed(c) <= num_frames_consumed'[c] + Owed(c)'
    BY <1>4, OwedKept
  <2>2. ASSUME ImagesSent(c)' \subseteq ImagesSent(c)
        PROVE  Cardinality(ImagesSent(c)') <= num_frames_consumed'[c] + Owed(c)'
    <3>1. Cardinality(ImagesSent(c)') <= Cardinality(ImagesSent(c))
      BY <2>2, SentAtMost
    <3>2. QED
      BY <1>1, <2>1, <3>1
  <2>3. CASE out' = out
    BY <1>2, <2>2, <2>3, SentSame
  <2>4. CASE FabricatePut
    <3>1. CASE out' = out
      BY <2>3, <3>1
    <3> SUFFICES ASSUME out' # out
                 PROVE  Cardinality(ImagesSent(c)') <=
                            num_frames_consumed'[c] + Owed(c)'
      BY <3>1
    <3>2. PICK s : out' = [out EXCEPT ![s] =
                               Append(@, [msg |-> 0, part |-> 1, more |-> FALSE])]
      BY <2>4 DEF FabricatePut, Put
    <3>3. c \in Sockets /\ TypeOK
      BY DEF Sockets, IInv
    <3>4. CASE c = s
      <4>1. out'[c] = Append(out[c], [msg |-> 0, part |-> 1, more |-> FALSE])
        BY <3>2, <3>3, <3>4 DEF TypeOK
      <4>2. rxsock' = rxsock
        BY <2>4 DEF FabricatePut, stream
      <4>3. 0 \notin MsgIds
        BY DEF MsgIds
      <4>4. QED
        BY <2>2, <3>3, <4>1, <4>2, <4>3, SentAppended
    <3>5. CASE c # s
      <4>1. out'[c] = out[c]
        BY <3>2, <3>3, <3>5 DEF TypeOK
      <4>2. QED
        BY <1>2, <2>2, <4>1, SentSame
    <3>6. QED
      BY <3>4, <3>5
  <2>5. CASE RxPut
    <3>1. CASE ImagesSent(c)' \subseteq ImagesSent(c)
      BY <2>2, <3>1
    <3>2. CASE /\ Owed(c) = 0 /\ Owed(c)' = 1
               /\ \E m : ImagesSent(c)' \subseteq ImagesSent(c) \cup {m}
      <4>1. Cardinality(ImagesSent(c)') <= Cardinality(ImagesSent(c)) + 1
        BY <3>2, SentOneMore
      <4>2. num_frames_consumed'[c] = num_frames_consumed[c]
        BY <2>5 DEF RxPut, counters
      <4>3. QED
        BY <1>1, <3>2, <4>1, <4>2
    <3>3. QED
      BY <2>5, <3>1, <3>2, CountedWhenPut
  <2>6. ASSUME NEW s \in Sockets, Detach(s)
        PROVE  Cardinality(ImagesSent(c)') <= num_frames_consumed'[c] + Owed(c)'
    <3>1. c \in Sockets /\ OutTypes /\ dropping \in [Sockets -> BOOLEAN]
      BY TypeGroups DEF Sockets, IInv, ClientTypes
    <3>2. /\ OutTypes' /\ Len(out'[c]) <= Len(out[c])
          /\ \A i \in 1 .. Len(out'[c]) : out'[c][i] = out[c][i]
      BY <2>6, <3>1, DetachKeeps
    <3>3. rxsock' = rxsock
      BY <2>6 DEF Detach, stream
    <3>4. QED
      BY <2>2, <3>1, <3>2, <3>3, SentFewer
  <2>7. QED
    BY <2>3, <2>4, <2>5, <2>6, OutMoves
<1>5. QED
  BY <1>3, <1>4

\* A consumer is never sent more images of a series than are counted for it, one
\* being about to be: for every stream whose headers of all details have their
\* parts, whatever the main thread does and whatever is given up.
THEOREM CountedWhenSentAlways ==
    ASSUME OneWorker, FullHeaders
    PROVE  Spec => []CountedWhenSent
<1>1. Init => OrderInv /\ GatherInv /\ EarlyInv
  BY DEF Init, RxIdle, OrderInv, QueueInv, HaveInv, SentInv, DueInv, InOrder,
         GatherInv, EarlyInv, Collecting, Sending, Handling
<1>2. Init => CountedInv
  <2> SUFFICES ASSUME Init, NEW c \in Ranks
               PROVE  Cardinality(ImagesSent(c)) <= num_frames_consumed[c] + Owed(c)
    BY DEF CountedInv
  <2>1. ImagesSent(c) = {}
    <3>1. out[c] = <<>>
      BY DEF Init, Sockets
    <3>2. QED
      BY <3>1 DEF ImagesSent
  <2>2. num_frames_consumed[c] = 0 /\ Owed(c) \in {0, 1}
    BY DEF Init, Owed
  <2>3. QED
    BY <2>1, <2>2, FS_EmptySet
<1>3. IInv /\ OrderInv /\ GatherInv /\ EarlyInv /\ CountedInv /\ [Next]_vars
          => IInv' /\ OrderInv' /\ GatherInv' /\ EarlyInv' /\ CountedInv'
  <2> SUFFICES ASSUME IInv, OrderInv, GatherInv, EarlyInv, CountedInv, [Next]_vars
               PROVE  IInv' /\ OrderInv' /\ GatherInv' /\ EarlyInv' /\ CountedInv'
    OBVIOUS
  <2>1. IInv' /\ OrderInv'
    BY Invariance, OrderStep
  <2>2. GatherInv' /\ EarlyInv'
    BY GatherStep DEF OrderInv
  <2>3. CountedInv'
    BY <2>1, CountedStep
  <2>4. QED
    BY <2>1, <2>2, <2>3
<1>4. IInv /\ CountedInv => CountedWhenSent
  <2> SUFFICES ASSUME IInv, CountedInv, NEW c \in Ranks
               PROVE  Cardinality(ImagesSent(c)) <=
                          num_frames_consumed[c]
                              + IF At("handled") \/ At("count") THEN 1 ELSE 0
    BY DEF CountedWhenSent
  <2>1. /\ num_frames_consumed[c] \in Nat /\ Cardinality(ImagesSent(c)) \in Nat
        /\ Cardinality(ImagesSent(c)) <= num_frames_consumed[c] + Owed(c)
    BY SentFinite DEF IInv, TypeOK, CountedInv
  <2>2. Owed(c) = 1 => At("handled") \/ At("count")
    BY DEF Owed, At
  <2>3. Owed(c) \in {0, 1}
    BY DEF Owed
  <2>4. QED
    BY <2>1, <2>2, <2>3
<1>5. Spec => [](IInv /\ OrderInv /\ GatherInv /\ EarlyInv /\ CountedInv)
  BY <1>1, <1>2, <1>3, Initially, PTL DEF Spec
<1>6. QED
  BY <1>4, <1>5, PTL
=================================================================================
