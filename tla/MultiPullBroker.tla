---------------------------- MODULE MultiPullBroker ----------------------------
(***************************************************************************)
(* The MultiPullBroker of the EigerFan: worker threads that pull from the  *)
(* detector in parallel and forward part by part to the inproc rx socket   *)
(* (worker_loop), together with the life of the broker in its owner, the   *)
(* rx thread of the EigerFan: HandleRxSocket reads messages until a kill,  *)
(* closes the socket and shuts the broker down, while the main thread may  *)
(* already run the broker's destructor.                                    *)
(*                                                                         *)
(* The zeromq sockets are external.  Of them the model keeps: a message    *)
(* reaches a PULL socket as a whole; a pipe is first in first out; send    *)
(* blocks at the high water mark of complete messages, and for ever at the *)
(* first part of a message when the peer has closed, while the remaining   *)
(* parts of a message begun before are dropped.                            *)
(***************************************************************************)
EXTENDS DetectorStream, FiniteSets

CONSTANTS
    Workers,    \* the threads spawned by connect()
    NoWorker,
    HWM         \* complete messages a pipe to the rx socket holds

ASSUME BrokerAssumption ==
    NoWorker \notin Workers /\ IsFiniteSet(Workers) /\ HWM \in Nat \ {0}

VARIABLES
    produced,           \* number of messages the detector has sent
    source,             \* per worker, the parts queued at its source_socket
    hand,               \* per worker, << >> or the part held in message
    pc,                 \* per worker, where its worker_loop is
    pipe,               \* per worker, the parts sent by sink_socket, not yet read
    messages_received,  \* the atomic counter shared by the workers
    shutdown_requested,
    killRequested,      \* set by the EigerFan's main thread
    rxpc,               \* where HandleRxSocket is
    reading,            \* the worker whose multipart message rx is reading
    dtpc                \* where the main thread is in ~MultiPullBroker

wvars == <<source, hand, pc>>
ovars == <<killRequested, rxpc, reading, dtpc>>
vars == <<produced, pipe, messages_received, shutdown_requested, wvars, ovars>>

Init ==
    /\ produced = 0
    /\ source = [w \in Workers |-> <<>>]
    /\ hand = [w \in Workers |-> <<>>]
    /\ pc = [w \in Workers |-> "check"]
    /\ pipe = [w \in Workers |-> <<>>]
    /\ messages_received = 0
    /\ shutdown_requested = FALSE
    /\ killRequested = FALSE
    /\ rxpc = "loop"
    /\ reading = NoWorker
    /\ dtpc = "running"

-----------------------------------------------------------------------------
(***************************************************************************)
(* The detector                                                            *)
(***************************************************************************)
Send(w) ==
    /\ produced < Len(Stream)
    /\ produced' = produced + 1
    /\ source' = [source EXCEPT ![w] = @ \o Parts(produced + 1)]
    /\ UNCHANGED <<hand, pc, pipe, messages_received, shutdown_requested, ovars>>

-----------------------------------------------------------------------------
(***************************************************************************)
(* A worker thread                                                         *)
(***************************************************************************)
RxOpen == rxpc \in {"loop", "poll", "counter", "close"}

Complete(parts) == Cardinality({i \in 1 .. Len(parts) : ~parts[i].more})

\* while (!shutdown_requested_); a worker that leaves closes its sockets.
WorkerCheck(w) ==
    /\ pc[w] = "check"
    /\ pc' = [pc EXCEPT ![w] = IF shutdown_requested THEN "done" ELSE "poll"]
    /\ UNCHANGED <<produced, source, hand, pipe, messages_received,
                   shutdown_requested, ovars>>

\* A worker that gave up when the detector paused, and the code.
LeaveAtTimeout == "done"
AfterTimeout == "check"

\* poll() timed out: leave the inner loop, whatever was expected.
WorkerTimeout(w) ==
    /\ pc[w] = "poll"
    /\ source[w] = <<>>
    /\ pc' = [pc EXCEPT ![w] = AfterTimeout]
    /\ UNCHANGED <<produced, source, hand, pipe, messages_received,
                   shutdown_requested, ovars>>

WorkerRecv(w) ==
    /\ pc[w] = "poll"
    /\ source[w] # <<>>
    /\ hand' = [hand EXCEPT ![w] = <<Head(source[w])>>]
    /\ source' = [source EXCEPT ![w] = Tail(@)]
    /\ pc' = [pc EXCEPT ![w] = "send"]
    /\ UNCHANGED <<produced, pipe, messages_received, shutdown_requested, ovars>>

\* What arrives at the rx socket for a part: SNDMORE is given exactly when the
\* part had RCVMORE.  The mutant forgets the flag.
ForwardedAlone(part) == [part EXCEPT !.more = FALSE]
Forwarded(part) == part

\* Where the loop goes after a send: back for the next part or, after the last
\* one, on to the count.  The mutants count every part and resend.
CountEveryPart(part) == "count"
SendAgain(part) == IF part.more THEN "send" ELSE "count"
AfterSend(part) == IF part.more THEN "poll" ELSE "count"

CanSend(w) ==
    \/ hand[w][1].part > 1
    \/ RxOpen /\ Complete(pipe[w]) < HWM

WorkerSend(w) ==
    /\ pc[w] = "send"
    /\ CanSend(w)
    /\ pipe' = IF RxOpen
               THEN [pipe EXCEPT ![w] = Append(@, Forwarded(hand[w][1]))]
               ELSE pipe
    /\ hand' = [hand EXCEPT ![w] = <<>>]
    /\ pc' = [pc EXCEPT ![w] = AfterSend(hand[w][1])]
    /\ UNCHANGED <<produced, source, messages_received, shutdown_requested, ovars>>

\* ++messages_received_ happens after the last part is out.
WorkerCount(w) ==
    /\ pc[w] = "count"
    /\ messages_received' = messages_received + 1
    /\ pc' = [pc EXCEPT ![w] = "check"]
    /\ UNCHANGED <<produced, source, hand, pipe, shutdown_requested, ovars>>

Worker(w) ==
    \/ WorkerCheck(w) \/ WorkerTimeout(w) \/ WorkerRecv(w)
    \/ WorkerSend(w) \/ WorkerCount(w)

-----------------------------------------------------------------------------
(***************************************************************************)
(* The rx thread                                                           *)
(***************************************************************************)
RxCheck ==
    /\ rxpc = "loop"
    /\ rxpc' = IF killRequested THEN "close" ELSE "poll"
    /\ UNCHANGED <<produced, pipe, messages_received, shutdown_requested, wvars,
                   killRequested, reading, dtpc>>

\* poll() and recv(), or a further recv() of the handler: a pipe is readable
\* when it holds a complete message.
RxRecv(w) ==
    /\ rxpc = "poll"
    /\ reading \in {NoWorker, w}
    /\ Complete(pipe[w]) > 0
    /\ LET part == Head(pipe[w]) IN
           /\ reading' = IF part.more THEN w ELSE NoWorker
           /\ rxpc' = CASE part.part = 1 /\ Stream[part.msg].kind = "header"
                             -> "counter"
                        [] part.more -> "poll"
                        [] OTHER -> "loop"
    /\ pipe' = [pipe EXCEPT ![w] = Tail(@)]
    /\ UNCHANGED <<produced, messages_received, shutdown_requested, wvars,
                   killRequested, dtpc>>

\* HandleStreamMessage calls start_message_counter() on a header's first part.
RxStartCounter ==
    /\ rxpc = "counter"
    /\ messages_received' = 1
    /\ rxpc' = IF reading = NoWorker THEN "loop" ELSE "poll"
    /\ UNCHANGED <<produced, pipe, shutdown_requested, wvars,
                   killRequested, reading, dtpc>>

\* rx_socket.close(): what the pipes hold is lost.
RxClose ==
    /\ rxpc = "close"
    /\ pipe' = [w \in Workers |-> <<>>]
    /\ rxpc' = "shutdown"
    /\ UNCHANGED <<produced, messages_received, shutdown_requested, wvars,
                   killRequested, reading, dtpc>>

\* join() on a thread returns once it has ended, to both of two callers (as
\* boost::thread does).  The mutant waits for one thread only.
JoinedFirst == \E w \in Workers : pc[w] = "done"
Joined == \A w \in Workers : pc[w] = "done"

\* shutdown() tests the plain bool and sets it in two statements, so that both
\* of its callers may pass the test and join the same threads.
RxShutdownTest ==
    /\ rxpc = "shutdown"
    /\ rxpc' = IF shutdown_requested THEN "done" ELSE "set"
    /\ UNCHANGED <<produced, pipe, messages_received, shutdown_requested, wvars,
                   killRequested, reading, dtpc>>

RxShutdownSet ==
    /\ rxpc = "set"
    /\ shutdown_requested' = TRUE
    /\ rxpc' = "join"
    /\ UNCHANGED <<produced, pipe, messages_received, wvars,
                   killRequested, reading, dtpc>>

RxJoin ==
    /\ rxpc = "join"
    /\ Joined
    /\ rxpc' = "done"
    /\ UNCHANGED <<produced, pipe, messages_received, shutdown_requested, wvars,
                   killRequested, reading, dtpc>>

Rx ==
    \/ RxCheck \/ RxStartCounter \/ RxClose
    \/ RxShutdownTest \/ RxShutdownSet \/ RxJoin
    \/ \E w \in Workers : RxRecv(w)

-----------------------------------------------------------------------------
(***************************************************************************)
(* The main thread: Stop(), then, after run() returned, the destructor     *)
(***************************************************************************)
RequestKill ==
    /\ ~killRequested
    /\ killRequested' = TRUE
    /\ UNCHANGED <<produced, pipe, messages_received, shutdown_requested, wvars,
                   rxpc, reading, dtpc>>

DestructorTest ==
    /\ killRequested
    /\ dtpc = "running"
    /\ dtpc' = IF shutdown_requested THEN "done" ELSE "set"
    /\ UNCHANGED <<produced, pipe, messages_received, shutdown_requested, wvars,
                   killRequested, rxpc, reading>>

DestructorSet ==
    /\ dtpc = "set"
    /\ shutdown_requested' = TRUE
    /\ dtpc' = "join"
    /\ UNCHANGED <<produced, pipe, messages_received, wvars,
                   killRequested, rxpc, reading>>

DestructorJoin ==
    /\ dtpc = "join"
    /\ Joined
    /\ dtpc' = "done"
    /\ UNCHANGED <<produced, pipe, messages_received, shutdown_requested, wvars,
                   killRequested, rxpc, reading>>

Main == DestructorTest \/ DestructorSet \/ DestructorJoin

-----------------------------------------------------------------------------
Next ==
    \/ \E w \in Workers : Send(w) \/ Worker(w)
    \/ Rx
    \/ RequestKill \/ Main

Spec == Init /\ [][Next]_vars

\* The operating system runs every thread; nobody has to send or to kill.
Fairness == WF_vars(Rx) /\ WF_vars(Main) /\ \A w \in Workers : WF_vars(Worker(w))

FairSpec == Spec /\ Fairness

-----------------------------------------------------------------------------
(***************************************************************************)
(* Properties                                                              *)
(***************************************************************************)
WorkerPcs == {"check", "poll", "send", "count", "done"}
RxPcs == {"loop", "poll", "counter", "close", "shutdown", "set", "join", "done"}

TypeOK ==
    /\ produced \in 0 .. Len(Stream)
    /\ source \in [Workers -> Seq(PartSet)]
    /\ hand \in [Workers -> Seq(PartSet)]
    /\ pc \in [Workers -> WorkerPcs]
    /\ \A w \in Workers : Len(hand[w]) = IF pc[w] = "send" THEN 1 ELSE 0
    /\ pipe \in [Workers -> Seq(PartSet)]
    /\ messages_received \in Nat
    /\ shutdown_requested \in BOOLEAN
    /\ killRequested \in BOOLEAN
    /\ rxpc \in RxPcs
    /\ reading \in Workers \cup {NoWorker}
    /\ dtpc \in {"running", "set", "join", "done"}

\* What rx has not read of worker w's messages, oldest first: the parts in the
\* pipe, the one the worker holds, those it has not pulled yet.
Unread(w) == pipe[w] \o hand[w] \o source[w]

Channel == INSTANCE StreamChannel WITH
    pending <- [w \in Workers |-> Unread(w)],
    open <- RxOpen

\* The broker is a channel that loses, repeats, cuts and merges no message and
\* keeps each worker's messages in order, until the rx socket closes
\* (worker_loop, MultiPullBroker.cpp:79-103: the SNDMORE flag follows RCVMORE).
ImplementsChannel == Channel!Spec

\* Messages that have left their worker, in the pipe or lost after the close.
Completed == produced - Cardinality({m \in MsgIds : \E w \in Workers :
                  \E i \in 1 .. Len(hand[w] \o source[w]) :
                      (hand[w] \o source[w])[i].msg = m})

\* An upper bound: messages_received() overstates the messages forwarded by at
\* most one (it may understate them by as many as the header overtakes): the
\* header, counted once by start_message_counter() and once by a worker that
\* increments after rx already handled it (MultiPullBroker.cpp:98-99, 113).
CountsAtMostOneTwice ==
    messages_received
        + Cardinality({w \in Workers : pc[w] = "count"}) <= Completed + 1

\* Once both the rx thread and the destructor have come back from shutdown()
\* no worker is left running on the broker's members, whichever of them saw
\* the flag and also when neither did and both join the same threads
\* (MultiPullBroker.cpp:127-136).
SomebodyJoined ==
    rxpc = "done" /\ dtpc = "done" => \A w \in Workers : pc[w] = "done"

\* A worker leaves only between messages: a multipart message it began to
\* forward is never left unfinished by a shutdown (the flag is tested in the
\* outer loop of MultiPullBroker.cpp:79 only).
NothingHalfForwarded ==
    \A w \in Workers : RxOpen /\ pc[w] \in {"check", "done"} =>
        pipe[w] = <<>> \/ ~pipe[w][Len(pipe[w])].more

\* Every message a connection carries is read by the rx thread in the end,
\* unless the fan is killed (poll(-1) at EigerFan.cpp:375 wakes for each).
EverythingRead ==
    \A w \in Workers : Unread(w) # <<>> ~> Unread(w) = <<>> \/ killRequested

\* "Request to stop worker threads and shutdown" (MultiPullBroker.cpp:125): the
\* workers stop once they have been asked to.
ShutdownStopsWorkers == shutdown_requested ~> Joined
=============================================================================
