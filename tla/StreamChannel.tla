----------------------------- MODULE StreamChannel -----------------------------
(***************************************************************************)
(* What the broker promises to the thread that reads from it: a channel    *)
(* between the detector and the rx socket that loses, repeats and cuts no  *)
(* message.  Each of the parallel connections is first in first out;       *)
(* nothing is promised about the order of messages of different ones.      *)
(* Closing the rx socket discards what it has buffered, and parts may get  *)
(* lost from then on.                                                      *)
(***************************************************************************)
EXTENDS DetectorStream

CONSTANTS Workers, NoWorker

VARIABLES
    produced,  \* number of messages the detector has sent
    pending,   \* per connection, the parts the reader has not received
    reading,   \* the connection whose message the reader is in the middle of
    open       \* whether the rx socket is open

cvars == <<produced, pending, reading, open>>

Init ==
    /\ produced = 0
    /\ pending = [w \in Workers |-> <<>>]
    /\ reading = NoWorker
    /\ open = TRUE

\* The detector's PUSH socket picks a connection for a whole message.
Send(w) ==
    /\ produced < Len(Stream)
    /\ produced' = produced + 1
    /\ pending' = [pending EXCEPT ![w] = @ \o Parts(produced + 1)]
    /\ UNCHANGED <<reading, open>>

\* The reader gets the next part; a message it started comes to its end before
\* another connection has its turn.
Receive(w) ==
    /\ open
    /\ reading \in {NoWorker, w}
    /\ pending[w] # <<>>
    /\ pending' = [pending EXCEPT ![w] = Tail(@)]
    /\ reading' = IF Head(pending[w]).more THEN w ELSE NoWorker
    /\ UNCHANGED <<produced, open>>

Close ==
    /\ open
    /\ reading = NoWorker
    /\ open' = FALSE
    /\ pending' \in [Workers -> Seq(PartSet)]
    /\ \A w \in Workers : \E n \in 0 .. Len(pending[w]) :
           pending'[w] = SubSeq(pending[w], n + 1, Len(pending[w]))
    /\ UNCHANGED <<produced, reading>>

Lose(w) ==
    /\ ~open
    /\ pending[w] # <<>>
    /\ pending' = [pending EXCEPT ![w] = Tail(@)]
    /\ UNCHANGED <<produced, reading, open>>

Next == Close \/ \E w \in Workers : Send(w) \/ Receive(w) \/ Lose(w)

Spec == Init /\ [][Next]_cvars
=============================================================================
