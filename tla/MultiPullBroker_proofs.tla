----------------------- MODULE MultiPullBroker_proofs -----------------------
(***************************************************************************)
(* For every number of workers, high water mark and stream of messages:    *)
(* the broker implements StreamChannel, somebody joins the workers, no     *)
(* message is left half forwarded by a worker that leaves, and the workers *)
(* count at most one message twice.                                        *)
(***************************************************************************)
EXTENDS MultiPullBroker, SequenceTheorems, FiniteSetTheorems, TLAPS

-----------------------------------------------------------------------------
(***************************************************************************)
(* Sequences of parts                                                      *)
(***************************************************************************)

\* The sequence does not stop in the middle of a message.
EndsWhole(parts) == parts = <<>> \/ ~parts[Len(parts)].more

LEMMA PartsOfMessage ==
    ASSUME NEW m \in MsgIds
    PROVE  /\ Parts(m) \in Seq(PartSet)
           /\ Parts(m) # <<>>
           /\ EndsWhole(Parts(m))
<1>1. Stream[m] \in MessageSet
  BY StreamAssumption, ElementOfSeq DEF MsgIds
<1>2. Stream[m].parts \in Nat \ {0}
  BY <1>1 DEF MessageSet
<1> DEFINE n == Stream[m].parts
           part(p) == [msg |-> m, part |-> p, more |-> p < n]
<1>3. \A p \in 1 .. n : part(p) \in PartSet
  BY <1>2 DEF PartSet
<1> HIDE DEF n
<1>4. Parts(m) = [p \in 1 .. n |-> part(p)]
  BY DEF Parts, n
<1>5. n \in Nat \ {0}
  BY <1>2 DEF n
<1>6. Parts(m) \in Seq(PartSet)
  BY <1>3, <1>4, <1>5
<1>7. Len(Parts(m)) = n
  BY <1>4, <1>5
<1>8. ~Parts(m)[n].more
  <2>1. Parts(m)[n] = part(n)
    BY <1>4, <1>5
  <2>2. part(n).more = (n < n)
    OBVIOUS
  <2>3. ~(n < n)
    BY <1>5
  <2>4. QED
    BY <2>1, <2>2, <2>3
<1>9. QED
  BY <1>5, <1>6, <1>7, <1>8 DEF EndsWhole

\* The library's facts, for sequences of parts.
LEMMA ConcatParts ==
    \A s, t \in Seq(PartSet) : s \o t \in Seq(PartSet)
  BY ConcatProperties

LEMMA RegroupParts ==
    \A s, t, u \in Seq(PartSet) : (s \o t) \o u = s \o (t \o u)
  BY ConcatAssociative

LEMMA SinglePart ==
    ASSUME NEW e \in PartSet
    PROVE  /\ <<e>> \in Seq(PartSet)
           /\ <<e>> # <<>>
           /\ Head(<<e>>) = e
           /\ Tail(<<e>>) = <<>>
<1>1. <<e>> \in Seq(PartSet) /\ Len(<<e>>) = 1 /\ <<e>> # <<>>
  OBVIOUS
<1>2. Tail(<<e>>) \in Seq(PartSet) /\ Len(Tail(<<e>>)) = 0
  BY <1>1, HeadTailProperties
<1>3. Tail(<<e>>) = <<>>
  BY <1>2, EmptySeq
<1>4. QED
  BY <1>1, <1>3

LEMMA EndsWholeConcat ==
    ASSUME NEW s \in Seq(PartSet), NEW t \in Seq(PartSet)
    PROVE  /\ t # <<>> => (EndsWhole(s \o t) <=> EndsWhole(t))
           /\ t = <<>> => s \o t = s
<1>1. CASE t = <<>>
  BY <1>1, ConcatEmptySeq
<1>2. CASE t # <<>>
  <2>1. Len(t) \in Nat \ {0} /\ Len(s) \in Nat
    BY <1>2, EmptySeq, LenProperties
  <2>2. /\ Len(s \o t) = Len(s) + Len(t)
        /\ (s \o t)[Len(s) + Len(t)] = t[Len(t)]
    BY <2>1, ConcatProperties
  <2>3. s \o t # <<>>
    BY <2>1, <2>2
  <2>4. QED
    BY <1>2, <2>2, <2>3 DEF EndsWhole
<1>3. QED
  BY <1>1, <1>2

LEMMA EndsWholeTail ==
    ASSUME NEW s \in Seq(PartSet), s # <<>>, EndsWhole(s)
    PROVE  EndsWhole(Tail(s))
<1>1. Len(s) \in Nat \ {0}
  BY EmptySeq
<1>2. Len(Tail(s)) = Len(s) - 1
      /\ \A i \in 1 .. Len(Tail(s)) : Tail(s)[i] = s[i + 1]
      /\ Tail(s) \in Seq(PartSet)
  BY HeadTailProperties
<1>3. CASE Len(s) = 1
  <2>0. Tail(s) \in Seq(PartSet) /\ Len(Tail(s)) = 0
    BY <1>2, <1>3
  <2>1. Tail(s) = <<>>
    BY <2>0, EmptySeq
  <2>2. QED
    BY <2>1 DEF EndsWhole
<1>4. CASE Len(s) > 1
  <2>1. Tail(s)[Len(s) - 1] = s[Len(s)]
    BY <1>1, <1>2, <1>4
  <2>2. QED
    BY <1>2, <2>1 DEF EndsWhole
<1>5. Len(s) = 1 \/ Len(s) > 1
  <2>1. \A n \in Nat \ {0} : n = 1 \/ n > 1
    OBVIOUS
  <2>2. QED
    BY <1>1, <2>1, Zenon
<1>6. QED
  BY <1>3, <1>4, <1>5

LEMMA TailOfConcat ==
    ASSUME NEW s \in Seq(PartSet), NEW t \in Seq(PartSet), s # <<>>
    PROVE  /\ s \o t # <<>>
           /\ Head(s \o t) = Head(s)
           /\ Tail(s \o t) = Tail(s) \o t
<1>1. Len(s) \in Nat \ {0} /\ Len(t) \in Nat
  BY EmptySeq, LenProperties
<1>2. /\ s \o t \in Seq(PartSet)
      /\ Len(s \o t) = Len(s) + Len(t)
      /\ \A i \in 1 .. Len(s) + Len(t) : (s \o t)[i] =
               IF i <= Len(s) THEN s[i] ELSE t[i - Len(s)]
  BY ConcatProperties
<1>3. s \o t # <<>>
  BY <1>1, <1>2
<1>4. Head(s \o t) = Head(s)
  BY <1>1, <1>2, <1>3
<1>5. /\ Tail(s) \in Seq(PartSet)
      /\ Len(Tail(s)) = Len(s) - 1
      /\ \A i \in 1 .. Len(Tail(s)) : Tail(s)[i] = s[i + 1]
  BY HeadTailProperties
<1>6. /\ Tail(s \o t) \in Seq(PartSet)
      /\ Len(Tail(s \o t)) = Len(s \o t) - 1
      /\ \A i \in 1 .. Len(Tail(s \o t)) : Tail(s \o t)[i] = (s \o t)[i + 1]
  BY <1>2, <1>3, HeadTailProperties
<1>7. /\ Tail(s) \o t \in Seq(PartSet)
      /\ Len(Tail(s) \o t) = Len(Tail(s)) + Len(t)
      /\ \A i \in 1 .. Len(Tail(s)) + Len(t) : (Tail(s) \o t)[i] =
               IF i <= Len(Tail(s)) THEN Tail(s)[i] ELSE t[i - Len(Tail(s))]
  BY <1>5, ConcatProperties
<1>8. Len(Tail(s \o t)) = Len(Tail(s) \o t)
  BY <1>1, <1>2, <1>5, <1>6, <1>7
<1>9. ASSUME NEW i \in 1 .. Len(Tail(s \o t))
      PROVE  Tail(s \o t)[i] = (Tail(s) \o t)[i]
  <2>1. i + 1 \in 1 .. Len(s) + Len(t) /\ i \in 1 .. Len(Tail(s)) + Len(t)
    BY <1>1, <1>2, <1>5, <1>6
  <2>2. Tail(s \o t)[i] = IF i + 1 <= Len(s) THEN s[i + 1] ELSE t[(i + 1) - Len(s)]
    BY <1>2, <1>6, <2>1
  <2>3. CASE i + 1 <= Len(s)
    BY <2>1, <2>2, <2>3, <1>1, <1>5, <1>7
  <2>4. CASE ~(i + 1 <= Len(s))
    <3>1. (Tail(s) \o t)[i] = t[i - Len(Tail(s))]
      BY <2>1, <2>4, <1>1, <1>5, <1>7
    <3>2. i - Len(Tail(s)) = (i + 1) - Len(s)
      BY <1>1, <1>5
    <3>3. QED
      BY <3>1, <3>2, <2>2, <2>4
  <2>5. QED
    BY <2>3, <2>4
<1>10. Tail(s \o t) = Tail(s) \o t
  BY <1>6, <1>7, <1>8, <1>9, SeqEqual
<1>11. QED
  BY <1>3, <1>4, <1>10

\* A sequence is its head followed by its tail.
LEMMA HeadThenTail ==
    ASSUME NEW s \in Seq(PartSet), s # <<>>
    PROVE  <<Head(s)>> \o Tail(s) = s
<1>1. Len(s) \in Nat \ {0}
  BY EmptySeq
<1>2. Head(s) \in PartSet /\ Tail(s) \in Seq(PartSet)
  BY HeadTailProperties
<1>3. Head(s) = s[1]
  OBVIOUS
<1>4. Tail(s) = SubSeq(s, 2, Len(s))
  BY TailIsSubSeq
<1>5. SubSeq(s, 1, Len(s)) = <<s[1]>> \o SubSeq(s, 1 + 1, Len(s))
  BY <1>1, SubSeqRecursiveFirst
<1>6. SubSeq(s, 1, Len(s)) = s
  BY SubSeqFull
<1>7. QED
  BY <1>3, <1>4, <1>5, <1>6

\* A sequence without parts holds no complete message.
LEMMA CompleteOfEmpty == Complete(<<>>) = 0
<1>1. {i \in 1 .. Len(<<>>) : ~<<>>[i].more} = {}
  BY Len(<<>>) = 0
<1>2. QED
  BY <1>1, FS_EmptySet DEF Complete

-----------------------------------------------------------------------------
(***************************************************************************)
(* The inductive invariant                                                 *)
(***************************************************************************)

\* The rx thread is inside a message only while it polls or handles a header;
\* after the close the pipes stay empty.
ReaderInv ==
    /\ rxpc \notin {"poll", "counter"} => reading = NoWorker
    /\ ~RxOpen => \A w \in Workers : pipe[w] = <<>>

\* While rx is open each connection carries whole messages, and a worker
\* outside its inner loop has completed the last one it forwarded.
WholeInv ==
    RxOpen => \A w \in Workers :
        /\ EndsWhole(Unread(w))
        /\ pc[w] \in {"check", "count", "done"} => EndsWhole(pipe[w])

\* Whoever finds the flag set leaves the join to one that has set it, who does
\* nothing in between.
JoinInv ==
    /\ rxpc \in {"join", "done"} \/ dtpc \in {"join", "done"} => shutdown_requested
    /\ shutdown_requested =>
          rxpc = "join" \/ dtpc = "join" \/ \A w \in Workers : pc[w] = "done"

IInv == TypeOK /\ ReaderInv /\ WholeInv /\ JoinInv

\* What the proofs below use of the types of one worker.
LEMMA WorkerTypes ==
    ASSUME TypeOK, NEW w \in Workers
    PROVE  /\ source[w] \in Seq(PartSet) /\ hand[w] \in Seq(PartSet)
           /\ pipe[w] \in Seq(PartSet)
           /\ pc[w] # "send" => hand[w] = <<>>
           /\ pc[w] = "send" => hand[w][1] \in PartSet /\ hand[w] = <<hand[w][1]>>
<1>1. /\ source[w] \in Seq(PartSet) /\ hand[w] \in Seq(PartSet)
      /\ pipe[w] \in Seq(PartSet)
      /\ Len(hand[w]) = IF pc[w] = "send" THEN 1 ELSE 0
  BY DEF TypeOK
<1>2. pc[w] # "send" => hand[w] = <<>>
  <2>1. pc[w] # "send" => Len(hand[w]) = 0
    BY <1>1
  <2>2. QED
    BY <2>1, <1>1, EmptySeq
<1>3. ASSUME pc[w] = "send"
      PROVE  hand[w][1] \in PartSet /\ hand[w] = <<hand[w][1]>>
  <2>1. Len(hand[w]) = 1
    BY <1>1, <1>3
  <2>2. hand[w][1] \in PartSet
    BY <2>1, <1>1, ElementOfSeq
  <2>3. QED
    BY <2>1, <2>2, <1>1
<1>4. QED
  BY <1>1, <1>2, <1>3

\* A readable pipe is not empty.
LEMMA ReadablePipe ==
    ASSUME NEW w \in Workers, Complete(pipe[w]) > 0
    PROVE  pipe[w] # <<>>
  BY CompleteOfEmpty

-----------------------------------------------------------------------------
(***************************************************************************)
(* Types                                                                   *)
(***************************************************************************)
LEMMA TypeInit == Init => TypeOK
<1> SUFFICES ASSUME Init PROVE TypeOK
  OBVIOUS
<1>1. Len(Stream) \in Nat /\ produced \in 0 .. Len(Stream)
  BY StreamAssumption, LenProperties DEF Init
<1>2. <<>> \in Seq(PartSet) /\ Len(<<>>) = 0
  BY EmptySeq
<1>3. /\ source \in [Workers -> Seq(PartSet)]
      /\ hand \in [Workers -> Seq(PartSet)]
      /\ pipe \in [Workers -> Seq(PartSet)]
      /\ pc \in [Workers -> WorkerPcs]
  BY <1>2 DEF Init, WorkerPcs
<1>4. \A w \in Workers : Len(hand[w]) = IF pc[w] = "send" THEN 1 ELSE 0
  BY <1>2 DEF Init
<1>5. QED
  BY <1>1, <1>3, <1>4 DEF Init, TypeOK, RxPcs

LEMMA SendTypes ==
    ASSUME TypeOK, NEW w \in Workers, Send(w)
    PROVE  TypeOK'
<1>1. produced + 1 \in MsgIds /\ produced' \in 0 .. Len(Stream)
  BY StreamAssumption, LenProperties DEF TypeOK, Send, MsgIds
<1>2. source[w] \o Parts(produced + 1) \in Seq(PartSet)
  BY <1>1, PartsOfMessage, ConcatProperties DEF TypeOK
<1>3. source' \in [Workers -> Seq(PartSet)]
  BY <1>2 DEF TypeOK, Send
<1>4. QED
  BY <1>1, <1>3 DEF TypeOK, Send, ovars

LEMMA WorkerTypesNext ==
    ASSUME TypeOK, NEW w \in Workers, Worker(w)
    PROVE  TypeOK'
<1>1. CASE WorkerCheck(w)
  BY <1>1 DEF TypeOK, WorkerCheck, ovars, WorkerPcs
<1>2. CASE WorkerTimeout(w)
  BY <1>2 DEF TypeOK, WorkerTimeout, AfterTimeout, ovars, WorkerPcs
<1>3. CASE WorkerRecv(w)
  <2>1. Head(source[w]) \in PartSet /\ Tail(source[w]) \in Seq(PartSet)
    BY <1>3, HeadTailProperties DEF WorkerRecv, TypeOK
  <2>2. <<Head(source[w])>> \in Seq(PartSet) /\ Len(<<Head(source[w])>>) = 1
    BY <2>1
  <2>3. /\ source' \in [Workers -> Seq(PartSet)]
        /\ hand' \in [Workers -> Seq(PartSet)]
        /\ pc' \in [Workers -> WorkerPcs]
    BY <1>3, <2>1, <2>2 DEF TypeOK, WorkerRecv, WorkerPcs
  <2>4. \A v \in Workers : Len(hand'[v]) = IF pc'[v] = "send" THEN 1 ELSE 0
    BY <1>3, <2>2 DEF TypeOK, WorkerRecv
  <2>5. QED
    BY <1>3, <2>3, <2>4 DEF TypeOK, WorkerRecv, ovars
<1>4. CASE WorkerSend(w)
  <2>1. hand[w][1] \in PartSet /\ pipe[w] \in Seq(PartSet)
    BY <1>4, WorkerTypes DEF WorkerSend
  <2>2. Append(pipe[w], hand[w][1]) \in Seq(PartSet)
    BY <2>1, AppendProperties
  <2>3. pipe' \in [Workers -> Seq(PartSet)]
    BY <1>4, <2>2 DEF TypeOK, WorkerSend, Forwarded
  <2>4. /\ hand' \in [Workers -> Seq(PartSet)]
        /\ pc' \in [Workers -> WorkerPcs]
        /\ pc'[w] # "send"
    BY <1>4, EmptySeq DEF TypeOK, WorkerSend, AfterSend, WorkerPcs
  <2>5. \A v \in Workers : Len(hand'[v]) = IF pc'[v] = "send" THEN 1 ELSE 0
    BY <1>4, <2>4, EmptySeq DEF TypeOK, WorkerSend
  <2>6. QED
    BY <1>4, <2>3, <2>4, <2>5 DEF TypeOK, WorkerSend, ovars
<1>5. CASE WorkerCount(w)
  BY <1>5 DEF TypeOK, WorkerCount, ovars, WorkerPcs
<1>6. QED
  BY <1>1, <1>2, <1>3, <1>4, <1>5 DEF Worker

LEMMA RxTypes ==
    ASSUME TypeOK, Rx
    PROVE  TypeOK'
<1>1. CASE RxCheck
  BY <1>1 DEF TypeOK, RxCheck, wvars, RxPcs
<1>2. ASSUME NEW w \in Workers, RxRecv(w) PROVE TypeOK'
  <2>1. Tail(pipe[w]) \in Seq(PartSet)
    BY <1>2, ReadablePipe, HeadTailProperties DEF RxRecv, TypeOK
  <2>2. pipe' \in [Workers -> Seq(PartSet)]
    BY <1>2, <2>1 DEF RxRecv, TypeOK
  <2>3. rxpc' \in RxPcs /\ reading' \in Workers \cup {NoWorker}
    BY <1>2 DEF RxRecv, RxPcs
  <2>4. QED
    BY <1>2, <2>2, <2>3 DEF RxRecv, TypeOK, wvars
<1>3. CASE RxStartCounter
  BY <1>3 DEF TypeOK, RxStartCounter, wvars, RxPcs
<1>4. CASE RxClose
  BY <1>4, EmptySeq DEF TypeOK, RxClose, wvars, RxPcs
<1>5. CASE RxShutdownTest \/ RxShutdownSet
  BY <1>5 DEF TypeOK, RxShutdownTest, RxShutdownSet, wvars, RxPcs
<1>6. CASE RxJoin
  BY <1>6 DEF TypeOK, RxJoin, wvars, RxPcs
<1>7. QED
  BY <1>1, <1>2, <1>3, <1>4, <1>5, <1>6 DEF Rx

LEMMA TypeNext == TypeOK /\ [Next]_vars => TypeOK'
<1> SUFFICES ASSUME TypeOK, [Next]_vars PROVE TypeOK'
  OBVIOUS
<1>1. CASE \E w \in Workers : Send(w) \/ Worker(w)
  BY <1>1, SendTypes, WorkerTypesNext
<1>2. CASE Rx
  BY <1>2, RxTypes
<1>3. CASE RequestKill
  BY <1>3 DEF TypeOK, RequestKill, wvars
<1>4. CASE Main
  BY <1>4 DEF TypeOK, Main, DestructorTest, DestructorSet, DestructorJoin, wvars
<1>5. CASE UNCHANGED vars
  BY <1>5 DEF TypeOK, vars, wvars, ovars
<1>6. QED
  BY <1>1, <1>2, <1>3, <1>4, <1>5 DEF Next

\* Every variable of the broker keeps its type, for every stream.
THEOREM TypeCorrect == Spec => []TypeOK
  BY TypeInit, TypeNext, PTL DEF Spec

-----------------------------------------------------------------------------
(***************************************************************************)
(* What each action does to the unread parts                               *)
(***************************************************************************)
LEMMA UnreadType ==
    ASSUME TypeOK, NEW w \in Workers
    PROVE  /\ Unread(w) \in Seq(PartSet)
           /\ Unread(w) = pipe[w] \o (hand[w] \o source[w])
           /\ hand[w] \o source[w] \in Seq(PartSet)
<1>1. /\ pipe[w] \in Seq(PartSet) /\ hand[w] \in Seq(PartSet)
      /\ source[w] \in Seq(PartSet)
  BY WorkerTypes
<1>2. hand[w] \o source[w] \in Seq(PartSet)
  BY <1>1, ConcatParts
<1>3. (pipe[w] \o hand[w]) \o source[w] = pipe[w] \o (hand[w] \o source[w])
  BY <1>1, RegroupParts
<1>4. pipe[w] \o (hand[w] \o source[w]) \in Seq(PartSet)
  BY <1>1, <1>2, ConcatParts
<1>5. QED
  BY <1>2, <1>3, <1>4 DEF Unread

LEMMA SendUnread ==
    ASSUME TypeOK, NEW w \in Workers, Send(w)
    PROVE  /\ Unread(w)' = Unread(w) \o Parts(produced + 1)
           /\ \A v \in Workers \ {w} : Unread(v)' = Unread(v)
<1>1. produced + 1 \in MsgIds
  BY StreamAssumption, LenProperties DEF TypeOK, Send, MsgIds
<1> DEFINE s == Parts(produced + 1)
<1>2. s \in Seq(PartSet)
  BY <1>1, PartsOfMessage
<1> HIDE DEF s
<1>3. source'[w] = source[w] \o s /\ UNCHANGED <<hand, pipe>>
  BY DEF Send, TypeOK, s
<1>4. (pipe[w] \o hand[w]) \in Seq(PartSet) /\ source[w] \in Seq(PartSet)
  BY WorkerTypes, ConcatProperties
<1>5. ((pipe[w] \o hand[w]) \o source[w]) \o s
         = (pipe[w] \o hand[w]) \o (source[w] \o s)
  BY <1>2, <1>4, RegroupParts
<1>6. \A v \in Workers \ {w} : Unread(v)' = Unread(v)
  BY <1>3 DEF Send, TypeOK, Unread
<1>7. QED
  BY <1>3, <1>5, <1>6 DEF Unread, s

LEMMA PullUnread ==
    ASSUME TypeOK, NEW w \in Workers, WorkerRecv(w)
    PROVE  \A v \in Workers : Unread(v)' = Unread(v)
<1>1. /\ hand[w] = <<>> /\ source[w] # <<>>
      /\ pipe[w] \in Seq(PartSet) /\ source[w] \in Seq(PartSet)
  BY WorkerTypes DEF WorkerRecv
<1>2. /\ hand'[w] = <<Head(source[w])>>
      /\ source'[w] = Tail(source[w])
      /\ pipe' = pipe
  BY DEF WorkerRecv, TypeOK
<1>3. /\ <<Head(source[w])>> \in Seq(PartSet) /\ Tail(source[w]) \in Seq(PartSet)
      /\ <<Head(source[w])>> \o Tail(source[w]) = source[w]
  BY <1>1, HeadTailProperties, HeadThenTail
<1>4. Unread(w)' = pipe[w] \o source[w]
  <2>1. Unread(w)' = (pipe[w] \o <<Head(source[w])>>) \o Tail(source[w])
    BY <1>2 DEF Unread
  <2>2. @ = pipe[w] \o (<<Head(source[w])>> \o Tail(source[w]))
    BY <1>1, <1>3, RegroupParts
  <2>3. QED
    BY <2>1, <2>2, <1>3
<1>5. Unread(w) = pipe[w] \o source[w]
  BY <1>1, ConcatEmptySeq DEF Unread
<1>6. \A v \in Workers \ {w} : Unread(v)' = Unread(v)
  BY DEF WorkerRecv, TypeOK, Unread
<1>7. QED
  BY <1>4, <1>5, <1>6

LEMMA ForwardUnread ==
    ASSUME TypeOK, ReaderInv, NEW w \in Workers, WorkerSend(w)
    PROVE  /\ RxOpen => Unread(w)' = Unread(w)
           /\ ~RxOpen => Unread(w) # <<>> /\ Unread(w)' = Tail(Unread(w))
           /\ \A v \in Workers \ {w} : Unread(v)' = Unread(v)
<1>1. /\ hand[w][1] \in PartSet /\ hand[w] = <<hand[w][1]>>
      /\ pipe[w] \in Seq(PartSet) /\ hand[w] \in Seq(PartSet)
      /\ source[w] \in Seq(PartSet)
  BY WorkerTypes DEF WorkerSend
<1>2. source' = source /\ hand'[w] = <<>>
  BY DEF WorkerSend, TypeOK
<1>3. ASSUME RxOpen PROVE Unread(w)' = Unread(w)
  <2>1. pipe'[w] = Append(pipe[w], hand[w][1])
    BY <1>3 DEF WorkerSend, TypeOK, Forwarded
  <2>2. pipe'[w] = pipe[w] \o hand[w]
    BY <1>1, <2>1, AppendIsConcat
  <2>3. pipe[w] \o hand[w] \in Seq(PartSet)
    BY <1>1, ConcatProperties
  <2>4. QED
    BY <1>2, <2>2, <2>3, ConcatEmptySeq DEF Unread
<1>4. ASSUME ~RxOpen PROVE Unread(w) # <<>> /\ Unread(w)' = Tail(Unread(w))
  <2>1. pipe[w] = <<>> /\ pipe'[w] = <<>>
    BY <1>4 DEF WorkerSend, ReaderInv
  <2>2. Unread(w) = hand[w] \o source[w]
    BY <2>1, <1>1, ConcatEmptySeq DEF Unread
  <2>3. hand[w] # <<>> /\ Tail(hand[w]) = <<>>
    BY <1>1, SinglePart
  <2>4. Unread(w) # <<>> /\ Tail(Unread(w)) = source[w]
    <3>1. hand[w] \o source[w] # <<>>
          /\ Tail(hand[w] \o source[w]) = Tail(hand[w]) \o source[w]
      BY <2>3, <1>1, TailOfConcat
    <3>2. <<>> \o source[w] = source[w]
      BY <1>1, ConcatEmptySeq
    <3>3. QED
      BY <2>2, <2>3, <3>1, <3>2
  <2>5. Unread(w)' = source[w]
    <3>1. <<>> \o <<>> = <<>> /\ <<>> \o source[w] = source[w]
      BY <1>1, EmptySeq, ConcatEmptySeq
    <3>2. QED
      BY <1>2, <2>1, <3>1 DEF Unread
  <2>6. QED
    BY <2>4, <2>5
<1>5. \A v \in Workers \ {w} : Unread(v)' = Unread(v)
  BY DEF WorkerSend, TypeOK, Unread
<1>6. QED
  BY <1>3, <1>4, <1>5

LEMMA ReadUnread ==
    ASSUME TypeOK, NEW w \in Workers, RxRecv(w)
    PROVE  /\ Unread(w) # <<>>
           /\ Head(Unread(w)) = Head(pipe[w])
           /\ Unread(w)' = Tail(Unread(w))
           /\ \A v \in Workers \ {w} : Unread(v)' = Unread(v)
<1>1. pipe[w] # <<>>
  BY ReadablePipe DEF RxRecv
<1>2. /\ pipe[w] \in Seq(PartSet) /\ hand[w] \in Seq(PartSet)
      /\ source[w] \in Seq(PartSet)
      /\ hand[w] \o source[w] \in Seq(PartSet)
      /\ Unread(w) = pipe[w] \o (hand[w] \o source[w])
  BY WorkerTypes, UnreadType
<1>3. Tail(pipe[w]) \in Seq(PartSet)
  BY <1>1, <1>2, HeadTailProperties
<1>4. pipe'[w] = Tail(pipe[w]) /\ UNCHANGED <<hand, source>>
  BY DEF RxRecv, TypeOK, wvars
<1>5. Unread(w)' = Tail(pipe[w]) \o (hand[w] \o source[w])
  <2>1. Unread(w)' = (Tail(pipe[w]) \o hand[w]) \o source[w]
    BY <1>4 DEF Unread
  <2>2. @ = Tail(pipe[w]) \o (hand[w] \o source[w])
    BY <1>2, <1>3, RegroupParts
  <2>3. QED
    BY <2>1, <2>2
<1>6. \A v \in Workers \ {w} : Unread(v)' = Unread(v)
  BY <1>4 DEF RxRecv, TypeOK, Unread
<1>7. /\ Unread(w) # <<>>
      /\ Head(Unread(w)) = Head(pipe[w])
      /\ Tail(Unread(w)) = Tail(pipe[w]) \o (hand[w] \o source[w])
  <2> DEFINE t == hand[w] \o source[w]
  <2>1. t \in Seq(PartSet) /\ Unread(w) = pipe[w] \o t
    BY <1>2
  <2> HIDE DEF t
  <2>2. /\ pipe[w] \o t # <<>>
        /\ Head(pipe[w] \o t) = Head(pipe[w])
        /\ Tail(pipe[w] \o t) = Tail(pipe[w]) \o t
    BY <1>1, <1>2, <2>1, TailOfConcat
  <2>3. QED
    BY <2>1, <2>2 DEF t
<1>8. QED
  BY <1>5, <1>6, <1>7

LEMMA UnreadUnchanged ==
    ASSUME UNCHANGED <<pipe, hand, source>>
    PROVE  \A v \in Workers : Unread(v)' = Unread(v)
  BY DEF Unread

-----------------------------------------------------------------------------
(***************************************************************************)
(* The reader's state                                                      *)
(***************************************************************************)
LEMMA ReaderNext == TypeOK /\ ReaderInv /\ [Next]_vars => ReaderInv'
<1> SUFFICES ASSUME TypeOK, ReaderInv, [Next]_vars PROVE ReaderInv'
  OBVIOUS
<1>1. ASSUME NEW w \in Workers, Send(w) PROVE ReaderInv'
  BY <1>1 DEF ReaderInv, Send, ovars, RxOpen
<1>2. ASSUME NEW w \in Workers, Worker(w) PROVE ReaderInv'
  BY <1>2 DEF ReaderInv, Worker, WorkerCheck, WorkerTimeout, WorkerRecv,
              WorkerSend, WorkerCount, ovars, RxOpen
<1>3. ASSUME NEW w \in Workers, RxRecv(w) PROVE ReaderInv'
  BY <1>3 DEF ReaderInv, RxRecv, RxOpen
<1>4. CASE RxCheck
  BY <1>4 DEF ReaderInv, RxCheck, RxOpen
<1>5. CASE RxStartCounter
  BY <1>5 DEF ReaderInv, RxStartCounter, RxOpen
<1>6. CASE RxClose
  BY <1>6 DEF ReaderInv, RxClose, RxOpen
<1>7. CASE RxShutdownTest \/ RxShutdownSet \/ RxJoin
  BY <1>7 DEF ReaderInv, RxShutdownTest, RxShutdownSet, RxJoin, RxOpen
<1>8. CASE RequestKill \/ Main
  BY <1>8 DEF ReaderInv, RequestKill, Main, DestructorTest, DestructorSet,
              DestructorJoin, RxOpen
<1>9. CASE UNCHANGED vars
  BY <1>9 DEF ReaderInv, vars, ovars, RxOpen
<1>10. QED
  BY <1>1, <1>2, <1>3, <1>4, <1>5, <1>6, <1>7, <1>8, <1>9 DEF Next, Rx

-----------------------------------------------------------------------------
(***************************************************************************)
(* Joining the workers                                                     *)
(***************************************************************************)
LEMMA JoinNext == TypeOK /\ JoinInv /\ [Next]_vars => JoinInv'
<1> SUFFICES ASSUME TypeOK, JoinInv, [Next]_vars PROVE JoinInv'
  OBVIOUS
<1>1. ASSUME NEW w \in Workers, Send(w) PROVE JoinInv'
  BY <1>1 DEF JoinInv, Send, ovars
<1>2. ASSUME NEW w \in Workers, Worker(w) PROVE JoinInv'
  <2>1. UNCHANGED <<rxpc, dtpc, shutdown_requested>> /\ pc[w] # "done"
    BY <1>2 DEF Worker, WorkerCheck, WorkerTimeout, WorkerRecv, WorkerSend,
                WorkerCount, ovars
  <2>2. QED
    BY <2>1, <1>2 DEF JoinInv
<1>3. ASSUME NEW w \in Workers, RxRecv(w) PROVE JoinInv'
  BY <1>3 DEF JoinInv, RxRecv, wvars
<1>4. CASE RxCheck \/ RxStartCounter \/ RxClose
  BY <1>4 DEF JoinInv, RxCheck, RxStartCounter, RxClose, wvars
<1>5. CASE RxShutdownTest \/ RxShutdownSet
  BY <1>5 DEF JoinInv, RxShutdownTest, RxShutdownSet, wvars
<1>6. CASE RxJoin
  BY <1>6 DEF JoinInv, RxJoin, Joined, wvars
<1>7. CASE RequestKill
  BY <1>7 DEF JoinInv, RequestKill, wvars
<1>8. CASE DestructorTest \/ DestructorSet
  BY <1>8 DEF JoinInv, DestructorTest, DestructorSet, wvars
<1>9. CASE DestructorJoin
  BY <1>9 DEF JoinInv, DestructorJoin, Joined, wvars
<1>10. CASE UNCHANGED vars
  BY <1>10 DEF JoinInv, vars, wvars, ovars
<1>11. QED
  BY <1>1, <1>2, <1>3, <1>4, <1>5, <1>6, <1>7, <1>8, <1>9, <1>10
     DEF Next, Rx, Main

-----------------------------------------------------------------------------
(***************************************************************************)
(* Whole messages                                                          *)
(***************************************************************************)
LEMMA WholeNext ==
    TypeOK /\ ReaderInv /\ WholeInv /\ [Next]_vars => WholeInv'
<1> SUFFICES ASSUME TypeOK, ReaderInv, WholeInv, [Next]_vars, RxOpen',
                    NEW v \in Workers
             PROVE  /\ EndsWhole(Unread(v))'
                    /\ pc'[v] \in {"check", "count", "done"} => EndsWhole(pipe'[v])
  BY DEF WholeInv, EndsWhole
<1>0. RxOpen
  BY DEF Next, Send, Worker, WorkerCheck, WorkerTimeout, WorkerRecv,
         WorkerSend, WorkerCount, Rx, RxRecv, RxCheck, RxStartCounter, RxClose,
         RxShutdownTest, RxShutdownSet, RxJoin, RequestKill, Main, DestructorTest, DestructorSet,
         DestructorJoin, vars, ovars, RxOpen
<1>1. /\ EndsWhole(Unread(v))
      /\ pc[v] \in {"check", "count", "done"} => EndsWhole(pipe[v])
  BY <1>0 DEF WholeInv
<1>2. ASSUME NEW w \in Workers, Send(w)
      PROVE  /\ EndsWhole(Unread(v)')
             /\ pc'[v] \in {"check", "count", "done"} => EndsWhole(pipe'[v])
  <2>1. produced + 1 \in MsgIds
    BY <1>2, StreamAssumption, LenProperties DEF TypeOK, Send, MsgIds
  <2>2. EndsWhole(Unread(w) \o Parts(produced + 1))
    BY <2>1, PartsOfMessage, EndsWholeConcat, UnreadType
  <2>3. EndsWhole(Unread(v)')
    BY <1>1, <1>2, <2>2, SendUnread
  <2>4. QED
    BY <1>1, <1>2, <2>3 DEF Send
<1>3. ASSUME NEW w \in Workers, WorkerCheck(w) \/ WorkerCount(w)
      PROVE  /\ EndsWhole(Unread(v)')
             /\ pc'[v] \in {"check", "count", "done"} => EndsWhole(pipe'[v])
  <2>1. EndsWhole(Unread(v)')
    BY <1>1, <1>3, UnreadUnchanged DEF WorkerCheck, WorkerCount
  <2>2. QED
    BY <1>1, <1>3, <2>1 DEF WorkerCheck, WorkerCount, TypeOK
<1>4. ASSUME NEW w \in Workers, WorkerTimeout(w)
      PROVE  /\ EndsWhole(Unread(v)')
             /\ pc'[v] \in {"check", "count", "done"} => EndsWhole(pipe'[v])
  <2>1. EndsWhole(Unread(v)')
    BY <1>1, <1>4, UnreadUnchanged DEF WorkerTimeout
  <2>2. CASE v = w
    <3>1. hand[w] = <<>> /\ source[w] = <<>> /\ pipe[w] \in Seq(PartSet)
      BY <1>4, WorkerTypes DEF WorkerTimeout
    <3>2. Unread(w) = pipe[w]
      BY <3>1, ConcatEmptySeq DEF Unread
    <3>3. QED
      BY <1>1, <1>4, <2>1, <2>2, <3>2 DEF WorkerTimeout
  <2>3. CASE v # w
    BY <1>1, <1>4, <2>1, <2>3 DEF WorkerTimeout, TypeOK
  <2>4. QED
    BY <2>2, <2>3
<1>5. ASSUME NEW w \in Workers, WorkerRecv(w)
      PROVE  /\ EndsWhole(Unread(v)')
             /\ pc'[v] \in {"check", "count", "done"} => EndsWhole(pipe'[v])
  <2>1. EndsWhole(Unread(v)')
    BY <1>1, <1>5, PullUnread
  <2>2. QED
    BY <1>1, <1>5, <2>1 DEF WorkerRecv, TypeOK
<1>6. ASSUME NEW w \in Workers, WorkerSend(w)
      PROVE  /\ EndsWhole(Unread(v)')
             /\ pc'[v] \in {"check", "count", "done"} => EndsWhole(pipe'[v])
  <2>1. EndsWhole(Unread(v)')
    BY <1>0, <1>1, <1>6, ForwardUnread
  <2>2. CASE v = w
    <3>1. hand[w][1] \in PartSet /\ pipe[w] \in Seq(PartSet)
      BY <1>6, WorkerTypes DEF WorkerSend
    <3>2. /\ pipe'[w] = Append(pipe[w], hand[w][1])
          /\ pc'[w] = IF hand[w][1].more THEN "poll" ELSE "count"
      BY <1>0, <1>6 DEF WorkerSend, TypeOK, Forwarded, AfterSend
    <3>3. pipe'[w][Len(pipe'[w])] = hand[w][1]
      BY <3>1, <3>2, AppendProperties
    <3>4. QED
      BY <2>1, <2>2, <3>2, <3>3 DEF EndsWhole
  <2>3. CASE v # w
    BY <1>1, <1>6, <2>1, <2>3 DEF WorkerSend, TypeOK
  <2>4. QED
    BY <2>2, <2>3
<1>7. ASSUME NEW w \in Workers, RxRecv(w)
      PROVE  /\ EndsWhole(Unread(v)')
             /\ pc'[v] \in {"check", "count", "done"} => EndsWhole(pipe'[v])
  <2>1. EndsWhole(Unread(v)')
    BY <1>1, <1>7, ReadUnread, UnreadType, EndsWholeTail
  <2>2. pipe[w] # <<>> /\ pipe[w] \in Seq(PartSet)
    BY <1>7, ReadablePipe, WorkerTypes DEF RxRecv
  <2>3. pc' = pc /\ pipe' = [pipe EXCEPT ![w] = Tail(pipe[w])]
    BY <1>7 DEF RxRecv, wvars
  <2>4. EndsWhole(pipe[v]) => EndsWhole(pipe'[v])
    BY <2>2, <2>3, EndsWholeTail DEF TypeOK
  <2>5. QED
    BY <1>1, <2>1, <2>3, <2>4
<1>8. CASE UNCHANGED <<pipe, hand, source, pc>>
  <2>1. EndsWhole(Unread(v)')
    BY <1>1, <1>8, UnreadUnchanged
  <2>2. QED
    BY <1>1, <1>8, <2>1 DEF EndsWhole
<1>9. ~RxClose
  BY DEF RxClose, RxOpen
<1>10. RxCheck \/ RxStartCounter \/ RxShutdownTest \/ RxShutdownSet \/ RxJoin \/ RequestKill \/ Main
          \/ UNCHANGED vars
       => UNCHANGED <<pipe, hand, source, pc>>
  BY DEF RxCheck, RxStartCounter, RxShutdownTest, RxShutdownSet, RxJoin, RequestKill, Main,
         DestructorTest, DestructorSet, DestructorJoin, vars, wvars
<1>11. QED
  BY <1>2, <1>3, <1>4, <1>5, <1>6, <1>7, <1>8, <1>9, <1>10
     DEF Next, Rx, Worker, EndsWhole

-----------------------------------------------------------------------------
(***************************************************************************)
(* The safety theorems                                                     *)
(***************************************************************************)
LEMMA IInvInit == Init => IInv
<1> SUFFICES ASSUME Init PROVE IInv
  OBVIOUS
<1>1. TypeOK
  BY TypeInit
<1>2. ReaderInv /\ JoinInv
  BY DEF Init, ReaderInv, JoinInv, RxOpen
<1>3. ASSUME NEW w \in Workers PROVE EndsWhole(Unread(w)) /\ EndsWhole(pipe[w])
  <2>1. pipe[w] = <<>> /\ hand[w] = <<>> /\ source[w] = <<>>
    BY DEF Init
  <2>2. <<>> \o <<>> = <<>>
    BY EmptySeq, ConcatEmptySeq
  <2>3. Unread(w) = <<>>
    BY <2>1, <2>2 DEF Unread
  <2>4. QED
    BY <2>1, <2>3 DEF EndsWhole
<1>4. QED
  BY <1>1, <1>2, <1>3 DEF IInv, WholeInv

LEMMA IInvNext == IInv /\ [Next]_vars => IInv'
  BY TypeNext, ReaderNext, WholeNext, JoinNext DEF IInv

THEOREM Invariance == Spec => []IInv
  BY IInvInit, IInvNext, PTL DEF Spec

\* For every number of workers: when the rx thread and the destructor are both
\* back from shutdown(), no worker runs (MultiPullBroker.cpp:127-136).
THEOREM SomebodyJoinedAlways == Spec => []SomebodyJoined
<1>1. IInv => SomebodyJoined
  BY DEF IInv, JoinInv, SomebodyJoined
<1>2. QED
  BY <1>1, Invariance, PTL

\* For every stream: a worker between two messages, or gone, has forwarded the
\* last part of every message it began (MultiPullBroker.cpp:79-103).
THEOREM NothingHalfForwardedAlways == Spec => []NothingHalfForwarded
<1>1. IInv => NothingHalfForwarded
  BY DEF IInv, WholeInv, NothingHalfForwarded, EndsWhole
<1>2. QED
  BY <1>1, Invariance, PTL

-----------------------------------------------------------------------------
(***************************************************************************)
(* The broker is a StreamChannel                                           *)
(***************************************************************************)
Pending == [w \in Workers |-> Unread(w)]

\* The channel's vocabulary is the broker's.
LEMMA ChannelParts ==
    Channel!PartSet = PartSet /\ \A m : Channel!Parts(m) = Parts(m)
  BY DEF Channel!PartSet, Channel!MsgIds, PartSet, MsgIds, Channel!Parts, Parts

\* A step that moves the parts of at most one worker moves one component.
LEMMA PendingUpdate ==
    ASSUME TypeOK, NEW w \in Workers, NEW new, Unread(w)' = new,
           \A v \in Workers \ {w} : Unread(v)' = Unread(v)
    PROVE  Pending' = [Pending EXCEPT ![w] = new]
  BY DEF Pending

LEMMA PendingUnchanged ==
    ASSUME \A v \in Workers : Unread(v)' = Unread(v)
    PROVE  Pending' = Pending
  BY DEF Pending

LEMMA ChannelInit == Init => Channel!Init
<1> SUFFICES ASSUME Init PROVE Channel!Init
  OBVIOUS
<1>1. ASSUME NEW w \in Workers PROVE Unread(w) = <<>>
  <2>1. pipe[w] = <<>> /\ hand[w] = <<>> /\ source[w] = <<>>
    BY DEF Init
  <2>2. <<>> \o <<>> = <<>>
    BY EmptySeq, ConcatEmptySeq
  <2>3. QED
    BY <2>1, <2>2 DEF Unread
<1>2. RxOpen
  BY DEF Init, RxOpen
<1>3. QED
  BY <1>1, <1>2 DEF Init, Channel!Init

LEMMA SendIsSend ==
    ASSUME TypeOK, NEW w \in Workers, Send(w)
    PROVE  Channel!Send(w)
<1>1. Pending' = [Pending EXCEPT ![w] = Unread(w) \o Parts(produced + 1)]
  BY SendUnread, PendingUpdate
<1>2. Pending[w] = Unread(w)
  BY DEF Pending
<1>3. Pending' = [Pending EXCEPT ![w] = Pending[w] \o Channel!Parts(produced + 1)]
  BY <1>1, <1>2, ChannelParts
<1>4. RxOpen' = RxOpen /\ reading' = reading
  BY DEF Send, ovars, RxOpen
<1>5. produced < Len(Stream) /\ produced' = produced + 1
  BY DEF Send
<1>6. QED
  BY <1>3, <1>4, <1>5 DEF Channel!Send, Pending

LEMMA ReadIsReceive ==
    ASSUME TypeOK, NEW w \in Workers, RxRecv(w)
    PROVE  Channel!Receive(w)
<1>1. /\ Unread(w) # <<>>
      /\ Head(Unread(w)) = Head(pipe[w])
      /\ Unread(w)' = Tail(Unread(w))
      /\ \A v \in Workers \ {w} : Unread(v)' = Unread(v)
  BY ReadUnread
<1>2. Pending' = [Pending EXCEPT ![w] = Tail(Unread(w))]
  BY <1>1, PendingUpdate
<1>3. Pending[w] = Unread(w)
  BY DEF Pending
<1>4. /\ reading \in {NoWorker, w}
      /\ reading' = IF Head(pipe[w]).more THEN w ELSE NoWorker
      /\ produced' = produced
      /\ RxOpen /\ RxOpen'
  BY DEF RxRecv, RxOpen
<1>5. RxOpen' = RxOpen
  BY <1>4 DEF RxOpen
<1>6. QED
  BY <1>1, <1>2, <1>3, <1>4, <1>5 DEF Channel!Receive, Pending

LEMMA CloseIsClose ==
    ASSUME TypeOK, ReaderInv, RxClose
    PROVE  Channel!Close
<1>1. RxOpen /\ ~RxOpen' /\ reading = NoWorker /\ UNCHANGED <<produced, reading>>
  BY DEF RxClose, RxOpen, ReaderInv
<1>2. ASSUME NEW w \in Workers
      PROVE  /\ Unread(w)' \in Seq(PartSet)
             /\ \E n \in 0 .. Len(Unread(w)) :
                    Unread(w)' = SubSeq(Unread(w), n + 1, Len(Unread(w)))
  <2> DEFINE rest == hand[w] \o source[w]
             n == Len(pipe[w])
  <2>1. /\ pipe[w] \in Seq(PartSet) /\ rest \in Seq(PartSet)
        /\ Unread(w) = pipe[w] \o rest
    BY WorkerTypes, UnreadType
  <2>2. Unread(w)' = rest
    <3>1. pipe'[w] = <<>> /\ UNCHANGED <<hand, source>>
      BY DEF RxClose, wvars
    <3>2. Unread(w)' = (<<>> \o hand[w]) \o source[w]
      BY <3>1 DEF Unread
    <3>3. <<>> \o hand[w] = hand[w]
      BY WorkerTypes, ConcatEmptySeq
    <3>4. QED
      BY <3>2, <3>3
  <2> HIDE DEF rest
  <2>3. n \in Nat /\ Len(rest) \in Nat /\ Len(pipe[w] \o rest) = n + Len(rest)
    BY <2>1, LenProperties, ConcatProperties
  <2>4. SubSeq(pipe[w] \o rest, n + 1, n + Len(rest)) = rest
    <3>1. CASE Len(rest) = 0
      <4>1. rest = <<>>
        BY <3>1, <2>1, EmptySeq
      <4>2. SubSeq(pipe[w] \o rest, n + 1, n + Len(rest)) = <<>>
        BY <2>3, <3>1, SubSeqEmpty
      <4>3. QED
        BY <4>1, <4>2
    <3>2. CASE Len(rest) # 0
      <4>1. /\ n + 1 \in n + 1 .. n + Len(rest)
            /\ n + Len(rest) \in n + 1 .. n + Len(rest)
        BY <2>3, <3>2
      <4>2. SubSeq(pipe[w] \o rest, n + 1, n + Len(rest))
               = SubSeq(rest, (n + 1) - n, (n + Len(rest)) - n)
        BY <2>1, <4>1, SubSeqOfConcat2
      <4>3. (n + 1) - n = 1 /\ (n + Len(rest)) - n = Len(rest)
        BY <2>3
      <4>4. SubSeq(rest, 1, Len(rest)) = rest
        BY <2>1, SubSeqFull
      <4>5. QED
        BY <4>2, <4>3, <4>4
    <3>3. QED
      BY <3>1, <3>2
  <2> HIDE DEF n
  <2>5. n \in 0 .. Len(Unread(w))
    BY <2>1, <2>3
  <2>6. Unread(w)' = SubSeq(Unread(w), n + 1, Len(Unread(w)))
    BY <2>1, <2>2, <2>3, <2>4
  <2>7. QED
    BY <2>1, <2>2, <2>5, <2>6
<1>3. Pending' \in [Workers -> Seq(PartSet)]
  BY <1>2 DEF Pending
<1>4. \A w \in Workers : \E n \in 0 .. Len(Pending[w]) :
         Pending'[w] = SubSeq(Pending[w], n + 1, Len(Pending[w]))
  BY <1>2 DEF Pending
<1>5. RxOpen' = FALSE
  BY <1>1
<1>6. QED
  BY <1>1, <1>3, <1>4, <1>5, ChannelParts DEF Channel!Close, Pending

LEMMA LateSendIsLose ==
    ASSUME TypeOK, ReaderInv, NEW w \in Workers, WorkerSend(w), ~RxOpen
    PROVE  Channel!Lose(w)
<1>1. /\ Unread(w) # <<>>
      /\ Unread(w)' = Tail(Unread(w))
      /\ \A v \in Workers \ {w} : Unread(v)' = Unread(v)
  BY ForwardUnread
<1>2. Pending' = [Pending EXCEPT ![w] = Tail(Unread(w))]
  BY <1>1, PendingUpdate
<1>3. Pending[w] = Unread(w)
  BY DEF Pending
<1>4. RxOpen' = RxOpen /\ UNCHANGED <<produced, reading>>
  BY DEF WorkerSend, ovars, RxOpen
<1>5. QED
  BY <1>1, <1>2, <1>3, <1>4 DEF Channel!Lose, Pending

\* A step the channel does not see.
LEMMA Unseen ==
    ASSUME \A v \in Workers : Unread(v)' = Unread(v),
           UNCHANGED <<produced, reading>>, RxOpen' = RxOpen
    PROVE  UNCHANGED Channel!cvars
  BY PendingUnchanged DEF Channel!cvars, Pending

LEMMA ChannelNext ==
    TypeOK /\ ReaderInv /\ [Next]_vars => [Channel!Next]_(Channel!cvars)
<1> SUFFICES ASSUME TypeOK, ReaderInv, [Next]_vars
             PROVE  Channel!Next \/ UNCHANGED Channel!cvars
  OBVIOUS
<1>1. ASSUME NEW w \in Workers, Send(w) PROVE Channel!Next
  BY <1>1, SendIsSend DEF Channel!Next
<1>2. ASSUME NEW w \in Workers, Worker(w)
      PROVE  Channel!Next \/ UNCHANGED Channel!cvars
  <2>1. UNCHANGED <<produced, reading>> /\ RxOpen' = RxOpen
    BY <1>2 DEF Worker, WorkerCheck, WorkerTimeout, WorkerRecv, WorkerSend,
                WorkerCount, ovars, RxOpen
  <2>2. CASE WorkerCheck(w) \/ WorkerTimeout(w) \/ WorkerCount(w)
    BY <2>1, <2>2, UnreadUnchanged, Unseen
       DEF WorkerCheck, WorkerTimeout, WorkerCount
  <2>3. CASE WorkerRecv(w)
    BY <2>1, <2>3, PullUnread, Unseen
  <2>4. CASE WorkerSend(w) /\ RxOpen
    BY <2>1, <2>4, ForwardUnread, Unseen
  <2>5. CASE WorkerSend(w) /\ ~RxOpen
    BY <2>5, LateSendIsLose DEF Channel!Next
  <2>6. QED
    BY <1>2, <2>2, <2>3, <2>4, <2>5 DEF Worker
<1>3. CASE Rx
  <2>1. ASSUME NEW w \in Workers, RxRecv(w) PROVE Channel!Next
    BY <2>1, ReadIsReceive DEF Channel!Next
  <2>2. CASE RxClose
    BY <2>2, CloseIsClose DEF Channel!Next
  <2>3. CASE RxCheck \/ RxStartCounter \/ RxShutdownTest \/ RxShutdownSet \/ RxJoin
    <3>1. /\ UNCHANGED <<pipe, hand, source, produced, reading>>
          /\ RxOpen' = RxOpen
      BY <2>3 DEF RxCheck, RxStartCounter, RxShutdownTest, RxShutdownSet, RxJoin, wvars, RxOpen
    <3>2. QED
      BY <3>1, UnreadUnchanged, Unseen
  <2>4. QED
    BY <1>3, <2>1, <2>2, <2>3 DEF Rx
<1>4. CASE RequestKill \/ Main \/ UNCHANGED vars
  <2>1. /\ UNCHANGED <<pipe, hand, source, produced, reading>>
        /\ RxOpen' = RxOpen
    BY <1>4 DEF RequestKill, Main, DestructorTest, DestructorSet, DestructorJoin, vars,
                wvars, ovars, RxOpen
  <2>2. QED
    BY <2>1, UnreadUnchanged, Unseen
<1>5. QED
  BY <1>1, <1>2, <1>3, <1>4 DEF Next

\* For every stream, number of workers and high water mark, what the rx thread
\* reads is what the detector sent: per connection in order, with no part
\* lost, repeated or moved to another message while the socket is open.
THEOREM BrokerImplementsChannel == Spec => ImplementsChannel
<1>1. IInv => TypeOK /\ ReaderInv
  BY DEF IInv
<1>2. QED
  BY ChannelInit, ChannelNext, Invariance, <1>1, PTL
     DEF Spec, ImplementsChannel, Channel!Spec

-----------------------------------------------------------------------------
(***************************************************************************)
(* The count of messages                                                   *)
(***************************************************************************)
Held(w) == hand[w] \o source[w]

MsgsOf(parts) == {parts[i].msg : i \in 1 .. Len(parts)}

\* The messages of which a worker has parts to forward.
HeldMsgs == {m \in MsgIds : \E w \in Workers : m \in MsgsOf(Held(w))}

\* After the last part of a message come no parts of it.
LastsLast(parts) ==
    \A i, j \in 1 .. Len(parts) :
        i < j /\ ~parts[i].more => parts[j].msg # parts[i].msg

\* A message that has been sent is held by one worker at most, and when it
\* forwards the last part it holds the message no more.
HeldInv ==
    /\ \A w \in Workers : LastsLast(Held(w)) /\ MsgsOf(Held(w)) \subseteq 1 .. produced
    /\ \A v, w \in Workers : v # w => MsgsOf(Held(v)) \cap MsgsOf(Held(w)) = {}

\* Workers that have forwarded a message and have not counted it.
Counting == {w \in Workers : pc[w] = "count"}

\* The first conjunct is what allows start_message_counter() to set the counter
\* to 1 while workers are about to increment it.
CountInv ==
    /\ Cardinality(Counting) <= Completed
    /\ messages_received + Cardinality(Counting) <= Completed + 1

LEMMA PartsAreOfMessage ==
    ASSUME NEW m \in MsgIds
    PROVE  MsgsOf(Parts(m)) = {m} /\ LastsLast(Parts(m))
<1>1. Stream[m].parts \in Nat \ {0}
  <2>1. Stream[m] \in MessageSet
    BY StreamAssumption, ElementOfSeq DEF MsgIds
  <2>2. QED
    BY <2>1 DEF MessageSet
<1> DEFINE n == Stream[m].parts
           part(p) == [msg |-> m, part |-> p, more |-> p < n]
<1>2. Parts(m) = [p \in 1 .. n |-> part(p)]
  BY DEF Parts
<1>3. n \in Nat \ {0}
  BY <1>1
<1> HIDE DEF n
<1>4. Len(Parts(m)) = n
  BY <1>2, <1>3
<1>5. ASSUME NEW i \in 1 .. n
      PROVE  Parts(m)[i].msg = m /\ (~Parts(m)[i].more => i >= n)
  <2>1. Parts(m)[i] = part(i)
    BY <1>2
  <2>2. part(i).msg = m /\ part(i).more = (i < n)
    OBVIOUS
  <2>3. ~(i < n) => i >= n
    BY <1>3
  <2>4. QED
    BY <2>1, <2>2, <2>3
<1>6. MsgsOf(Parts(m)) = {m}
  <2>1. 1 \in 1 .. n
    BY <1>3
  <2>2. QED
    BY <1>4, <1>5, <2>1 DEF MsgsOf
<1>7. LastsLast(Parts(m))
  <2> SUFFICES ASSUME NEW i \in 1 .. n, NEW j \in 1 .. n, i < j, ~Parts(m)[i].more
               PROVE  FALSE
    BY <1>4 DEF LastsLast
  <2>1. i >= n
    BY <1>5
  <2>2. QED
    BY <1>3, <2>1
<1>8. QED
  BY <1>6, <1>7

LEMMA SplitInterval ==
    ASSUME NEW m \in Nat, NEW n \in Nat, NEW k \in 1 .. m + n
    PROVE  /\ k <= m => k \in 1 .. m
           /\ ~(k <= m) => k > m /\ k - m \in 1 .. n
<1>1. k \in Nat /\ k >= 1 /\ k <= m + n
  OBVIOUS
<1>2. k <= m => k \in 1 .. m
  BY <1>1
<1>3. ASSUME ~(k <= m) PROVE k > m /\ k - m \in 1 .. n
  <2>1. k > m /\ k - m >= 1 /\ k - m <= n /\ k - m \in Int
    BY <1>1, <1>3
  <2>2. k - m \in 1 .. n
    BY <2>1
  <2>3. QED
    BY <2>1, <2>2
<1>4. QED
  BY <1>2, <1>3

LEMMA MsgsOfConcat ==
    ASSUME NEW s \in Seq(PartSet), NEW t \in Seq(PartSet)
    PROVE  /\ MsgsOf(s \o t) = MsgsOf(s) \cup MsgsOf(t)
           /\ LastsLast(s) /\ LastsLast(t) /\ MsgsOf(s) \cap MsgsOf(t) = {}
              => LastsLast(s \o t)
<1>1. Len(s) \in Nat /\ Len(t) \in Nat
  BY LenProperties
<1>2. /\ Len(s \o t) = Len(s) + Len(t)
      /\ \A i \in 1 .. Len(s) + Len(t) : (s \o t)[i] =
               IF i <= Len(s) THEN s[i] ELSE t[i - Len(s)]
  BY ConcatProperties
<1>3. \A i \in 1 .. Len(s) : i \in 1 .. Len(s) + Len(t) /\ (s \o t)[i] = s[i]
  BY <1>1, <1>2
<1>4. \A i \in 1 .. Len(t) :
         Len(s) + i \in 1 .. Len(s) + Len(t) /\ (s \o t)[Len(s) + i] = t[i]
  <2> SUFFICES ASSUME NEW i \in 1 .. Len(t)
               PROVE  /\ Len(s) + i \in 1 .. Len(s) + Len(t)
                      /\ (s \o t)[Len(s) + i] = t[i]
    OBVIOUS
  <2>1. /\ Len(s) + i \in 1 .. Len(s) + Len(t) /\ ~(Len(s) + i <= Len(s))
        /\ (Len(s) + i) - Len(s) = i
    BY <1>1
  <2>2. (s \o t)[Len(s) + i] = t[(Len(s) + i) - Len(s)]
    BY <1>2, <2>1
  <2>3. QED
    BY <2>1, <2>2
<1>5. ASSUME NEW i \in 1 .. Len(s) + Len(t)
      PROVE  \/ i \in 1 .. Len(s) /\ (s \o t)[i] = s[i]
             \/ /\ i > Len(s) /\ i - Len(s) \in 1 .. Len(t)
                /\ (s \o t)[i] = t[i - Len(s)]
  <2>1. (s \o t)[i] = IF i <= Len(s) THEN s[i] ELSE t[i - Len(s)]
    BY <1>2
  <2>2. CASE i <= Len(s)
    <3>1. i \in 1 .. Len(s)
      BY <1>1, <2>2, SplitInterval
    <3>2. QED
      BY <2>1, <2>2, <3>1, Zenon
  <2>3. CASE ~(i <= Len(s))
    <3>1. i > Len(s) /\ i - Len(s) \in 1 .. Len(t)
      BY <1>1, <2>3, SplitInterval
    <3>2. QED
      BY <2>1, <2>3, <3>1, Zenon
  <2>4. QED
    BY <2>2, <2>3
<1> DEFINE u == s \o t
<1>6. Len(u) = Len(s) + Len(t)
  BY <1>2
<1>7. MsgsOf(u) = MsgsOf(s) \cup MsgsOf(t)
  <2>1. MsgsOf(s) \subseteq MsgsOf(u)
    BY <1>3, <1>6 DEF MsgsOf
  <2>2. MsgsOf(t) \subseteq MsgsOf(u)
    <3> SUFFICES ASSUME NEW i \in 1 .. Len(t) PROVE t[i].msg \in MsgsOf(u)
      BY DEF MsgsOf
    <3>1. Len(s) + i \in 1 .. Len(u) /\ u[Len(s) + i].msg = t[i].msg
      BY <1>4, <1>6
    <3> HIDE DEF u
    <3>2. QED
      BY <3>1 DEF MsgsOf
  <2>3. MsgsOf(u) \subseteq MsgsOf(s) \cup MsgsOf(t)
    <3> SUFFICES ASSUME NEW i \in 1 .. Len(u)
                 PROVE  u[i].msg \in MsgsOf(s) \cup MsgsOf(t)
      BY DEF MsgsOf
    <3>1. CASE i \in 1 .. Len(s) /\ u[i] = s[i]
      BY <3>1 DEF MsgsOf
    <3>2. CASE i - Len(s) \in 1 .. Len(t) /\ u[i] = t[i - Len(s)]
      BY <3>2 DEF MsgsOf
    <3>3. QED
      BY <1>5, <1>6, <3>1, <3>2
  <2>4. QED
    BY <2>1, <2>2, <2>3
<1>8. ASSUME LastsLast(s), LastsLast(t), MsgsOf(s) \cap MsgsOf(t) = {}
      PROVE  LastsLast(u)
  <2> SUFFICES ASSUME NEW i \in 1 .. Len(u), NEW j \in 1 .. Len(u), i < j, ~u[i].more
               PROVE  u[j].msg # u[i].msg
    BY DEF LastsLast
  <2> HIDE DEF u
  <2>1. \/ i \in 1 .. Len(s) /\ u[i] = s[i]
        \/ i > Len(s) /\ i - Len(s) \in 1 .. Len(t) /\ u[i] = t[i - Len(s)]
    BY <1>5, <1>6 DEF u
  <2>2. \/ j \in 1 .. Len(s) /\ u[j] = s[j]
        \/ j > Len(s) /\ j - Len(s) \in 1 .. Len(t) /\ u[j] = t[j - Len(s)]
    BY <1>5, <1>6 DEF u
  <2>3. i \in Nat /\ j \in Nat
    BY <1>1, <1>6
  <2>4. CASE i \in 1 .. Len(s) /\ u[i] = s[i] /\ j \in 1 .. Len(s) /\ u[j] = s[j]
    BY <1>8, <2>4 DEF LastsLast
  <2>5. CASE /\ i \in 1 .. Len(s) /\ u[i] = s[i]
             /\ j - Len(s) \in 1 .. Len(t) /\ u[j] = t[j - Len(s)]
    <3>1. u[i].msg \in MsgsOf(s) /\ u[j].msg \in MsgsOf(t)
      BY <2>5 DEF MsgsOf
    <3>2. QED
      BY <1>8, <3>1
  <2>6. CASE /\ i - Len(s) \in 1 .. Len(t) /\ u[i] = t[i - Len(s)]
             /\ j - Len(s) \in 1 .. Len(t) /\ u[j] = t[j - Len(s)]
    <3>1. i - Len(s) < j - Len(s)
      BY <1>1, <2>3
    <3>2. QED
      BY <1>8, <2>6, <3>1 DEF LastsLast
  <2>7. ~(i > Len(s) /\ j \in 1 .. Len(s))
    BY <1>1, <2>3
  <2>8. QED
    BY <2>1, <2>2, <2>4, <2>5, <2>6, <2>7
<1>9. QED
  BY <1>7, <1>8

LEMMA MsgsOfHeadTail ==
    ASSUME NEW s \in Seq(PartSet), s # <<>>
    PROVE  /\ Head(s).msg \in MsgsOf(s)
           /\ MsgsOf(Tail(s)) \subseteq MsgsOf(s)
           /\ LastsLast(s) => LastsLast(Tail(s))
           /\ LastsLast(s) /\ ~Head(s).more => Head(s).msg \notin MsgsOf(Tail(s))
<1>1. Len(s) \in Nat \ {0} /\ Head(s) = s[1]
  BY EmptySeq
<1>2. Len(Tail(s)) = Len(s) - 1
      /\ \A i \in 1 .. Len(Tail(s)) : Tail(s)[i] = s[i + 1]
  BY HeadTailProperties
<1>3. \A i \in 1 .. Len(Tail(s)) : i + 1 \in 1 .. Len(s) /\ 1 < i + 1
  BY <1>1, <1>2
<1>4. Head(s).msg \in MsgsOf(s)
  <2>1. 1 \in 1 .. Len(s)
    BY <1>1
  <2>2. QED
    BY <1>1, <2>1 DEF MsgsOf
<1>5. MsgsOf(Tail(s)) \subseteq MsgsOf(s)
  BY <1>2, <1>3 DEF MsgsOf
<1>6. ASSUME LastsLast(s) PROVE LastsLast(Tail(s))
  <2> SUFFICES ASSUME NEW i \in 1 .. Len(Tail(s)), NEW j \in 1 .. Len(Tail(s)), i < j,
                      ~Tail(s)[i].more
               PROVE  Tail(s)[j].msg # Tail(s)[i].msg
    BY DEF LastsLast
  <2>1. i + 1 < j + 1
    OBVIOUS
  <2>2. QED
    BY <1>2, <1>3, <1>6, <2>1 DEF LastsLast
<1>7. ASSUME LastsLast(s), ~Head(s).more, NEW i \in 1 .. Len(Tail(s))
      PROVE  Tail(s)[i].msg # Head(s).msg
  <2>1. 1 \in 1 .. Len(s)
    BY <1>1
  <2>2. QED
    BY <1>1, <1>2, <1>3, <1>7, <2>1 DEF LastsLast
<1>8. QED
  BY <1>4, <1>5, <1>6, <1>7 DEF MsgsOf

LEMMA HeldTypes ==
    ASSUME TypeOK, NEW w \in Workers
    PROVE  Held(w) \in Seq(PartSet)
  BY UnreadType DEF Held

\* Of a finite set of messages.
LEMMA FiniteMsgs ==
    ASSUME NEW S \in SUBSET MsgIds
    PROVE  IsFiniteSet(S) /\ Cardinality(S) \in Nat
<1>1. IsFiniteSet(MsgIds)
  BY StreamAssumption, LenProperties, FS_Interval DEF MsgIds
<1>2. IsFiniteSet(S)
  BY <1>1, FS_Subset
<1>3. QED
  BY <1>2, FS_CardinalityType

LEMMA FiniteWorkers ==
    ASSUME NEW S \in SUBSET Workers
    PROVE  IsFiniteSet(S) /\ Cardinality(S) \in Nat
<1>1. IsFiniteSet(S)
  BY BrokerAssumption, FS_Subset
<1>2. QED
  BY <1>1, FS_CardinalityType

LEMMA CompletedIs == Completed = produced - Cardinality(HeldMsgs)
  BY DEF Completed, HeldMsgs, MsgsOf, Held

\* A step with which no worker comes to hold a message leaves at least as many
\* completed, and one more when a message is held no longer.
LEMMA CompletedGrows ==
    ASSUME TypeOK, TypeOK', produced' = produced, HeldMsgs' \subseteq HeldMsgs
    PROVE  /\ Completed \in Int /\ Completed' \in Int /\ Completed' >= Completed
           /\ HeldMsgs' # HeldMsgs => Completed' >= Completed + 1
<1> DEFINE n == Cardinality(HeldMsgs)
           k == Cardinality(HeldMsgs')
<1>1. HeldMsgs \in SUBSET MsgIds /\ HeldMsgs' \in SUBSET HeldMsgs
  BY DEF HeldMsgs
<1>2. n \in Nat /\ k \in Nat /\ IsFiniteSet(HeldMsgs)
  BY <1>1, FiniteMsgs
<1>3. k <= n /\ (n = k => HeldMsgs = HeldMsgs')
  BY <1>1, <1>2, FS_Subset
<1>4. produced \in Nat
  BY StreamAssumption, LenProperties DEF TypeOK
<1>5. Completed = produced - n
  BY CompletedIs
<1>6. Completed' = produced - k
  <2>1. Completed' = produced' - Cardinality(HeldMsgs')
    BY DEF Completed, HeldMsgs, MsgsOf, Held
  <2>2. QED
    BY <2>1
<1> HIDE DEF n, k
<1>7. HeldMsgs' # HeldMsgs => k < n
  BY <1>2, <1>3
<1>8. QED
  BY <1>2, <1>3, <1>4, <1>5, <1>6, <1>7

LEMMA HeldInit == Init => HeldInv /\ CountInv
<1> SUFFICES ASSUME Init PROVE HeldInv /\ CountInv
  OBVIOUS
<1>1. ASSUME NEW w \in Workers PROVE Held(w) = <<>>
  <2>1. hand[w] = <<>> /\ source[w] = <<>> /\ <<>> \o <<>> = <<>>
    BY EmptySeq, ConcatEmptySeq DEF Init
  <2>2. QED
    BY <2>1 DEF Held
<1>2. MsgsOf(<<>>) = {} /\ LastsLast(<<>>)
  <2>1. 1 .. Len(<<>>) = {}
    BY EmptySeq
  <2>2. QED
    BY <2>1 DEF MsgsOf, LastsLast
<1>3. HeldInv
  BY <1>1, <1>2 DEF HeldInv
<1>4. HeldMsgs = {} /\ Counting = {}
  BY <1>1, <1>2 DEF HeldMsgs, Counting, Init
<1>5. Completed = 0 - 0
  BY <1>4, CompletedIs, FS_EmptySet DEF Init
<1>6. CountInv
  BY <1>4, <1>5, FS_EmptySet DEF CountInv, Init
<1>7. QED
  BY <1>3, <1>6

\* The detector hands a new message to one worker.
LEMMA SendHeld ==
    ASSUME TypeOK, NEW w \in Workers, Send(w)
    PROVE  /\ Held(w)' = Held(w) \o Parts(produced + 1)
           /\ \A v \in Workers \ {w} : Held(v)' = Held(v)
           /\ produced + 1 \in MsgIds
<1>1. produced + 1 \in MsgIds
  BY StreamAssumption, LenProperties DEF TypeOK, Send, MsgIds
<1> DEFINE s == Parts(produced + 1)
<1>2. s \in Seq(PartSet)
  BY <1>1, PartsOfMessage
<1> HIDE DEF s
<1>3. source'[w] = source[w] \o s /\ UNCHANGED hand
  BY DEF Send, TypeOK, s
<1>4. hand[w] \in Seq(PartSet) /\ source[w] \in Seq(PartSet)
  BY WorkerTypes
<1>5. (hand[w] \o source[w]) \o s = hand[w] \o (source[w] \o s)
  BY <1>2, <1>4, RegroupParts
<1>6. \A v \in Workers \ {w} : Held(v)' = Held(v)
  BY <1>3 DEF Send, TypeOK, Held
<1>7. QED
  BY <1>1, <1>3, <1>5, <1>6 DEF Held, s

LEMMA SendCounts ==
    ASSUME TypeOK, TypeOK', HeldInv, CountInv, NEW w \in Workers, Send(w)
    PROVE  HeldInv' /\ CountInv'
<1> DEFINE m == produced + 1
<1>1. /\ Held(w)' = Held(w) \o Parts(m)
      /\ \A v \in Workers \ {w} : Held(v)' = Held(v)
      /\ m \in MsgIds /\ produced' = m
  BY SendHeld DEF Send
<1>2. produced \in Nat /\ m \notin 1 .. produced
      /\ 1 .. produced' = 1 .. produced \cup {m}
  <2>1. produced \in Nat
    BY StreamAssumption, LenProperties DEF TypeOK
  <2>2. \A n \in Nat : n + 1 \notin 1 .. n /\ 1 .. n + 1 = 1 .. n \cup {n + 1}
    OBVIOUS
  <2>3. QED
    BY <1>1, <2>1, <2>2
<1>3. /\ MsgsOf(Held(w)') = MsgsOf(Held(w)) \cup {m}
      /\ LastsLast(Held(w)')
  <2>1. /\ MsgsOf(Parts(m)) = {m} /\ LastsLast(Parts(m))
        /\ Parts(m) \in Seq(PartSet) /\ Held(w) \in Seq(PartSet)
    BY <1>1, PartsAreOfMessage, PartsOfMessage, HeldTypes
  <2>2. MsgsOf(Held(w)) \cap {m} = {} /\ LastsLast(Held(w))
    BY <1>2 DEF HeldInv
  <2> HIDE DEF m
  <2>3. QED
    BY <1>1, <2>1, <2>2, MsgsOfConcat
<1> HIDE DEF m
<1>4. HeldInv'
  <2>1. ASSUME NEW v \in Workers
        PROVE  LastsLast(Held(v)') /\ MsgsOf(Held(v)') \subseteq 1 .. produced'
    <3>1. CASE v = w
      BY <1>2, <1>3, <3>1 DEF HeldInv
    <3>2. CASE v # w
      <4>1. Held(v)' = Held(v)
        BY <1>1, <3>2
      <4>2. QED
        BY <1>2, <4>1 DEF HeldInv
    <3>3. QED
      BY <3>1, <3>2
  <2>2. ASSUME NEW u \in Workers, NEW v \in Workers, u # v
        PROVE  MsgsOf(Held(u)') \cap MsgsOf(Held(v)') = {}
    <3>1. /\ MsgsOf(Held(u)) \cap MsgsOf(Held(v)) = {}
          /\ m \notin MsgsOf(Held(u)) /\ m \notin MsgsOf(Held(v))
      BY <1>2, <2>2 DEF HeldInv
    <3>2. MsgsOf(Held(u)') = MsgsOf(Held(u)) \cup (IF u = w THEN {m} ELSE {})
      BY <1>1, <1>3
    <3>3. MsgsOf(Held(v)') = MsgsOf(Held(v)) \cup (IF v = w THEN {m} ELSE {})
      BY <1>1, <1>3
    <3>4. QED
      BY <2>2, <3>1, <3>2, <3>3
  <2>3. QED
    BY <2>1, <2>2 DEF HeldInv, LastsLast, MsgsOf
<1>5. HeldMsgs' = HeldMsgs \cup {m}
  <2>1. HeldMsgs' \subseteq HeldMsgs \cup {m}
    <3> SUFFICES ASSUME NEW k \in MsgIds, NEW v \in Workers, k \in MsgsOf(Held(v)')
                 PROVE  k \in HeldMsgs \cup {m}
      BY DEF HeldMsgs, MsgsOf
    <3>1. k \in MsgsOf(Held(v)) \/ k = m
      BY <1>1, <1>3
    <3>2. QED
      BY <3>1 DEF HeldMsgs
  <2>2. HeldMsgs \subseteq HeldMsgs'
    <3> SUFFICES ASSUME NEW k \in MsgIds, NEW v \in Workers, k \in MsgsOf(Held(v))
                 PROVE  k \in HeldMsgs'
      BY DEF HeldMsgs
    <3>1. k \in MsgsOf(Held(v)')
      BY <1>1, <1>3
    <3>2. QED
      BY <3>1 DEF HeldMsgs, MsgsOf
  <2>3. m \in HeldMsgs'
    <3>1. m \in MsgsOf(Held(w)')
      BY <1>3
    <3>2. QED
      BY <1>1, <3>1 DEF HeldMsgs, MsgsOf
  <2>4. QED
    BY <2>1, <2>2, <2>3
<1>6. Completed \in Int /\ Completed' \in Int /\ Completed' >= Completed
  <2> DEFINE n == Cardinality(HeldMsgs)
             k == Cardinality(HeldMsgs')
  <2>1. n \in Nat /\ k \in Nat /\ k <= n + 1
    <3>1. IsFiniteSet(HeldMsgs) /\ n \in Nat
      BY FiniteMsgs DEF HeldMsgs
    <3>2. k = IF m \in HeldMsgs THEN n ELSE n + 1
      BY <1>5, <3>1, FS_AddElement
    <3>3. QED
      BY <3>1, <3>2
  <2>2. Completed = produced - n
    BY CompletedIs
  <2>3. Completed' = produced' - Cardinality(HeldMsgs')
    BY DEF Completed, HeldMsgs, MsgsOf, Held
  <2>4. produced' = produced + 1
    BY <1>1 DEF m
  <2> HIDE DEF n
  <2>5. Completed' = produced' - k
    BY <2>3
  <2> HIDE DEF k
  <2>6. QED
    BY <1>2, <2>1, <2>2, <2>4, <2>5
<1>7. Counting' = Counting /\ messages_received' = messages_received
  BY DEF Send, Counting
<1>8. CountInv'
  <2>1. Cardinality(Counting) \in Nat /\ messages_received \in Nat
    BY FiniteWorkers DEF Counting, TypeOK
  <2>2. QED
    BY <1>6, <1>7, <2>1 DEF CountInv
<1>9. QED
  BY <1>4, <1>8

\* A step that keeps what the workers hold.
LEMMA HeldKept ==
    ASSUME TypeOK, TypeOK', HeldInv, produced' = produced,
           \A w \in Workers : Held(w)' = Held(w)
    PROVE  HeldInv' /\ Completed' = Completed
<1>1. HeldInv'
  <2>1. \A v \in Workers :
           LastsLast(Held(v)') /\ MsgsOf(Held(v)') \subseteq 1 .. produced'
    BY DEF HeldInv
  <2>2. \A u, v \in Workers : u # v => MsgsOf(Held(u)') \cap MsgsOf(Held(v)') = {}
    BY DEF HeldInv
  <2>3. QED
    BY <2>1, <2>2 DEF HeldInv, LastsLast, MsgsOf
<1>2. HeldMsgs' = HeldMsgs
  BY DEF HeldMsgs, MsgsOf
<1>3. Completed' = produced' - Cardinality(HeldMsgs')
  BY DEF Completed, HeldMsgs, MsgsOf, Held
<1>4. QED
  BY <1>1, <1>2, <1>3, CompletedIs

\* A part leaves the worker for the pipe, or is dropped.
LEMMA ForwardHeld ==
    ASSUME TypeOK, NEW w \in Workers, WorkerSend(w)
    PROVE  /\ Held(w) # <<>> /\ Head(Held(w)) = hand[w][1]
           /\ Held(w)' = Tail(Held(w))
           /\ \A v \in Workers \ {w} : Held(v)' = Held(v)
<1>1. /\ hand[w][1] \in PartSet /\ hand[w] = <<hand[w][1]>>
      /\ hand[w] \in Seq(PartSet) /\ source[w] \in Seq(PartSet)
  BY WorkerTypes DEF WorkerSend
<1>2. source' = source /\ hand'[w] = <<>>
  BY DEF WorkerSend, TypeOK
<1>3. hand[w] # <<>> /\ Tail(hand[w]) = <<>> /\ Head(hand[w]) = hand[w][1]
  BY <1>1, SinglePart
<1>4. /\ hand[w] \o source[w] # <<>>
      /\ Head(hand[w] \o source[w]) = Head(hand[w])
      /\ Tail(hand[w] \o source[w]) = Tail(hand[w]) \o source[w]
  BY <1>1, <1>3, TailOfConcat
<1>5. \A v \in Workers \ {w} : Held(v)' = Held(v)
  BY DEF WorkerSend, TypeOK, Held
<1>6. QED
  BY <1>2, <1>3, <1>4, <1>5 DEF Held

\* After the last part the message is completed and waits to be counted.
LEMMA ForwardCounts ==
    ASSUME TypeOK, TypeOK', HeldInv, CountInv, NEW w \in Workers, WorkerSend(w)
    PROVE  HeldInv' /\ CountInv'
<1> DEFINE e == hand[w][1]
<1>1. /\ Held(w) # <<>> /\ Head(Held(w)) = e /\ Held(w)' = Tail(Held(w))
      /\ \A v \in Workers \ {w} : Held(v)' = Held(v)
      /\ produced' = produced /\ messages_received' = messages_received
  BY ForwardHeld DEF WorkerSend
<1>2. /\ e.msg \in MsgsOf(Held(w))
      /\ MsgsOf(Held(w)') \subseteq MsgsOf(Held(w))
      /\ LastsLast(Held(w)')
      /\ ~e.more => e.msg \notin MsgsOf(Held(w)')
  <2>1. Held(w) \in Seq(PartSet) /\ LastsLast(Held(w))
    BY HeldTypes DEF HeldInv
  <2> HIDE DEF e
  <2>2. QED
    BY <1>1, <2>1, MsgsOfHeadTail
<1>3. \A v \in Workers : MsgsOf(Held(v)') \subseteq MsgsOf(Held(v))
  BY <1>1, <1>2
<1>4. HeldInv'
  <2>1. \A v \in Workers :
           LastsLast(Held(v)') /\ MsgsOf(Held(v)') \subseteq 1 .. produced'
    <3> SUFFICES ASSUME NEW v \in Workers
                 PROVE  LastsLast(Held(v)') /\ MsgsOf(Held(v)') \subseteq 1 .. produced'
      OBVIOUS
    <3>1. LastsLast(Held(v)')
      BY <1>1, <1>2 DEF HeldInv
    <3>2. MsgsOf(Held(v)') \subseteq 1 .. produced'
      BY <1>1, <1>3 DEF HeldInv
    <3>3. QED
      BY <3>1, <3>2
  <2>2. \A u, v \in Workers : u # v => MsgsOf(Held(u)') \cap MsgsOf(Held(v)') = {}
    <3> SUFFICES ASSUME NEW u \in Workers, NEW v \in Workers, u # v
                 PROVE  MsgsOf(Held(u)') \cap MsgsOf(Held(v)') = {}
      OBVIOUS
    <3>1. MsgsOf(Held(u)) \cap MsgsOf(Held(v)) = {}
      BY DEF HeldInv
    <3>2. QED
      BY <1>3, <3>1
  <2>3. QED
    BY <2>1, <2>2 DEF HeldInv, LastsLast, MsgsOf
<1>5. HeldMsgs' \subseteq HeldMsgs
  <2> SUFFICES ASSUME NEW m \in MsgIds, NEW v \in Workers, m \in MsgsOf(Held(v)')
               PROVE  m \in HeldMsgs
    BY DEF HeldMsgs, MsgsOf
  <2>1. m \in MsgsOf(Held(v))
    BY <1>3
  <2>2. QED
    BY <2>1 DEF HeldMsgs
<1>6. ~e.more => HeldMsgs' # HeldMsgs
  <2> SUFFICES ASSUME ~e.more PROVE e.msg \in HeldMsgs /\ e.msg \notin HeldMsgs'
    OBVIOUS
  <2>1. e \in PartSet
    BY WorkerTypes DEF WorkerSend
  <2>2. e.msg \in MsgIds
    BY <2>1 DEF PartSet
  <2>3. e.msg \in HeldMsgs
    BY <1>2, <2>2 DEF HeldMsgs
  <2>4. ASSUME NEW v \in Workers PROVE e.msg \notin MsgsOf(Held(v)')
    <3>1. CASE v = w
      BY <1>2, <3>1
    <3>2. CASE v # w
      <4>1. MsgsOf(Held(v)) \cap MsgsOf(Held(w)) = {}
        BY <3>2 DEF HeldInv
      <4>2. QED
        BY <1>2, <1>3, <4>1
    <3>3. QED
      BY <3>1, <3>2
  <2>5. e.msg \notin HeldMsgs'
    <3> HIDE DEF e
    <3>1. QED
      BY <2>4 DEF HeldMsgs, MsgsOf
  <2>6. QED
    BY <2>3, <2>5
<1>7. /\ Completed \in Int /\ Completed' \in Int /\ Completed' >= Completed
      /\ ~e.more => Completed' >= Completed + 1
  BY <1>1, <1>5, <1>6, CompletedGrows
<1>8. Counting' = IF e.more THEN Counting ELSE Counting \cup {w}
  <2>1. pc' = [pc EXCEPT ![w] = IF e.more THEN "poll" ELSE "count"] /\ pc[w] = "send"
    BY DEF WorkerSend, AfterSend
  <2>2. \A v \in Workers : pc'[v] = IF v # w THEN pc[v] ELSE IF e.more THEN "poll"
                                                            ELSE "count"
    BY <2>1 DEF TypeOK
  <2> HIDE DEF e
  <2>3. QED
    BY <2>1, <2>2 DEF Counting
<1>9. /\ Cardinality(Counting) \in Nat /\ Cardinality(Counting') \in Nat
      /\ Cardinality(Counting') <= Cardinality(Counting) + (IF e.more THEN 0 ELSE 1)
  <2>1. IsFiniteSet(Counting) /\ Cardinality(Counting) \in Nat
    BY FiniteWorkers DEF Counting
  <2>2. Cardinality(Counting \cup {w}) = IF w \in Counting THEN Cardinality(Counting)
                                         ELSE Cardinality(Counting) + 1
    BY <2>1, FS_AddElement
  <2> HIDE DEF e
  <2>3. QED
    BY <1>8, <2>1, <2>2
<1>10. messages_received \in Nat
  BY DEF TypeOK
<1> HIDE DEF e
<1>11. CountInv'
  <2> DEFINE a == Cardinality(Counting)
             b == Cardinality(Counting')
             c == Completed
             d == Completed'
  <2>1. a <= c /\ messages_received + a <= c + 1
    BY DEF CountInv
  <2>2. b <= d /\ messages_received + b <= d + 1
    <3> HIDE DEF a, b, c, d
    <3>1. a \in Nat /\ b \in Nat /\ c \in Int /\ d \in Int
      BY <1>7, <1>9 DEF a, b, c, d
    <3>2. \/ b <= a /\ d >= c
          \/ b <= a + 1 /\ d >= c + 1
      BY <1>7, <1>9 DEF a, b, c, d
    <3>3. QED
      BY <1>10, <2>1, <3>1, <3>2
  <2>3. QED
    BY <1>1, <2>2 DEF CountInv
<1>12. QED
  BY <1>4, <1>11

\* The other steps of a worker.
LEMMA WorkerCounts ==
    ASSUME TypeOK, TypeOK', HeldInv, CountInv, NEW w \in Workers,
           WorkerCheck(w) \/ WorkerTimeout(w) \/ WorkerRecv(w) \/ WorkerCount(w)
    PROVE  HeldInv' /\ CountInv'
<1>1. ASSUME NEW v \in Workers PROVE Held(v)' = Held(v)
  <2>1. CASE WorkerCheck(w) \/ WorkerTimeout(w) \/ WorkerCount(w)
    BY <2>1 DEF WorkerCheck, WorkerTimeout, WorkerCount, Held
  <2>2. CASE WorkerRecv(w) /\ v # w
    BY <2>2 DEF WorkerRecv, TypeOK, Held
  <2>3. CASE WorkerRecv(w) /\ v = w
    <3>1. hand[w] = <<>> /\ source[w] # <<>> /\ source[w] \in Seq(PartSet)
      BY <2>3, WorkerTypes DEF WorkerRecv
    <3>2. hand'[w] = <<Head(source[w])>> /\ source'[w] = Tail(source[w])
      BY <2>3 DEF WorkerRecv, TypeOK
    <3>3. <<Head(source[w])>> \o Tail(source[w]) = source[w]
      BY <3>1, HeadThenTail
    <3>4. hand[w] \o source[w] = source[w]
      BY <3>1, ConcatEmptySeq
    <3>5. QED
      BY <2>3, <3>2, <3>3, <3>4 DEF Held
  <2>4. QED
    BY <2>1, <2>2, <2>3
<1>2. produced' = produced
  BY DEF WorkerCheck, WorkerTimeout, WorkerRecv, WorkerCount
<1>3. HeldInv' /\ Completed' = Completed
  BY <1>1, <1>2, HeldKept
<1>4. Completed \in Int
  <2>1. Cardinality(HeldMsgs) \in Nat
    BY FiniteMsgs DEF HeldMsgs
  <2>2. produced \in Nat
    BY StreamAssumption, LenProperties DEF TypeOK
  <2>3. QED
    BY <2>1, <2>2, CompletedIs
<1>5. IsFiniteSet(Counting) /\ Cardinality(Counting) \in Nat /\ messages_received \in Nat
  BY FiniteWorkers DEF Counting, TypeOK
<1>6. CASE WorkerCount(w)
  <2>1. /\ messages_received' = messages_received + 1
        /\ w \in Counting /\ Counting' = Counting \ {w}
    BY <1>6 DEF WorkerCount, Counting, TypeOK
  <2>2. Cardinality(Counting') = Cardinality(Counting) - 1
    BY <1>5, <2>1, FS_RemoveElement
  <2>3. CountInv'
    BY <1>3, <1>4, <1>5, <2>1, <2>2 DEF CountInv
  <2>4. QED
    BY <1>3, <2>3
<1>7. CASE WorkerCheck(w) \/ WorkerTimeout(w) \/ WorkerRecv(w)
  <2>1. messages_received' = messages_received /\ Counting' = Counting
    BY <1>7 DEF WorkerCheck, WorkerTimeout, AfterTimeout, WorkerRecv, Counting, TypeOK
  <2>2. CountInv'
    BY <1>3, <2>1 DEF CountInv
  <2>3. QED
    BY <1>3, <2>2
<1>8. QED
  BY <1>6, <1>7

\* The rx thread, the main thread and the steps outside: the counter is set to 1.
LEMMA OthersCount ==
    ASSUME TypeOK, TypeOK', HeldInv, CountInv,
           Rx \/ RequestKill \/ Main \/ UNCHANGED vars
    PROVE  HeldInv' /\ CountInv'
<1>1. UNCHANGED <<produced, hand, source, pc>>
  BY DEF Rx, RxCheck, RxRecv, RxStartCounter, RxClose, RxShutdownTest, RxShutdownSet, RxJoin, RequestKill,
     Main, DestructorTest, DestructorSet, DestructorJoin, vars, wvars
<1>2. messages_received' \in {messages_received, 1}
  BY DEF Rx, RxCheck, RxRecv, RxStartCounter, RxClose, RxShutdownTest, RxShutdownSet, RxJoin, RequestKill,
     Main, DestructorTest, DestructorSet, DestructorJoin, vars
<1>3. HeldInv' /\ Completed' = Completed
  <2>1. \A w \in Workers : Held(w)' = Held(w)
    BY <1>1 DEF Held
  <2>2. QED
    BY <1>1, <2>1, HeldKept
<1>4. Counting' = Counting
  BY <1>1 DEF Counting
<1>5. Completed \in Int
  <2>1. Cardinality(HeldMsgs) \in Nat
    BY FiniteMsgs DEF HeldMsgs
  <2>2. produced \in Nat
    BY StreamAssumption, LenProperties DEF TypeOK
  <2>3. QED
    BY <2>1, <2>2, CompletedIs
<1>6. Cardinality(Counting) \in Nat
  BY FiniteWorkers DEF Counting
<1>7. CountInv'
  BY <1>2, <1>3, <1>4, <1>5, <1>6 DEF CountInv
<1>8. QED
  BY <1>3, <1>7

LEMMA CountNext == TypeOK /\ HeldInv /\ CountInv /\ [Next]_vars => HeldInv' /\ CountInv'
<1> SUFFICES ASSUME TypeOK, HeldInv, CountInv, [Next]_vars PROVE HeldInv' /\ CountInv'
  OBVIOUS
<1>1. TypeOK'
  BY TypeNext
<1>2. CASE \E w \in Workers : Send(w) \/ Worker(w)
  BY <1>1, <1>2, SendCounts, ForwardCounts, WorkerCounts DEF Worker
<1>3. CASE Rx \/ RequestKill \/ Main \/ UNCHANGED vars
  BY <1>1, <1>3, OthersCount
<1>4. QED
  BY <1>2, <1>3 DEF Next

\* For every stream and every finite number of workers: however the increments
\* of the workers and the restart of the counter at a header interleave,
\* messages_received() is at most one ahead of the messages forwarded
\* (MultiPullBroker.cpp:98-99, 113).
THEOREM CountsAtMostOneTwiceAlways == Spec => []CountsAtMostOneTwice
<1>1. CountInv => CountsAtMostOneTwice
  BY DEF CountInv, CountsAtMostOneTwice, Counting
<1>2. Spec => [](HeldInv /\ CountInv)
  BY HeldInit, CountNext, TypeCorrect, PTL DEF Spec
<1>3. QED
  BY <1>1, <1>2, PTL
=============================================================================
