--------------------------- MODULE EigerDetector_proofs ---------------------------
(***************************************************************************)
(* For every set of parameters, every ntrigger and every bound: the types  *)
(* of the control object, and the bound on the triggers that reach an      *)
(* armed detector.                                                         *)
(***************************************************************************)
EXTENDS EigerDetector, TLAPS

\* What a thread is fetching, and where it goes from there.
JobInv ==
    /\ job["rest"].after \in {"idle", "arm"}
    /\ job["status"].kind \in {"none", "stale"}
    /\ job["init"].kind \in {"none", "all"}
    /\ job["init"].kind = "all" => job["init"].after = "wait"
    /\ \A t \in Fetchers : pc[t] = "store" => job[t].cfg \in Params

\* How many triggers the detector may have taken since it was armed, by the place
\* of the acquisition thread: it leaves a run only through a disarm.
ShotInv ==
    /\ hw.shots <= NTrigger
    /\ pc["acq"] \in {"manual", "send", "count"} => triggers < NTrigger
    /\ hw.armed /\ pc["acq"] \in {"test", "manual", "send"} => hw.shots <= triggers
    /\ hw.armed /\ pc["acq"] = "count" => hw.shots <= triggers + 1
    /\ hw.armed /\ pc["acq"] \in {"wait", "unflag"} => hw.shots = 0

\* The counters of the high voltage reset stay below their limits inside the loops.
HvInv ==
    /\ pc["hv"] \in {"state", "command"} => hv.iteration < Iterations
    /\ pc["hv"] = "state" => hv.waits <= MaxWaits

IInv == TypeOK /\ JobInv /\ ShotInv /\ HvInv

-----------------------------------------------------------------------------
LEMMA NoJobTyped == NoJob \in JobSet
  BY DEF NoJob, JobSet, Values

LEMMA BoundsTyped ==
    /\ NTrigger \in Nat /\ MaxRequests \in Nat /\ MaxFailures \in Nat
    /\ Iterations \in Nat \ {0} /\ MaxWaits \in Nat \ {0}
  BY ControlAssumption DEF ControlAssumption

LEMMA GotoTyped ==
    ASSUME PcOK, NEW t \in Threads, NEW w, Goto(t, w),
           t = "rest" => w \in RestPcs, t = "status" => w \in StatusPcs,
           t = "acq" => w \in AcqPcs, t = "init" => w \in InitPcs,
           t = "hv" => w \in HvPcs
    PROVE  PcOK'
  <1> DEFINE All == RestPcs \cup StatusPcs \cup AcqPcs \cup InitPcs \cup HvPcs
  <1>1. pc \in [Threads -> All] /\ pc' = [pc EXCEPT ![t] = w]
    BY DEF PcOK, Goto
  <1>2. w \in All
    BY DEF Threads
  <1>3. pc' \in [Threads -> All]
    BY <1>1, <1>2
  <1>4. \A u \in Threads : pc'[u] = IF u = t THEN w ELSE pc[u]
    BY <1>1
  <1> QED
    BY <1>3, <1>4 DEF PcOK, Threads

\* A request costs one of those that are left.
LEMMA Spent ==
    ASSUME NEW b \in [requests : 0 .. MaxRequests, failures : 0 .. MaxFailures],
           b.requests > 0
    PROVE  [b EXCEPT !.requests = @ - 1]
               \in [requests : 0 .. MaxRequests, failures : 0 .. MaxFailures]
  BY BoundsTyped

\* A failure likewise.
LEMMA Failed ==
    ASSUME NEW b \in [requests : 0 .. MaxRequests, failures : 0 .. MaxFailures],
           b.failures > 0
    PROVE  [b EXCEPT !.failures = @ - 1]
               \in [requests : 0 .. MaxRequests, failures : 0 .. MaxFailures]
  BY BoundsTyped

\* What set_value leaves, whatever the detector answers.
LEMMA PutTyped ==
    ASSUME DataOK, JobInv, NEW p \in Params, NEW after \in {"idle", "arm"},
           PutValue(p, after)
    PROVE  /\ actual' \in [Params -> Nat] /\ writes' \in Nat /\ disturbed' \in BOOLEAN
           /\ job' \in [Fetchers -> JobSet] /\ job'["rest"].after \in {"idle", "arm"}
           /\ \A t \in Fetchers \ {"rest"} : job'[t] = job[t]
           /\ \E where \in {"add", "fetch", after, "idle"} : Goto("rest", where)
  <1> DEFINE j == [NoJob EXCEPT !.todo = Affects[p], !.after = after]
             i == [NoJob EXCEPT !.kind = "item", !.todo = {p}, !.after = after]
  <1>1. j \in JobSet /\ j.after = after /\ i \in JobSet /\ i.after = after
    BY ControlAssumption DEF ControlAssumption, NoJob, JobSet, Values
  <1>2. \/ job' = [job EXCEPT !["rest"] = j]
        \/ job' = [job EXCEPT !["rest"] = i]
        \/ job' = job
    BY DEF PutValue
  <1>3. PICK S : Written(S)
    BY DEF PutValue
  <1>4. actual' \in [Params -> Nat] /\ writes' \in Nat
    BY <1>3 DEF Written, DataOK
  <1>5. disturbed' \in BOOLEAN
    BY DEF PutValue, Begin, DataOK
  <1>6. \E where \in {"add", "fetch", after, "idle"} : Goto("rest", where)
    BY DEF PutValue
  <1> HIDE DEF j, i
  <1> QED
    BY <1>1, <1>2, <1>4, <1>5, <1>6 DEF DataOK, JobInv, Fetchers

LEMMA PcKept == PcOK /\ UNCHANGED pc => PcOK'
  BY DEF PcOK

\* The initial states satisfy the invariant.
LEMMA InitHolds == Init => IInv
  <1> SUFFICES ASSUME Init PROVE IInv
    OBVIOUS
  <1>1. DataOK
    <2>1. actual \in [Params -> Nat] /\ cached \in [Params -> Values]
      BY DEF Init, Values
    <2>2. hw \in [armed : BOOLEAN, shots : Nat] /\ writes \in Nat
      BY DEF Init
    <2>3. stale \in [Params -> Nat] /\ disturbed \in BOOLEAN
      BY DEF Init
    <2>4. job \in [Fetchers -> JobSet]
      BY NoJobTyped DEF Init
    <2>5. budget \in [requests : 0 .. MaxRequests, failures : 0 .. MaxFailures]
      <3>1. PICK u \in Uses : budget = [requests |-> u[4], failures |-> MaxFailures]
        BY DEF Init
      <3>2. u[4] \in 0 .. MaxRequests
        BY ControlAssumption DEF ControlAssumption
      <3> QED
        BY <3>1, <3>2, BoundsTyped
    <2> QED
      BY <2>1, <2>2, <2>3, <2>4, <2>5 DEF DataOK
  <1>2. PcOK
    BY DEF Init, PcOK, Threads, RestPcs, StatusPcs, AcqPcs, InitPcs, HvPcs
  <1>3. FlagsOK
    <2>1. complete \in BOOLEAN /\ armed \in BOOLEAN /\ initializing \in BOOLEAN
      BY DEF Init
    <2>2. acqEvent \in BOOLEAN /\ trigEvent \in BOOLEAN /\ initEvent \in BOOLEAN
      BY DEF Init
    <2>3. triggers \in 0 .. NTrigger
      BY ControlAssumption DEF Init
    <2>4. trigger_mode \in Modes /\ manual_trigger \in BOOLEAN
      BY ControlAssumption DEF Init
    <2> QED
      BY <2>1, <2>2, <2>3, <2>4 DEF FlagsOK
  <1>6. HvOK
    <2>1. hv \in [resetting : BOOLEAN, event : BOOLEAN, iteration : 0 .. Iterations,
                  waits : 0 .. MaxWaits + 1]
      BY BoundsTyped DEF Init
    <2>2. asks \subseteq RequestSet /\ executing \in BOOLEAN
      BY ControlAssumption DEF Init
    <2> QED
      BY <2>1, <2>2 DEF HvOK
  <1>7. HvInv
    BY DEF Init, HvInv, Threads
  <1>4. JobInv
    BY DEF Init, JobInv, NoJob, Fetchers, Threads
  <1>5. ShotInv
    BY BoundsTyped DEF Init, ShotInv, Threads
  <1> QED
    BY <1>1, <1>2, <1>3, <1>4, <1>5, <1>6, <1>7 DEF IInv, TypeOK

\* Every step keeps it: for each action its five parts, the ones the action leaves
\* alone included.
LEMMA StepHolds == IInv /\ [Next]_vars => IInv'
  <1> SUFFICES ASSUME IInv, [Next]_vars PROVE IInv'
    OBVIOUS
  <1> USE DEF IInv, TypeOK
  <1>1. ASSUME NEW t \in Fetchers, StaleCopy(t) PROVE IInv'
    <2> DEFINE j == [NoJob EXCEPT !.kind = "stale", !.prev = stale,
                                  !.todo = {p \in Params : stale[p] > 0}]
    <2>1. j \in JobSet /\ j.kind = "stale" /\ j.after = "idle"
      BY DEF DataOK, NoJob, JobSet, Values
    <2>2. job' = job \/ job' = [job EXCEPT ![t] = j]
      BY <1>1 DEF StaleCopy, Begin, list
    <2>3. disturbed' \in BOOLEAN
      BY <1>1 DEF StaleCopy, Begin, DataOK, list
    <2>4. UNCHANGED <<actual, hw, writes, cached, stale, budget>>
      BY <1>1 DEF StaleCopy, detector
    <2> HIDE DEF j
    <2>5. DataOK'
      BY <2>1, <2>2, <2>3, <2>4 DEF DataOK, Fetchers
    <2> USE <1>1 DEF StaleCopy, AfterStale, Begin, detector, list, flags, happened, other
    <2>6. PcOK'
      <3>1. t \in {"rest", "status"}
        BY <1>1 DEF StaleCopy, Fetchers, PcOK, InitPcs
      <3>2. Goto(t, IF t = "rest" THEN "again" ELSE "sleep") \/ Goto(t, "fetch")
        BY <1>1 DEF StaleCopy, AfterStale
      <3>3. CASE t = "rest"
        BY <3>2, <3>3, GotoTyped DEF Threads, RestPcs
      <3>4. CASE t = "status"
        BY <3>2, <3>4, GotoTyped DEF Threads, StatusPcs
      <3> QED
        BY <3>1, <3>3, <3>4
    <2>7. FlagsOK'
      BY DEF FlagsOK
    <2>8. JobInv'
      BY <2>1, <2>2 DEF JobInv, Goto, Fetchers, Threads, DataOK, JobSet, PcOK,
                        InitPcs
    <2>9. ShotInv'
      BY DEF ShotInv, Goto, Threads, DataOK, FlagsOK, PcOK
    <2>10. HvOK'
      BY DEF HvOK
    <2>11. HvInv'
      BY DEF HvInv, HvOK, Goto, Threads, Fetchers, PcOK
    <2> QED
      BY <2>5, <2>6, <2>7, <2>8, <2>9, <2>10, <2>11
  <1>2. ASSUME NEW t \in Fetchers, FetchRead(t) PROVE IInv'
    <2>0. PICK p \in job[t].todo : \E v \in {actual[p], NoValue} :
              job' = [job EXCEPT ![t].todo = @ \ {p}, ![t].cfg = p, ![t].value = v]
      BY <1>2 DEF FetchRead
    <2>1. DataOK'
      <3>1. PICK v \in {actual[p], NoValue} :
                job' = [job EXCEPT ![t].todo = @ \ {p}, ![t].cfg = p, ![t].value = v]
        BY <2>0
      <3>2. job[t] \in JobSet /\ p \in Params /\ v \in Values
        BY <1>2 DEF DataOK, JobSet, Values
      <3>3. [job[t] EXCEPT !.todo = @ \ {p}, !.cfg = p, !.value = v] \in JobSet
        BY <3>2 DEF JobSet
      <3>4. job' = [job EXCEPT ![t] = [job[t] EXCEPT !.todo = @ \ {p}, !.cfg = p,
                                                     !.value = v]]
        BY <3>1
      <3>5. job' \in [Fetchers -> JobSet]
        BY <3>3, <3>4 DEF DataOK
      <3>6. budget' \in [requests : 0 .. MaxRequests, failures : 0 .. MaxFailures]
        BY <1>2, Failed DEF FetchRead, DataOK
      <3> QED
        BY <1>2, <3>5, <3>6 DEF FetchRead, detector, DataOK
    <2>2. PcOK'
      <3>1. Goto(t, "store")
        BY <1>2 DEF FetchRead
      <3>2. /\ t \in Threads /\ t \in {"rest", "status", "init"}
            /\ "store" \in RestPcs /\ "store" \in StatusPcs /\ "store" \in InitPcs
        BY DEF Fetchers, Threads, RestPcs, StatusPcs, InitPcs
      <3> QED
        BY <3>1, <3>2, GotoTyped
    <2>7. UNCHANGED <<detector, flags, happened, triggers, other>> /\ Goto(t, "store")
      BY <1>2 DEF FetchRead
    <2> USE <2>7 DEF detector, flags, happened, other
    <2>3. FlagsOK'
      BY DEF FlagsOK
    <2>4. JobInv'
      BY <2>0 DEF JobInv, Goto, Fetchers, Threads, NoJob, DataOK, JobSet, PcOK
    <2>5. ShotInv'
      BY DEF ShotInv, Goto, Threads, DataOK, FlagsOK, PcOK
    <2>6. HvOK'
      BY DEF HvOK
    <2>8. HvInv'
      BY DEF HvInv, HvOK, Goto, Threads, Fetchers, PcOK
    <2> QED
      BY <2>1, <2>2, <2>3, <2>4, <2>5, <2>6, <2>8
  <1>3. ASSUME NEW t \in Fetchers, FetchStore(t) PROVE IInv'
    <2>2. PcOK'
      <3>1. Goto(t, "fetch")
        BY <1>3 DEF FetchStore
      <3>2. /\ t \in Threads /\ t \in {"rest", "status", "init"}
            /\ "fetch" \in RestPcs /\ "fetch" \in StatusPcs /\ "fetch" \in InitPcs
        BY DEF Fetchers, Threads, RestPcs, StatusPcs, InitPcs
      <3> QED
        BY <3>1, <3>2, GotoTyped
    <2> USE <1>3 DEF FetchStore, detector, list, flags, happened, other
    <2>1. DataOK'
      BY DEF DataOK, JobSet, Values, NoJob, Fetchers, Goto, JobInv, PcOK
    <2>3. FlagsOK'
      BY DEF FlagsOK
    <2>4. JobInv'
      BY DEF JobInv, Goto, Fetchers, Threads, NoJob, DataOK, JobSet, PcOK
    <2>5. ShotInv'
      BY DEF ShotInv, Goto, Threads, DataOK, FlagsOK, PcOK
    <2>6. HvOK'
      BY DEF HvOK
    <2>7. HvInv'
      BY DEF HvInv, HvOK, Goto, Threads, Fetchers, PcOK
    <2> QED
      BY <2>1, <2>2, <2>3, <2>4, <2>5, <2>6, <2>7
  <1>4. ASSUME NEW t \in Fetchers, StaleRemove(t) PROVE IInv'
    <2>2. PcOK'
      <3>1. job[t].kind = "stale" /\ Goto(t, IF t = "rest" THEN "again" ELSE "sleep")
        BY <1>4 DEF StaleRemove, AfterStale
      <3>2. CASE t = "rest"
        BY <3>1, <3>2, GotoTyped DEF Threads, RestPcs
      <3>3. CASE t = "status"
        BY <3>1, <3>3, GotoTyped DEF Threads, StatusPcs
      <3>4. t # "init"
        BY <3>1 DEF JobInv
      <3> QED
        BY <3>2, <3>3, <3>4 DEF Fetchers
    <2> USE <1>4 DEF StaleRemove, AfterStale, Remaining, detector, list, flags, happened,
           other
    <2>1. DataOK'
      BY DEF DataOK, JobSet, Values, NoJob, Fetchers, Goto, JobInv, PcOK
    <2>3. FlagsOK'
      BY DEF FlagsOK
    <2>4. JobInv'
      BY DEF JobInv, Goto, Fetchers, Threads, NoJob, DataOK, JobSet, PcOK
    <2>5. ShotInv'
      BY DEF ShotInv, Goto, Threads, DataOK, FlagsOK, PcOK
    <2>6. HvOK'
      BY DEF HvOK
    <2>7. HvInv'
      BY DEF HvInv, HvOK, Goto, Threads, Fetchers, PcOK
    <2> QED
      BY <2>1, <2>2, <2>3, <2>4, <2>5, <2>6, <2>7
  <1>5. ASSUME NEW t \in Fetchers, OthersRead(t) PROVE IInv'
    <2>2. PcOK'
      <3>1. /\ job[t].kind \in {"item", "all"}
            /\ Goto(t, IF t = "init" THEN Looping("wait") ELSE job[t].after)
        BY <1>5 DEF OthersRead
      <3>2. CASE t = "rest"
        <4>1. Goto(t, job[t].after) /\ job[t].after \in {"idle", "arm"}
          BY <3>1, <3>2 DEF JobInv
        <4> QED
          BY <4>1, <3>2, GotoTyped DEF Threads, RestPcs
      <3>3. CASE t = "init"
        <4>1. Goto(t, "wait") \/ Goto(t, "gone")
          BY <3>1, <3>3 DEF Looping
        <4> QED
          BY <4>1, <3>3, GotoTyped DEF Threads, InitPcs
      <3>4. t # "status"
        BY <3>1 DEF JobInv
      <3> QED
        BY <3>2, <3>3, <3>4 DEF Fetchers
    <2> USE <1>5 DEF OthersRead, Looping, detector, list, flags, happened, other
    <2>1. DataOK'
      BY DEF DataOK, JobSet, Values, NoJob, Fetchers, Goto, JobInv, PcOK
    <2>3. FlagsOK'
      BY DEF FlagsOK
    <2>4. JobInv'
      BY DEF JobInv, Goto, Fetchers, Threads, NoJob, DataOK, JobSet, PcOK
    <2>5. ShotInv'
      BY BoundsTyped DEF ShotInv, Goto, Threads, Fetchers, DataOK, FlagsOK, PcOK
    <2>6. HvOK'
      BY DEF HvOK
    <2>7. HvInv'
      BY DEF HvInv, HvOK, Goto, Threads, Fetchers, PcOK
    <2> QED
      BY <2>1, <2>2, <2>3, <2>4, <2>5, <2>6, <2>7
  <1>6. ASSUME NEW p \in Params, RestPut(p) PROVE IInv'
    <2>1. PutValue(p, "idle") /\ UNCHANGED <<hw, cached, stale>>
      BY <1>6 DEF RestPut
    <2>2. /\ actual' \in [Params -> Nat] /\ writes' \in Nat /\ disturbed' \in BOOLEAN
          /\ job' \in [Fetchers -> JobSet] /\ job'["rest"].after \in {"idle", "arm"}
          /\ \A t \in Fetchers \ {"rest"} : job'[t] = job[t]
          /\ \E where \in {"add", "fetch", "idle", "idle"} : Goto("rest", where)
      BY <2>1, PutTyped, ControlAssumption DEF ControlAssumption
    <2>3. budget' \in [requests : 0 .. MaxRequests, failures : 0 .. MaxFailures]
      BY <1>6, BoundsTyped DEF RestPut, Asked, DataOK
    <2>4. UNCHANGED <<flags, happened, triggers, other>>
      BY <1>6 DEF RestPut
    <2>5. DataOK'
      BY <2>1, <2>2, <2>3 DEF DataOK
    <2>6. PcOK'
      BY <2>2, GotoTyped DEF Threads, RestPcs
    <2> USE <2>1, <2>2, <2>4 DEF detector, flags, happened, other
    <2>7. FlagsOK'
      BY DEF FlagsOK
    <2>8. JobInv'
      BY DEF JobInv, Goto, Fetchers, Threads, DataOK, JobSet, PcOK
    <2>9. ShotInv'
      BY DEF ShotInv, Goto, Threads, DataOK, FlagsOK, PcOK
    <2>10. HvOK'
      BY DEF HvOK
    <2>11. HvInv'
      BY DEF HvInv, HvOK, Goto, Threads, Fetchers, PcOK
    <2> QED
      BY <2>5, <2>6, <2>7, <2>8, <2>9, <2>10, <2>11
  <1>7. CASE RestAdd
    <2> USE <1>7 DEF RestAdd, detector, list, flags, happened, other
    <2>1. DataOK'
      BY DEF DataOK, JobSet, Values, NoJob, Fetchers, Goto, JobInv, PcOK
    <2>2. PcOK'
      BY DEF PcOK, Goto, Threads, Fetchers, RestPcs, StatusPcs, AcqPcs, InitPcs,
             HvPcs, JobInv
    <2>3. FlagsOK'
      BY DEF FlagsOK
    <2>4. JobInv'
      BY DEF JobInv, Goto, Fetchers, Threads, NoJob, DataOK, JobSet, PcOK
    <2>5. ShotInv'
      BY DEF ShotInv, Goto, Threads, DataOK, FlagsOK, PcOK
    <2>6. HvOK'
      BY DEF HvOK
    <2>7. HvInv'
      BY DEF HvInv, HvOK, Goto, Threads, Fetchers, PcOK
    <2> QED
      BY <2>1, <2>2, <2>3, <2>4, <2>5, <2>6, <2>7
  <1>8. CASE RestStart
    <2> USE <1>8 DEF RestStart, Asked, Starts, detector, list, flags, happened, other
    <2>1. DataOK'
      BY BoundsTyped DEF DataOK
    <2>2. PcOK'
      BY DEF PcOK, Goto, Threads, Fetchers, RestPcs, StatusPcs, AcqPcs, InitPcs,
             HvPcs, JobInv
    <2>3. FlagsOK'
      BY DEF FlagsOK
    <2>4. JobInv'
      BY DEF JobInv, Goto, Fetchers, Threads, NoJob, DataOK, JobSet, PcOK
    <2>5. ShotInv'
      BY DEF ShotInv, Goto, Threads, DataOK, FlagsOK, PcOK
    <2>6. HvOK'
      BY DEF HvOK
    <2>7. HvInv'
      BY DEF HvInv, HvOK, Goto, Threads, Fetchers, PcOK
    <2> QED
      BY <2>1, <2>2, <2>3, <2>4, <2>5, <2>6, <2>7
  <1>9. CASE RestAgain
    <2> USE <1>9 DEF RestAgain, detector, list, flags, happened, other
    <2>1. DataOK'
      BY DEF DataOK, JobSet, Values, NoJob, Fetchers, Goto, JobInv, PcOK
    <2>2. PcOK'
      BY DEF PcOK, Goto, Threads, Fetchers, RestPcs, StatusPcs, AcqPcs, InitPcs,
             HvPcs, JobInv
    <2>3. FlagsOK'
      BY DEF FlagsOK
    <2>4. JobInv'
      BY DEF JobInv, Goto, Fetchers, Threads, NoJob, DataOK, JobSet, PcOK
    <2>5. ShotInv'
      BY DEF ShotInv, Goto, Threads, DataOK, FlagsOK, PcOK
    <2>6. HvOK'
      BY DEF HvOK
    <2>7. HvInv'
      BY DEF HvInv, HvOK, Goto, Threads, Fetchers, PcOK
    <2> QED
      BY <2>1, <2>2, <2>3, <2>4, <2>5, <2>6, <2>7
  <1>10. CASE RestComplete
    <2> USE <1>10 DEF RestComplete, detector, list, flags, happened, other
    <2>1. DataOK'
      BY DEF DataOK, JobSet, Values, NoJob, Fetchers, Goto, JobInv, PcOK
    <2>2. PcOK'
      BY DEF PcOK, Goto, Threads, Fetchers, RestPcs, StatusPcs, AcqPcs, InitPcs,
             HvPcs, JobInv
    <2>3. FlagsOK'
      BY DEF FlagsOK
    <2>4. JobInv'
      BY DEF JobInv, Goto, Fetchers, Threads, NoJob, DataOK, JobSet, PcOK
    <2>5. ShotInv'
      BY DEF ShotInv, Goto, Threads, DataOK, FlagsOK, PcOK
    <2>6. HvOK'
      BY DEF HvOK
    <2>7. HvInv'
      BY DEF HvInv, HvOK, Goto, Threads, Fetchers, PcOK
    <2> QED
      BY <2>1, <2>2, <2>3, <2>4, <2>5, <2>6, <2>7
  <1>11. CASE RestImages
    <2>1. PutValue(NImages, "arm") /\ UNCHANGED <<hw, cached, stale>>
      BY <1>11 DEF RestImages
    <2>2. /\ actual' \in [Params -> Nat] /\ writes' \in Nat /\ disturbed' \in BOOLEAN
          /\ job' \in [Fetchers -> JobSet] /\ job'["rest"].after \in {"idle", "arm"}
          /\ \A t \in Fetchers \ {"rest"} : job'[t] = job[t]
          /\ \E where \in {"add", "fetch", "arm", "idle"} : Goto("rest", where)
      BY <2>1, PutTyped, ControlAssumption DEF ControlAssumption
    <2>3. budget' \in [requests : 0 .. MaxRequests, failures : 0 .. MaxFailures]
      BY <1>11, BoundsTyped DEF RestImages, Asked, DataOK
    <2>4. UNCHANGED <<flags, happened, triggers, other>>
      BY <1>11 DEF RestImages
    <2>5. DataOK'
      BY <2>1, <2>2, <2>3 DEF DataOK
    <2>6. PcOK'
      BY <2>2, GotoTyped DEF Threads, RestPcs
    <2> USE <2>1, <2>2, <2>4 DEF detector, flags, happened, other
    <2>7. FlagsOK'
      BY DEF FlagsOK
    <2>8. JobInv'
      BY DEF JobInv, Goto, Fetchers, Threads, DataOK, JobSet, PcOK
    <2>9. ShotInv'
      BY DEF ShotInv, Goto, Threads, DataOK, FlagsOK, PcOK
    <2>10. HvOK'
      BY DEF HvOK
    <2>11. HvInv'
      BY DEF HvInv, HvOK, Goto, Threads, Fetchers, PcOK
    <2> QED
      BY <2>5, <2>6, <2>7, <2>8, <2>9, <2>10, <2>11
  <1>12. CASE RestArm
    <2> USE <1>12 DEF RestArm, Arm, detector, list, flags, happened, other
    <2>1. DataOK'
      BY DEF DataOK, JobSet, Values, NoJob, Fetchers, Goto, JobInv, PcOK
    <2>2. PcOK'
      BY DEF PcOK, Goto, Threads, Fetchers, RestPcs, StatusPcs, AcqPcs, InitPcs,
             HvPcs, JobInv
    <2>3. FlagsOK'
      BY DEF FlagsOK
    <2>4. JobInv'
      BY DEF JobInv, Goto, Fetchers, Threads, NoJob, DataOK, JobSet, PcOK
    <2>5. ShotInv'
      BY BoundsTyped DEF ShotInv, Goto, Threads, Fetchers, DataOK, FlagsOK, PcOK
    <2>6. HvOK'
      BY DEF HvOK
    <2>7. HvInv'
      BY DEF HvInv, HvOK, Goto, Threads, Fetchers, PcOK
    <2> QED
      BY <2>1, <2>2, <2>3, <2>4, <2>5, <2>6, <2>7
  <1>13. CASE RestWake
    <2> USE <1>13 DEF RestWake, detector, list, flags, happened, other
    <2>1. DataOK'
      BY DEF DataOK, JobSet, Values, NoJob, Fetchers, Goto, JobInv, PcOK
    <2>2. PcOK'
      BY DEF PcOK, Goto, Threads, Fetchers, RestPcs, StatusPcs, AcqPcs, InitPcs,
             HvPcs, JobInv
    <2>3. FlagsOK'
      BY DEF FlagsOK
    <2>4. JobInv'
      BY DEF JobInv, Goto, Fetchers, Threads, NoJob, DataOK, JobSet, PcOK
    <2>5. ShotInv'
      BY DEF ShotInv, Goto, Threads, DataOK, FlagsOK, PcOK
    <2>6. HvOK'
      BY DEF HvOK
    <2>7. HvInv'
      BY DEF HvInv, HvOK, Goto, Threads, Fetchers, PcOK
    <2> QED
      BY <2>1, <2>2, <2>3, <2>4, <2>5, <2>6, <2>7
  <1>14. CASE RestFlag
    <2> USE <1>14 DEF RestFlag, detector, list, flags, happened, other
    <2>1. DataOK'
      BY DEF DataOK, JobSet, Values, NoJob, Fetchers, Goto, JobInv, PcOK
    <2>2. PcOK'
      BY DEF PcOK, Goto, Threads, Fetchers, RestPcs, StatusPcs, AcqPcs, InitPcs,
             HvPcs, JobInv
    <2>3. FlagsOK'
      BY DEF FlagsOK
    <2>4. JobInv'
      BY DEF JobInv, Goto, Fetchers, Threads, NoJob, DataOK, JobSet, PcOK
    <2>5. ShotInv'
      BY DEF ShotInv, Goto, Threads, DataOK, FlagsOK, PcOK
    <2>6. HvOK'
      BY DEF HvOK
    <2>7. HvInv'
      BY DEF HvInv, HvOK, Goto, Threads, Fetchers, PcOK
    <2> QED
      BY <2>1, <2>2, <2>3, <2>4, <2>5, <2>6, <2>7
  <1>15. CASE RestStop
    <2>1. hw' \in [armed : BOOLEAN, shots : Nat]
      BY <1>15 DEF RestStop, Disarm, DataOK
    <2>2. budget' \in [requests : 0 .. MaxRequests, failures : 0 .. MaxFailures]
      BY <1>15, BoundsTyped DEF RestStop, Asked, DataOK
    <2>3. UNCHANGED <<actual, writes, cached, stale, job, disturbed>>
      BY <1>15 DEF RestStop, list
    <2>4. DataOK'
      BY <2>1, <2>2, <2>3 DEF DataOK
    <2> USE <1>15 DEF RestStop, Disarm, Asked, detector, list, flags, happened, other
    <2>5. PcOK'
      <3>1. Goto("rest", "stopped") \/ UNCHANGED pc
        BY <1>15 DEF RestStop
      <3> QED
        BY <3>1, GotoTyped, PcKept DEF Threads, RestPcs
    <2>6. FlagsOK'
      BY DEF FlagsOK
    <2>7. JobInv'
      BY DEF JobInv, Goto, Fetchers, Threads, NoJob, DataOK, JobSet, PcOK
    <2>8. ShotInv'
      BY DEF ShotInv, Goto, Threads, DataOK, FlagsOK, PcOK
    <2>9. HvOK'
      BY DEF HvOK
    <2>10. HvInv'
      BY DEF HvInv, HvOK, Goto, Threads, Fetchers, PcOK
    <2> QED
      BY <2>4, <2>5, <2>6, <2>7, <2>8, <2>9, <2>10
  <1>16. CASE RestStopped
    <2> USE <1>16 DEF RestStopped, detector, list, flags, happened, other
    <2>1. DataOK'
      BY DEF DataOK, JobSet, Values, NoJob, Fetchers, Goto, JobInv, PcOK
    <2>2. PcOK'
      BY DEF PcOK, Goto, Threads, Fetchers, RestPcs, StatusPcs, AcqPcs, InitPcs,
             HvPcs, JobInv
    <2>3. FlagsOK'
      BY DEF FlagsOK
    <2>4. JobInv'
      BY DEF JobInv, Goto, Fetchers, Threads, NoJob, DataOK, JobSet, PcOK
    <2>5. ShotInv'
      BY DEF ShotInv, Goto, Threads, DataOK, FlagsOK, PcOK
    <2>6. HvOK'
      BY DEF HvOK
    <2>7. HvInv'
      BY DEF HvInv, HvOK, Goto, Threads, Fetchers, PcOK
    <2> QED
      BY <2>1, <2>2, <2>3, <2>4, <2>5, <2>6, <2>7
  <1>17. CASE RestTrigger
    <2> USE <1>17 DEF RestTrigger, Asked, detector, list, flags, happened, other
    <2>1. DataOK'
      BY BoundsTyped DEF DataOK
    <2>2. PcOK'
      <3>1. UNCHANGED pc
        BY <1>17 DEF RestTrigger
      <3> QED
        BY <3>1, PcKept
    <2>3. FlagsOK'
      BY DEF FlagsOK
    <2>4. JobInv'
      BY DEF JobInv, Goto, Fetchers, Threads, NoJob, DataOK, JobSet, PcOK
    <2>5. ShotInv'
      BY DEF ShotInv, Goto, Threads, DataOK, FlagsOK, PcOK
    <2>6. HvOK'
      BY DEF HvOK
    <2>7. HvInv'
      BY DEF HvInv, HvOK, Goto, Threads, Fetchers, PcOK
    <2> QED
      BY <2>1, <2>2, <2>3, <2>4, <2>5, <2>6, <2>7
  <1>18. CASE RestInitialize
    <2> USE <1>18 DEF RestInitialize, Asked, detector, list, flags, happened, other
    <2>1. DataOK'
      BY BoundsTyped DEF DataOK
    <2>2. PcOK'
      BY DEF PcOK, Goto, Threads, Fetchers, RestPcs, StatusPcs, AcqPcs, InitPcs,
             HvPcs, JobInv
    <2>3. FlagsOK'
      BY DEF FlagsOK
    <2>4. JobInv'
      BY DEF JobInv, Goto, Fetchers, Threads, NoJob, DataOK, JobSet, PcOK
    <2>5. ShotInv'
      BY DEF ShotInv, Goto, Threads, DataOK, FlagsOK, PcOK
    <2>6. HvOK'
      BY DEF HvOK
    <2>7. HvInv'
      BY DEF HvInv, HvOK, Goto, Threads, Fetchers, PcOK
    <2> QED
      BY <2>1, <2>2, <2>3, <2>4, <2>5, <2>6, <2>7
  <1>19. CASE RestEvent
    <2> USE <1>19 DEF RestEvent, detector, list, flags, happened, other
    <2>1. DataOK'
      BY DEF DataOK, JobSet, Values, NoJob, Fetchers, Goto, JobInv, PcOK
    <2>2. PcOK'
      BY DEF PcOK, Goto, Threads, Fetchers, RestPcs, StatusPcs, AcqPcs, InitPcs,
             HvPcs, JobInv
    <2>3. FlagsOK'
      BY DEF FlagsOK
    <2>4. JobInv'
      BY DEF JobInv, Goto, Fetchers, Threads, NoJob, DataOK, JobSet, PcOK
    <2>5. ShotInv'
      BY DEF ShotInv, Goto, Threads, DataOK, FlagsOK, PcOK
    <2>6. HvOK'
      BY DEF HvOK
    <2>7. HvInv'
      BY DEF HvInv, HvOK, Goto, Threads, Fetchers, PcOK
    <2> QED
      BY <2>1, <2>2, <2>3, <2>4, <2>5, <2>6, <2>7
  <1>20. CASE Unflag("rest")
    <2> USE <1>20 DEF Unflag, Looping, detector, list, flags, happened, other
    <2>1. DataOK'
      BY DEF DataOK, JobSet, Values, NoJob, Fetchers, Goto, JobInv, PcOK
    <2>2. PcOK'
      BY DEF PcOK, Goto, Threads, Fetchers, RestPcs, StatusPcs, AcqPcs, InitPcs,
             HvPcs, JobInv
    <2>3. FlagsOK'
      BY DEF FlagsOK
    <2>4. JobInv'
      BY DEF JobInv, Goto, Fetchers, Threads, NoJob, DataOK, JobSet, PcOK
    <2>5. ShotInv'
      BY DEF ShotInv, Goto, Threads, DataOK, FlagsOK, PcOK
    <2>6. HvOK'
      BY DEF HvOK
    <2>7. HvInv'
      BY DEF HvInv, HvOK, Goto, Threads, Fetchers, PcOK
    <2> QED
      BY <2>1, <2>2, <2>3, <2>4, <2>5, <2>6, <2>7
  <1>21. CASE AcqWake
    <2>1. triggers' \in 0 .. NTrigger
      BY <1>21, BoundsTyped DEF AcqWake, FlagsOK, ShotInv
    <2> USE <1>21 DEF AcqWake, detector, list, flags, happened, other
    <2>2. DataOK'
      BY DEF DataOK, JobSet, Values, NoJob, Fetchers, Goto, JobInv, PcOK
    <2>3. PcOK'
      BY DEF PcOK, Goto, Threads, Fetchers, RestPcs, StatusPcs, AcqPcs, InitPcs,
             HvPcs, JobInv
    <2>4. FlagsOK'
      BY <2>1 DEF FlagsOK
    <2>5. JobInv'
      BY DEF JobInv, Goto, Fetchers, Threads, NoJob, DataOK, JobSet, PcOK
    <2>6. ShotInv'
      BY DEF ShotInv, Goto, Threads, DataOK, FlagsOK, PcOK
    <2>7. HvOK'
      BY DEF HvOK
    <2>8. HvInv'
      BY DEF HvInv, HvOK, Goto, Threads, Fetchers, PcOK
    <2> QED
      BY <2>2, <2>3, <2>4, <2>5, <2>6, <2>7, <2>8
  <1>22. CASE AcqTest
    <2> USE <1>22 DEF AcqTest, Over, detector, list, flags, happened, other
    <2>1. DataOK'
      BY DEF DataOK, JobSet, Values, NoJob, Fetchers, Goto, JobInv, PcOK
    <2>2. PcOK'
      BY DEF PcOK, Goto, Threads, Fetchers, RestPcs, StatusPcs, AcqPcs, InitPcs,
             HvPcs, JobInv
    <2>3. FlagsOK'
      BY DEF FlagsOK
    <2>4. JobInv'
      BY DEF JobInv, Goto, Fetchers, Threads, NoJob, DataOK, JobSet, PcOK
    <2>5. ShotInv'
      BY BoundsTyped DEF ShotInv, Goto, Threads, Fetchers, DataOK, FlagsOK, PcOK
    <2>6. HvOK'
      BY DEF HvOK
    <2>7. HvInv'
      BY DEF HvInv, HvOK, Goto, Threads, Fetchers, PcOK
    <2> QED
      BY <2>1, <2>2, <2>3, <2>4, <2>5, <2>6, <2>7
  <1>23. CASE AcqManual
    <2> USE <1>23 DEF AcqManual, detector, list, flags, happened, other
    <2>1. DataOK'
      BY DEF DataOK, JobSet, Values, NoJob, Fetchers, Goto, JobInv, PcOK
    <2>2. PcOK'
      BY DEF PcOK, Goto, Threads, Fetchers, RestPcs, StatusPcs, AcqPcs, InitPcs,
             HvPcs, JobInv
    <2>3. FlagsOK'
      BY DEF FlagsOK
    <2>4. JobInv'
      BY DEF JobInv, Goto, Fetchers, Threads, NoJob, DataOK, JobSet, PcOK
    <2>5. ShotInv'
      BY DEF ShotInv, Goto, Threads, DataOK, FlagsOK, PcOK
    <2>6. HvOK'
      BY DEF HvOK
    <2>7. HvInv'
      BY DEF HvInv, HvOK, Goto, Threads, Fetchers, PcOK
    <2> QED
      BY <2>1, <2>2, <2>3, <2>4, <2>5, <2>6, <2>7
  <1>24. CASE AcqSend
    <2> USE <1>24 DEF AcqSend, Trigger, detector, list, flags, happened, other
    <2>1. DataOK'
      BY DEF DataOK, JobSet, Values, NoJob, Fetchers, Goto, JobInv, PcOK
    <2>2. PcOK'
      BY DEF PcOK, Goto, Threads, Fetchers, RestPcs, StatusPcs, AcqPcs, InitPcs,
             HvPcs, JobInv
    <2>3. FlagsOK'
      BY DEF FlagsOK
    <2>4. JobInv'
      BY DEF JobInv, Goto, Fetchers, Threads, NoJob, DataOK, JobSet, PcOK
    <2>5. ShotInv'
      BY BoundsTyped DEF ShotInv, Goto, Threads, Fetchers, DataOK, FlagsOK, PcOK
    <2>6. HvOK'
      BY DEF HvOK
    <2>7. HvInv'
      BY DEF HvInv, HvOK, Goto, Threads, Fetchers, PcOK
    <2> QED
      BY <2>1, <2>2, <2>3, <2>4, <2>5, <2>6, <2>7
  <1>25. CASE AcqCount
    <2>1. triggers' \in 0 .. NTrigger
      BY <1>25, BoundsTyped DEF AcqCount, FlagsOK, ShotInv
    <2> USE <1>25 DEF AcqCount, detector, list, flags, happened, other
    <2>2. DataOK'
      BY DEF DataOK, JobSet, Values, NoJob, Fetchers, Goto, JobInv, PcOK
    <2>3. PcOK'
      BY DEF PcOK, Goto, Threads, Fetchers, RestPcs, StatusPcs, AcqPcs, InitPcs,
             HvPcs, JobInv
    <2>4. FlagsOK'
      BY <2>1 DEF FlagsOK
    <2>5. JobInv'
      BY DEF JobInv, Goto, Fetchers, Threads, NoJob, DataOK, JobSet, PcOK
    <2>6. ShotInv'
      BY DEF ShotInv, Goto, Threads, DataOK, FlagsOK, PcOK
    <2>7. HvOK'
      BY DEF HvOK
    <2>8. HvInv'
      BY DEF HvInv, HvOK, Goto, Threads, Fetchers, PcOK
    <2> QED
      BY <2>2, <2>3, <2>4, <2>5, <2>6, <2>7, <2>8
  <1>26. CASE AcqFinish
    <2> USE <1>26 DEF AcqFinish, AtTheEnd, detector, list, flags, happened, other
    <2>1. DataOK'
      BY DEF DataOK, JobSet, Values, NoJob, Fetchers, Goto, JobInv, PcOK
    <2>2. PcOK'
      BY DEF PcOK, Goto, Threads, Fetchers, RestPcs, StatusPcs, AcqPcs, InitPcs,
             HvPcs, JobInv
    <2>3. FlagsOK'
      BY DEF FlagsOK
    <2>4. JobInv'
      BY DEF JobInv, Goto, Fetchers, Threads, NoJob, DataOK, JobSet, PcOK
    <2>5. ShotInv'
      BY DEF ShotInv, Goto, Threads, DataOK, FlagsOK, PcOK
    <2>6. HvOK'
      BY DEF HvOK
    <2>7. HvInv'
      BY DEF HvInv, HvOK, Goto, Threads, Fetchers, PcOK
    <2> QED
      BY <2>1, <2>2, <2>3, <2>4, <2>5, <2>6, <2>7
  <1>27. CASE AcqDisarm
    <2> USE <1>27 DEF AcqDisarm, Disarm, detector, list, flags, happened, other
    <2>1. DataOK'
      BY DEF DataOK, JobSet, Values, NoJob, Fetchers, Goto, JobInv, PcOK
    <2>2. PcOK'
      BY DEF PcOK, Goto, Threads, Fetchers, RestPcs, StatusPcs, AcqPcs, InitPcs,
             HvPcs, JobInv
    <2>3. FlagsOK'
      BY DEF FlagsOK
    <2>4. JobInv'
      BY DEF JobInv, Goto, Fetchers, Threads, NoJob, DataOK, JobSet, PcOK
    <2>5. ShotInv'
      BY DEF ShotInv, Goto, Threads, DataOK, FlagsOK, PcOK
    <2>6. HvOK'
      BY DEF HvOK
    <2>7. HvInv'
      BY DEF HvInv, HvOK, Goto, Threads, Fetchers, PcOK
    <2> QED
      BY <2>1, <2>2, <2>3, <2>4, <2>5, <2>6, <2>7
  <1>28. CASE Unflag("acq")
    <2> USE <1>28 DEF Unflag, Looping, detector, list, flags, happened, other
    <2>1. DataOK'
      BY DEF DataOK, JobSet, Values, NoJob, Fetchers, Goto, JobInv, PcOK
    <2>2. PcOK'
      BY DEF PcOK, Goto, Threads, Fetchers, RestPcs, StatusPcs, AcqPcs, InitPcs,
             HvPcs, JobInv
    <2>3. FlagsOK'
      BY DEF FlagsOK
    <2>4. JobInv'
      BY DEF JobInv, Goto, Fetchers, Threads, NoJob, DataOK, JobSet, PcOK
    <2>5. ShotInv'
      BY DEF ShotInv, Goto, Threads, DataOK, FlagsOK, PcOK
    <2>6. HvOK'
      BY DEF HvOK
    <2>7. HvInv'
      BY DEF HvInv, HvOK, Goto, Threads, Fetchers, PcOK
    <2> QED
      BY <2>1, <2>2, <2>3, <2>4, <2>5, <2>6, <2>7
  <1>29. CASE InitCommand
    <2> USE <1>29 DEF InitCommand, Written, detector, list, flags, happened, other
    <2>1. DataOK'
      BY DEF DataOK, JobSet, Values, NoJob, Fetchers, Goto, JobInv, PcOK
    <2>2. PcOK'
      BY DEF PcOK, Goto, Threads, Fetchers, RestPcs, StatusPcs, AcqPcs, InitPcs,
             HvPcs, JobInv
    <2>3. FlagsOK'
      BY DEF FlagsOK
    <2>4. JobInv'
      BY DEF JobInv, Goto, Fetchers, Threads, NoJob, DataOK, JobSet, PcOK
    <2>5. ShotInv'
      BY DEF ShotInv, Goto, Threads, DataOK, FlagsOK, PcOK
    <2>6. HvOK'
      BY DEF HvOK
    <2>7. HvInv'
      BY DEF HvInv, HvOK, Goto, Threads, Fetchers, PcOK
    <2> QED
      BY <2>1, <2>2, <2>3, <2>4, <2>5, <2>6, <2>7
  <1>30. CASE InitDone
    <2> USE <1>30 DEF InitDone, detector, list, flags, happened, other
    <2>1. DataOK'
      BY DEF DataOK, JobSet, Values, NoJob, Fetchers, Goto, JobInv, PcOK
    <2>2. PcOK'
      BY DEF PcOK, Goto, Threads, Fetchers, RestPcs, StatusPcs, AcqPcs, InitPcs,
             HvPcs, JobInv
    <2>3. FlagsOK'
      BY DEF FlagsOK
    <2>4. JobInv'
      BY DEF JobInv, Goto, Fetchers, Threads, NoJob, DataOK, JobSet, PcOK
    <2>5. ShotInv'
      BY DEF ShotInv, Goto, Threads, DataOK, FlagsOK, PcOK
    <2>6. HvOK'
      BY DEF HvOK
    <2>7. HvInv'
      BY DEF HvInv, HvOK, Goto, Threads, Fetchers, PcOK
    <2> QED
      BY <2>1, <2>2, <2>3, <2>4, <2>5, <2>6, <2>7
  <1>31. CASE InitClear
    <2> USE <1>31 DEF InitClear, Begin, detector, list, flags, happened, other
    <2>1. DataOK'
      BY DEF DataOK, JobSet, Values, NoJob, Fetchers, Goto, JobInv, PcOK
    <2>2. PcOK'
      BY DEF PcOK, Goto, Threads, Fetchers, RestPcs, StatusPcs, AcqPcs, InitPcs,
             HvPcs, JobInv
    <2>3. FlagsOK'
      BY DEF FlagsOK
    <2>4. JobInv'
      BY DEF JobInv, Goto, Fetchers, Threads, NoJob, DataOK, JobSet, PcOK
    <2>5. ShotInv'
      BY DEF ShotInv, Goto, Threads, DataOK, FlagsOK, PcOK
    <2>6. HvOK'
      BY DEF HvOK
    <2>7. HvInv'
      BY DEF HvInv, HvOK, Goto, Threads, Fetchers, PcOK
    <2> QED
      BY <2>1, <2>2, <2>3, <2>4, <2>5, <2>6, <2>7
  <1>32. CASE StatusCheck
    <2> USE <1>32 DEF StatusCheck, detector, list, flags, happened, other
    <2>1. DataOK'
      BY DEF DataOK, JobSet, Values, NoJob, Fetchers, Goto, JobInv, PcOK
    <2>2. PcOK'
      BY DEF PcOK, Goto, Threads, Fetchers, RestPcs, StatusPcs, AcqPcs, InitPcs,
             HvPcs, JobInv
    <2>3. FlagsOK'
      BY DEF FlagsOK
    <2>4. JobInv'
      BY DEF JobInv, Goto, Fetchers, Threads, NoJob, DataOK, JobSet, PcOK
    <2>5. ShotInv'
      BY DEF ShotInv, Goto, Threads, DataOK, FlagsOK, PcOK
    <2>6. HvOK'
      BY DEF HvOK
    <2>7. HvInv'
      BY DEF HvInv, HvOK, Goto, Threads, Fetchers, PcOK
    <2> QED
      BY <2>1, <2>2, <2>3, <2>4, <2>5, <2>6, <2>7
  <1>33. ASSUME NEW t \in Threads, HttpFails(t) PROVE IInv'
    <2>1. job' = job \/ (t \in Fetchers /\ job' = [job EXCEPT ![t] = NoJob])
      <3>1. CASE t \in Fetchers
        BY <1>33, <3>1 DEF HttpFails
      <3>2. CASE t \notin Fetchers
        BY <1>33, <3>2 DEF HttpFails
      <3> QED
        BY <3>1, <3>2
    <2>2. budget' \in [requests : 0 .. MaxRequests, failures : 0 .. MaxFailures]
      BY <1>33, BoundsTyped DEF HttpFails, DataOK
    <2>3. disturbed' \in BOOLEAN
      BY <1>33 DEF HttpFails, DataOK
    <2>4. /\ actual' \in [Params -> Nat] /\ writes' \in Nat
          /\ hw' \in [armed : BOOLEAN, shots : Nat]
      <3>1. CASE Obeyed(t)
        <4>1. \/ UNCHANGED <<actual, writes>>
              \/ Written(Params) /\ UNCHANGED hw
          BY <3>1 DEF Obeyed
        <4>2. hw' \in [armed : BOOLEAN, shots : Nat]
          <5>1. Arm \/ Disarm \/ Trigger \/ UNCHANGED hw
            BY <3>1 DEF Obeyed
          <5>2. Arm => hw' \in [armed : BOOLEAN, shots : Nat]
            BY DEF Arm
          <5>5. UNCHANGED hw => hw' \in [armed : BOOLEAN, shots : Nat]
            BY DEF DataOK
          <5>3. Disarm => hw' \in [armed : BOOLEAN, shots : Nat]
            BY DEF Disarm, DataOK
          <5>4. Trigger => hw' \in [armed : BOOLEAN, shots : Nat]
            BY DEF Trigger, DataOK
          <5> QED
            BY <5>1, <5>2, <5>3, <5>4, <5>5
        <4>3. actual' \in [Params -> Nat] /\ writes' \in Nat
          BY <4>1 DEF Written, DataOK
        <4> QED
          BY <4>2, <4>3
      <3>2. CASE UNCHANGED detector
        BY <3>2 DEF detector, DataOK
      <3> QED
        BY <1>33, <3>1, <3>2 DEF HttpFails
    <2>5. DataOK'
      BY <1>33, NoJobTyped, <2>1, <2>2, <2>3, <2>4 DEF HttpFails, DataOK
    <2>12. ShotInv'
      <3> USE DEF ShotInv, Goto, Threads, DataOK, FlagsOK, PcOK
      <3>1. UNCHANGED triggers /\ Calling(t)
        BY <1>33 DEF HttpFails
      <3>2. CASE t = "acq"
        <4>1. pc'["acq"] = "dead"
          BY <1>33, <3>2 DEF HttpFails
        <4>2. hw'.shots <= NTrigger
          BY <1>33, <3>1, <3>2, BoundsTyped
          DEF HttpFails, Calling, Obeyed, Trigger, Disarm, detector
        <4> QED
          BY <4>1, <4>2
      <3>3. CASE t # "acq"
        <4>1. pc'["acq"] = pc["acq"]
          BY <1>33, <3>3 DEF HttpFails
        <4>2. hw' = hw \/ hw' = [armed |-> TRUE, shots |-> 0]
          BY <1>33, <3>3 DEF HttpFails, Obeyed, Arm, detector
        <4> QED
          BY <3>1, <4>1, <4>2, BoundsTyped
      <3> QED
        BY <3>2, <3>3
    <2> USE <1>33 DEF HttpFails, Calling, list, flags, happened, other
    <2>6. PcOK'
      BY DEF PcOK, Goto, Threads, Fetchers, RestPcs, StatusPcs, AcqPcs, InitPcs,
             HvPcs, JobInv
    <2>7. FlagsOK'
      BY DEF FlagsOK
    <2>8. JobInv'
      <3>1. \A u \in Fetchers : pc'[u] = "store" => pc[u] = "store" /\ job'[u] = job[u]
        BY <2>1, <1>33 DEF HttpFails, Goto, Fetchers, Threads, DataOK, PcOK
      <3> QED
        BY <2>1, <3>1 DEF JobInv, NoJob, Fetchers, DataOK
    <2>10. HvOK'
      BY DEF HvOK
    <2>11. HvInv'
      BY DEF HvInv, HvOK, Goto, Threads, Fetchers, PcOK
    <2> QED
      BY <2>5, <2>6, <2>7, <2>8, <2>10, <2>11, <2>12
  <1>34. CASE UNCHANGED vars
    <2> USE <1>34 DEF vars, detector, list, flags, happened, other
    <2>1. DataOK'
      BY DEF DataOK, JobSet, Values, NoJob, Fetchers, Goto, JobInv, PcOK
    <2>2. PcOK'
      <3>1. UNCHANGED pc
        BY <1>34 DEF vars
      <3> QED
        BY <3>1, PcKept
    <2>3. FlagsOK'
      BY DEF FlagsOK
    <2>4. JobInv'
      BY DEF JobInv, Goto, Fetchers, Threads, NoJob, DataOK, JobSet, PcOK
    <2>5. ShotInv'
      BY DEF ShotInv, Goto, Threads, DataOK, FlagsOK, PcOK
    <2>6. HvOK'
      BY DEF HvOK
    <2>7. HvInv'
      BY DEF HvInv, HvOK, Goto, Threads, Fetchers, PcOK
    <2> QED
      BY <2>1, <2>2, <2>3, <2>4, <2>5, <2>6, <2>7
  <1>35. CASE RestHvReset
    <2> USE <1>35 DEF RestHvReset, Asked, detector, list, flags, happened,
           other
    <2>1. DataOK'
      <3>1. budget' \in [requests : 0 .. MaxRequests, failures : 0 .. MaxFailures]
        <4>1. budget' = [budget EXCEPT !.requests = @ - 1] /\ budget.requests > 0
          BY <1>35 DEF RestHvReset, Asked
        <4>2. budget \in [requests : 0 .. MaxRequests, failures : 0 .. MaxFailures]
          BY DEF DataOK
        <4> QED
          BY <4>1, <4>2, Spent
      <3>2. hw' \in [armed : BOOLEAN, shots : Nat]
        BY <1>35 DEF RestHvReset, DataOK, detector
      <3>3. UNCHANGED <<actual, writes, list>>
        BY <1>35 DEF RestHvReset, detector
      <3> QED
        BY <3>1, <3>2, <3>3 DEF DataOK, list
    <2>2. PcOK'
      BY DEF PcOK, Goto, Threads, Fetchers, RestPcs, StatusPcs, AcqPcs, InitPcs,
             HvPcs, JobInv
    <2>3. FlagsOK'
      BY DEF FlagsOK
    <2>4. JobInv'
      BY DEF JobInv, Goto, Fetchers, Threads, NoJob, DataOK, JobSet, PcOK
    <2>5. ShotInv'
      BY BoundsTyped DEF ShotInv, Goto, Threads, DataOK, FlagsOK, PcOK
    <2>6. HvOK'
      BY DEF HvOK
    <2>7. HvInv'
      BY DEF HvInv, HvOK, Goto, Threads, Fetchers, PcOK
    <2> QED
      BY <2>1, <2>2, <2>3, <2>4, <2>5, <2>6, <2>7
  <1>36. CASE RestHvEvent
    <2> USE <1>36 DEF RestHvEvent, detector, list, flags, happened,
           other
    <2>1. DataOK'
      BY BoundsTyped DEF DataOK, JobSet, Values, NoJob, Fetchers, Goto, JobInv,
                         PcOK
    <2>2. PcOK'
      BY DEF PcOK, Goto, Threads, Fetchers, RestPcs, StatusPcs, AcqPcs, InitPcs,
             HvPcs, JobInv
    <2>3. FlagsOK'
      BY DEF FlagsOK
    <2>4. JobInv'
      BY DEF JobInv, Goto, Fetchers, Threads, NoJob, DataOK, JobSet, PcOK
    <2>5. ShotInv'
      BY BoundsTyped DEF ShotInv, Goto, Threads, DataOK, FlagsOK, PcOK
    <2>6. HvOK'
      BY DEF HvOK
    <2>7. HvInv'
      BY DEF HvInv, HvOK, Goto, Threads, Fetchers, PcOK
    <2> QED
      BY <2>1, <2>2, <2>3, <2>4, <2>5, <2>6, <2>7
  <1>37. CASE RawArm
    <2> USE <1>37 DEF RawArm, Arm, Asked, detector, list, flags, happened,
           other
    <2>1. DataOK'
      BY BoundsTyped DEF DataOK, JobSet, Values, NoJob, Fetchers, Goto, JobInv,
                         PcOK
    <2>2. PcOK'
      <3>1. UNCHANGED pc
        BY <1>37 DEF RawArm
      <3> QED
        BY <3>1, PcKept
    <2>3. FlagsOK'
      BY DEF FlagsOK
    <2>4. JobInv'
      BY DEF JobInv, Goto, Fetchers, Threads, NoJob, DataOK, JobSet, PcOK
    <2>5. ShotInv'
      BY BoundsTyped DEF ShotInv, Goto, Threads, DataOK, FlagsOK, PcOK
    <2>6. HvOK'
      BY DEF HvOK
    <2>7. HvInv'
      BY DEF HvInv, HvOK, Goto, Threads, Fetchers, PcOK
    <2> QED
      BY <2>1, <2>2, <2>3, <2>4, <2>5, <2>6, <2>7
  <1>38. CASE RawDisarm
    <2> USE <1>38 DEF RawDisarm, Disarm, Asked, detector, list, flags, happened,
           other
    <2>1. DataOK'
      <3>1. budget' \in [requests : 0 .. MaxRequests, failures : 0 .. MaxFailures]
        BY <1>38, BoundsTyped DEF RawDisarm, Disarm, Asked, DataOK
      <3>2. hw' \in [armed : BOOLEAN, shots : Nat]
        BY <1>38 DEF RawDisarm, Disarm, DataOK, detector
      <3>3. UNCHANGED <<actual, writes, list>>
        BY <1>38 DEF RawDisarm, detector
      <3> QED
        BY <3>1, <3>2, <3>3 DEF DataOK, list
    <2>2. PcOK'
      <3>1. UNCHANGED pc
        BY <1>38 DEF RawDisarm
      <3> QED
        BY <3>1, PcKept
    <2>3. FlagsOK'
      BY DEF FlagsOK
    <2>4. JobInv'
      BY DEF JobInv, Goto, Fetchers, Threads, NoJob, DataOK, JobSet, PcOK
    <2>5. ShotInv'
      BY BoundsTyped DEF ShotInv, Goto, Threads, DataOK, FlagsOK, PcOK
    <2>6. HvOK'
      BY DEF HvOK
    <2>7. HvInv'
      BY DEF HvInv, HvOK, Goto, Threads, Fetchers, PcOK
    <2> QED
      BY <2>1, <2>2, <2>3, <2>4, <2>5, <2>6, <2>7
  <1>39. CASE RawInitialize
    <2> USE <1>39 DEF RawInitialize, Asked, Written, detector, list, flags, happened,
           other
    <2>1. DataOK'
      BY BoundsTyped DEF DataOK, JobSet, Values, NoJob, Fetchers, Goto, JobInv,
                         PcOK
    <2>2. PcOK'
      <3>1. UNCHANGED pc
        BY <1>39 DEF RawInitialize
      <3> QED
        BY <3>1, PcKept
    <2>3. FlagsOK'
      BY DEF FlagsOK
    <2>4. JobInv'
      BY DEF JobInv, Goto, Fetchers, Threads, NoJob, DataOK, JobSet, PcOK
    <2>5. ShotInv'
      BY BoundsTyped DEF ShotInv, Goto, Threads, DataOK, FlagsOK, PcOK
    <2>6. HvOK'
      BY DEF HvOK
    <2>7. HvInv'
      BY DEF HvInv, HvOK, Goto, Threads, Fetchers, PcOK
    <2> QED
      BY <2>1, <2>2, <2>3, <2>4, <2>5, <2>6, <2>7
  <1>40. CASE Shutdown
    <2> USE <1>40 DEF Shutdown, Asked, detector, list, flags, happened,
           other
    <2>1. DataOK'
      BY BoundsTyped DEF DataOK, JobSet, Values, NoJob, Fetchers, Goto, JobInv,
                         PcOK
    <2>2. PcOK'
      <3>1. UNCHANGED pc
        BY <1>40 DEF Shutdown
      <3> QED
        BY <3>1, PcKept
    <2>3. FlagsOK'
      BY DEF FlagsOK
    <2>4. JobInv'
      BY DEF JobInv, Goto, Fetchers, Threads, NoJob, DataOK, JobSet, PcOK
    <2>5. ShotInv'
      BY BoundsTyped DEF ShotInv, Goto, Threads, DataOK, FlagsOK, PcOK
    <2>6. HvOK'
      BY DEF HvOK
    <2>7. HvInv'
      BY DEF HvInv, HvOK, Goto, Threads, Fetchers, PcOK
    <2> QED
      BY <2>1, <2>2, <2>3, <2>4, <2>5, <2>6, <2>7
  <1>41. CASE StatusLoop
    <2> USE <1>41 DEF StatusLoop, Looping, detector, list, flags, happened,
           other
    <2>1. DataOK'
      BY BoundsTyped DEF DataOK, JobSet, Values, NoJob, Fetchers, Goto, JobInv,
                         PcOK
    <2>2. PcOK'
      BY DEF PcOK, Goto, Threads, Fetchers, RestPcs, StatusPcs, AcqPcs, InitPcs,
             HvPcs, JobInv
    <2>3. FlagsOK'
      BY DEF FlagsOK
    <2>4. JobInv'
      BY DEF JobInv, Goto, Fetchers, Threads, NoJob, DataOK, JobSet, PcOK
    <2>5. ShotInv'
      BY BoundsTyped DEF ShotInv, Goto, Threads, DataOK, FlagsOK, PcOK
    <2>6. HvOK'
      BY DEF HvOK
    <2>7. HvInv'
      BY DEF HvInv, HvOK, Goto, Threads, Fetchers, PcOK
    <2> QED
      BY <2>1, <2>2, <2>3, <2>4, <2>5, <2>6, <2>7
  <1>42. ASSUME NEW t \in Loops, Leave(t) PROVE IInv'
    <2> USE <1>42 DEF Leave, Loops, detector, list, flags, happened,
           other
    <2>1. DataOK'
      BY BoundsTyped DEF DataOK, JobSet, Values, NoJob, Fetchers, Goto, JobInv,
                         PcOK
    <2>2. PcOK'
      BY DEF PcOK, Goto, Threads, Fetchers, RestPcs, StatusPcs, AcqPcs, InitPcs,
             HvPcs, JobInv
    <2>3. FlagsOK'
      BY DEF FlagsOK
    <2>4. JobInv'
      BY DEF JobInv, Goto, Fetchers, Threads, NoJob, DataOK, JobSet, PcOK
    <2>5. ShotInv'
      BY BoundsTyped DEF ShotInv, Goto, Threads, DataOK, FlagsOK, PcOK
    <2>6. HvOK'
      BY DEF HvOK
    <2>7. HvInv'
      BY DEF HvInv, HvOK, Goto, Threads, Fetchers, PcOK
    <2> QED
      BY <2>1, <2>2, <2>3, <2>4, <2>5, <2>6, <2>7
  <1>43. CASE HvWake
    <2> USE <1>43 DEF HvWake, HvUnchanged, detector, list, flags, happened,
           other
    <2>1. DataOK'
      BY BoundsTyped DEF DataOK, JobSet, Values, NoJob, Fetchers, Goto, JobInv,
                         PcOK
    <2>2. PcOK'
      <3>1. Goto("hv", "state") \/ Goto("hv", "over")
        BY <1>43 DEF HvWake
      <3> QED
        BY <3>1, GotoTyped DEF Threads, HvPcs
    <2>3. FlagsOK'
      BY DEF FlagsOK
    <2>4. JobInv'
      BY DEF JobInv, Goto, Fetchers, Threads, NoJob, DataOK, JobSet, PcOK
    <2>5. ShotInv'
      BY BoundsTyped DEF ShotInv, Goto, Threads, DataOK, FlagsOK, PcOK
    <2>6. HvOK'
      <3>1. hv' \in [resetting : BOOLEAN, event : BOOLEAN, iteration : 0 .. Iterations,
                     waits : 0 .. MaxWaits + 1]
        <4>1. hv' = [hv EXCEPT !.iteration = 0, !.waits = 0]
          BY <1>43 DEF HvWake
        <4>2. hv \in [resetting : BOOLEAN, event : BOOLEAN, iteration : 0 .. Iterations,
                      waits : 0 .. MaxWaits + 1]
          BY DEF HvOK
        <4>3. 0 \in 0 .. Iterations /\ 0 \in 0 .. MaxWaits + 1
          BY BoundsTyped
        <4> QED
          BY <4>1, <4>2, <4>3
      <3> QED
        BY <3>1 DEF HvOK
    <2>7. HvInv'
      BY BoundsTyped DEF HvInv, HvOK, Goto, Threads, PcOK
    <2> QED
      BY <2>1, <2>2, <2>3, <2>4, <2>5, <2>6, <2>7
  <1>44. CASE HvReady
    <2> USE <1>44 DEF HvReady, HvUnchanged, detector, list, flags, happened,
           other
    <2>1. DataOK'
      BY BoundsTyped DEF DataOK, JobSet, Values, NoJob, Fetchers, Goto, JobInv,
                         PcOK
    <2>2. PcOK'
      BY DEF PcOK, Goto, Threads, Fetchers, RestPcs, StatusPcs, AcqPcs, InitPcs,
             HvPcs, JobInv
    <2>3. FlagsOK'
      BY DEF FlagsOK
    <2>4. JobInv'
      BY DEF JobInv, Goto, Fetchers, Threads, NoJob, DataOK, JobSet, PcOK
    <2>5. ShotInv'
      BY BoundsTyped DEF ShotInv, Goto, Threads, DataOK, FlagsOK, PcOK
    <2>6. HvOK'
      BY DEF HvOK
    <2>7. HvInv'
      BY DEF HvInv, HvOK, Goto, Threads, Fetchers, PcOK
    <2> QED
      BY <2>1, <2>2, <2>3, <2>4, <2>5, <2>6, <2>7
  <1>45. CASE HvNotReady
    <2> USE <1>45 DEF HvNotReady, HvUnchanged, Waits, detector, list, flags, happened,
           other
    <2>1. DataOK'
      BY BoundsTyped DEF DataOK, JobSet, Values, NoJob, Fetchers, Goto, JobInv,
                         PcOK
    <2>2. PcOK'
      BY DEF PcOK, Goto, Threads, Fetchers, RestPcs, StatusPcs, AcqPcs, InitPcs,
             HvPcs, JobInv
    <2>3. FlagsOK'
      BY DEF FlagsOK
    <2>4. JobInv'
      BY DEF JobInv, Goto, Fetchers, Threads, NoJob, DataOK, JobSet, PcOK
    <2>5. ShotInv'
      BY BoundsTyped DEF ShotInv, Goto, Threads, DataOK, FlagsOK, PcOK
    <2>6. HvOK'
      <3>1. hv' \in [resetting : BOOLEAN, event : BOOLEAN, iteration : 0 .. Iterations,
                     waits : 0 .. MaxWaits + 1]
        BY BoundsTyped, <1>45 DEF HvOK, HvInv, HvNotReady, Waits
      <3> QED
        BY <3>1 DEF HvOK
    <2>7. HvInv'
      BY BoundsTyped DEF HvInv, HvOK, Goto, Threads, PcOK, Waits
    <2> QED
      BY <2>1, <2>2, <2>3, <2>4, <2>5, <2>6, <2>7
  <1>46. CASE HvUnknown
    <2> USE <1>46 DEF HvUnknown, HvUnchanged, detector, list, flags, happened,
           other
    <2>1. DataOK'
      BY BoundsTyped DEF DataOK, JobSet, Values, NoJob, Fetchers, Goto, JobInv,
                         PcOK
    <2>2. PcOK'
      BY DEF PcOK, Goto, Threads, Fetchers, RestPcs, StatusPcs, AcqPcs, InitPcs,
             HvPcs, JobInv
    <2>3. FlagsOK'
      BY DEF FlagsOK
    <2>4. JobInv'
      BY DEF JobInv, Goto, Fetchers, Threads, NoJob, DataOK, JobSet, PcOK
    <2>5. ShotInv'
      BY BoundsTyped DEF ShotInv, Goto, Threads, DataOK, FlagsOK, PcOK
    <2>6. HvOK'
      BY DEF HvOK
    <2>7. HvInv'
      BY DEF HvInv, HvOK, Goto, Threads, Fetchers, PcOK
    <2> QED
      BY <2>1, <2>2, <2>3, <2>4, <2>5, <2>6, <2>7
  <1>47. CASE HvCommand
    <2> USE <1>47 DEF HvCommand, HvUnchanged, Iteration, detector, list, flags, happened,
           other
    <2>1. DataOK'
      BY BoundsTyped DEF DataOK, JobSet, Values, NoJob, Fetchers, Goto, JobInv,
                         PcOK
    <2>2. PcOK'
      BY DEF PcOK, Goto, Threads, Fetchers, RestPcs, StatusPcs, AcqPcs, InitPcs,
             HvPcs, JobInv
    <2>3. FlagsOK'
      BY DEF FlagsOK
    <2>4. JobInv'
      BY DEF JobInv, Goto, Fetchers, Threads, NoJob, DataOK, JobSet, PcOK
    <2>5. ShotInv'
      BY BoundsTyped DEF ShotInv, Goto, Threads, DataOK, FlagsOK, PcOK
    <2>6. HvOK'
      <3>1. hv' \in [resetting : BOOLEAN, event : BOOLEAN, iteration : 0 .. Iterations,
                     waits : 0 .. MaxWaits + 1]
        <4>1. hv' = [hv EXCEPT !.iteration = hv.iteration + 1, !.waits = 0]
              /\ hv.iteration < Iterations
          BY <1>47 DEF HvCommand, Iteration, HvInv
        <4>2. hv \in [resetting : BOOLEAN, event : BOOLEAN, iteration : 0 .. Iterations,
                      waits : 0 .. MaxWaits + 1]
          BY DEF HvOK
        <4>3. hv.iteration + 1 \in 0 .. Iterations /\ 0 \in 0 .. MaxWaits + 1
          BY <4>1, <4>2, BoundsTyped
        <4> QED
          BY <4>1, <4>2, <4>3
      <3> QED
        BY <3>1 DEF HvOK
    <2>7. HvInv'
      BY BoundsTyped DEF HvInv, HvOK, Goto, Threads, PcOK, Iteration
    <2> QED
      BY <2>1, <2>2, <2>3, <2>4, <2>5, <2>6, <2>7
  <1>48. CASE HvOver
    <2> USE <1>48 DEF HvOver, HvUnchanged, detector, list, flags, happened,
           other
    <2>1. DataOK'
      BY BoundsTyped DEF DataOK, JobSet, Values, NoJob, Fetchers, Goto, JobInv,
                         PcOK
    <2>2. PcOK'
      BY DEF PcOK, Goto, Threads, Fetchers, RestPcs, StatusPcs, AcqPcs, InitPcs,
             HvPcs, JobInv
    <2>3. FlagsOK'
      BY DEF FlagsOK
    <2>4. JobInv'
      BY DEF JobInv, Goto, Fetchers, Threads, NoJob, DataOK, JobSet, PcOK
    <2>5. ShotInv'
      BY BoundsTyped DEF ShotInv, Goto, Threads, DataOK, FlagsOK, PcOK
    <2>6. HvOK'
      <3>1. hv' \in [resetting : BOOLEAN, event : BOOLEAN, iteration : 0 .. Iterations,
                     waits : 0 .. MaxWaits + 1]
        BY BoundsTyped, <1>48 DEF HvOK, HvInv, HvOver
      <3> QED
        BY <3>1 DEF HvOK
    <2>7. HvInv'
      BY BoundsTyped DEF HvInv, HvOK, Goto, Threads, PcOK
    <2> QED
      BY <2>1, <2>2, <2>3, <2>4, <2>5, <2>6, <2>7
  <1>49. CASE HvClear
    <2> USE <1>49 DEF HvClear, HvUnchanged, Looping, detector, list, flags, happened,
           other
    <2>1. DataOK'
      BY BoundsTyped DEF DataOK, JobSet, Values, NoJob, Fetchers, Goto, JobInv,
                         PcOK
    <2>2. PcOK'
      BY DEF PcOK, Goto, Threads, Fetchers, RestPcs, StatusPcs, AcqPcs, InitPcs,
             HvPcs, JobInv
    <2>3. FlagsOK'
      BY DEF FlagsOK
    <2>4. JobInv'
      BY DEF JobInv, Goto, Fetchers, Threads, NoJob, DataOK, JobSet, PcOK
    <2>5. ShotInv'
      BY BoundsTyped DEF ShotInv, Goto, Threads, DataOK, FlagsOK, PcOK
    <2>6. HvOK'
      <3>1. hv' \in [resetting : BOOLEAN, event : BOOLEAN, iteration : 0 .. Iterations,
                     waits : 0 .. MaxWaits + 1]
        BY BoundsTyped, <1>49 DEF HvOK, HvInv, HvClear, Looping
      <3> QED
        BY <3>1 DEF HvOK
    <2>7. HvInv'
      BY BoundsTyped DEF HvInv, HvOK, Goto, Threads, PcOK, Looping
    <2> QED
      BY <2>1, <2>2, <2>3, <2>4, <2>5, <2>6, <2>7
  <1> QED
    BY <1>1, <1>2, <1>3, <1>4, <1>5, <1>6, <1>7, <1>8, <1>9, <1>10, <1>11, <1>12, <1>13,
       <1>14, <1>15, <1>16, <1>17, <1>18, <1>19, <1>20, <1>21, <1>22, <1>23, <1>24,
       <1>25, <1>26, <1>27, <1>28, <1>29, <1>30, <1>31, <1>32, <1>33, <1>34, <1>35,
       <1>36, <1>37, <1>38, <1>39, <1>40, <1>41, <1>42, <1>43, <1>44, <1>45, <1>46,
       <1>47, <1>48, <1>49
    DEF Next, Ask, Rest, Acq, Initialize, Status, HvReset, Fetch, Fetchers, Loops

\* The control object keeps its types.
THEOREM TypeCorrect == Spec => []TypeOK
  <1>1. IInv => TypeOK
    BY DEF IInv
  <1> QED
    BY InitHolds, StepHolds, <1>1, PTL DEF Spec

\* However starts, stops and an acquisition stopped earlier overlap, an armed
\* detector gets no more triggers than ntrigger (eiger_detector.py:787-813).
THEOREM ShotsBoundedAlways == Spec => []ShotsBounded
  <1>1. IInv => ShotsBounded
    BY DEF IInv, ShotInv, ShotsBounded
  <1> QED
    BY InitHolds, StepHolds, <1>1, PTL DEF Spec
================================================================================
