----------------------- MODULE EigerDetectorStale_proofs -----------------------
(***************************************************************************)
(* For every set of parameters, every effect of a put and every bound:     *)
(* until two fetches overlap, or a change is neither listed nor read by    *)
(* the one who made it, no stale parameter is forgotten, and the detector  *)
(* is armed with values of which the control object has no wrong idea.     *)
(***************************************************************************)
EXTENDS EigerDetector_proofs

\* The entry of a put of p that is still to be added to the list, or the values of
\* an initialize that are still to be read: p will be in hand whatever is removed.
Announced(p) ==
    \/ pc["rest"] = "add" /\ p \in job["rest"].todo
    \/ pc["init"] \in {"initialized", "clear"}

\* p stays listed, or comes back, when t removes the entries it has copied.
Renewed(t, p) == stale[p] > job[t].prev[p] \/ Announced(p)

Storing(t, p) == pc[t] = "store" /\ job[t].cfg = p

\* What a fetching thread holds.
IdleInv == \A t \in Fetchers : ~Fetching(t) /\ pc[t] # "add" => job[t] = NoJob

CopiedInv ==
    \A t \in Fetchers : Fetching(t) =>
        /\ job[t].kind # "none"
        /\ job[t].kind = "stale" =>
               /\ \A p \in job[t].todo : job[t].prev[p] > 0
               /\ pc[t] = "store" => job[t].prev[job[t].cfg] > 0

\* Until disturbed there is one fetch at a time, what it has copied is still on
\* the list, and what it has read and stored, or is about to store, is up to date
\* unless the parameter has been put again since.
Alone == \A t, u \in Fetchers : Fetching(t) /\ Fetching(u) => t = u

Listed == \A t \in Fetchers, p \in Params : Fetching(t) => stale[p] >= job[t].prev[p]

Done ==
    \A t \in Fetchers, p \in Params :
        /\ Fetching(t) /\ job[t].prev[p] > 0
        /\ p \notin job[t].todo /\ ~Storing(t, p)
        /\ ~Right(p, cached[p])
        => Renewed(t, p)

Held ==
    \A t \in Fetchers, p \in Params :
        Storing(t, p) /\ ~Right(p, job[t].value) => Renewed(t, p)

Kept == \A p \in Params : ~Right(p, cached[p]) => InHand(p)

AloneInv == ~disturbed => Alone /\ Listed /\ Done /\ Held /\ Kept

\* Nothing is listed any more when an acquisition goes on, but what the put of
\* nimages lists after that.
ImagesInv ==
    pc["rest"] = "images" \/ job["rest"].after = "arm" => trigger_mode \in {"inte", "exte"}

NothingListed ==
    /\ pc["rest"] \in {"complete", "images"} \/ job["rest"].after = "arm"
           => \A p \in Params : stale[p] = 0
    /\ pc["rest"] = "add" /\ job["rest"].after = "arm" => job["rest"].todo = ChangedLate
    /\ pc["rest"] = "arm" => \A p \in Params \ ChangedLate : stale[p] = 0

StaleInv == IdleInv /\ CopiedInv /\ AloneInv /\ ImagesInv /\ NothingListed

-----------------------------------------------------------------------------
LEMMA NoJobIdle ==
    /\ NoJob.kind = "none" /\ NoJob.todo = {} /\ NoJob.after = "idle"
    /\ \A p \in Params : NoJob.prev[p] = 0
  BY DEF NoJob

\* Where a thread is after it has gone somewhere.
LEMMA Gone ==
    ASSUME PcOK, NEW t \in Threads, NEW w, Goto(t, w), NEW u \in Threads
    PROVE  pc'[u] = IF u = t THEN w ELSE pc[u]
  BY DEF PcOK, Goto

\* A step that touches neither the values nor the list, and moves no thread into or
\* out of a fetch.
LEMMA Aside ==
    ASSUME IdleInv, CopiedInv, AloneInv,
           UNCHANGED <<actual, cached, stale, job, disturbed>>,
           \A t \in Fetchers :
               \/ pc'[t] = pc[t]
               \/ /\ pc[t] \notin {"fetch", "store", "add"}
                  /\ pc'[t] \notin {"fetch", "store", "add"},
           pc["init"] \in {"initialized", "clear"}
               => pc'["init"] \in {"initialized", "clear"}
    PROVE  IdleInv' /\ CopiedInv' /\ AloneInv'
  <1>1. \A t \in Fetchers : /\ Fetching(t)' <=> Fetching(t)
                            /\ pc'[t] = "store" <=> pc[t] = "store"
                            /\ pc'[t] = "add" <=> pc[t] = "add"
    BY DEF Fetching
  <1>2. \A p \in Params : Announced(p) => Announced(p)'
    BY <1>1 DEF Announced, Fetchers
  <1>3. IdleInv'
    BY <1>1 DEF IdleInv
  <1>4. CopiedInv'
    BY <1>1 DEF CopiedInv
  <1>5. ASSUME ~disturbed' PROVE Alone' /\ Listed' /\ Done' /\ Held' /\ Kept'
    <2>1. Alone /\ Listed /\ Done /\ Held /\ Kept
      BY <1>5 DEF AloneInv
    <2>2. Alone' /\ Listed'
      BY <1>1, <2>1 DEF Alone, Listed
    <2>3. Done' /\ Held'
      BY <1>1, <1>2, <2>1 DEF Done, Held, Renewed, Storing, Right
    <2>4. Kept'
      BY <1>1, <2>1 DEF Kept, InHand, Right
    <2> QED
      BY <2>2, <2>3, <2>4
  <1> QED
    BY <1>3, <1>4, <1>5 DEF AloneInv

LEMMA StaleInit == Init => StaleInv
  <1> SUFFICES ASSUME Init PROVE StaleInv
    OBVIOUS
  <1>1. \A t \in Fetchers : ~Fetching(t) /\ pc[t] # "add" /\ pc[t] # "store" /\ job[t] = NoJob
    BY DEF Init, Fetching, Fetchers, Threads
  <1>2. cached = actual
    BY DEF Init
  <1>3. IdleInv /\ CopiedInv
    BY <1>1 DEF IdleInv, CopiedInv
  <1>4. AloneInv
    BY <1>1, <1>2 DEF AloneInv, Alone, Listed, Done, Held, Kept, Storing, Right
  <1>5. ImagesInv /\ NothingListed
    BY <1>1, NoJobIdle DEF Init, ImagesInv, NothingListed, Threads, Fetchers
  <1> QED
    BY <1>3, <1>4, <1>5 DEF StaleInv

\* The steps of the threads that fetch nothing, the requests that change no value,
\* and the steps of the others outside of a fetch.
LEMMA StaleAside ==
    ASSUME IInv, StaleInv,
           \/ Acq \/ HvReset \/ UNCHANGED vars
           \/ RestTrigger \/ RestStart \/ RestStop \/ RestInitialize \/ RestHvReset
           \/ RawArm \/ RawDisarm \/ Shutdown
           \/ RestAgain \/ RestComplete \/ RestArm \/ RestWake \/ RestFlag
           \/ RestStopped \/ Unflag("rest") \/ RestEvent \/ RestHvEvent
           \/ InitDone \/ Leave("init") \/ StatusLoop \/ StatusCheck
    PROVE  StaleInv'
  <1> DEFINE Same == UNCHANGED <<actual, cached, stale, job, disturbed, trigger_mode>>
             Steady(t) == \/ pc'[t] = pc[t]
                          \/ /\ pc[t] \notin {"fetch", "store", "add"}
                             /\ pc'[t] \notin {"fetch", "store", "add"}
             Read == pc["init"] \in {"initialized", "clear"}
                         => pc'["init"] \in {"initialized", "clear"}
             Onwards == /\ pc'["rest"] = "images" =>
                               \/ pc["rest"] = "images"
                               \/ pc["rest"] = "complete" /\ trigger_mode \in {"inte", "exte"}
                        /\ pc'["rest"] = "complete" =>
                               pc["rest"] = "complete" \/ \A p \in Params : stale[p] = 0
                        /\ pc'["rest"] = "arm" => pc["rest"] \in {"arm", "complete"}
             Fine == Same /\ (\A t \in Fetchers : Steady(t)) /\ Read /\ Onwards
  <1> USE DEF IInv, TypeOK
  <1>1. ASSUME Acq PROVE Fine
    <2>1. Same
      BY <1>1 DEF Acq, AcqWake, AcqTest, AcqManual, AcqSend, AcqCount, AcqFinish,
          AcqDisarm, Unflag, Leave, list, other, detector
    <2>2. \E w \in AcqPcs : Goto("acq", w)
      BY <1>1 DEF Acq, AcqWake, AcqTest, AcqManual, AcqSend, AcqCount, AcqFinish,
          AcqDisarm, Unflag, Leave, Looping, AcqPcs
    <2>3. \A t \in Fetchers : pc'[t] = pc[t]
      BY <2>2, Gone DEF Threads, Fetchers
    <2> QED
      BY <2>1, <2>3 DEF Fetchers
  <1>2. ASSUME HvReset PROVE Fine
    <2>1. Same
      BY <1>2 DEF HvReset, HvWake, HvReady, HvNotReady, HvUnknown, HvCommand,
                  HvOver,
          HvClear, Leave, HvUnchanged, list, other, detector
    <2>2. \E w \in HvPcs : Goto("hv", w)
      BY <1>2 DEF HvReset, HvWake, HvReady, HvNotReady, HvUnknown, HvCommand,
                  HvOver,
          HvClear, Leave, Looping, HvPcs
    <2>3. \A t \in Fetchers : pc'[t] = pc[t]
      BY <2>2, Gone DEF Threads, Fetchers
    <2> QED
      BY <2>1, <2>3 DEF Fetchers
  <1>3. ASSUME UNCHANGED vars \/ RestTrigger \/ RawArm \/ RawDisarm \/ Shutdown PROVE Fine
    <2>1. Same /\ UNCHANGED pc
      BY <1>3 DEF vars, RestTrigger, RawArm, RawDisarm, Shutdown, list, other,
                  detector
    <2> QED
      BY <2>1
  <1>4. ASSUME RestStart \/ RestStop \/ RestInitialize \/ RestHvReset PROVE Fine
    <2>1. Same
      BY <1>4 DEF RestStart, RestStop, RestInitialize, RestHvReset, list, other,
                  detector
    <2>2. /\ pc["rest"] = "idle"
          /\ \/ \E w \in {"copy", "stopped", "event", "hv event"} : Goto("rest", w)
             \/ UNCHANGED pc
      BY <1>4 DEF RestStart, RestStop, RestInitialize, RestHvReset, Asked, Starts
    <2>3. /\ pc'["rest"] \in {"idle", "copy", "stopped", "event", "hv event"}
          /\ \A t \in Fetchers \ {"rest"} : pc'[t] = pc[t]
      BY <2>2, Gone DEF Threads, Fetchers
    <2> QED
      BY <2>1, <2>2, <2>3 DEF Fetchers
  <1>5. ASSUME RestAgain \/ RestComplete PROVE Fine
    <2>1. Same
      BY <1>5 DEF RestAgain, RestComplete, list, other, detector
    <2>2. \/ /\ pc["rest"] = "again"
             /\ \/ Goto("rest", "copy")
                \/ Goto("rest", "complete") /\ \A p \in Params : stale[p] = 0
          \/ /\ pc["rest"] = "complete"
             /\ \/ Goto("rest", "arm")
                \/ Goto("rest", "images") /\ trigger_mode \in {"inte", "exte"}
      BY <1>5 DEF RestAgain, RestComplete, DataOK
    <2>3. \A t \in Fetchers \ {"rest"} : pc'[t] = pc[t]
      BY <2>2, Gone DEF Threads, Fetchers
    <2>4. \/ /\ pc["rest"] = "again"
             /\ \/ pc'["rest"] = "copy"
                \/ pc'["rest"] = "complete" /\ \A p \in Params : stale[p] = 0
          \/ /\ pc["rest"] = "complete"
             /\ \/ pc'["rest"] = "arm"
                \/ pc'["rest"] = "images" /\ trigger_mode \in {"inte", "exte"}
      BY <2>2, Gone DEF Threads
    <2> QED
      BY <2>1, <2>3, <2>4 DEF Fetchers
  <1>6. ASSUME \/ RestArm \/ RestWake \/ RestFlag \/ RestStopped \/ Unflag("rest")
             \/ RestEvent \/ RestHvEvent
       PROVE Fine
    <2>1. Same
      BY <1>6 DEF RestArm, RestWake, RestFlag, RestStopped, Unflag, RestEvent,
          RestHvEvent, list, other, detector
    <2>2. /\ pc["rest"] \in {"arm", "wake", "flag", "stopped", "unflag", "event",
                             "hv event"}
          /\ \E w \in {"wake", "flag", "idle", "unflag"} : Goto("rest", w)
      BY <1>6 DEF RestArm, RestWake, RestFlag, RestStopped, Unflag, RestEvent,
                  RestHvEvent
    <2>3. /\ pc'["rest"] \in {"wake", "flag", "idle", "unflag"}
          /\ \A t \in Fetchers \ {"rest"} : pc'[t] = pc[t]
      BY <2>2, Gone DEF Threads, Fetchers
    <2> QED
      BY <2>1, <2>2, <2>3 DEF Fetchers
  <1>7. ASSUME InitDone \/ Leave("init") PROVE Fine
    <2>1. Same
      BY <1>7 DEF InitDone, Leave, list, other, detector
    <2>2. \/ pc["init"] = "initialized" /\ Goto("init", "clear")
          \/ pc["init"] = "wait" /\ Goto("init", "gone")
      BY <1>7 DEF InitDone, Leave
    <2>3. /\ \A t \in Fetchers \ {"init"} : pc'[t] = pc[t]
          /\ \/ pc["init"] = "initialized" /\ pc'["init"] = "clear"
             \/ pc["init"] = "wait" /\ pc'["init"] = "gone"
      BY <2>2, Gone DEF Threads, Fetchers
    <2> QED
      BY <2>1, <2>3 DEF Fetchers
  <1>8. ASSUME StatusLoop \/ StatusCheck PROVE Fine
    <2>1. Same
      BY <1>8 DEF StatusLoop, StatusCheck, list, other, detector
    <2>2. /\ pc["status"] \in {"sleep", "check"}
          /\ \E w \in {"check", "copy", "sleep", "gone"} : Goto("status", w)
      BY <1>8 DEF StatusLoop, StatusCheck, Looping
    <2>3. /\ pc'["status"] \in {"check", "copy", "sleep", "gone"}
          /\ \A t \in Fetchers \ {"status"} : pc'[t] = pc[t]
      BY <2>2, Gone DEF Threads, Fetchers
    <2> QED
      BY <2>1, <2>2, <2>3 DEF Fetchers
  <1>9. Fine
    BY <1>1, <1>2, <1>3, <1>4, <1>5, <1>6, <1>7, <1>8
  <1>10. IdleInv' /\ CopiedInv' /\ AloneInv'
    BY <1>9, Aside DEF StaleInv
  <1>11. ImagesInv'
    BY <1>9 DEF StaleInv, ImagesInv
  <1>12. NothingListed'
    BY <1>9 DEF StaleInv, NothingListed, ChangedLate, Fetchers
  <1> QED
    BY <1>10, <1>11, <1>12 DEF StaleInv

\* A thread takes the list to read what is on it.
LEMMA StaleAtCopy ==
    ASSUME IInv, StaleInv, NEW t \in Fetchers, StaleCopy(t)
    PROVE  StaleInv'
  <1> USE DEF IInv, TypeOK
  <1> DEFINE j == [NoJob EXCEPT !.kind = "stale", !.prev = stale,
                                !.todo = {p \in Params : stale[p] > 0}]
  <1>1. /\ pc[t] = "copy" /\ t # "init"
        /\ UNCHANGED <<actual, cached, stale, trigger_mode>>
    BY DEF StaleCopy, detector, other, PcOK, InitPcs, Fetchers
  <1>2. \A u \in Fetchers \ {t} : pc'[u] = pc[u]
    BY Gone DEF StaleCopy, Fetchers, Threads, AfterStale
  <1>3. ~Fetching(t) /\ job[t] = NoJob
    BY <1>1 DEF StaleInv, IdleInv, Fetching
  <1>4. CASE Goto(t, AfterStale(t)) /\ UNCHANGED <<job, disturbed>>
    <2>1. pc'[t] = AfterStale(t)
      BY <1>4, Gone DEF Fetchers, Threads
    <2>2. pc'[t] \in {"again", "sleep"}
      BY <2>1 DEF AfterStale
    <2>3. IdleInv' /\ CopiedInv' /\ AloneInv'
      BY <1>1, <1>2, <1>4, <2>2, Aside DEF StaleInv, Fetchers
    <2>4. ImagesInv' /\ NothingListed'
      BY <1>1, <1>2, <1>4, <2>2 DEF StaleInv, ImagesInv, NothingListed,
                                    ChangedLate, Fetchers
    <2> QED
      BY <2>3, <2>4 DEF StaleInv
  <1>5. CASE Begin(t, j) /\ Goto(t, "fetch")
    <2>1. pc'[t] = "fetch"
      BY <1>5, Gone DEF Fetchers, Threads
    <2>2. j.kind = "stale" /\ j.prev = stale /\ j.todo = {p \in Params : stale[p] > 0}
          /\ j.after = "idle"
      BY DEF NoJob
    <2> HIDE DEF j
    <2>3. job'[t] = j /\ \A u \in Fetchers \ {t} : job'[u] = job[u]
      BY <1>5 DEF Begin, DataOK
    <2>4. disturbed' = (disturbed \/ \E u \in Fetchers \ {t} : Fetching(u))
      BY <1>5 DEF Begin
    <2>5. IdleInv'
      BY <1>2, <2>1, <2>3 DEF StaleInv, IdleInv, Fetching
    <2>6. CopiedInv'
      BY <1>2, <2>1, <2>2, <2>3 DEF StaleInv, CopiedInv, Fetching
    <2>7. ASSUME ~disturbed' PROVE Alone' /\ Listed' /\ Done' /\ Held' /\ Kept'
      <3>1. Kept /\ \A u \in Fetchers \ {t} : ~Fetching(u)
        BY <2>4, <2>7 DEF StaleInv, AloneInv
      <3>2. \A u \in Fetchers \ {t} : ~Fetching(u)' /\ pc'[u] # "store"
        BY <1>2, <3>1 DEF Fetching
      <3>3. Alone'
        BY <3>2 DEF Alone
      <3>4. Listed'
        BY <1>1, <2>2, <2>3, <3>2 DEF Listed, DataOK
      <3>5. Done'
        BY <1>1, <2>2, <2>3, <3>2 DEF Done
      <3>6. Held'
        BY <2>1, <3>2 DEF Held, Storing
      <3>7. Kept'
        BY <1>1, <1>2, <1>3, <2>3, <3>1, <3>2, NoJobIdle
        DEF Kept, InHand, Right, Fetching, Fetchers
      <3> QED
        BY <3>3, <3>4, <3>5, <3>6, <3>7
    <2>8. ImagesInv'
      BY <1>1, <1>2, <2>1, <2>2, <2>3 DEF StaleInv, ImagesInv, Fetchers
    <2>9. NothingListed'
      BY <1>1, <1>2, <2>1, <2>2, <2>3 DEF StaleInv, NothingListed, ChangedLate,
                                          Fetchers
    <2> QED
      BY <2>5, <2>6, <2>7, <2>8, <2>9 DEF StaleInv, AloneInv
  <1> QED
    BY <1>4, <1>5 DEF StaleCopy

\* A value is on its way to a thread.
LEMMA StaleAtRead ==
    ASSUME IInv, StaleInv, NEW t \in Fetchers, FetchRead(t)
    PROVE  StaleInv'
  <1> USE DEF IInv, TypeOK
  <1>1. /\ pc[t] = "fetch"
        /\ UNCHANGED <<actual, cached, stale, disturbed, trigger_mode>>
    BY DEF FetchRead, detector, other
  <1>2. pc'[t] = "store" /\ \A u \in Fetchers \ {t} : pc'[u] = pc[u]
    BY Gone DEF FetchRead, Fetchers, Threads
  <1>3. PICK c \in job[t].todo : \E v \in {actual[c], NoValue} :
            job' = [job EXCEPT ![t].todo = @ \ {c}, ![t].cfg = c, ![t].value = v]
    BY DEF FetchRead
  <1>4. c \in Params
    BY <1>3 DEF DataOK, JobSet
  <1>5. /\ job'[t].todo = job[t].todo \ {c} /\ job'[t].cfg = c
        /\ job'[t].value \in {actual[c], NoValue}
        /\ job'[t].kind = job[t].kind /\ job'[t].prev = job[t].prev
        /\ job'[t].after = job[t].after
        /\ \A u \in Fetchers \ {t} : job'[u] = job[u]
    BY <1>3 DEF DataOK, JobSet
  <1>6. \A u \in Fetchers : Fetching(u)' <=> Fetching(u)
    BY <1>1, <1>2 DEF Fetching
  <1>7. IdleInv'
    BY <1>1, <1>2, <1>5, <1>6 DEF StaleInv, IdleInv, Fetching
  <1>8. CopiedInv'
    <2>1. /\ job[t].kind # "none"
          /\ job[t].kind = "stale" => \A p \in job[t].todo : job[t].prev[p] > 0
      BY <1>1 DEF StaleInv, CopiedInv, Fetching
    <2>2. /\ job'[t].kind # "none"
          /\ job'[t].kind = "stale" => /\ \A p \in job'[t].todo : job'[t].prev[p] > 0
                                      /\ job'[t].prev[job'[t].cfg] > 0
      BY <1>3, <1>5, <2>1
    <2> QED
      BY <1>2, <1>5, <1>6, <2>2 DEF StaleInv, CopiedInv
  <1>9. ASSUME ~disturbed' PROVE Alone' /\ Listed' /\ Done' /\ Held' /\ Kept'
    <2>1. Alone /\ Listed /\ Done /\ Held /\ Kept
      BY <1>1, <1>9 DEF StaleInv, AloneInv
    <2>2. \A u \in Fetchers \ {t} : ~Fetching(u) /\ ~Fetching(u)' /\ pc'[u] # "store"
      BY <1>1, <1>6, <2>1 DEF Alone, Fetching
    <2>3. \A p \in Params : Announced(p) => Announced(p)'
      BY <1>1, <1>2, <1>5 DEF Announced, Fetchers
    <2>4. Alone' /\ Listed'
      BY <1>1, <1>5, <1>6, <2>1, <2>2 DEF Alone, Listed
    <2>5. Done'
      BY <1>1, <1>2, <1>5, <1>6, <2>1, <2>2, <2>3 DEF Done, Renewed, Storing,
                                                      Right
    <2>6. Held'
      BY <1>1, <1>5, <2>2 DEF Held, Storing, Right
    <2>7. Kept'
      BY <1>1, <1>2, <1>4, <1>5, <2>1, <2>2 DEF Kept, InHand, Right, Fetchers,
                                                Fetching
    <2> QED
      BY <2>4, <2>5, <2>6, <2>7
  <1>10. ImagesInv'
    BY <1>1, <1>2, <1>5 DEF StaleInv, ImagesInv, Fetchers
  <1>11. NothingListed'
    BY <1>1, <1>2, <1>5 DEF StaleInv, NothingListed, ChangedLate, Fetchers
  <1> QED
    BY <1>7, <1>8, <1>9, <1>10, <1>11 DEF StaleInv, AloneInv

\* A thread stores the value it has read.
LEMMA StaleAtStore ==
    ASSUME IInv, StaleInv, NEW t \in Fetchers, FetchStore(t)
    PROVE  StaleInv'
  <1> USE DEF IInv, TypeOK
  <1>1. /\ pc[t] = "store"
        /\ UNCHANGED <<actual, stale, job, disturbed, trigger_mode>>
    BY DEF FetchStore, detector, other
  <1>2. pc'[t] = "fetch" /\ \A u \in Fetchers \ {t} : pc'[u] = pc[u]
    BY Gone DEF FetchStore, Fetchers, Threads
  <1>3. job[t].cfg \in Params
    BY <1>1 DEF JobInv
  <1>4. \A p \in Params :
            cached'[p] = IF p = job[t].cfg THEN job[t].value ELSE cached[p]
    BY <1>3 DEF FetchStore, DataOK
  <1>5. \A u \in Fetchers : Fetching(u)' <=> Fetching(u)
    BY <1>1, <1>2 DEF Fetching
  <1>6. IdleInv' /\ CopiedInv'
    BY <1>1, <1>2, <1>5 DEF StaleInv, IdleInv, CopiedInv, Fetching
  <1>7. ASSUME ~disturbed' PROVE Alone' /\ Listed' /\ Done' /\ Held' /\ Kept'
    <2>1. Alone /\ Listed /\ Done /\ Held /\ Kept
      BY <1>1, <1>7 DEF StaleInv, AloneInv
    <2>2. \A u \in Fetchers \ {t} : ~Fetching(u) /\ ~Fetching(u)' /\ pc'[u] # "store"
      BY <1>1, <1>5, <2>1 DEF Alone, Fetching
    <2>3. \A p \in Params : Announced(p) <=> Announced(p)'
      BY <1>1, <1>2 DEF Announced, Fetchers
    <2>4. Alone' /\ Listed'
      BY <1>1, <1>5, <2>1, <2>2 DEF Alone, Listed
    <2>5. Done'
      <3> SUFFICES ASSUME NEW p \in Params, job[t].prev[p] > 0, p \notin job[t].todo,
                          ~Right(p, cached'[p])
                   PROVE  Renewed(t, p)
        BY <1>1, <2>2, <2>3 DEF Done, Renewed, Right
      <3>1. CASE p = job[t].cfg
        BY <1>1, <1>4, <2>1, <3>1 DEF Held, Storing
      <3>2. CASE p # job[t].cfg
        BY <1>1, <1>4, <2>1, <3>2 DEF Done, Storing, Fetching
      <3> QED
        BY <3>1, <3>2
    <2>6. Held'
      BY <1>2, <2>2 DEF Held, Storing
    <2>7. Kept'
      <3> SUFFICES ASSUME NEW p \in Params, ~Right(p, cached'[p]) PROVE InHand(p)'
        BY <1>1 DEF Kept, Right
      <3>1. CASE p = job[t].cfg
        <4>1. Renewed(t, p)
          BY <1>1, <1>4, <2>1, <3>1 DEF Held, Storing
        <4> QED
          BY <1>1, <2>3, <4>1 DEF Renewed, Announced, InHand, Fetchers, DataOK,
                                  JobSet
      <3>2. CASE p # job[t].cfg
        <4>1. InHand(p)
          BY <1>4, <2>1, <3>2 DEF Kept
        <4> QED
          BY <1>1, <1>2, <2>2, <3>2, <4>1 DEF InHand, Right, Fetching, Fetchers
      <3> QED
        BY <3>1, <3>2
    <2> QED
      BY <2>4, <2>5, <2>6, <2>7
  <1>8. ImagesInv' /\ NothingListed'
    BY <1>1, <1>2 DEF StaleInv, ImagesInv, NothingListed, ChangedLate, Fetchers
  <1> QED
    BY <1>6, <1>7, <1>8 DEF StaleInv, AloneInv

\* A thread takes what it has copied off the list.
LEMMA StaleAtRemove ==
    ASSUME IInv, StaleInv, NEW t \in Fetchers, StaleRemove(t)
    PROVE  StaleInv'
  <1> USE DEF IInv, TypeOK
  <1>1. /\ pc[t] = "fetch" /\ job[t].todo = {}
        /\ UNCHANGED <<actual, cached, disturbed, trigger_mode>>
    BY DEF StaleRemove, detector, other
  <1>2. pc'[t] = AfterStale(t) /\ \A u \in Fetchers \ {t} : pc'[u] = pc[u]
    BY Gone DEF StaleRemove, Fetchers, Threads
  <1>3. /\ pc'[t] \in {"again", "sleep"}
        /\ t = "init" => pc'[t] = "sleep"
    BY <1>2 DEF AfterStale
  <1>4. job'[t] = NoJob /\ \A u \in Fetchers \ {t} : job'[u] = job[u]
    BY DEF StaleRemove, DataOK
  <1>5. \A p \in Params :
            stale'[p] = IF stale[p] > job[t].prev[p] THEN stale[p] - job[t].prev[p] ELSE 0
    BY DEF StaleRemove, Remaining
  <1>6. \A p \in Params : stale[p] \in Nat /\ job[t].prev[p] \in Nat
    BY DEF DataOK, JobSet
  <1>7. IdleInv' /\ CopiedInv'
    BY <1>2, <1>3, <1>4 DEF StaleInv, IdleInv, CopiedInv, Fetching
  <1>8. ASSUME ~disturbed' PROVE Alone' /\ Listed' /\ Done' /\ Held' /\ Kept'
    <2>1. Alone /\ Listed /\ Done /\ Held /\ Kept
      BY <1>1, <1>8 DEF StaleInv, AloneInv
    <2>2. \A u \in Fetchers : ~Fetching(u)' /\ pc'[u] # "store"
      BY <1>1, <1>2, <1>3, <2>1 DEF Alone, Fetching
    <2>3. Alone' /\ Listed' /\ Done' /\ Held'
      BY <2>2 DEF Alone, Listed, Done, Held, Storing
    <2>4. Kept'
      <3> SUFFICES ASSUME NEW p \in Params, ~Right(p, cached[p]) PROVE InHand(p)'
        BY <1>1 DEF Kept, Right
      <3>1. \A u \in Fetchers \ {t} : pc[u] # "store"
        BY <1>1, <2>1 DEF Alone, Fetching
      <3>2. Announced(p) => InHand(p)'
        BY <1>1, <1>2, <1>4 DEF Announced, InHand, Fetchers
      <3>3. CASE job[t].prev[p] > 0
        <4>1. Renewed(t, p)
          BY <1>1, <2>1, <3>3 DEF Done, Storing, Fetching
        <4> QED
          BY <1>5, <1>6, <3>2, <4>1 DEF Renewed, InHand
      <3>4. CASE job[t].prev[p] = 0
        <4>1. InHand(p)
          BY <2>1 DEF Kept
        <4>2. CASE stale[p] > 0
          BY <1>5, <1>6, <3>4, <4>2 DEF InHand
        <4>3. CASE \E u \in Fetchers : p \in job[u].todo
          BY <1>1, <1>4, <4>3 DEF InHand
        <4>4. CASE pc["init"] \in {"initialized", "clear"}
          BY <1>1, <1>2, <4>4 DEF InHand, Fetchers
        <4> QED
          BY <1>1, <3>1, <4>1, <4>2, <4>3, <4>4 DEF InHand
      <3> QED
        BY <1>6, <3>3, <3>4
    <2> QED
      BY <2>3, <2>4
  <1>9. ImagesInv'
    BY <1>1, <1>2, <1>3, <1>4, NoJobIdle DEF StaleInv, ImagesInv, Fetchers
  <1>10. NothingListed'
    BY <1>1, <1>2, <1>3, <1>4, <1>5, <1>6, NoJobIdle
    DEF StaleInv, NothingListed, ChangedLate, Fetchers
  <1> QED
    BY <1>7, <1>8, <1>9, <1>10 DEF StaleInv, AloneInv

\* A thread has read what it wanted.
LEMMA StaleAtReadBack ==
    ASSUME IInv, StaleInv, NEW t \in Fetchers, OthersRead(t)
    PROVE  StaleInv'
  <1> USE DEF IInv, TypeOK
  <1>1. /\ pc[t] = "fetch" /\ job[t].todo = {} /\ job[t].kind \in {"item", "all"}
        /\ UNCHANGED <<actual, cached, stale, disturbed, trigger_mode>>
    BY DEF OthersRead, detector, other
  <1>2. /\ pc'[t] = IF t = "init" THEN Looping("wait") ELSE job[t].after
        /\ \A u \in Fetchers \ {t} : pc'[u] = pc[u]
    BY Gone DEF OthersRead, Fetchers, Threads
  <1>3. t = "rest" \/ t = "init"
    BY <1>1 DEF JobInv, Fetchers
  <1>4. /\ pc'[t] \notin {"fetch", "store", "add", "images", "complete", "initialized", "clear"}
        /\ t = "rest" /\ pc'[t] = "arm" => trigger_mode \in {"inte", "exte"}
    BY <1>1, <1>2, <1>3 DEF JobInv, Looping, StaleInv, ImagesInv
  <1>5. job'[t] = NoJob /\ \A u \in Fetchers \ {t} : job'[u] = job[u]
    BY DEF OthersRead, DataOK
  <1>6. IdleInv' /\ CopiedInv'
    BY <1>2, <1>4, <1>5 DEF StaleInv, IdleInv, CopiedInv, Fetching
  <1>7. ASSUME ~disturbed' PROVE Alone' /\ Listed' /\ Done' /\ Held' /\ Kept'
    <2>1. Alone /\ Kept
      BY <1>1, <1>7 DEF StaleInv, AloneInv
    <2>2. \A u \in Fetchers : ~Fetching(u)' /\ pc'[u] # "store"
      BY <1>1, <1>2, <1>4, <2>1 DEF Alone, Fetching
    <2>3. Alone' /\ Listed' /\ Done' /\ Held'
      BY <2>2 DEF Alone, Listed, Done, Held, Storing
    <2>4. \A u \in Fetchers : pc[u] # "store"
      BY <1>1, <2>1 DEF Alone, Fetching
    <2>5. Kept'
      BY <1>1, <1>2, <1>5, <2>1, <2>4 DEF Kept, InHand, Right, Fetchers
    <2> QED
      BY <2>3, <2>5
  <1>8. ImagesInv'
    BY <1>1, <1>2, <1>4, <1>5, NoJobIdle DEF StaleInv, ImagesInv, Fetchers
  <1>9. NothingListed'
    BY <1>1, <1>2, <1>3, <1>4, <1>5, NoJobIdle DEF StaleInv, NothingListed,
                                                   ChangedLate, Fetchers
  <1> QED
    BY <1>6, <1>7, <1>8, <1>9 DEF StaleInv, AloneInv

\* What was put is added to the list.
LEMMA StaleAtAdd ==
    ASSUME IInv, StaleInv, RestAdd
    PROVE  StaleInv'
  <1> USE DEF IInv, TypeOK
  <1>1. /\ pc["rest"] = "add"
        /\ UNCHANGED <<actual, cached, disturbed, trigger_mode>>
    BY DEF RestAdd, detector, other
  <1>2. /\ pc'["rest"] = job["rest"].after
        /\ \A u \in Fetchers \ {"rest"} : pc'[u] = pc[u]
    BY Gone DEF RestAdd, Fetchers, Threads
  <1>3. /\ pc'["rest"] \in {"idle", "arm"}
        /\ pc'["rest"] = "arm" => trigger_mode \in {"inte", "exte"}
        /\ pc'["rest"] = "arm" <=> job["rest"].after = "arm"
    BY <1>2 DEF JobInv, StaleInv, ImagesInv
  <1>4. job'["rest"] = NoJob /\ \A u \in Fetchers \ {"rest"} : job'[u] = job[u]
    BY DEF RestAdd, DataOK, Fetchers
  <1>5. \A p \in Params :
            stale'[p] = stale[p] + IF p \in job["rest"].todo THEN 1 ELSE 0
    BY DEF RestAdd
  <1>6. \A p \in Params, u \in Fetchers : stale[p] \in Nat /\ job[u].prev[p] \in Nat
    BY DEF DataOK, JobSet
  <1>7. \A u \in Fetchers : Fetching(u)' <=> Fetching(u)
    BY <1>1, <1>2, <1>3 DEF Fetching
  <1>8. \A u \in Fetchers : Fetching(u) => job'[u] = job[u] /\ pc'[u] = pc[u]
    BY <1>1, <1>2, <1>4 DEF Fetching
  <1>9. IdleInv'
    BY <1>1, <1>2, <1>4, <1>7 DEF StaleInv, IdleInv
  <1>10. CopiedInv'
    BY <1>7, <1>8 DEF StaleInv, CopiedInv
  <1>11. ASSUME ~disturbed' PROVE Alone' /\ Listed' /\ Done' /\ Held' /\ Kept'
    <2>1. Alone /\ Listed /\ Done /\ Held /\ Kept
      BY <1>1, <1>11 DEF StaleInv, AloneInv
    <2>2. Alone'
      BY <1>7, <2>1 DEF Alone
    <2>3. Listed'
      BY <1>5, <1>6, <1>7, <1>8, <2>1 DEF Listed
    <2>4. ASSUME NEW u \in Fetchers, NEW p \in Params, Fetching(u), Renewed(u, p)
          PROVE  Renewed(u, p)'
      <3>1. CASE stale[p] > job[u].prev[p]
        BY <1>5, <1>6, <1>8, <2>4, <3>1 DEF Renewed
      <3>2. CASE p \in job["rest"].todo
        <4>1. stale[p] >= job[u].prev[p]
          BY <2>1, <2>4 DEF Listed
        <4> QED
          BY <1>5, <1>6, <1>8, <2>4, <3>2, <4>1 DEF Renewed
      <3>3. CASE pc["init"] \in {"initialized", "clear"}
        BY <1>2, <3>3 DEF Renewed, Announced, Fetchers
      <3> QED
        BY <2>4, <3>1, <3>2, <3>3 DEF Renewed, Announced
    <2>5. Done'
      BY <1>1, <1>7, <1>8, <2>1, <2>4 DEF Done, Storing, Right
    <2>6. \A u \in Fetchers, p \in Params : Storing(u, p)' => Storing(u, p) /\ Fetching(u)
      BY <1>7, <1>8 DEF Storing, Fetching
    <2>7. Held'
      BY <1>1, <1>8, <2>1, <2>4, <2>6 DEF Held, Right
    <2>8. Kept'
      <3> SUFFICES ASSUME NEW p \in Params, ~Right(p, cached[p]) PROVE InHand(p)'
        BY <1>1 DEF Kept, Right
      <3>1. stale[p] > 0 \/ p \in job["rest"].todo => stale'[p] > 0
        BY <1>5 DEF DataOK
      <3>2. InHand(p)
        BY <2>1 DEF Kept
      <3> QED
        BY <1>1, <1>2, <1>4, <3>1, <3>2 DEF InHand, Right, Fetchers
    <2> QED
      BY <2>2, <2>3, <2>5, <2>7, <2>8
  <1>12. ImagesInv'
    BY <1>1, <1>3, <1>4, NoJobIdle DEF StaleInv, ImagesInv
  <1>13. NothingListed'
    BY <1>1, <1>2, <1>3, <1>4, <1>5, NoJobIdle DEF StaleInv, NothingListed,
                                                   ChangedLate
  <1> QED
    BY <1>9, <1>10, <1>11, <1>12, <1>13 DEF StaleInv, AloneInv

\* A put, of a client or of the number of images of an acquisition.
LEMMA StaleAtPut ==
    ASSUME IInv, StaleInv, NEW q \in Params, NEW after \in {"idle", "arm"},
           PutValue(q, after), pc["rest"] \in {"idle", "images"},
           after = "arm" => /\ q = NImages /\ pc["rest"] = "images"
                            /\ trigger_mode \in {"inte", "exte"},
           UNCHANGED <<cached, stale, trigger_mode>>
    PROVE  StaleInv'
  <1> USE DEF IInv, TypeOK
  <1>1. job["rest"] = NoJob /\ ~Fetching("rest")
    BY DEF StaleInv, IdleInv, Fetching, Fetchers
  <1>2. Affects[q] \subseteq Params
    BY ControlAssumption DEF ControlAssumption
  <1>3. CASE /\ Written(Affects[q])
             /\ job' = [job EXCEPT !["rest"] =
                            [NoJob EXCEPT !.todo = Affects[q], !.after = after]]
             /\ Goto("rest", "add")
             /\ UNCHANGED disturbed
    <2>1. \A p \in Params : p \notin Affects[q] => actual'[p] = actual[p]
      BY <1>3 DEF Written
    <2>2. pc'["rest"] = "add" /\ \A u \in Fetchers \ {"rest"} : pc'[u] = pc[u]
      BY <1>3, Gone DEF Fetchers, Threads
    <2>3. /\ job'["rest"].todo = Affects[q] /\ job'["rest"].after = after
          /\ \A u \in Fetchers \ {"rest"} : job'[u] = job[u]
      BY <1>3 DEF DataOK, NoJob, Fetchers
    <2>4. /\ ~Fetching("rest")'
          /\ \A u \in Fetchers \ {"rest"} : Fetching(u)' <=> Fetching(u)
      BY <2>2 DEF Fetching
    <2>5. IdleInv' /\ CopiedInv'
      BY <2>2, <2>3, <2>4 DEF StaleInv, IdleInv, CopiedInv
    <2>6. ASSUME ~disturbed' PROVE Alone' /\ Listed' /\ Done' /\ Held' /\ Kept'
      <3>1. Alone /\ Listed /\ Done /\ Held /\ Kept
        BY <1>3, <2>6 DEF StaleInv, AloneInv
      <3>2. \A p \in Params : p \in Affects[q] => Announced(p)' /\ InHand(p)'
        BY <2>2, <2>3 DEF Announced, InHand, Fetchers
      <3>3. \A p \in Params : Announced(p) => Announced(p)'
        BY <2>2 DEF Announced, Fetchers
      <3>4. Alone' /\ Listed'
        BY <2>3, <2>4, <3>1 DEF Alone, Listed
      <3>5. \A u \in Fetchers, p \in Params : Storing(u, p)' =>
                u # "rest" /\ Storing(u, p)
        BY <2>2, <2>3 DEF Storing
      <3>6. \A u \in Fetchers \ {"rest"}, p \in Params :
                p \in Affects[q] \/ Renewed(u, p) => Renewed(u, p)'
        BY <2>3, <3>2, <3>3 DEF Renewed
      <3>7. Done'
        <4> SUFFICES ASSUME NEW u \in Fetchers, NEW p \in Params, Fetching(u)',
                            job'[u].prev[p] > 0, p \notin job'[u].todo,
                            ~Storing(u, p)', ~Right(p, cached[p])'
                     PROVE  Renewed(u, p)'
          BY DEF Done
        <4>1. u # "rest" /\ Fetching(u) /\ job'[u] = job[u] /\ ~Storing(u, p)
          BY <2>2, <2>3, <2>4 DEF Storing
        <4> QED
          BY <2>1, <3>1, <3>6, <4>1 DEF Done, Right
      <3>8. Held'
        BY <2>1, <2>3, <3>1, <3>5, <3>6 DEF Held, Right
      <3>9. Kept'
        <4> SUFFICES ASSUME NEW p \in Params, ~Right(p, cached[p])', p \notin Affects[q]
                     PROVE  InHand(p)'
          BY <3>2 DEF Kept
        <4>1. InHand(p) /\ actual'[p] = actual[p]
          BY <2>1, <3>1 DEF Kept, Right
        <4> QED
          BY <1>1, <2>2, <2>3, <4>1, NoJobIdle DEF InHand, Right, Fetchers
      <3> QED
        BY <3>4, <3>7, <3>8, <3>9
    <2>7. ImagesInv' /\ NothingListed'
      BY <2>2, <2>3 DEF StaleInv, ImagesInv, NothingListed, ChangedLate
    <2> QED
      BY <2>5, <2>6, <2>7 DEF StaleInv, AloneInv
  <1>4. ASSUME NEW S, Written(S),
               disturbed' = \/ disturbed
                            \/ ~(S \subseteq {q})
                            \/ \E u \in Fetchers \ {"rest"} : Fetching(u),
               job' = [job EXCEPT !["rest"] =
                           [NoJob EXCEPT !.kind = "item", !.todo = {q}, !.after = after]],
               Goto("rest", "fetch")
        PROVE  StaleInv'
    <2>1. ~disturbed' => \A p \in Params : p # q => actual'[p] = actual[p]
      BY <1>4 DEF Written
    <2>2. pc'["rest"] = "fetch" /\ \A u \in Fetchers \ {"rest"} : pc'[u] = pc[u]
      BY <1>4, Gone DEF Fetchers, Threads
    <2>3. /\ job'["rest"].todo = {q} /\ job'["rest"].after = after
          /\ job'["rest"].kind = "item" /\ job'["rest"].prev = NoJob.prev
          /\ \A u \in Fetchers \ {"rest"} : job'[u] = job[u]
      BY <1>4 DEF DataOK, NoJob, Fetchers
    <2>4. ~disturbed' => ~disturbed /\ \A u \in Fetchers \ {"rest"} : ~Fetching(u)
      BY <1>4
    <2>5. IdleInv' /\ CopiedInv'
      BY <2>2, <2>3 DEF StaleInv, IdleInv, CopiedInv, Fetching
    <2>6. ASSUME ~disturbed' PROVE Alone' /\ Listed' /\ Done' /\ Held' /\ Kept'
      <3>1. Kept /\ \A u \in Fetchers \ {"rest"} : ~Fetching(u)
        BY <2>4, <2>6 DEF StaleInv, AloneInv
      <3>2. \A u \in Fetchers \ {"rest"} : ~Fetching(u)' /\ pc'[u] # "store"
        BY <2>2, <3>1 DEF Fetching
      <3>3. Alone' /\ Held'
        BY <2>2, <3>2 DEF Alone, Held, Storing
      <3>4. Listed'
        BY <2>3, <3>2, NoJobIdle DEF Listed, DataOK
      <3>5. Done'
        BY <2>3, <3>2, NoJobIdle DEF Done
      <3>6. Kept'
        <4> SUFFICES ASSUME NEW p \in Params, ~Right(p, cached[p])' PROVE InHand(p)'
          BY DEF Kept
        <4>1. CASE p = q
          BY <2>3, <4>1 DEF InHand, Fetchers
        <4>2. CASE p # q
          <5>1. InHand(p) /\ actual'[p] = actual[p]
            BY <2>1, <2>6, <3>1, <4>2 DEF Kept, Right
          <5> QED
            BY <1>1, <2>2, <2>3, <5>1, NoJobIdle DEF InHand, Right, Fetchers
        <4> QED
          BY <4>1, <4>2
      <3> QED
        BY <3>3, <3>4, <3>5, <3>6
    <2>7. ImagesInv' /\ NothingListed'
      BY <2>2, <2>3 DEF StaleInv, ImagesInv, NothingListed, ChangedLate
    <2> QED
      BY <2>5, <2>6, <2>7 DEF StaleInv, AloneInv
  <1>5. ASSUME NEW where \in {after, "idle"}, NEW S, Written(S),
               disturbed' = (disturbed \/ S # {}), Goto("rest", where), UNCHANGED job
        PROVE  StaleInv'
    <2>1. pc'["rest"] = where /\ \A u \in Fetchers \ {"rest"} : pc'[u] = pc[u]
      BY <1>5, Gone DEF Fetchers, Threads
    <2>2. where \in {"idle", "arm"}
      OBVIOUS
    <2>3. IdleInv' /\ CopiedInv'
      BY <1>1, <1>5, <2>1, <2>2 DEF StaleInv, IdleInv, CopiedInv, Fetching
    <2>4. ASSUME ~disturbed' PROVE AloneInv'
      <3>1. S = {} /\ UNCHANGED disturbed
        BY <1>5, <2>4 DEF DataOK
      <3>2. actual' \in [Params -> Nat] /\ \A p \in Params : actual'[p] = actual[p]
        BY <1>5, <3>1 DEF Written, DataOK
      <3>3. UNCHANGED actual
        BY <3>2 DEF DataOK
      <3> QED
        BY <1>5, <2>1, <2>2, <3>1, <3>3, Aside DEF StaleInv, Fetchers
    <2>5. ImagesInv' /\ NothingListed'
      BY <1>1, <1>5, <2>1, <2>2, NoJobIdle
      DEF StaleInv, ImagesInv, NothingListed, ChangedLate
    <2> QED
      BY <2>3, <2>4, <2>5 DEF StaleInv, AloneInv
  <1> QED
    BY <1>3, <1>4, <1>5 DEF PutValue

\* The initialize of the control object: all parameters change, and all are read.
LEMMA StaleAtInitialize ==
    ASSUME IInv, StaleInv, InitCommand \/ InitClear
    PROVE  StaleInv'
  <1> USE DEF IInv, TypeOK
  <1>1. CASE InitCommand
    <2>1. UNCHANGED <<cached, stale, job, disturbed, trigger_mode>>
      BY <1>1 DEF InitCommand, list, other
    <2>2. pc["init"] = "wait" /\ pc'["init"] = "initialized"
          /\ \A u \in Fetchers \ {"init"} : pc'[u] = pc[u]
      BY <1>1, Gone DEF InitCommand, Fetchers, Threads
    <2>3. \A u \in Fetchers : Fetching(u)' <=> Fetching(u)
      BY <2>2 DEF Fetching
    <2>4. \A p \in Params : Announced(p)' /\ InHand(p)'
      BY <2>2 DEF Announced, InHand
    <2>5. IdleInv' /\ CopiedInv'
      BY <2>1, <2>2, <2>3 DEF StaleInv, IdleInv, CopiedInv
    <2>6. ASSUME ~disturbed' PROVE Alone' /\ Listed' /\ Done' /\ Held' /\ Kept'
      BY <2>1, <2>3, <2>4, <2>6 DEF StaleInv, AloneInv, Alone, Listed, Done,
                                    Held, Kept,
         Renewed
    <2>7. ImagesInv' /\ NothingListed'
      BY <2>1, <2>2 DEF StaleInv, ImagesInv, NothingListed, ChangedLate, Fetchers
    <2> QED
      BY <2>5, <2>6, <2>7 DEF StaleInv, AloneInv
  <1>2. CASE InitClear
    <2>1. UNCHANGED <<actual, cached, stale, trigger_mode>>
      BY <1>2 DEF InitClear, detector, other
    <2>2. pc["init"] = "clear" /\ pc'["init"] = "fetch"
          /\ \A u \in Fetchers \ {"init"} : pc'[u] = pc[u]
      BY <1>2, Gone DEF InitClear, Fetchers, Threads
    <2>3. /\ job'["init"].todo = Params /\ job'["init"].kind = "all"
          /\ job'["init"].prev = NoJob.prev
          /\ \A u \in Fetchers \ {"init"} : job'[u] = job[u]
      BY <1>2 DEF InitClear, Begin, DataOK, NoJob, Fetchers
    <2>4. disturbed' = (disturbed \/ \E u \in Fetchers \ {"init"} : Fetching(u))
      BY <1>2 DEF InitClear, Begin
    <2>5. IdleInv' /\ CopiedInv'
      BY <2>2, <2>3 DEF StaleInv, IdleInv, CopiedInv, Fetching
    <2>6. ASSUME ~disturbed' PROVE Alone' /\ Listed' /\ Done' /\ Held' /\ Kept'
      <3>1. \A u \in Fetchers \ {"init"} : ~Fetching(u)
        BY <2>4, <2>6
      <3>2. \A u \in Fetchers \ {"init"} : ~Fetching(u)' /\ pc'[u] # "store"
        BY <2>2, <3>1 DEF Fetching
      <3>3. Alone' /\ Held'
        BY <2>2, <3>2 DEF Alone, Held, Storing
      <3>4. Listed'
        BY <2>1, <2>3, <3>2, NoJobIdle DEF Listed, DataOK
      <3>5. Done'
        BY <2>3, <3>2, NoJobIdle DEF Done
      <3>6. Kept'
        BY <2>3 DEF Kept, InHand, Fetchers
      <3> QED
        BY <3>3, <3>4, <3>5, <3>6
    <2>7. ImagesInv' /\ NothingListed'
      BY <2>1, <2>2, <2>3 DEF StaleInv, ImagesInv, NothingListed, ChangedLate,
                              Fetchers
    <2> QED
      BY <2>5, <2>6, <2>7 DEF StaleInv, AloneInv
  <1> QED
    BY <1>1, <1>2

\* A client initializes the detector behind the back of the control object.
LEMMA StaleAtRawInitialize ==
    ASSUME IInv, StaleInv, RawInitialize
    PROVE  StaleInv'
  <1>1. disturbed' /\ UNCHANGED <<stale, job, pc, trigger_mode>>
    BY DEF RawInitialize, other
  <1> QED
    BY <1>1 DEF StaleInv, IdleInv, CopiedInv, AloneInv, ImagesInv, NothingListed,
    ChangedLate, Fetching

\* A call fails: what a fetch of the list has not read yet is still on the list.
LEMMA StaleAtFailure ==
    ASSUME IInv, StaleInv, NEW t \in Threads, HttpFails(t)
    PROVE  StaleInv'
  <1> USE DEF IInv, TypeOK
  <1>1. UNCHANGED <<cached, stale, trigger_mode>>
    BY DEF HttpFails, other
  <1>2. /\ pc'[t] \in {"idle", "sleep", "dead"}
        /\ \A u \in Threads \ {t} : pc'[u] = pc[u]
    BY Gone DEF HttpFails
  <1>3. pc[t] \notin {"add", "store", "initialized", "clear"}
    BY DEF HttpFails, Calling, Threads
  <1>4. t \in Fetchers => job'[t] = NoJob
    BY DEF HttpFails, DataOK
  <1>5. \A u \in Fetchers \ {t} : job'[u] = job[u]
    BY DEF HttpFails, DataOK, Fetchers
  <1>6. /\ disturbed => disturbed'
        /\ ~disturbed' /\ t \in Fetchers => job[t].kind \notin {"item", "all"}
    BY DEF HttpFails, DataOK
  <1>11. ~disturbed' => UNCHANGED actual
    <2>1. CASE t \in Fetchers
      BY <2>1 DEF HttpFails
    <2>2. CASE t \notin Fetchers
      BY <2>2 DEF HttpFails, Obeyed, detector, Fetchers
    <2> QED
      BY <2>1, <2>2
  <1>7. Fetchers \subseteq Threads
    BY DEF Fetchers, Threads
  <1>8. IdleInv' /\ CopiedInv'
    BY <1>2, <1>4, <1>5, <1>7 DEF StaleInv, IdleInv, CopiedInv, Fetching
  <1>9. ASSUME ~disturbed' PROVE Alone' /\ Listed' /\ Done' /\ Held' /\ Kept'
    <2>1. Alone /\ Listed /\ Done /\ Held /\ Kept
      BY <1>6, <1>9 DEF StaleInv, AloneInv
    <2>2. \A u \in Fetchers : /\ Fetching(u)' => u # t /\ Fetching(u)
                              /\ pc'[u] = "store" <=> pc[u] = "store"
      BY <1>2, <1>3, <1>7 DEF Fetching
    <2>3. \A p \in Params : Announced(p) => Announced(p)'
      BY <1>2, <1>3, <1>5 DEF Announced, Fetchers, Threads
    <2>4. \A u \in Fetchers : pc[u] = "store" => u # t
      BY <1>3
    <2>5. Alone' /\ Listed'
      BY <1>1, <1>5, <2>1, <2>2 DEF Alone, Listed
    <2>6. Done'
      BY <1>1, <1>5, <1>9, <1>11, <2>1, <2>2, <2>3 DEF Done, Storing, Renewed,
                                                       Right
    <2>7. Held'
      BY <1>1, <1>5, <1>9, <1>11, <2>1, <2>2, <2>3, <2>4
      DEF Held, Storing, Renewed, Right
    <2>8. Kept'
      <3> SUFFICES ASSUME NEW p \in Params, InHand(p) PROVE InHand(p)'
        BY <1>1, <1>9, <1>11, <2>1 DEF Kept, Right
      <3>1. CASE \E u \in Fetchers : p \in job[u].todo
        <4>1. PICK u \in Fetchers : p \in job[u].todo
          BY <3>1
        <4>2. CASE u = t
          <5>1. Fetching(t)
            BY <1>3, <4>1, <4>2, NoJobIdle DEF StaleInv, IdleInv
          <5>2. job[t].kind = "stale"
            BY <1>6, <1>9, <4>1, <4>2, <5>1 DEF StaleInv, CopiedInv, DataOK,
                                                JobSet
          <5>3. job[t].prev[p] > 0 /\ stale[p] >= job[t].prev[p]
            BY <2>1, <4>1, <4>2, <5>1, <5>2 DEF StaleInv, CopiedInv, Listed
          <5> QED
            BY <1>1, <4>1, <4>2, <5>3 DEF InHand, DataOK, JobSet
        <4>3. CASE u # t
          BY <1>5, <4>1, <4>3 DEF InHand
        <4> QED
          BY <4>2, <4>3
      <3>2. CASE \E u \in Fetchers :
                     pc[u] = "store" /\ job[u].cfg = p /\ Right(p, job[u].value)
        BY <1>1, <1>5, <1>9, <1>11, <2>2, <2>4, <3>2 DEF InHand, Right
      <3>3. CASE stale[p] > 0 \/ pc["init"] \in {"initialized", "clear"}
        BY <1>1, <1>2, <1>3, <3>3 DEF InHand, Threads
      <3> QED
        BY <3>1, <3>2, <3>3 DEF InHand
    <2> QED
      BY <2>5, <2>6, <2>7, <2>8
  <1>10. ImagesInv' /\ NothingListed'
    <2>1. pc'["rest"] = pc["rest"] \/ pc'["rest"] \in {"idle", "sleep", "dead"}
      BY <1>2 DEF Threads
    <2>2. job'["rest"] \in {job["rest"], NoJob}
      BY <1>4, <1>5 DEF Fetchers
    <2> QED
      BY <1>1, <2>1, <2>2, NoJobIdle DEF StaleInv, ImagesInv, NothingListed,
                                         ChangedLate
  <1> QED
    BY <1>8, <1>9, <1>10 DEF StaleInv, AloneInv

\* Every step keeps it.
LEMMA StaleStep == IInv /\ StaleInv /\ [Next]_vars => StaleInv'
  <1> SUFFICES ASSUME IInv, StaleInv, [Next]_vars PROVE StaleInv'
    OBVIOUS
  <1>1. ASSUME NEW t \in Fetchers, Fetch(t) PROVE StaleInv'
    BY <1>1, StaleAtCopy, StaleAtRead, StaleAtStore, StaleAtRemove, StaleAtReadBack
       DEF Fetch
  <1>2. ASSUME NEW p \in Params, RestPut(p) PROVE StaleInv'
    <2>1. PutValue(p, "idle") /\ pc["rest"] = "idle" /\ UNCHANGED <<cached, stale, trigger_mode>>
      BY <1>2 DEF RestPut, Asked, other
    <2> QED
      BY <2>1, StaleAtPut
  <1>3. CASE RestImages
    <2>1. PutValue(NImages, "arm") /\ pc["rest"] = "images"
          /\ UNCHANGED <<cached, stale, trigger_mode>>
      BY <1>3 DEF RestImages, other
    <2>2. trigger_mode \in {"inte", "exte"} /\ NImages \in Params
      BY <2>1, ControlAssumption DEF ControlAssumption, StaleInv, ImagesInv
    <2> QED
      BY <2>1, <2>2, StaleAtPut
  <1>4. CASE RestAdd
    BY <1>4, StaleAtAdd
  <1>5. CASE InitCommand \/ InitClear
    BY <1>5, StaleAtInitialize
  <1>6. CASE RawInitialize
    BY <1>6, StaleAtRawInitialize
  <1>7. ASSUME NEW t \in Threads, HttpFails(t) PROVE StaleInv'
    BY <1>7, StaleAtFailure
  <1> QED
    BY <1>1, <1>2, <1>3, <1>4, <1>5, <1>6, <1>7, StaleAside
    DEF Next, Ask, Rest, Initialize, Status, Fetchers

LEMMA StaleAlways == Spec => [](IInv /\ StaleInv)
  <1>1. Init => IInv /\ StaleInv
    BY InitHolds, StaleInit
  <1>2. (IInv /\ StaleInv) /\ [Next]_vars => (IInv /\ StaleInv)'
    BY StepHolds, StaleStep
  <1> QED
    BY <1>1, <1>2, PTL DEF Spec

\* As long as no two fetches have overlapped, and every change is listed or read by
\* the thread that made it, a parameter whose cached value is neither the detector's
\* nor None is listed as stale or is just being read (put_config and
\* fetch_stale_parameters, eiger_detector.py:472-518, 703-741).
THEOREM KeptWhileAloneAlways == Spec => []KeptWhileAlone
  <1>1. IInv /\ StaleInv => KeptWhileAlone
    BY DEF StaleInv, AloneInv, Kept, KeptWhileAlone
  <1> QED
    BY StaleAlways, <1>1, PTL

\* Under the same condition, and when no initialize is under way, the detector is
\* armed with no value the control object has wrong, but for those that the put of
\* nimages has changed after the fetch, for triggers of external length
\* (start_acquisition, eiger_detector.py:751-768).
THEOREM ArmedFreshAlways == Spec => []ArmedFresh
  <1>1. IInv /\ StaleInv => ArmedFresh
    <2> SUFFICES ASSUME IInv, StaleInv, pc["rest"] = "arm", ~disturbed,
                        pc["init"] \in {"wait", "dead", "gone"},
                        NEW p \in Params \ ChangedLate
                 PROVE  Right(p, cached[p])
      BY DEF ArmedFresh
    <2> USE DEF IInv, TypeOK
    <2>1. stale[p] = 0
      BY DEF StaleInv, NothingListed
    <2>2. job["rest"] = NoJob /\ job["init"] = NoJob
      BY DEF StaleInv, IdleInv, Fetching, Fetchers
    <2>3. Fetching("status") => job["status"].kind = "stale"
      BY DEF StaleInv, CopiedInv, JobInv, Fetchers
    <2>4. Fetching("status") => job["status"].prev[p] = 0
      BY <2>1 DEF StaleInv, AloneInv, Listed, Fetchers, DataOK, JobSet
    <2>5. p \notin job["status"].todo /\ ~Storing("status", p)
      <3>1. CASE Fetching("status")
        BY <2>3, <2>4, <3>1 DEF StaleInv, CopiedInv, Fetchers, Storing
      <3>2. CASE ~Fetching("status")
        BY <3>2, NoJobIdle DEF StaleInv, IdleInv, Fetching, Fetchers, PcOK,
                               StatusPcs, Storing
      <3> QED
        BY <3>1, <3>2
    <2>6. ~InHand(p)
      BY <2>1, <2>2, <2>5, NoJobIdle DEF InHand, Fetchers, Storing
    <2> QED
      BY <2>6 DEF StaleInv, AloneInv, Kept
  <1> QED
    BY StaleAlways, <1>1, PTL
================================================================================
