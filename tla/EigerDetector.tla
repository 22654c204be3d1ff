------------------------------ MODULE EigerDetector ------------------------------
(***************************************************************************)
(* The control object of a detector (eiger_detector.py).  Requests of REST *)
(* clients are handled one at a time by one thread; an acquisition, an     *)
(* initialize, a high voltage reset and a status thread work beside it on  *)
(* the same attributes.  Only the list of stale parameters is behind a     *)
(* lock.                                                                   *)
(*                                                                         *)
(* The detector is external and behind HTTP: a put of one parameter may    *)
(* change others, and the reply lists them, or is something else, or is    *)
(* lost; a read may raise, or its reply may not be JSON, which gives None. *)
(* A value of a parameter is abstracted to the number of the write that    *)
(* set it.  The thread of the live view only passes images on and is left  *)
(* out, and so are puts of trigger_mode, manual_trigger and ntrigger.      *)
(***************************************************************************)
EXTENDS Integers, FiniteSets

CONSTANTS
    Params,       \* DETECTOR_CONFIG
    Affects,      \* the parameters that a put of each one changes
    NImages,      \* the parameter that inte and exte triggers set
    NoParam,      \* no parameter
    NTrigger,     \* value of ntrigger
    Uses,         \* trigger_mode, manual_trigger, and what clients ask for with
                  \* them, and how often
    Replies,      \* how the detector answers a put: a list of what changed,
                  \* nothing that is JSON, other JSON, or not at all
    Iterations,   \* niterations of hv_reset
    MaxWaits,     \* waits for the state READY before it gives up
    MaxRequests,  \* bound: requests in a behaviour, at most
    MaxFailures   \* bound: failures of HTTP calls in a behaviour

RequestSet == {"put", "start", "stop", "trigger", "initialize", "hv_reset", "raw",
               "shutdown"}
Modes == {"ints", "inte", "exts", "exte"}

ASSUME ControlAssumption ==
    /\ IsFiniteSet(Params) /\ NoParam \notin Params
    /\ NImages \in Params
    /\ Affects \in [Params -> SUBSET Params]
    /\ \A p \in Params : p \in Affects[p]
    /\ NTrigger \in Nat
    /\ Uses \subseteq Modes \X BOOLEAN \X (SUBSET RequestSet) \X (0 .. MaxRequests)
    /\ Replies \subseteq {"list", "nothing", "other", "lost"}
    /\ Iterations \in Nat \ {0} /\ MaxWaits \in Nat \ {0}
    /\ MaxRequests \in Nat /\ MaxFailures \in Nat

Threads == {"rest", "status", "acq", "init", "hv"}
Loops == {"acq", "init", "hv"}
Fetchers == {"rest", "status", "init"}

NoValue == -1                   \* None, for a reply that is not JSON
Values == Nat \cup {NoValue}

VARIABLES
    actual,     \* the parameters on the detector
    hw,         \* whether the detector is armed, and the triggers it took since
    cached,     \* the attributes set with setattr
    stale,      \* _stale_parameters: how often each parameter is listed
    pc,         \* where each thread is
    job,        \* what a fetching thread has copied, still has to read, and read
    complete, armed, initializing,    \* _acquisition_complete, _armed, _initializing
    acqEvent, trigEvent, initEvent,   \* the threading.Events
    triggers,   \* local to do_acquisition
    trigger_mode, manual_trigger,     \* as configured for the behaviour
    executing,  \* _executing
    hv,         \* of the high voltage reset: _hv_resetting, its event, and its counters
    asks,       \* what clients may ask for
    disturbed,  \* observed only: two fetches have overlapped, or something has
                \* changed on the detector and nobody is to read it: a put
                \* whose reply does not list it, a read that nobody repeats
                \* and that has raised, an initialize whose reply is lost or
                \* that is a raw command
    writes,     \* number of the last write on the detector
    budget      \* what clients may still ask, and how often HTTP may still fail

detector == <<actual, hw, writes>>
list == <<cached, stale, job, disturbed>>
flags == <<complete, armed, initializing>>
happened == <<acqEvent, trigEvent, initEvent>>
other == <<trigger_mode, manual_trigger, asks, executing, hv>>
vars == <<detector, list, pc, flags, happened, triggers, other, budget>>

NoJob == [kind |-> "none", prev |-> [p \in Params |-> 0], todo |-> {},
          cfg |-> NoParam, value |-> 0, after |-> "idle"]

Init ==
    /\ actual = [p \in Params |-> 0]
    /\ hw = [armed |-> FALSE, shots |-> 0]
    /\ writes = 0
    /\ cached = actual
    /\ stale = [p \in Params |-> 0]
    /\ pc = [t \in Threads |-> CASE t = "rest" -> "idle"
                               [] t = "status" -> "sleep"
                               [] OTHER -> "wait"]
    /\ job = [t \in Fetchers |-> NoJob]
    /\ disturbed = FALSE
    /\ complete = TRUE /\ armed = FALSE /\ initializing = FALSE
    /\ acqEvent = FALSE /\ trigEvent = FALSE /\ initEvent = FALSE
    /\ triggers = 0
    /\ \E u \in Uses :
           /\ trigger_mode = u[1] /\ manual_trigger = u[2] /\ asks = u[3]
           /\ budget = [requests |-> u[4], failures |-> MaxFailures]
    /\ executing = TRUE
    /\ hv = [resetting |-> FALSE, event |-> FALSE, iteration |-> 0, waits |-> 0]

Goto(t, where) == pc' = [pc EXCEPT ![t] = where]

\* while self._executing; the mutant goes on.
OnlyBody(body) == body
Looping(body) == IF executing THEN body ELSE "gone"

-----------------------------------------------------------------------------
(***************************************************************************)
(* fetch_stale_parameters, read_all_config and the read back of a put: a   *)
(* thread reads parameters one by one and stores each                      *)
(***************************************************************************)
Fetching(t) == pc[t] \in {"fetch", "store"}

Begin(t, j) ==
    /\ job' = [job EXCEPT ![t] = j]
    /\ disturbed' = (disturbed \/ \E u \in Fetchers \ {t} : Fetching(u))

AfterStale(t) == IF t = "rest" THEN "again" ELSE "sleep"

\* Under the lock.  The fetch of an empty list changes nothing.
StaleCopy(t) ==
    /\ pc[t] = "copy"
    /\ IF \A p \in Params : stale[p] = 0
       THEN /\ Goto(t, AfterStale(t))
            /\ UNCHANGED <<job, disturbed>>
       ELSE /\ Begin(t, [NoJob EXCEPT !.kind = "stale", !.prev = stale,
                                      !.todo = {p \in Params : stale[p] > 0}])
            /\ Goto(t, "fetch")
    /\ UNCHANGED <<detector, cached, stale, flags, happened, triggers, other, budget>>

\* The value is on its way back; for cfg in set(...): in any order.
\* A reply that is not JSON is logged, and read as None (parse_response).
FetchRead(t) ==
    /\ pc[t] = "fetch"
    /\ \E p \in job[t].todo : \E v \in {actual[p], NoValue} :
           /\ IF v = NoValue
              THEN /\ budget.failures > 0
                   /\ budget' = [budget EXCEPT !.failures = @ - 1]
              ELSE UNCHANGED budget
           /\ job' = [job EXCEPT ![t].todo = @ \ {p}, ![t].cfg = p, ![t].value = v]
    /\ Goto(t, "store")
    /\ UNCHANGED <<detector, cached, stale, disturbed, flags, happened, triggers,
                   other>>

FetchStore(t) ==
    /\ pc[t] = "store"
    /\ cached' = [cached EXCEPT ![job[t].cfg] = job[t].value]
    /\ Goto(t, "fetch")
    /\ UNCHANGED <<detector, stale, job, disturbed, flags, happened, triggers,
                   other, budget>>

\* The list without the entries that were copied.  The mutant takes a parameter
\* off the list altogether.
RemainingDistinct(now, prev) ==
    [p \in Params |-> IF prev[p] > 0 THEN 0 ELSE now[p]]
Remaining(now, prev) ==
    [p \in Params |-> IF now[p] > prev[p] THEN now[p] - prev[p] ELSE 0]

\* Under the lock.
StaleRemove(t) ==
    /\ pc[t] = "fetch"
    /\ job[t].kind = "stale"
    /\ job[t].todo = {}
    /\ stale' = Remaining(stale, job[t].prev)
    /\ job' = [job EXCEPT ![t] = NoJob]
    /\ Goto(t, AfterStale(t))
    /\ UNCHANGED <<detector, cached, disturbed, flags, happened, triggers, other,
                   budget>>

OthersRead(t) ==
    /\ pc[t] = "fetch"
    /\ job[t].kind \in {"item", "all"}
    /\ job[t].todo = {}
    /\ job' = [job EXCEPT ![t] = NoJob]
    /\ Goto(t, IF t = "init" THEN Looping("wait") ELSE job[t].after)
    /\ UNCHANGED <<detector, cached, stale, disturbed, flags, happened, triggers,
                   other, budget>>

Fetch(t) ==
    StaleCopy(t) \/ FetchRead(t) \/ FetchStore(t) \/ StaleRemove(t) \/ OthersRead(t)

-----------------------------------------------------------------------------
(***************************************************************************)
(* The REST thread                                                         *)
(***************************************************************************)
Asked(r) ==
    /\ pc["rest"] = "idle"
    /\ r \in asks
    /\ executing
    /\ budget.requests > 0
    /\ budget' = [budget EXCEPT !.requests = @ - 1]

Written(S) ==
    /\ writes' = writes + IF S = {} THEN 0 ELSE 1
    /\ actual' = [p \in Params |-> IF p \in S THEN writes' ELSE actual[p]]

\* set_value: the reply lists what has changed; without JSON in it the parameter
\* alone is read back, and other JSON is ignored.  When the call raises, the
\* request ends there.  Without a list the put may have changed all it affects,
\* or nothing.
PutValue(p, after) ==
    \/ /\ "list" \in Replies
       /\ Written(Affects[p])
       /\ job' = [job EXCEPT !["rest"] =
                     [NoJob EXCEPT !.todo = Affects[p], !.after = after]]
       /\ Goto("rest", "add")
       /\ UNCHANGED disturbed
    \/ /\ "nothing" \in Replies
       /\ \E S \in {{}, Affects[p]} :
              /\ Written(S)
              /\ disturbed' = \/ disturbed
                              \/ ~(S \subseteq {p})
                              \/ \E u \in Fetchers \ {"rest"} : Fetching(u)
       /\ job' = [job EXCEPT !["rest"] =
                     [NoJob EXCEPT !.kind = "item", !.todo = {p}, !.after = after]]
       /\ Goto("rest", "fetch")
    \/ /\ \E where \in {after, "idle"}, S \in {{}, Affects[p]} :
              /\ \/ "other" \in Replies /\ where = after
                 \/ "lost" \in Replies /\ where = "idle"
              /\ Written(S)
              /\ disturbed' = (disturbed \/ S # {})
              /\ Goto("rest", where)
       /\ UNCHANGED job

RestPut(p) ==
    /\ Asked("put")
    /\ PutValue(p, "idle")
    /\ UNCHANGED <<hw, cached, stale, flags, happened, triggers, other>>

\* Under the lock.
RestAdd ==
    /\ pc["rest"] = "add"
    /\ stale' = [p \in Params |-> stale[p] + IF p \in job["rest"].todo THEN 1 ELSE 0]
    /\ job' = [job EXCEPT !["rest"] = NoJob]
    /\ Goto("rest", job["rest"].after)
    /\ UNCHANGED <<detector, cached, disturbed, flags, happened, triggers, other,
                   budget>>

\* Where start_acquisition begins; the mutant arms without a fetch.
StartsCold == "complete"
Starts == "copy"

RestStart ==
    /\ Asked("start")
    /\ Goto("rest", Starts)
    /\ UNCHANGED <<detector, list, flags, happened, triggers, other>>

\* Without the lock.
RestAgain ==
    /\ pc["rest"] = "again"
    /\ Goto("rest", IF \E p \in Params : stale[p] > 0 THEN "copy" ELSE "complete")
    /\ UNCHANGED <<detector, list, flags, happened, triggers, other, budget>>

RestComplete ==
    /\ pc["rest"] = "complete"
    /\ complete' = FALSE
    /\ Goto("rest", IF trigger_mode \in {"inte", "exte"} THEN "images" ELSE "arm")
    /\ UNCHANGED <<detector, list, armed, initializing, happened, triggers, other,
                   budget>>

RestImages ==
    /\ pc["rest"] = "images"
    /\ PutValue(NImages, "arm")
    /\ UNCHANGED <<hw, cached, stale, flags, happened, triggers, other, budget>>

Arm == hw' = [armed |-> TRUE, shots |-> 0]
Disarm == hw' = [hw EXCEPT !.armed = FALSE]
Trigger == hw' = IF hw.armed THEN [hw EXCEPT !.shots = @ + 1] ELSE hw

RestArm ==
    /\ pc["rest"] = "arm"
    /\ Arm
    /\ Goto("rest", IF trigger_mode \in {"ints", "inte"} THEN "wake" ELSE "flag")
    /\ UNCHANGED <<actual, writes, list, flags, happened, triggers, other, budget>>

RestWake ==
    /\ pc["rest"] = "wake"
    /\ acqEvent' = TRUE
    /\ Goto("rest", "flag")
    /\ UNCHANGED <<detector, list, flags, trigEvent, initEvent, triggers, other,
                   budget>>

RestFlag ==
    /\ pc["rest"] = "flag"
    /\ armed' = TRUE
    /\ Goto("rest", "idle")
    /\ UNCHANGED <<detector, list, complete, initializing, happened, triggers,
                   other, budget>>

\* When the call raises, the request ends there, though it may have been obeyed.
RestStop ==
    /\ Asked("stop")
    /\ Disarm
    /\ Goto("rest", "stopped") \/ UNCHANGED pc
    /\ UNCHANGED <<actual, writes, list, flags, happened, triggers, other>>

RestStopped ==
    /\ pc["rest"] = "stopped"
    /\ complete' = TRUE
    /\ Goto("rest", "unflag")
    /\ UNCHANGED <<detector, list, armed, initializing, happened, triggers, other,
                   budget>>

RestTrigger ==
    /\ Asked("trigger")
    /\ trigEvent' = TRUE
    /\ UNCHANGED <<detector, list, pc, flags, acqEvent, initEvent, triggers, other>>

RestInitialize ==
    /\ Asked("initialize")
    /\ initializing' = TRUE
    /\ Goto("rest", "event")
    /\ UNCHANGED <<detector, list, complete, armed, happened, triggers, other>>

RestEvent ==
    /\ pc["rest"] = "event"
    /\ initEvent' = TRUE
    /\ Goto("rest", "idle")
    /\ UNCHANGED <<detector, list, flags, acqEvent, trigEvent, triggers, other, budget>>

RestHvReset ==
    /\ Asked("hv_reset")
    /\ hv' = [hv EXCEPT !.resetting = TRUE]
    /\ Goto("rest", "hv event")
    /\ UNCHANGED <<detector, list, flags, happened, triggers, trigger_mode,
                   manual_trigger, asks, executing>>

RestHvEvent ==
    /\ pc["rest"] = "hv event"
    /\ hv' = [hv EXCEPT !.event = TRUE]
    /\ Goto("rest", "idle")
    /\ UNCHANGED <<detector, list, flags, happened, triggers, trigger_mode,
                   manual_trigger, asks, executing, budget>>

\* The commands of the parameter tree go straight to the detector; trigger is
\* not counted and wait changes nothing.
RawArm ==
    /\ Asked("raw")
    /\ Arm
    /\ UNCHANGED <<actual, writes, list, pc, flags, happened, triggers, other>>

RawDisarm ==
    /\ Asked("raw")
    /\ Disarm
    /\ UNCHANGED <<actual, writes, list, pc, flags, happened, triggers, other>>

RawInitialize ==
    /\ Asked("raw")
    /\ Written(Params)
    /\ disturbed' = TRUE
    /\ UNCHANGED <<hw, cached, stale, job, pc, flags, happened, triggers, other>>

\* The server ends: cleanup of the adapter.
Shutdown ==
    /\ Asked("shutdown")
    /\ executing' = FALSE
    /\ UNCHANGED <<detector, list, pc, flags, happened, triggers, trigger_mode,
                   manual_trigger, asks, hv>>

\* _armed = False, the last statement of stop_acquisition and of do_acquisition.
Unflag(t) ==
    /\ pc[t] = "unflag"
    /\ armed' = FALSE
    /\ Goto(t, IF t = "rest" THEN "idle" ELSE Looping("wait"))
    /\ UNCHANGED <<detector, list, complete, initializing, happened, triggers,
                   other, budget>>

Rest ==
    \/ Fetch("rest") \/ RestAdd
    \/ RestAgain \/ RestComplete \/ RestImages \/ RestArm \/ RestWake \/ RestFlag
    \/ RestStopped \/ Unflag("rest") \/ RestEvent \/ RestHvEvent

Ask ==
    \/ \E p \in Params : RestPut(p)
    \/ RestStart \/ RestStop \/ RestTrigger \/ RestInitialize
    \/ RestHvReset \/ RawArm \/ RawDisarm \/ RawInitialize \/ Shutdown

\* A wait for an event has timed out, and the loop is left.
Leave(t) ==
    /\ pc[t] = "wait"
    /\ ~executing
    /\ Goto(t, "gone")
    /\ UNCHANGED <<detector, list, flags, happened, triggers, other, budget>>

-----------------------------------------------------------------------------
(***************************************************************************)
(* The acquisition thread                                                  *)
(***************************************************************************)
AcqWake ==
    /\ pc["acq"] = "wait"
    /\ acqEvent
    /\ acqEvent' = FALSE
    /\ trigEvent' = FALSE
    /\ triggers' = 0
    /\ Goto("acq", "test")
    /\ UNCHANGED <<detector, list, flags, initEvent, other, budget>>

\* The condition of the loop fails; the mutant is off by one.
OverByOne == complete \/ triggers > NTrigger
Over == complete \/ triggers >= NTrigger

AcqTest ==
    /\ pc["acq"] = "test"
    /\ Goto("acq", IF Over THEN "finish"
                   ELSE IF manual_trigger THEN "manual" ELSE "send")
    /\ UNCHANGED <<detector, list, flags, happened, triggers, other, budget>>

\* A manual trigger within 0.1 s, or back to the test.
AcqManual ==
    /\ pc["acq"] = "manual"
    /\ Goto("acq", IF trigEvent THEN "send" ELSE "test")
    /\ UNCHANGED <<detector, list, flags, happened, triggers, other, budget>>

AcqSend ==
    /\ pc["acq"] = "send"
    /\ Trigger
    /\ Goto("acq", "count")
    /\ UNCHANGED <<actual, writes, list, flags, happened, triggers, other, budget>>

AcqCount ==
    /\ pc["acq"] = "count"
    /\ triggers' = triggers + 1
    /\ trigEvent' = FALSE
    /\ Goto("acq", "test")
    /\ UNCHANGED <<detector, list, flags, acqEvent, initEvent, other, budget>>

\* _acquisition_complete after the loop; the mutant leaves it to a stop.
LeftToStop == complete
AtTheEnd == TRUE

AcqFinish ==
    /\ pc["acq"] = "finish"
    /\ complete' = AtTheEnd
    /\ Goto("acq", "disarm")
    /\ UNCHANGED <<detector, list, armed, initializing, happened, triggers, other,
                   budget>>

AcqDisarm ==
    /\ pc["acq"] = "disarm"
    /\ Disarm
    /\ Goto("acq", "unflag")
    /\ UNCHANGED <<actual, writes, list, flags, happened, triggers, other, budget>>

Acq ==
    \/ AcqWake \/ AcqTest \/ AcqManual \/ AcqSend \/ AcqCount \/ AcqFinish
    \/ AcqDisarm \/ Unflag("acq") \/ Leave("acq")

-----------------------------------------------------------------------------
(***************************************************************************)
(* The initialize and the status thread                                    *)
(***************************************************************************)
InitCommand ==
    /\ pc["init"] = "wait"
    /\ initEvent
    /\ Written(Params)
    /\ Goto("init", "initialized")
    /\ UNCHANGED <<hw, list, flags, happened, triggers, other, budget>>

InitDone ==
    /\ pc["init"] = "initialized"
    /\ initializing' = FALSE
    /\ Goto("init", "clear")
    /\ UNCHANGED <<detector, list, complete, armed, happened, triggers, other, budget>>

InitClear ==
    /\ pc["init"] = "clear"
    /\ initEvent' = FALSE
    /\ Begin("init", [NoJob EXCEPT !.kind = "all", !.todo = Params, !.after = "wait"])
    /\ Goto("init", "fetch")
    /\ UNCHANGED <<detector, cached, stale, flags, acqEvent, trigEvent, triggers,
                   other, budget>>

Initialize == InitCommand \/ InitDone \/ InitClear \/ Fetch("init") \/ Leave("init")

\* The reads of the status have no effect on the rest.
StatusLoop ==
    /\ pc["status"] = "sleep"
    /\ Goto("status", Looping("check"))
    /\ UNCHANGED <<detector, list, flags, happened, triggers, other, budget>>

StatusCheck ==
    /\ pc["status"] = "check"
    /\ Goto("status", IF complete THEN "copy" ELSE "sleep")
    /\ UNCHANGED <<detector, list, flags, happened, triggers, other, budget>>

Status == StatusLoop \/ StatusCheck \/ Fetch("status")

-----------------------------------------------------------------------------
(***************************************************************************)
(* The high voltage reset thread                                           *)
(***************************************************************************)
HvUnchanged ==
    UNCHANGED <<detector, list, flags, happened, triggers, trigger_mode, manual_trigger,
                asks, executing, budget>>

\* Only a detector of CdTe is reset.
HvWake ==
    /\ pc["hv"] = "wait"
    /\ hv.event
    /\ hv' = [hv EXCEPT !.iteration = 0, !.waits = 0]
    /\ \E where \in {"state", "over"} : Goto("hv", where)
    /\ HvUnchanged

HvReady ==
    /\ pc["hv"] = "state"
    /\ Goto("hv", "command")
    /\ UNCHANGED hv
    /\ HvUnchanged

\* The state that the status thread read last is not READY: it may be read again
\* after 10 s.
Waits == hv.waits + 1

HvNotReady ==
    /\ pc["hv"] = "state"
    /\ hv' = [hv EXCEPT !.waits = Waits]
    /\ Goto("hv", IF Waits > MaxWaits THEN "over" ELSE "state")
    /\ HvUnchanged

\* The status thread could not read it: an exception, which ends the thread.
HvUnknown ==
    /\ pc["hv"] = "state"
    /\ Goto("hv", "dead")
    /\ UNCHANGED hv
    /\ HvUnchanged

\* The mutant begins to count again.
Recount == 1
Iteration == hv.iteration + 1

HvCommand ==
    /\ pc["hv"] = "command"
    /\ hv' = [hv EXCEPT !.iteration = Iteration, !.waits = 0]
    /\ Goto("hv", IF Iteration = Iterations THEN "over" ELSE "state")
    /\ HvUnchanged

HvOver ==
    /\ pc["hv"] = "over"
    /\ hv' = [hv EXCEPT !.resetting = FALSE]
    /\ Goto("hv", "clear")
    /\ HvUnchanged

HvClear ==
    /\ pc["hv"] = "clear"
    /\ hv' = [hv EXCEPT !.event = FALSE]
    /\ Goto("hv", Looping("wait"))
    /\ HvUnchanged

HvReset ==
    \/ HvWake \/ HvReady \/ HvNotReady \/ HvUnknown \/ HvCommand \/ HvOver \/ HvClear
    \/ Leave("hv")

-----------------------------------------------------------------------------
\* An HTTP call raises: the adapter turns the exception of a request into an
\* error reply, the status thread passes over it, and the others end with it.
\* The reply to an arm also raises when it has no sequence id.
Calling(t) ==
    CASE t = "rest" -> \/ pc[t] = "arm"
                       \/ pc[t] = "fetch" /\ job[t].todo # {}
      [] t = "acq"  -> pc[t] \in {"send", "disarm"}
      [] t = "hv"   -> pc[t] = "command"
      [] t = "init" -> \/ pc[t] = "wait" /\ initEvent
                       \/ pc[t] = "fetch" /\ job[t].todo # {}
      [] OTHER      -> pc[t] = "fetch" /\ job[t].todo # {}

\* The call has been obeyed all the same.
Obeyed(t) ==
    \/ t = "rest" /\ pc[t] = "arm" /\ Arm /\ UNCHANGED <<actual, writes>>
    \/ t = "acq" /\ pc[t] = "send" /\ Trigger /\ UNCHANGED <<actual, writes>>
    \/ t = "acq" /\ pc[t] = "disarm" /\ Disarm /\ UNCHANGED <<actual, writes>>
    \/ t = "init" /\ pc[t] = "wait" /\ Written(Params) /\ UNCHANGED hw

HttpFails(t) ==
    /\ budget.failures > 0
    /\ Calling(t)
    /\ budget' = [budget EXCEPT !.failures = @ - 1]
    /\ Goto(t, CASE t = "rest" -> "idle" [] t = "status" -> "sleep" [] OTHER -> "dead")
    /\ Obeyed(t) \/ UNCHANGED detector
    /\ IF t \in Fetchers
       THEN /\ job' = [job EXCEPT ![t] = NoJob]
            /\ disturbed' = \/ disturbed
                            \/ job[t].kind \in {"item", "all"}
                            \/ actual' # actual
       ELSE UNCHANGED <<job, disturbed>>
    /\ UNCHANGED <<cached, stale, flags, happened, triggers, other>>

Next ==
    \/ Ask
    \/ Rest \/ Acq \/ Initialize \/ Status \/ HvReset
    \/ \E t \in Threads : HttpFails(t)

Spec == Init /\ [][Next]_vars

\* Python runs every thread; clients owe nothing.
FairSpec ==
    Spec /\ WF_vars(Rest) /\ WF_vars(Acq) /\ WF_vars(Initialize) /\ WF_vars(Status)
         /\ WF_vars(HvReset)

-----------------------------------------------------------------------------
(***************************************************************************)
(* Properties                                                              *)
(***************************************************************************)
RestPcs == {"idle", "add", "copy", "fetch", "store", "again", "complete", "images",
            "arm", "wake", "flag", "stopped", "unflag", "event", "hv event"}
StatusPcs == {"sleep", "check", "copy", "fetch", "store", "gone"}
AcqPcs == {"wait", "test", "manual", "send", "count", "finish", "disarm", "unflag",
           "dead", "gone"}
InitPcs == {"wait", "initialized", "clear", "fetch", "store", "dead", "gone"}
HvPcs == {"wait", "state", "command", "over", "clear", "dead", "gone"}

JobSet == [kind : {"none", "stale", "item", "all"}, prev : [Params -> Nat],
           todo : SUBSET Params, cfg : Params \cup {NoParam}, value : Values,
           after : {"idle", "arm", "wait"}]

DataOK ==
    /\ actual \in [Params -> Nat] /\ cached \in [Params -> Values]
    /\ hw \in [armed : BOOLEAN, shots : Nat]
    /\ writes \in Nat
    /\ stale \in [Params -> Nat]
    /\ job \in [Fetchers -> JobSet]
    /\ disturbed \in BOOLEAN
    /\ budget \in [requests : 0 .. MaxRequests, failures : 0 .. MaxFailures]

PcOK ==
    /\ pc \in [Threads -> RestPcs \cup StatusPcs \cup AcqPcs \cup InitPcs \cup HvPcs]
    /\ pc["rest"] \in RestPcs /\ pc["status"] \in StatusPcs
    /\ pc["acq"] \in AcqPcs /\ pc["init"] \in InitPcs
    /\ pc["hv"] \in HvPcs

FlagsOK ==
    /\ complete \in BOOLEAN /\ armed \in BOOLEAN /\ initializing \in BOOLEAN
    /\ acqEvent \in BOOLEAN /\ trigEvent \in BOOLEAN /\ initEvent \in BOOLEAN
    /\ triggers \in 0 .. NTrigger
    /\ trigger_mode \in Modes /\ manual_trigger \in BOOLEAN

HvOK ==
    /\ hv \in [resetting : BOOLEAN, event : BOOLEAN, iteration : 0 .. Iterations,
              waits : 0 .. MaxWaits + 1]
    /\ executing \in BOOLEAN
    /\ asks \subseteq RequestSet

TypeOK == DataOK /\ PcOK /\ FlagsOK /\ HvOK

\* A value that has been read is the detector's, or None.
Right(p, v) == v \in {actual[p], NoValue}

\* Somebody is about to read p, or to list it as stale.
InHand(p) ==
    \/ stale[p] > 0
    \/ \E t \in Fetchers :
           \/ p \in job[t].todo
           \/ pc[t] = "store" /\ job[t].cfg = p /\ Right(p, job[t].value)
    \/ pc["init"] \in {"initialized", "clear"}

\* A parameter whose cached value is not the detector's, and not None either, is
\* listed as stale or is just being read, however puts arrive during a fetch,
\* however often a parameter is listed and whatever reads fail, as long as no two
\* threads fetch at the same time and every change is listed or read by the one
\* who made it.  A reply that is not JSON makes the value None for good: the
\* parameter is taken off the list like one that has been read
\* (eiger_detector.py:487-518, 703-741).
KeptWhileAlone ==
    ~disturbed => \A p \in Params : ~Right(p, cached[p]) => InHand(p)

\* When the detector is armed the control object has no wrong idea of the values
\* it is armed with, under the same condition and when no initialize is under
\* way; only with triggers of external length may those be wrong that the put of
\* nimages after the fetch has changed
\* (start_acquisition, eiger_detector.py:751-768).
ChangedLate == IF trigger_mode \in {"inte", "exte"} THEN Affects[NImages] ELSE {}

ArmedFresh ==
    /\ pc["rest"] = "arm"
    /\ ~disturbed
    /\ pc["init"] \in {"wait", "dead", "gone"}
    => \A p \in Params \ ChangedLate : Right(p, cached[p])

\* An armed detector gets no more triggers than ntrigger, though starts, stops
\* and the loop of an acquisition stopped earlier overlap
\* (eiger_detector.py:787-813).
ShotsBounded == hw.shots <= NTrigger

\* An acquisition that has been handed to its thread ends, unless manual
\* triggers are awaited or the thread has died of a failed call
\* (eiger_detector.py:777-813).
AcquisitionEnds ==
    acqEvent /\ ~manual_trigger ~> complete \/ pc["acq"] \in {"dead", "gone"}

\* A high voltage reset that has been handed to its thread ends, whatever the
\* state that it waits for, unless a failed call or a missing state has ended
\* the thread (eiger_detector.py:855-912).
HvResetEnds ==
    hv.event ~> ~hv.event \/ pc["hv"] \in {"dead", "gone"}

\* After shutdown every thread comes to its end, what it was doing first, unless
\* manual triggers are awaited (eiger_detector.py:777, 914-915).
ShutdownEnds ==
    ~executing /\ ~manual_trigger ~>
        \A t \in Loops \cup {"status"} : pc[t] \in {"dead", "gone"}

\* "Remove only the parameters we have just fetched from the list.  This will
\* leave any that were added while fetching in place"
\* (eiger_detector.py:723-724): a stale parameter is not forgotten.
NothingForgotten ==
    budget.failures = MaxFailures =>
        \A p \in Params : cached[p] # actual[p] => InHand(p)
================================================================================
