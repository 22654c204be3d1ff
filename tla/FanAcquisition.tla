---------------------------- MODULE FanAcquisition ----------------------------
(***************************************************************************)
(* The settings of the fan and the shared memory cache over several        *)
(* acquisitions.  The main thread applies the parameters of a configure    *)
(* command one after the other; the rx thread takes offset and acquisition *)
(* ID when a header comes, dispatches the images (ImageDistribution) and   *)
(* writes every part into /dev/shm/eiger/<acquisition ID> while the cache  *)
(* is on.  No lock protects the settings, nor the directory that the main  *)
(* thread removes when the cache is turned off.                            *)
(*                                                                         *)
(* The stream reaches rx whole and in order (StreamChannel); sockets and   *)
(* consumers are those of EigerFan.                                        *)
(***************************************************************************)
EXTENDS ImageDistribution, Sequences, SequencesExt

CONSTANTS
    Plans,      \* what a client may do: sequences of Configure, Arm and Await
    Names,      \* acquisition IDs
    NoId,       \* the empty one the fan starts with
    Garbled,    \* what a std::string holds while it is being assigned
    Absent      \* a parameter that a command does not have

VARIABLES
    plan,       \* what is left of the client's plan
    alive,      \* no exception has ended the process
    \* the main thread
    mpc, command,
    configuredOffset, configuredAcquisitionID, devShmCache,
    directory, listed,  \* of remove_all: directory it is in, entries it has seen
    \* the rx thread
    rpc, handling,      \* message in hand: "header", "image", "end"
    part,               \* part of it to be written next
    currentAcquisitionID,
    queue,              \* messages that wait for rx
    \* the file system below /dev/shm
    fs,
    \* history
    expected,   \* what the client may expect of the next series
    wishes,     \* the same for every series it has armed
    taken,      \* what every series has taken
    lost,       \* messages given up
    hurried     \* the cache was turned off during an acquisition

mainVars == <<mpc, command, configuredAcquisitionID, devShmCache, directory, listed>>
rxVars == <<rpc, handling, part, currentAcquisitionID>>
clientVars == <<plan, expected, wishes, hurried>>
seriesVars == <<currentOffset, frame, index, num_frames_consumed, run>>
acqVars == <<seriesVars, block_size, clientVars, alive, mainVars, configuredOffset,
             rxVars, queue, fs, taken, lost>>

-----------------------------------------------------------------------------
(***************************************************************************)
(* The client: each step waits for the reply to the one before             *)
(***************************************************************************)
Configure(offset, acq, cache, block) ==
    [op |-> "configure", offset |-> offset, acq |-> acq, cache |-> cache, block |-> block]
Arm(images) == [op |-> "arm", images |-> images]
Await == [op |-> "await"]

Configurations ==
    [op : {"configure"}, offset : {Absent} \cup Offsets, acq : {Absent} \cup Names,
     cache : {Absent} \cup BOOLEAN, block : {Absent} \cup BlockSizes]

StepSet == Configurations \cup [op : {"arm"}, images : Nat] \cup {Await}

\* A fan starts with offset 0 and blocks of one image.
ASSUME AcquisitionAssumption ==
    /\ 0 \in Offsets /\ 1 \in BlockSizes
    /\ Plans \subseteq Seq(StepSet)
    /\ Absent \notin Nat \cup BOOLEAN \cup Names

Series(images) == <<"header">> \o [i \in 1 .. images |-> "image"] \o <<"end">>

\* The parameter of a command, or what there was.
Given(parameter, old) == IF parameter = Absent THEN old ELSE parameter

\* No header waits or has yet to take the settings.
NoHeaderAhead ==
    /\ \A i \in 1 .. Len(queue) : queue[i] # "header"
    /\ rpc \notin {"offset", "reset", "acq"}

Quiet == queue = <<>> /\ rpc = "idle"

ClientConfigures ==
    /\ mpc = "idle" /\ plan # <<>> /\ plan[1].op = "configure"
    /\ plan' = Tail(plan)
    /\ command' = plan[1]
    /\ mpc' = "offset"
    /\ expected' = [offset |-> Given(plan[1].offset, expected.offset),
                    acq |-> Given(plan[1].acq, expected.acq),
                    sure |-> expected.sure /\ NoHeaderAhead]
    /\ wishes' = [i \in 1 .. Len(wishes) |->
                     IF i > Len(taken) THEN [wishes[i] EXCEPT !.sure = FALSE]
                     ELSE wishes[i]]
    /\ hurried' = (hurried \/ (plan[1].cache = FALSE /\ ~Quiet))
    /\ UNCHANGED <<seriesVars, block_size, alive, configuredAcquisitionID, devShmCache,
                   directory, listed, configuredOffset, rxVars, queue, fs, taken, lost>>

\* The detector is armed: its stream comes to the fan.
ClientArms ==
    /\ mpc = "idle" /\ plan # <<>> /\ plan[1].op = "arm"
    /\ plan' = Tail(plan)
    /\ queue' = queue \o Series(plan[1].images)
    /\ wishes' = Append(wishes, expected)
    /\ expected' = [offset |-> 0, acq |-> expected.acq, sure |-> TRUE]
    /\ UNCHANGED <<seriesVars, block_size, hurried, alive, mainVars, configuredOffset,
                   rxVars, fs, taken, lost>>

ClientAwaits ==
    /\ mpc = "idle" /\ plan # <<>> /\ plan[1].op = "await"
    /\ Quiet
    /\ plan' = Tail(plan)
    /\ UNCHANGED <<seriesVars, block_size, expected, wishes, hurried, alive, mainVars,
                   configuredOffset, rxVars, queue, fs, taken, lost>>

Client == ClientConfigures \/ ClientArms \/ ClientAwaits

-----------------------------------------------------------------------------
(***************************************************************************)
(* The main thread: HandleControlMessage, parameter by parameter           *)
(***************************************************************************)
MainUnchanged == UNCHANGED <<seriesVars, clientVars, rxVars, queue, taken, lost>>

MainOffset ==
    /\ mpc = "offset"
    /\ mpc' = "acq"
    /\ configuredOffset' = Given(command.offset, configuredOffset)
    /\ UNCHANGED <<block_size, alive, command, configuredAcquisitionID, devShmCache,
                   directory, listed, fs>>
    /\ MainUnchanged

\* The assignment of a std::string is not atomic.
MainAssign ==
    /\ mpc = "acq"
    /\ IF command.acq = Absent
       THEN mpc' = "cache" /\ UNCHANGED configuredAcquisitionID
       ELSE mpc' = "assigned" /\ configuredAcquisitionID' = Garbled
    /\ UNCHANGED <<block_size, alive, command, devShmCache, directory, listed,
                   configuredOffset, fs>>
    /\ MainUnchanged

MainAssigned ==
    /\ mpc = "assigned"
    /\ mpc' = "cache"
    /\ configuredAcquisitionID' = command.acq
    /\ UNCHANGED <<block_size, alive, command, devShmCache, directory, listed,
                   configuredOffset, fs>>
    /\ MainUnchanged

MainCache ==
    /\ mpc = "cache"
    /\ devShmCache' = Given(command.cache, devShmCache)
    /\ mpc' = IF command.cache = FALSE THEN "remove" ELSE "block"
    /\ UNCHANGED <<block_size, alive, command, configuredAcquisitionID, directory,
                   listed, configuredOffset, fs>>
    /\ MainUnchanged

\* The block size comes last; then the reply.
MainBlock ==
    /\ mpc = "block"
    /\ mpc' = "idle"
    /\ block_size' = Given(command.block, block_size)
    /\ UNCHANGED <<alive, command, configuredAcquisitionID, devShmCache, directory,
                   listed, configuredOffset, fs>>
    /\ MainUnchanged

-----------------------------------------------------------------------------
(***************************************************************************)
(* remove_all: what a directory lists when it is opened is removed, what   *)
(* comes later may be; a directory that is not empty then is an error,     *)
(* which nothing catches                                                   *)
(***************************************************************************)
Root == <<>>
Entries(dir) == {path \in fs : path # Root /\ Front(path) = dir}

RemoveUnchanged ==
    /\ UNCHANGED <<block_size, command, configuredAcquisitionID, devShmCache,
                   configuredOffset>>
    /\ MainUnchanged

\* The mutant removes the directory without what is in it.
RemoveRootOnly ==
    /\ mpc = "remove"
    /\ mpc' = "listing"
    /\ directory' = Root
    /\ listed' = {}
    /\ UNCHANGED <<alive, fs>>
    /\ RemoveUnchanged

MainRemove ==
    /\ mpc = "remove"
    /\ IF Root \in fs
       THEN mpc' = "listing" /\ directory' = Root /\ listed' = Entries(Root)
       ELSE mpc' = "block" /\ UNCHANGED <<directory, listed>>
    /\ UNCHANGED <<alive, fs>>
    /\ RemoveUnchanged

\* Down into an entry of the root, a directory of an acquisition.
MainEnter ==
    /\ mpc = "listing" /\ directory = Root
    /\ \E dir \in Entries(Root) :
           /\ directory' = dir
           /\ listed' = (listed \ {dir}) \cup Entries(dir)
    /\ UNCHANGED <<mpc, alive, fs>>
    /\ RemoveUnchanged

MainUnlink ==
    /\ mpc = "listing" /\ directory # Root
    /\ \E path \in Entries(directory) :
           /\ fs' = fs \ {path}
           /\ listed' = listed \ {path}
    /\ UNCHANGED <<mpc, alive, directory>>
    /\ RemoveUnchanged

\* Back from a directory when all that it has listed is gone.
MainRmdir ==
    /\ mpc = "listing"
    /\ \A path \in listed : Len(path) <= Len(directory) \/ path \notin fs
    /\ IF Entries(directory) # {}
       THEN alive' = FALSE /\ UNCHANGED <<fs, directory, listed, mpc>>
       ELSE /\ fs' = fs \ {directory}
            /\ listed' = {path \in listed : Len(path) <= Len(directory)}
            /\ directory' = Root
            /\ mpc' = IF directory = Root THEN "block" ELSE "listing"
            /\ UNCHANGED alive
    /\ RemoveUnchanged

Main ==
    \/ MainOffset \/ MainAssign \/ MainAssigned \/ MainCache \/ MainBlock
    \/ MainRemove \/ MainEnter \/ MainUnlink \/ MainRmdir

-----------------------------------------------------------------------------
(***************************************************************************)
(* The rx thread: HandleStreamMessage                                      *)
(***************************************************************************)
RxUnchanged == UNCHANGED <<block_size, clientVars, alive, mainVars>>

RxTake ==
    /\ rpc = "idle" /\ queue # <<>>
    /\ handling' = Head(queue)
    /\ queue' = Tail(queue)
    /\ part' = 1
    /\ rpc' = CASE Head(queue) = "header" -> "offset"
                [] Head(queue) = "image" -> "choose"
                [] Head(queue) = "end" -> "part"
    /\ UNCHANGED <<seriesVars, configuredOffset, currentAcquisitionID, fs, taken, lost>>
    /\ RxUnchanged

RxOffset ==
    /\ rpc = "offset"
    /\ rpc' = "reset"
    /\ currentOffset' = configuredOffset
    /\ UNCHANGED <<frame, index, num_frames_consumed, run, configuredOffset, handling,
                   part, currentAcquisitionID, queue, fs, taken, lost>>
    /\ RxUnchanged

\* The mutants forget the offset, and the acquisition ID with it.
ResetCounters ==
    /\ rpc = "reset"
    /\ rpc' = "acq"
    /\ num_frames_consumed' = [c \in Consumers |-> 0]
    /\ frame' = 0 /\ index' = -1 /\ run' = 0
    /\ UNCHANGED <<currentOffset, handling, part, currentAcquisitionID, queue, fs, taken,
                   lost, block_size, clientVars, alive, mpc, command, devShmCache,
                   directory, listed>>

ResetKeepsOffset ==
    ResetCounters /\ UNCHANGED <<configuredOffset, configuredAcquisitionID>>

ResetAll ==
    ResetCounters /\ configuredOffset' = 0 /\ configuredAcquisitionID' = NoId

RxReset ==
    ResetCounters /\ configuredOffset' = 0 /\ UNCHANGED configuredAcquisitionID

RxAcquisition ==
    /\ rpc = "acq"
    /\ rpc' = "part"
    /\ currentAcquisitionID' = configuredAcquisitionID
    /\ taken' = Append(taken, [offset |-> currentOffset, acq |-> configuredAcquisitionID])
    /\ UNCHANGED <<seriesVars, configuredOffset, handling, part, queue, fs, lost>>
    /\ RxUnchanged

RxChoose ==
    /\ rpc = "choose"
    /\ rpc' = "part"
    /\ ChooseConsumer
    /\ UNCHANGED <<num_frames_consumed, configuredOffset, handling, part,
                   currentAcquisitionID, queue, fs, taken, lost, clientVars, alive, mainVars>>

\* A header of detail basic, an image and an end, without appendices.
Parts == [header |-> 2, image |-> 4, end |-> 1]

Directory == <<currentAcquisitionID>>
File == Append(Directory, <<handling, frame, part, "whole">>)
TmpFile == Append(Directory, <<handling, frame, part, "tmp">>)

RxInFile == UNCHANGED <<seriesVars, configuredOffset, handling, currentAcquisitionID,
                        queue, taken>>

\* The mutant looks at the flag once per message.
CacheTestedOnce ==
    /\ rpc = "part" /\ part <= Parts[handling]
    /\ IF devShmCache \/ part > 1
       THEN rpc' = "create" /\ UNCHANGED part
       ELSE part' = part + 1 /\ UNCHANGED rpc
    /\ UNCHANGED <<fs, lost>>
    /\ RxInFile /\ RxUnchanged

\* WriteMessageToFile returns at once while the cache is off.
RxWrite ==
    /\ rpc = "part" /\ part <= Parts[handling]
    /\ IF devShmCache
       THEN rpc' = "create" /\ UNCHANGED part
       ELSE part' = part + 1 /\ UNCHANGED rpc
    /\ UNCHANGED <<fs, lost>>
    /\ RxInFile /\ RxUnchanged

\* create_directories: first the root, then the directory in it.
RxCreateRoot ==
    /\ rpc = "create"
    /\ rpc' = IF Directory \in fs THEN "open" ELSE "mkdir"
    /\ fs' = fs \cup {Root}
    /\ UNCHANGED <<part, lost>>
    /\ RxInFile /\ RxUnchanged

RxMkdir ==
    /\ rpc = "mkdir" /\ Root \in fs
    /\ rpc' = "open"
    /\ fs' = fs \cup {Directory}
    /\ UNCHANGED <<part, lost>>
    /\ RxInFile /\ RxUnchanged

\* Without a root mkdir throws: HandleStreamMessage gives up the message,
\* which is neither sent nor counted.
RxGiveUp ==
    /\ rpc = "mkdir" /\ Root \notin fs
    /\ rpc' = "idle"
    /\ lost' = lost + 1
    /\ UNCHANGED <<part, fs>>
    /\ RxInFile /\ RxUnchanged

\* A failure of open, write or rename is logged.
RxOpen ==
    /\ rpc = "open"
    /\ rpc' = "rename"
    /\ fs' = IF Directory \in fs THEN fs \cup {TmpFile} ELSE fs
    /\ UNCHANGED <<part, lost>>
    /\ RxInFile /\ RxUnchanged

RxRename ==
    /\ rpc = "rename"
    /\ rpc' = "part" /\ part' = part + 1
    /\ fs' = IF TmpFile \in fs THEN (fs \ {TmpFile}) \cup {File} ELSE fs
    /\ UNCHANGED lost
    /\ RxInFile /\ RxUnchanged

\* The message is sent; an image is counted.
RxSend ==
    /\ rpc = "part" /\ part > Parts[handling]
    /\ rpc' = "idle"
    /\ IF handling = "image" THEN CountImage(index) ELSE UNCHANGED num_frames_consumed
    /\ UNCHANGED <<currentOffset, frame, index, run, configuredOffset, handling, part,
                   currentAcquisitionID, queue, fs, taken, lost>>
    /\ RxUnchanged

Rx ==
    \/ RxTake \/ RxOffset \/ RxReset \/ RxAcquisition \/ RxChoose
    \/ RxWrite \/ RxCreateRoot \/ RxMkdir \/ RxGiveUp \/ RxOpen \/ RxRename \/ RxSend

-----------------------------------------------------------------------------
AcqInit ==
    /\ currentOffset = 0 /\ block_size = 1
    /\ frame = 0 /\ index = -1 /\ run = 0
    /\ num_frames_consumed = [c \in Consumers |-> 0]
    /\ plan \in Plans
    /\ alive = TRUE
    /\ mpc = "idle" /\ command = Await
    /\ configuredOffset = 0 /\ configuredAcquisitionID = NoId
    /\ devShmCache = FALSE
    /\ directory = Root /\ listed = {}
    /\ rpc = "idle" /\ handling = "end" /\ part = 1
    /\ currentAcquisitionID = NoId
    /\ queue = <<>> /\ fs = {}
    /\ expected = [offset |-> 0, acq |-> NoId, sure |-> TRUE]
    /\ wishes = <<>> /\ taken = <<>>
    /\ lost = 0 /\ hurried = FALSE

AcqNext == alive /\ (Client \/ Main \/ Rx)

AcqSpec == AcqInit /\ [][AcqNext]_acqVars

-----------------------------------------------------------------------------
(***************************************************************************)
(* Properties                                                              *)
(***************************************************************************)

\* No consumer gets ahead of another by more than one block, unless an image
\* was given up (EigerFan.cpp:432-440).
BalancedUnlessLost == lost = 0 => Balanced

\* A series takes the offset and the acquisition ID that the client has
\* configured for it, when it configured them at a time when no header was on
\* its way: the settings of the next acquisition may be given while the images
\* of this one are still coming (EigerFan.cpp:418-426).
TakesWhatWasConfigured ==
    \A i \in 1 .. Len(taken) :
        wishes[i].sure => /\ taken[i].offset = wishes[i].offset
                          /\ taken[i].acq = wishes[i].acq

\* An offset holds for one series at most, however late it is configured (each
\* offset of the plans but 0 is configured once; EigerFan.cpp:419).
OffsetUsedOnce ==
    \A i, j \in 1 .. Len(taken) :
        i # j /\ taken[i].offset # 0 => taken[i].offset # taken[j].offset

\* When the reply to the command that turns the cache off has been sent, what is
\* left of it is the file that rx was writing and no other (EigerFan.cpp:785,
\* 1153-1161).
OneLeftOver ==
    alive /\ mpc = "idle" /\ ~devShmCache =>
        Cardinality({path \in fs : Len(path) = 2}) <= 1

\* Turning the cache off between acquisitions neither ends the fan nor costs a
\* message (EigerFan.cpp:794, 1160).
QuietRemovalIsSafe == lost > 0 \/ ~alive => hurried
===============================================================================
