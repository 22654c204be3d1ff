------------------------ MODULE FanAcquisition_proofs ------------------------
(***************************************************************************)
(* For every plan of a client, number of consumers and set of acquisition  *)
(* IDs: the types, what remains of the shared memory cache when it is      *)
(* turned off, and which settings a series takes.                          *)
(***************************************************************************)
EXTENDS FanAcquisition, FiniteSetTheorems, SequenceTheorems, TLAPS

ID == INSTANCE ImageDistribution_proofs

Kinds == {"header", "image", "end"}
Ids == Names \cup {NoId, Garbled}

\* The paths below /dev/shm: the root, the directories of acquisitions, files.
Directories == {Root} \cup {<<d>> : d \in Ids}
Files == {<<d, f>> : d \in Ids, f \in Kinds \X Nat \X Nat \X {"whole", "tmp"}}
Paths == Directories \cup Files

Types ==
    /\ TypeOK
    /\ plan \in Seq(StepSet)
    /\ alive \in BOOLEAN
    /\ mpc \in {"idle", "offset", "acq", "assigned", "cache", "block", "remove", "listing"}
    /\ mpc # "idle" => command \in Configurations
    /\ mpc = "assigned" => command.acq # Absent
    /\ configuredOffset \in Offsets
    /\ configuredAcquisitionID \in Ids /\ currentAcquisitionID \in Ids
    /\ devShmCache \in BOOLEAN
    /\ directory \in Directories /\ listed \subseteq Paths
    /\ rpc \in {"idle", "offset", "reset", "acq", "choose", "part", "create", "mkdir",
                "open", "rename"}
    /\ handling \in Kinds /\ part \in Nat
    /\ queue \in Seq(Kinds)
    /\ fs \subseteq Paths
    /\ expected \in [offset : Offsets, acq : Ids, sure : BOOLEAN]
    /\ wishes \in Seq([offset : Offsets, acq : Ids, sure : BOOLEAN])
    /\ taken \in Seq([offset : Offsets, acq : Ids])
    /\ lost \in Nat /\ hurried \in BOOLEAN

-----------------------------------------------------------------------------
(***************************************************************************)
(* Paths                                                                   *)
(***************************************************************************)

\* The parent and the length of a path.
LEMMA PathShape ==
    ASSUME NEW d, NEW f
    PROVE  /\ Len(<<d>>) = 1 /\ Len(<<d, f>>) = 2 /\ Len(Root) = 0
           /\ Front(<<d>>) = Root /\ Front(<<d, f>>) = <<d>>
           /\ Append(<<d>>, f) = <<d, f>>
           /\ <<d>> # Root /\ <<d, f>> # Root
<1>1. Len(<<d>>) = 1 /\ Len(<<d, f>>) = 2 /\ Len(Root) = 0
  BY DEF Root
<1>2. Append(<<d>>, f) = <<d, f>>
  <2>1. <<d>> \in Seq({d, f}) /\ Len(<<d>>) = 1 /\ <<d>>[1] = d
    OBVIOUS
  <2>2. <<d, f>> \in Seq({d, f}) /\ Len(<<d, f>>) = 2 /\ <<d, f>>[1] = d /\ <<d, f>>[2] = f
    OBVIOUS
  <2>3. /\ Append(<<d>>, f) \in Seq({d, f})
        /\ Len(Append(<<d>>, f)) = 2
        /\ Append(<<d>>, f)[1] = d /\ Append(<<d>>, f)[2] = f
    BY <2>1, AppendProperties
  <2>4. \A i \in 1 .. 2 : i = 1 \/ i = 2
    OBVIOUS
  <2>5. QED
    BY <2>2, <2>3, <2>4, SeqEqual
<1>3. Front(<<d>>) = Root
  BY DEF Front, Root
<1>4. SubSeq(<<d, f>>, 1, 1) = <<d>>
  <2>1. <<d, f>> \in Seq({d, f}) /\ Len(<<d, f>>) = 2 /\ <<d>> \in Seq({d, f})
    OBVIOUS
  <2>2. /\ SubSeq(<<d, f>>, 1, 1) \in Seq({d, f})
        /\ Len(SubSeq(<<d, f>>, 1, 1)) = 1
        /\ SubSeq(<<d, f>>, 1, 1)[1] = d
    BY <2>1, SubSeqProperties
  <2>3. <<d>>[1] = d /\ Len(<<d>>) = 1 /\ \A i \in 1 .. 1 : i = 1
    OBVIOUS
  <2>4. QED
    BY <2>1, <2>2, <2>3, SeqEqual
<1>5. Front(<<d, f>>) = <<d>>
  BY <1>1, <1>4 DEF Front
<1>6. QED
  BY <1>1, <1>2, <1>3, <1>5

\* A path is the root, a directory in it, or a file in a directory.
LEMMA PathKinds ==
    ASSUME NEW path \in Paths
    PROVE  \/ path = Root /\ Len(path) = 0
           \/ path \in Directories \ {Root} /\ Len(path) = 1 /\ Front(path) = Root
           \/ /\ path \in Files /\ path # Root /\ Len(path) = 2
              /\ Front(path) \in Directories \ {Root} /\ Len(Front(path)) = 1
<1>1. \/ path = Root
      \/ \E d \in Ids : path = <<d>>
      \/ \E d \in Ids, f \in Kinds \X Nat \X Nat \X {"whole", "tmp"} : path = <<d, f>>
  BY DEF Paths, Directories, Files
<1>2. CASE path = Root
  BY <1>2 DEF Root
<1>3. CASE \E d \in Ids : path = <<d>>
  <2>1. PICK d \in Ids : path = <<d>>
    BY <1>3
  <2>2. Len(<<d>>) = 1 /\ Front(<<d>>) = Root /\ <<d>> # Root
    BY PathShape
  <2>3. QED
    BY <2>1, <2>2 DEF Directories
<1>4. CASE \E d \in Ids, f \in Kinds \X Nat \X Nat \X {"whole", "tmp"} : path = <<d, f>>
  <2>1. PICK d \in Ids, f \in Kinds \X Nat \X Nat \X {"whole", "tmp"} : path = <<d, f>>
    BY <1>4
  <2>2. /\ Len(<<d, f>>) = 2 /\ Front(<<d, f>>) = <<d>> /\ <<d, f>> # Root
        /\ Len(<<d>>) = 1 /\ <<d>> # Root
    BY PathShape
  <2>3. <<d>> \in Directories /\ path \in Files
    BY <2>1 DEF Directories, Files
  <2>4. QED
    BY <2>1, <2>2, <2>3
<1>5. QED
  BY <1>1, <1>2, <1>3, <1>4

\* What is below a directory that is listed.
LEMMA EntriesFacts ==
    ASSUME Types
    PROVE  /\ \A path \in Entries(Root) : path \in fs /\ path \in Directories /\ Len(path) = 1
           /\ \A dir \in Directories \ {Root} : \A path \in Entries(dir) :
                  path \in fs /\ path \in Files /\ Len(path) = 2
<1>1. \A path \in fs : path \in Paths
  BY DEF Types
<1>2. ASSUME NEW path \in Entries(Root)
      PROVE  path \in fs /\ path \in Directories /\ Len(path) = 1
  <2>1. path \in fs /\ path \in Paths /\ path # Root /\ Front(path) = Root
    BY <1>1 DEF Entries
  <2>2. QED
    BY <2>1, PathKinds
<1>3. ASSUME NEW dir \in Directories \ {Root}, NEW path \in Entries(dir)
      PROVE  path \in fs /\ path \in Files /\ Len(path) = 2
  <2>1. path \in fs /\ path \in Paths /\ path # Root /\ Front(path) = dir
    BY <1>1 DEF Entries
  <2>2. QED
    BY <2>1, PathKinds
<1>4. QED
  BY <1>2, <1>3

\* What has a name of two parts is a file.
LEMMA FileKinds ==
    ASSUME Types, NEW path \in fs, Len(path) = 2
    PROVE  /\ path # Root /\ path \in Files
           /\ Front(path) \in Directories \ {Root} /\ Len(Front(path)) = 1
<1>1. path \in Paths
  BY DEF Types
<1>2. QED
  BY <1>1, PathKinds

LEMMA DirectoryLength ==
    ASSUME NEW dir \in Directories
    PROVE  /\ Len(dir) \in Nat
           /\ dir = Root => Len(dir) = 0
           /\ dir # Root => Len(dir) = 1
<1>1. Len(Root) = 0
  BY DEF Root
<1>2. ASSUME NEW d \in Ids, dir = <<d>> PROVE Len(dir) = 1
  BY <1>2, PathShape
<1>3. QED
  BY <1>1, <1>2 DEF Directories

\* The paths that the rx thread writes.
LEMMA FileFacts ==
    ASSUME Types
    PROVE  /\ Directory \in Directories /\ Directory # Root /\ Len(Directory) = 1
           /\ File \in Files /\ TmpFile \in Files
           /\ Len(File) = 2 /\ Len(TmpFile) = 2
           /\ Front(File) = Directory /\ Front(TmpFile) = Directory
           /\ Front(Directory) = Root
<1>1. currentAcquisitionID \in Ids
  BY DEF Types
<1>2. /\ <<handling, frame, part, "whole">> \in Kinds \X Nat \X Nat \X {"whole", "tmp"}
      /\ <<handling, frame, part, "tmp">> \in Kinds \X Nat \X Nat \X {"whole", "tmp"}
  BY DEF Types, TypeOK
<1>3. /\ File = <<currentAcquisitionID, <<handling, frame, part, "whole">> >>
      /\ TmpFile = <<currentAcquisitionID, <<handling, frame, part, "tmp">> >>
  BY PathShape DEF File, TmpFile, Directory
<1>4. File \in Files /\ TmpFile \in Files
  BY <1>1, <1>2, <1>3 DEF Files
<1>5. QED
  BY <1>1, <1>3, <1>4, PathShape DEF Directory, Directories

-----------------------------------------------------------------------------
(***************************************************************************)
(* Types                                                                   *)
(***************************************************************************)

LEMMA TypesInit == AcqInit => Types
<1> SUFFICES ASSUME AcqInit PROVE Types
  OBVIOUS
<1>1. TypeOK
  BY DistributionAssumption, AcquisitionAssumption DEF AcqInit, TypeOK, Consumers
<1>2. plan \in Seq(StepSet)
  BY AcquisitionAssumption DEF AcqInit
<1>3. /\ queue \in Seq(Kinds)
      /\ wishes \in Seq([offset : Offsets, acq : Ids, sure : BOOLEAN])
      /\ taken \in Seq([offset : Offsets, acq : Ids])
  BY DEF AcqInit
<1>4. /\ configuredAcquisitionID \in Ids /\ currentAcquisitionID \in Ids
      /\ expected \in [offset : Offsets, acq : Ids, sure : BOOLEAN]
  BY AcquisitionAssumption DEF AcqInit, Ids
<1>5. /\ directory \in Directories /\ listed \subseteq Paths /\ fs \subseteq Paths
  BY DEF AcqInit, Directories
<1>6. QED
  BY <1>1, <1>2, <1>3, <1>4, <1>5, AcquisitionAssumption DEF AcqInit, Types, Kinds

\* A parameter of a command, or what there was, is of the parameter's type.
LEMMA GivenType ==
    ASSUME NEW S, NEW parameter, NEW old \in S, parameter \in {Absent} \cup S
    PROVE  Given(parameter, old) \in S
  BY DEF Given

LEMMA SeriesType == \A n \in Nat : Series(n) \in Seq(Kinds)
  BY DEF Series, Kinds

LEMMA TypesConfigures ==
    ASSUME Types, ClientConfigures
    PROVE  Types'
<1>1. plan[1] \in Configurations /\ Tail(plan) \in Seq(StepSet)
  <2>1. plan[1] \in StepSet /\ Tail(plan) \in Seq(StepSet)
    BY DEF ClientConfigures, Types
  <2>2. QED
    BY <2>1 DEF ClientConfigures, StepSet, Await
<1>2. expected' \in [offset : Offsets, acq : Ids, sure : BOOLEAN]
  <2>1. Given(plan[1].offset, expected.offset) \in Offsets
    BY <1>1, GivenType DEF Types, Configurations
  <2>2. Given(plan[1].acq, expected.acq) \in Ids
    BY <1>1, GivenType DEF Types, Configurations, Ids
  <2>3. (expected.sure /\ NoHeaderAhead) \in BOOLEAN
    OBVIOUS
  <2>4. QED
    BY <2>1, <2>2, <2>3 DEF ClientConfigures
<1>3. wishes' \in Seq([offset : Offsets, acq : Ids, sure : BOOLEAN])
  <2> DEFINE W == [offset : Offsets, acq : Ids, sure : BOOLEAN]
             e(i) == IF i > Len(taken) THEN [wishes[i] EXCEPT !.sure = FALSE] ELSE wishes[i]
  <2>1. \A i \in 1 .. Len(wishes) : wishes[i] \in W
    <3>1. wishes \in Seq(W)
      BY DEF Types
    <3>2. QED
      BY <3>1, ElementOfSeq
  <2>2. \A i \in 1 .. Len(wishes) : e(i) \in W
    BY <2>1
  <2>3. wishes' = [i \in 1 .. Len(wishes) |-> e(i)]
    BY DEF ClientConfigures
  <2>4. Len(wishes) \in Nat
    BY DEF Types
  <2>5. QED
    BY <2>2, <2>3, <2>4
<1>4. QED
  BY <1>1, <1>2, <1>3
  DEF ClientConfigures, Types, TypeOK, Consumers, seriesVars, rxVars

LEMMA TypesClient ==
    ASSUME Types, Client
    PROVE  Types'
<1>1. CASE ClientConfigures
  BY <1>1, TypesConfigures
<1>2. CASE ClientArms
  <2>1. plan[1].images \in Nat /\ Tail(plan) \in Seq(StepSet)
    <3>1. plan[1] \in StepSet /\ Tail(plan) \in Seq(StepSet)
      BY <1>2 DEF ClientArms, Types
    <3>2. QED
      BY <1>2, <3>1 DEF ClientArms, StepSet, Configurations, Await
  <2>2. queue' \in Seq(Kinds)
    <3>1. queue \in Seq(Kinds) /\ Series(plan[1].images) \in Seq(Kinds)
      BY <2>1, SeriesType DEF Types
    <3>2. queue \o Series(plan[1].images) \in Seq(Kinds)
      BY <3>1, ConcatProperties
    <3>3. QED
      BY <1>2, <3>2 DEF ClientArms
  <2>3. wishes' \in Seq([offset : Offsets, acq : Ids, sure : BOOLEAN])
    BY <1>2 DEF ClientArms, Types
  <2>4. expected' \in [offset : Offsets, acq : Ids, sure : BOOLEAN]
    BY <1>2, AcquisitionAssumption DEF ClientArms, Types
  <2>5. QED
    BY <1>2, <2>1, <2>2, <2>3, <2>4
    DEF ClientArms, Types, TypeOK, Consumers, seriesVars, mainVars, rxVars
<1>3. CASE ClientAwaits
  <2>1. Tail(plan) \in Seq(StepSet)
    BY <1>3 DEF ClientAwaits, Types
  <2>2. QED
    BY <1>3, <2>1
    DEF ClientAwaits, Types, TypeOK, Consumers, seriesVars, mainVars, rxVars
<1>4. QED
  BY <1>1, <1>2, <1>3 DEF Client

LEMMA TypesMain ==
    ASSUME Types, Main
    PROVE  Types'
<1> USE DEF MainUnchanged, seriesVars, clientVars, rxVars, Types, TypeOK, Consumers
<1>1. CASE MainOffset
  <2>1. Given(command.offset, configuredOffset) \in Offsets
    BY <1>1, GivenType DEF MainOffset, Configurations
  <2>2. QED
    BY <1>1, <2>1 DEF MainOffset
<1>2. CASE MainAssign
  BY <1>2 DEF MainAssign, Ids
<1>3. CASE MainAssigned
  <2>1. command.acq \in Ids
    BY <1>3 DEF MainAssigned, Configurations, Ids
  <2>2. QED
    BY <1>3, <2>1 DEF MainAssigned
<1>4. CASE MainCache
  <2>1. Given(command.cache, devShmCache) \in BOOLEAN
    BY <1>4, GivenType DEF MainCache, Configurations
  <2>2. QED
    BY <1>4, <2>1 DEF MainCache
<1>5. CASE MainBlock
  <2>1. Given(command.block, block_size) \in BlockSizes
    BY <1>5, GivenType DEF MainBlock, Configurations
  <2>2. QED
    BY <1>5, <2>1 DEF MainBlock
<1>6. CASE MainRemove
  BY <1>6 DEF MainRemove, RemoveUnchanged, Entries, Directories
<1>7. CASE MainEnter
  BY <1>7, EntriesFacts DEF MainEnter, RemoveUnchanged, Entries
<1>8. CASE MainUnlink
  BY <1>8 DEF MainUnlink, RemoveUnchanged
<1>9. CASE MainRmdir
  <2>1. /\ alive' \in BOOLEAN /\ fs' \subseteq fs /\ listed' \subseteq listed
        /\ directory' \in {directory, Root} /\ mpc' \in {"block", "listing", mpc}
    BY <1>9 DEF MainRmdir
  <2>2. fs' \subseteq Paths /\ listed' \subseteq Paths /\ directory' \in Directories
    BY <2>1 DEF Directories
  <2>3. mpc # "idle" /\ mpc # "assigned"
    BY <1>9 DEF MainRmdir
  <2>4. QED
    BY <1>9, <2>1, <2>2, <2>3 DEF MainRmdir, RemoveUnchanged
<1>10. QED
  BY <1>1, <1>2, <1>3, <1>4, <1>5, <1>6, <1>7, <1>8, <1>9 DEF Main

LEMMA TypesRx ==
    ASSUME Types, Rx
    PROVE  Types'
<1> USE DEF RxUnchanged, RxInFile, seriesVars, clientVars, mainVars, Types, TypeOK, Consumers
<1>1. CASE RxTake
  <2>1. Head(queue) \in Kinds /\ Tail(queue) \in Seq(Kinds)
    BY <1>1 DEF RxTake
  <2>2. QED
    BY <1>1, <2>1 DEF RxTake, Kinds
<1>2. CASE RxOffset
  BY <1>2 DEF RxOffset
<1>3. CASE RxReset
  BY <1>3, DistributionAssumption, AcquisitionAssumption DEF RxReset, ResetCounters
<1>4. CASE RxAcquisition
  BY <1>4 DEF RxAcquisition
<1>5. CASE RxChoose
  <2>1. Target \in Consumers
    <3>1. /\ frame \in Nat /\ currentOffset \in Nat /\ block_size \in Nat \ {0}
          /\ NumConsumers \in Nat \ {0}
      BY DistributionAssumption
    <3>2. Target = ID!ConsumerIndex(frame, currentOffset, block_size, NumConsumers)
      BY DEF Target, ConsumerIndex, CRem, CDiv, ID!ConsumerIndex, ID!CRem, ID!CDiv
    <3>3. QED
      BY <3>1, <3>2, ID!IndexInRange, DistributionAssumption
  <2>2. frame + 1 \in 0 .. MaxFrames
    BY <1>5, DistributionAssumption DEF RxChoose, ChooseConsumer
  <2>3. QED
    BY <1>5, <2>1, <2>2 DEF RxChoose, ChooseConsumer
<1>6. CASE RxWrite
  BY <1>6 DEF RxWrite
<1>7. CASE RxCreateRoot
  BY <1>7 DEF RxCreateRoot, Paths, Directories
<1>8. CASE RxMkdir
  BY <1>8, FileFacts DEF RxMkdir, Paths
<1>9. CASE RxGiveUp
  BY <1>9 DEF RxGiveUp
<1>10. CASE RxOpen
  BY <1>10, FileFacts DEF RxOpen, Paths
<1>11. CASE RxRename
  BY <1>11, FileFacts DEF RxRename, Paths
<1>12. CASE RxSend
  BY <1>12 DEF RxSend, CountImage
<1>13. QED
  BY <1>1, <1>2, <1>3, <1>4, <1>5, <1>6, <1>7, <1>8, <1>9, <1>10, <1>11, <1>12 DEF Rx

LEMMA TypesNext == Types /\ [AcqNext]_acqVars => Types'
<1> SUFFICES ASSUME Types, [AcqNext]_acqVars PROVE Types'
  OBVIOUS
<1>1. CASE UNCHANGED acqVars
  BY <1>1 DEF acqVars, seriesVars, clientVars, mainVars, rxVars, Types, TypeOK, Consumers
<1>2. CASE AcqNext
  BY <1>2, TypesClient, TypesMain, TypesRx DEF AcqNext
<1>3. QED
  BY <1>1, <1>2

\* The settings, the offset of a series and its consumers are of their types,
\* whichever thread runs when.
THEOREM TypeCorrect == AcqSpec => []TypeOK
<1>1. Types => TypeOK
  BY DEF Types
<1>2. QED
  BY TypesInit, TypesNext, <1>1, PTL DEF AcqSpec

-----------------------------------------------------------------------------
(***************************************************************************)
(* The shared memory cache                                                 *)
(***************************************************************************)

\* The main thread removes files only for a command that turned the cache off.
RemoveInv ==
    mpc \in {"remove", "listing"} => devShmCache = FALSE /\ command.cache = FALSE

\* What is in a directory is below directories.
TreeInv ==
    /\ \A path \in fs : path # Root => Root \in fs
    /\ \A path \in fs : Len(path) = 2 => Front(path) \in fs

\* Unless the client hurries the rx thread rests while the cache is removed, and
\* the main thread has listed whatever there is.
QuietInv ==
    ~hurried =>
        /\ lost = 0 /\ alive
        /\ mpc # "idle" /\ command.cache = FALSE => Quiet
        /\ rpc = "mkdir" => Root \in fs
        /\ mpc = "listing" => /\ Entries(directory) \subseteq listed
                              /\ Entries(Root) \subseteq listed \cup {directory}

\* With the cache off the rx thread finishes the file in hand and begins no other.
LeftInv ==
    ~devShmCache /\ mpc \notin {"remove", "listing"} =>
        /\ rpc \in {"create", "mkdir", "open"} => \A path \in fs : Len(path) # 2
        /\ \A path, other \in fs : Len(path) = 2 /\ Len(other) = 2 => path = other

CacheInv == Types /\ RemoveInv /\ TreeInv /\ QuietInv /\ LeftInv

LEMMA CacheInit == AcqInit => CacheInv
<1> SUFFICES ASSUME AcqInit PROVE CacheInv
  OBVIOUS
<1>1. Types
  BY TypesInit
<1>2. RemoveInv /\ TreeInv /\ QuietInv /\ LeftInv
  BY DEF AcqInit, RemoveInv, TreeInv, QuietInv, LeftInv
<1>3. QED
  BY <1>1, <1>2 DEF CacheInv

LEMMA RemoveNext ==
    ASSUME Types, RemoveInv, AcqNext
    PROVE  RemoveInv'
<1> USE DEF RemoveInv
<1>1. CASE Client
  BY <1>1 DEF Client, ClientConfigures, ClientArms, ClientAwaits, mainVars
<1>2. CASE Main
  <2>1. CASE MainCache
    <3>1. command.cache = FALSE => Given(command.cache, devShmCache) = FALSE
      BY AcquisitionAssumption DEF Given
    <3>2. QED
      BY <2>1, <3>1 DEF MainCache
  <2>2. CASE MainOffset \/ MainAssign \/ MainAssigned \/ MainBlock
    BY <2>2 DEF MainOffset, MainAssign, MainAssigned, MainBlock
  <2>3. CASE MainRemove
    BY <2>3 DEF MainRemove, RemoveUnchanged
  <2>4. CASE MainEnter \/ MainUnlink \/ MainRmdir
    BY <2>4 DEF MainEnter, MainUnlink, MainRmdir, RemoveUnchanged
  <2>5. QED
    BY <1>2, <2>1, <2>2, <2>3, <2>4 DEF Main
<1>3. CASE Rx
  <2>1. UNCHANGED <<mpc, command, devShmCache>>
    BY <1>3 DEF Rx, RxTake, RxOffset, RxReset, ResetCounters, RxAcquisition, RxChoose,
         RxWrite, RxCreateRoot, RxMkdir, RxGiveUp, RxOpen, RxRename, RxSend, RxUnchanged,
         mainVars
  <2>2. QED
    BY <2>1
<1>4. QED
  BY <1>1, <1>2, <1>3 DEF AcqNext

\* What the rx thread does next is what its message calls for.
LEMMA RxTakes ==
    ASSUME Types, RxTake
    PROVE  /\ Head(queue) \in Kinds /\ Tail(queue) \in Seq(Kinds)
           /\ Head(queue) = "header" => rpc' = "offset"
           /\ Head(queue) = "image" => rpc' = "choose"
           /\ Head(queue) = "end" => rpc' = "part"
           /\ rpc' \in {"offset", "choose", "part"}
<1>1. Head(queue) \in Kinds /\ Tail(queue) \in Seq(Kinds)
  BY DEF RxTake, Types
<1>2. QED
  BY <1>1 DEF RxTake, Kinds

\* The steps that leave the files alone.
LEMMA FilesKept ==
    /\ Client => UNCHANGED fs
    /\ MainOffset \/ MainAssign \/ MainAssigned \/ MainCache \/ MainBlock => UNCHANGED fs
    /\ MainRemove \/ MainEnter => UNCHANGED fs
    /\ RxTake \/ RxOffset \/ RxReset \/ RxAcquisition \/ RxChoose => UNCHANGED fs
    /\ RxWrite \/ RxGiveUp \/ RxSend => UNCHANGED fs
<1>1. Client => UNCHANGED fs
  BY DEF Client, ClientConfigures, ClientArms, ClientAwaits
<1>2. MainOffset \/ MainAssign \/ MainAssigned \/ MainCache \/ MainBlock => UNCHANGED fs
  BY DEF MainOffset, MainAssign, MainAssigned, MainCache, MainBlock
<1>3. MainRemove \/ MainEnter => UNCHANGED fs
  BY DEF MainRemove, MainEnter
<1>4. RxTake \/ RxOffset \/ RxReset \/ RxAcquisition \/ RxChoose => UNCHANGED fs
  BY DEF RxTake, RxOffset, RxReset, ResetCounters, RxAcquisition, RxChoose
<1>5. RxWrite \/ RxGiveUp \/ RxSend => UNCHANGED fs
  BY DEF RxWrite, RxGiveUp, RxSend
<1>6. QED
  BY <1>1, <1>2, <1>3, <1>4, <1>5

\* A directory is removed only when nothing is in it.
LEMMA RmdirFacts ==
    ASSUME MainRmdir
    PROVE  \/ UNCHANGED <<fs, mpc, directory, listed>> /\ Entries(directory) # {}
           \/ Entries(directory) = {} /\ fs' = fs \ {directory}
  BY DEF MainRmdir

LEMMA TreeNext ==
    ASSUME Types, TreeInv, AcqNext
    PROVE  TreeInv'
<1>1. ASSUME UNCHANGED fs PROVE TreeInv'
  BY <1>1 DEF TreeInv
<1> USE DEF TreeInv
<1>2. CASE MainUnlink
  <2>1. PICK path \in Entries(directory) : fs' = fs \ {path}
    BY <1>2 DEF MainUnlink
  <2>2. path # Root /\ Len(path) = 2
    BY <1>2, EntriesFacts DEF MainUnlink, Types, Entries
  <2>3. \A other \in fs : Len(other) = 2 => Front(other) # path
    BY <2>2, FileKinds
  <2>4. QED
    BY <2>1, <2>2, <2>3
<1>3. CASE MainRmdir
  <2>1. CASE UNCHANGED fs
    BY <1>1, <2>1
  <2>2. CASE Entries(directory) = {} /\ fs' = fs \ {directory}
    <3>1. \A path \in fs : path # Root => Front(path) # directory
      BY <2>2 DEF Entries
    <3>2. \A path \in fs : Len(path) = 2 => path # Root
      BY FileKinds
    <3>3. CASE directory = Root
      <4>1. \A path \in fs : path = Root
        <5>1. \A path \in fs : Len(path) # 2
          <6> SUFFICES ASSUME NEW path \in fs, Len(path) = 2 PROVE FALSE
            OBVIOUS
          <6>1. Front(path) \in fs /\ Front(path) \in Directories \ {Root}
            BY FileKinds
          <6>2. Front(path) \in Paths
            BY <6>1 DEF Paths
          <6>3. Front(Front(path)) = Root \/ Len(Front(path)) = 2
            BY <6>1, <6>2, PathKinds
          <6>4. Len(Front(path)) = 1
            BY FileKinds
          <6>5. QED
            BY <3>1, <3>3, <6>1, <6>3, <6>4
        <5>2. QED
          BY <3>1, <3>3, <5>1, PathKinds DEF Types
      <4>2. QED
        BY <2>2, <3>3, <4>1
    <3>4. CASE directory # Root
      BY <2>2, <3>1, <3>2, <3>4
    <3>5. QED
      BY <3>3, <3>4
  <2>3. QED
    BY <1>3, <2>1, <2>2, RmdirFacts
<1>4. CASE RxCreateRoot
  <2>1. fs' = fs \cup {Root} /\ Len(Root) = 0
    BY <1>4, PathShape DEF RxCreateRoot
  <2>2. QED
    BY <2>1
<1>5. CASE RxMkdir
  <2>1. fs' = fs \cup {Directory} /\ Root \in fs /\ Len(Directory) = 1
    BY <1>5, FileFacts DEF RxMkdir
  <2>2. QED
    BY <2>1
<1>6. CASE RxOpen
  <2>1. \/ fs' = fs
        \/ fs' = fs \cup {TmpFile} /\ Directory \in fs
    BY <1>6 DEF RxOpen
  <2>2. Front(TmpFile) = Directory /\ Directory # Root
    BY FileFacts
  <2>3. QED
    BY <2>1, <2>2
<1>7. CASE RxRename
  <2>1. \/ fs' = fs
        \/ fs' = (fs \ {TmpFile}) \cup {File} /\ TmpFile \in fs
    BY <1>7 DEF RxRename
  <2>2. /\ Front(File) = Directory /\ Front(TmpFile) = Directory
        /\ Len(File) = 2 /\ Len(TmpFile) = 2 /\ Len(Directory) = 1 /\ Len(Root) = 0
    BY FileFacts, PathShape
  <2>3. \A path \in fs : Len(path) = 2 => Front(path) # TmpFile
    <3>1. \A path \in fs : Len(path) = 2 => Len(Front(path)) = 1
      BY FileKinds
    <3>2. ASSUME NEW path \in fs, Front(path) = TmpFile, Len(path) = 2 PROVE FALSE
      <4>1. Len(Front(path)) = 1
        BY <3>1, <3>2
      <4>2. QED
        BY <2>2, <3>2, <4>1
    <3>3. QED
      BY <3>2
  <2>4. QED
    BY <2>1, <2>2, <2>3
<1>8. QED
  BY <1>1, <1>2, <1>3, <1>4, <1>5, <1>6, <1>7, FilesKept DEF AcqNext, Main, Rx

LEMMA QuietNext ==
    ASSUME Types, RemoveInv, TreeInv, QuietInv, AcqNext
    PROVE  QuietInv'
<1> SUFFICES ASSUME ~hurried'
             PROVE  /\ lost' = 0 /\ alive'
                    /\ mpc' # "idle" /\ command'.cache = FALSE => Quiet'
                    /\ rpc' = "mkdir" => Root \in fs'
                    /\ mpc' = "listing" => /\ Entries(directory)' \subseteq listed'
                                           /\ Entries(Root)' \subseteq listed' \cup {directory'}
  BY DEF QuietInv
<1>1. ~hurried
  BY DEF AcqNext, Client, ClientConfigures, ClientArms, ClientAwaits, Main, Rx, MainOffset,
     MainAssign, MainAssigned, MainCache, MainBlock, MainRemove, MainEnter, MainUnlink,
     MainRmdir, RemoveUnchanged, MainUnchanged, RxTake, RxOffset, RxReset, ResetCounters,
     RxAcquisition, RxChoose, RxWrite, RxCreateRoot, RxMkdir, RxGiveUp, RxOpen, RxRename,
     RxSend, RxUnchanged, clientVars, Types
<1>2. /\ lost = 0 /\ alive
      /\ mpc # "idle" /\ command.cache = FALSE => Quiet
      /\ rpc = "mkdir" => Root \in fs
      /\ mpc = "listing" => /\ Entries(directory) \subseteq listed
                            /\ Entries(Root) \subseteq listed \cup {directory}
  BY <1>1 DEF QuietInv
<1>4. CASE Client
  <2>1. CASE ClientConfigures
    <3>1. command'.cache = FALSE => Quiet
      BY <2>1 DEF ClientConfigures
    <3>2. /\ mpc' = "offset"
          /\ UNCHANGED <<lost, alive, rpc, queue, fs>>
      BY <2>1 DEF ClientConfigures, rxVars
    <3>3. QED
      BY <1>2, <3>1, <3>2 DEF Quiet
  <2>2. CASE ClientArms \/ ClientAwaits
    <3>1. /\ mpc = "idle" /\ mpc' = "idle"
          /\ UNCHANGED <<lost, alive, rpc, fs>>
      BY <2>2 DEF ClientArms, ClientAwaits, mainVars, rxVars
    <3>2. QED
      BY <1>2, <3>1
  <2>3. QED
    BY <1>4, <2>1, <2>2 DEF Client
<1>5. CASE Main
  <2>1. UNCHANGED <<command, lost, rpc, queue>>
    BY <1>5 DEF Main, MainOffset, MainAssign, MainAssigned, MainCache, MainBlock, MainRemove,
       MainEnter, MainUnlink, MainRmdir, RemoveUnchanged, MainUnchanged, rxVars
  <2>2. mpc # "idle"
    BY <1>5 DEF Main, MainOffset, MainAssign, MainAssigned, MainCache, MainBlock, MainRemove,
       MainEnter, MainUnlink, MainRmdir
  <2>3. command.cache = FALSE => Quiet'
    BY <1>2, <2>1, <2>2 DEF Quiet
  <2>4. CASE MainOffset \/ MainAssign \/ MainAssigned \/ MainCache \/ MainBlock
    <3>1. mpc' # "listing" /\ UNCHANGED <<alive, fs>>
      BY <2>4 DEF MainOffset, MainAssign, MainAssigned, MainCache, MainBlock
    <3>2. QED
      BY <1>2, <2>1, <2>3, <3>1
  <2>5. ASSUME mpc \in {"remove", "listing"} PROVE rpc' = "idle"
    BY <1>2, <2>1, <2>5 DEF RemoveInv, Quiet
  <2>6. CASE MainRemove
    <3>1. UNCHANGED <<alive, fs>>
      BY <2>6 DEF MainRemove
    <3>2. mpc' = "listing" => directory' = Root /\ listed' = Entries(Root)
      BY <2>6 DEF MainRemove
    <3>3. Entries(Root)' = Entries(Root)
      BY <3>1 DEF Entries, Root
    <3>4. rpc' = "idle"
      BY <2>5, <2>6 DEF MainRemove
    <3>5. mpc' = "listing" => Entries(directory)' = Entries(Root)
      BY <3>1, <3>2 DEF Entries, Root
    <3>6. QED
      BY <1>2, <2>1, <2>3, <3>1, <3>2, <3>3, <3>4, <3>5
  <2>7. CASE MainEnter
    <3>1. mpc = "listing" /\ mpc' = "listing" /\ directory = Root
          /\ UNCHANGED <<alive, fs>>
      BY <2>7 DEF MainEnter
    <3>2. PICK dir \in Entries(Root) :
              directory' = dir /\ listed' = (listed \ {dir}) \cup Entries(dir)
      BY <2>7 DEF MainEnter
    <3>3. Entries(Root)' = Entries(Root) /\ Entries(directory)' = Entries(dir)
      BY <3>1, <3>2 DEF Entries, Root
    <3>4. Entries(Root) \subseteq listed
      BY <1>2, <3>1
    <3>5. rpc' = "idle"
      BY <2>5, <3>1
    <3>6. QED
      BY <1>2, <2>1, <2>3, <3>1, <3>2, <3>3, <3>4, <3>5
  <2>8. CASE MainUnlink
    <3>1. mpc = "listing" /\ mpc' = "listing" /\ UNCHANGED <<alive, directory>>
      BY <2>8 DEF MainUnlink
    <3>2. PICK path \in Entries(directory) : fs' = fs \ {path} /\ listed' = listed \ {path}
      BY <2>8 DEF MainUnlink
    <3>3. /\ Entries(Root)' = Entries(Root) \ {path}
          /\ Entries(directory)' = Entries(directory) \ {path}
      BY <3>1, <3>2 DEF Entries, Root
    <3>4. rpc' = "idle"
      BY <2>5, <3>1
    <3>5. QED
      BY <1>2, <2>1, <2>3, <3>1, <3>2, <3>3, <3>4
  <2>9. CASE MainRmdir
    <3>1. mpc = "listing" /\ \A path \in listed : Len(path) <= Len(directory) \/ path \notin fs
      BY <2>9 DEF MainRmdir
    <3>2. Entries(directory) = {}
      <4>1. ASSUME NEW path \in Entries(directory) PROVE FALSE
        <5>1. path \in listed /\ path \in fs
          BY <1>2, <3>1, <4>1 DEF Entries
        <5>2. Len(path) = Len(directory) + 1
          <6>1. directory \in Directories
            BY DEF Types
          <6>2. CASE directory = Root
            <7>1. Len(path) = 1
              BY <1>2, <4>1, <6>2, EntriesFacts
            <7>2. Len(directory) = 0
              BY <6>1, <6>2, DirectoryLength
            <7>3. QED
              BY <7>1, <7>2
          <6>3. CASE directory # Root
            <7>1. directory \in Directories \ {Root}
              BY <6>1, <6>3
            <7>2. Len(path) = 2
              BY <4>1, <7>1, EntriesFacts
            <7>3. Len(directory) = 1
              BY <6>1, <6>3, DirectoryLength
            <7>4. QED
              BY <7>2, <7>3
          <6>4. QED
            BY <6>2, <6>3
        <5>3. Len(directory) \in Nat
          BY DirectoryLength DEF Types
        <5>4. QED
          BY <3>1, <5>1, <5>2, <5>3
      <4>2. QED
        BY <4>1
    <3>3. /\ fs' = fs \ {directory} /\ directory' = Root /\ UNCHANGED alive
          /\ listed' = {path \in listed : Len(path) <= Len(directory)}
          /\ mpc' = IF directory = Root THEN "block" ELSE "listing"
      BY <2>9, <3>2 DEF MainRmdir
    <3>4. Entries(Root)' \subseteq Entries(Root) \ {directory}
      BY <3>3 DEF Entries, Root
    <3>5. mpc' = "listing" =>
              \A path \in Entries(Root)' : path \in listed /\ Len(path) <= Len(directory)
      <4> SUFFICES ASSUME directory # Root, NEW path \in Entries(Root)'
                   PROVE  path \in listed /\ Len(path) <= Len(directory)
        BY <3>3
      <4>1. path \in Entries(Root) /\ path \in listed
        BY <1>2, <3>1, <3>4
      <4>2. Len(path) = 1 /\ Len(directory) = 1
        BY <4>1, EntriesFacts, DirectoryLength DEF Types
      <4>3. QED
        BY <4>1, <4>2
    <3>6. Entries(directory)' = Entries(Root)'
      BY <3>3 DEF Entries, Root
    <3>7. rpc' = "idle"
      BY <2>5, <3>1
    <3>8. QED
      BY <1>2, <2>1, <2>3, <3>3, <3>5, <3>6, <3>7
  <2>10. QED
    BY <1>5, <2>4, <2>6, <2>7, <2>8, <2>9 DEF Main
<1>6. CASE Rx
  <2>1. UNCHANGED <<alive, mpc, command, directory, listed>>
    BY <1>6 DEF Rx, RxTake, RxOffset, RxReset, ResetCounters, RxAcquisition, RxChoose,
       RxWrite, RxCreateRoot, RxMkdir, RxGiveUp, RxOpen, RxRename, RxSend, RxUnchanged,
       mainVars
  <2>2. ~Quiet
    BY <1>6 DEF Rx, RxTake, RxOffset, RxReset, ResetCounters, RxAcquisition, RxChoose,
       RxWrite, RxCreateRoot, RxMkdir, RxGiveUp, RxOpen, RxRename, RxSend, Quiet
  <2>3. ~(mpc # "idle" /\ command.cache = FALSE) /\ mpc # "listing"
    BY <1>2, <2>2 DEF RemoveInv
  <2>4. lost' = 0
    BY <1>2, <1>6 DEF Rx, RxTake, RxOffset, RxReset, ResetCounters, RxAcquisition, RxChoose,
       RxWrite, RxCreateRoot, RxMkdir, RxGiveUp, RxOpen, RxRename, RxSend, RxInFile
  <2>5. rpc' = "mkdir" => RxCreateRoot
    <3>1. RxTake => rpc' # "mkdir"
      BY RxTakes
    <3>2. QED
      BY <1>6, <3>1 DEF Rx, RxOffset, RxReset, ResetCounters, RxAcquisition, RxChoose,
         RxWrite, RxCreateRoot, RxMkdir, RxGiveUp, RxOpen, RxRename, RxSend
  <2>6. rpc' = "mkdir" => Root \in fs'
    BY <2>5 DEF RxCreateRoot
  <2>7. QED
    BY <1>2, <2>1, <2>3, <2>4, <2>6
<1>7. QED
  BY <1>4, <1>5, <1>6 DEF AcqNext

\* The steps after which LeftInv says no more than before.
LEMMA LeftKept ==
    ASSUME LeftInv, UNCHANGED <<fs, devShmCache>>,
           mpc \in {"remove", "listing"} => mpc' \in {"remove", "listing"},
           devShmCache \/ rpc' \notin {"create", "mkdir", "open"}
               \/ rpc \in {"create", "mkdir", "open"}
    PROVE  LeftInv'
  BY DEF LeftInv

\* No file is left when the root is removed.
LEMMA NothingLeft ==
    ASSUME Types, TreeInv, Entries(Root) = {} \/ Root \notin fs
    PROVE  \A path \in fs : Len(path) # 2
<1> SUFFICES ASSUME NEW path \in fs, Len(path) = 2 PROVE FALSE
  OBVIOUS
<1>1. path # Root /\ Front(path) \in Directories \ {Root} /\ Len(Front(path)) = 1
  BY FileKinds
<1>2. Front(path) \in fs /\ Root \in fs
  BY <1>1 DEF TreeInv
<1>3. Front(path) \in Paths
  BY <1>1 DEF Paths
<1>4. Front(Front(path)) = Root
  BY <1>1, <1>3, PathKinds
<1>5. QED
  BY <1>1, <1>2, <1>4 DEF Entries

LEMMA LeftNext ==
    ASSUME Types, RemoveInv, TreeInv, LeftInv, AcqNext
    PROVE  LeftInv'
<1>1. CASE Client
  <2>1. UNCHANGED <<fs, devShmCache, rpc>>
    BY <1>1 DEF Client, ClientConfigures, ClientArms, ClientAwaits, mainVars, rxVars
  <2>2. mpc \notin {"remove", "listing"}
    BY <1>1 DEF Client, ClientConfigures, ClientArms, ClientAwaits
  <2>3. QED
    BY <2>1, <2>2, LeftKept
<1>2. CASE Main
  <2>1. UNCHANGED rpc
    BY <1>2 DEF Main, MainOffset, MainAssign, MainAssigned, MainCache, MainBlock, MainRemove,
       MainEnter, MainUnlink, MainRmdir, RemoveUnchanged, MainUnchanged, rxVars
  <2>2. CASE MainOffset \/ MainAssign \/ MainAssigned \/ MainBlock
    <3>1. UNCHANGED <<fs, devShmCache>> /\ mpc \notin {"remove", "listing"}
      BY <2>2 DEF MainOffset, MainAssign, MainAssigned, MainBlock
    <3>2. QED
      BY <2>1, <3>1, LeftKept
  <2>3. CASE MainCache
    <3>1. CASE command.cache = FALSE
      BY <2>3, <3>1 DEF MainCache, LeftInv
    <3>2. CASE command.cache = Absent
      <4>1. mpc \notin {"remove", "listing"} /\ UNCHANGED <<fs, devShmCache>>
        BY <2>3, <3>2 DEF MainCache, Given
      <4>2. QED
        BY <2>1, <4>1, LeftKept
    <3>3. CASE command.cache = TRUE
      <4>1. devShmCache' = TRUE
        BY <2>3, <3>3, AcquisitionAssumption DEF MainCache, Given
      <4>2. QED
        BY <4>1 DEF LeftInv
    <3>4. command.cache \in {Absent, TRUE, FALSE}
      BY <2>3 DEF MainCache, Types, Configurations
    <3>5. QED
      BY <3>1, <3>2, <3>3, <3>4
  <2>4. CASE MainRemove
    <3>1. CASE Root \in fs
      BY <2>4, <3>1 DEF MainRemove, LeftInv
    <3>2. CASE Root \notin fs
      <4>1. \A path \in fs' : Len(path) # 2
        BY <2>4, <3>2, NothingLeft DEF MainRemove
      <4>2. QED
        BY <4>1 DEF LeftInv
    <3>3. QED
      BY <3>1, <3>2
  <2>5. CASE MainEnter \/ MainUnlink
    BY <2>5 DEF MainEnter, MainUnlink, LeftInv
  <2>6. CASE MainRmdir
    <3>1. CASE mpc' = "listing"
      BY <3>1 DEF LeftInv
    <3>2. CASE mpc' # "listing"
      <4>1. directory = Root /\ Entries(directory) = {} /\ fs' = fs \ {directory}
        BY <2>6, <3>2 DEF MainRmdir
      <4>2. \A path \in fs' : Len(path) # 2
        BY <4>1, NothingLeft
      <4>3. QED
        BY <4>2 DEF LeftInv
    <3>3. QED
      BY <3>1, <3>2
  <2>7. QED
    BY <1>2, <2>2, <2>3, <2>4, <2>5, <2>6 DEF Main
<1>3. CASE Rx
  <2>1. UNCHANGED <<mpc, devShmCache>>
    BY <1>3 DEF Rx, RxTake, RxOffset, RxReset, ResetCounters, RxAcquisition, RxChoose,
       RxWrite, RxCreateRoot, RxMkdir, RxGiveUp, RxOpen, RxRename, RxSend, RxUnchanged,
       mainVars
  <2>2. CASE devShmCache \/ mpc \in {"remove", "listing"}
    BY <2>1, <2>2 DEF LeftInv
  <2> SUFFICES ASSUME ~devShmCache, mpc \notin {"remove", "listing"} PROVE LeftInv'
    BY <2>2
  <2>3. CASE RxTake \/ RxOffset \/ RxReset \/ RxAcquisition \/ RxChoose \/ RxWrite
                 \/ RxGiveUp \/ RxSend
    <3>1. UNCHANGED fs
      BY <2>3, FilesKept
    <3>2. rpc' \notin {"create", "mkdir", "open"}
      BY <2>3, RxTakes DEF RxOffset, RxReset, ResetCounters, RxAcquisition,
         RxChoose, RxWrite, RxGiveUp, RxSend
    <3>3. QED
      BY <2>1, <3>1, <3>2, LeftKept
  <2>4. CASE RxCreateRoot \/ RxMkdir
    <3>1. \A path \in fs : Len(path) # 2
      BY <2>4 DEF RxCreateRoot, RxMkdir, LeftInv
    <3>2. fs' \subseteq fs \cup {Root, Directory} /\ Len(Root) = 0 /\ Len(Directory) = 1
      BY <2>4, FileFacts, PathShape DEF RxCreateRoot, RxMkdir
    <3>3. QED
      BY <3>1, <3>2 DEF LeftInv
  <2>5. CASE RxOpen
    <3>1. \A path \in fs : Len(path) # 2
      BY <2>5 DEF RxOpen, LeftInv
    <3>2. fs' \subseteq fs \cup {TmpFile} /\ rpc' = "rename"
      BY <2>5 DEF RxOpen
    <3>3. QED
      BY <3>1, <3>2 DEF LeftInv
  <2>6. CASE RxRename
    <3>1. \/ fs' = fs
          \/ TmpFile \in fs /\ fs' = (fs \ {TmpFile}) \cup {File}
      BY <2>6 DEF RxRename
    <3>2. \A path, other \in fs : Len(path) = 2 /\ Len(other) = 2 => path = other
      BY DEF LeftInv
    <3>3. Len(TmpFile) = 2 /\ rpc' = "part"
      BY <2>6, FileFacts DEF RxRename
    <3>4. QED
      BY <3>1, <3>2, <3>3 DEF LeftInv
  <2>7. QED
    BY <1>3, <2>3, <2>4, <2>5, <2>6 DEF Rx
<1>4. QED
  BY <1>1, <1>2, <1>3 DEF AcqNext

LEMMA CacheNext == CacheInv /\ [AcqNext]_acqVars => CacheInv'
<1> SUFFICES ASSUME CacheInv, [AcqNext]_acqVars PROVE CacheInv'
  OBVIOUS
<1>1. CASE UNCHANGED acqVars
  <2>1. Types'
    BY TypesNext DEF CacheInv
  <2>2. RemoveInv' /\ TreeInv' /\ LeftInv'
    BY <1>1 DEF CacheInv, acqVars, mainVars, rxVars, RemoveInv, TreeInv, LeftInv
  <2>3. QuietInv'
    BY <1>1 DEF CacheInv, acqVars, clientVars, mainVars, rxVars, QuietInv, Quiet, Entries
  <2>4. QED
    BY <2>1, <2>2, <2>3 DEF CacheInv
<1>2. CASE AcqNext
  BY <1>2, TypesNext, RemoveNext, TreeNext, QuietNext, LeftNext DEF CacheInv
<1>3. QED
  BY <1>1, <1>2

\* A client that waits for the end of an acquisition turns the cache off at no
\* cost: the fan goes on and gives up no message.
THEOREM QuietRemovalIsSafeAlways == AcqSpec => []QuietRemovalIsSafe
<1>1. CacheInv => QuietRemovalIsSafe
  BY DEF CacheInv, QuietInv, QuietRemovalIsSafe, Types
<1>2. QED
  BY CacheInit, CacheNext, <1>1, PTL DEF AcqSpec

\* Whenever it is turned off, one file is left over at most.
THEOREM OneLeftOverAlways == AcqSpec => []OneLeftOver
<1>1. CacheInv => OneLeftOver
  <2> SUFFICES ASSUME CacheInv, mpc = "idle", ~devShmCache
               PROVE  Cardinality({path \in fs : Len(path) = 2}) <= 1
    BY DEF OneLeftOver
  <2> DEFINE S == {path \in fs : Len(path) = 2}
  <2>1. \A path, other \in S : path = other
    BY DEF CacheInv, LeftInv
  <2>2. CASE S = {}
    BY <2>2, FS_EmptySet
  <2>3. CASE S # {}
    <3>1. PICK path : S = {path}
      BY <2>1, <2>3
    <3>2. QED
      BY <3>1, FS_Singleton
  <2>4. QED
    BY <2>2, <2>3
<1>2. QED
  BY CacheInit, CacheNext, <1>1, PTL DEF AcqSpec

-----------------------------------------------------------------------------
(***************************************************************************)
(* An offset is used once                                                  *)
(***************************************************************************)

\* Every offset of a plan but 0 is configured once.
Distinct(steps) ==
    \A i, j \in 1 .. Len(steps) :
        /\ i # j /\ steps[i].op = "configure" /\ steps[j].op = "configure"
        /\ steps[i].offset = steps[j].offset
        => steps[i].offset \in {0, Absent}

\* Where an offset can be: yet to be configured, in the command at hand, configured,
\* copied for the series whose header is at hand, or taken by one.
Planned(offset) ==
    \E i \in 1 .. Len(plan) : plan[i].op = "configure" /\ plan[i].offset = offset
Commanded(offset) == mpc = "offset" /\ command.offset = offset
Copied(offset) == rpc \in {"reset", "acq"} /\ currentOffset = offset
Taken(offset) == \E i \in 1 .. Len(taken) : taken[i].offset = offset

OnceInv ==
    /\ Distinct(plan)
    /\ \A offset \in Nat \ {0} :
           /\ Planned(offset) =>
                  /\ ~Commanded(offset) /\ configuredOffset # offset
                  /\ ~Copied(offset) /\ ~Taken(offset)
           /\ Commanded(offset) =>
                  configuredOffset # offset /\ ~Copied(offset) /\ ~Taken(offset)
           /\ configuredOffset = offset => ~Taken(offset)
           /\ configuredOffset = offset /\ Copied(offset) => rpc = "reset"
           /\ Copied(offset) => ~Taken(offset)
    /\ OffsetUsedOnce

LEMMA OnceInit ==
    ASSUME \A steps \in Plans : Distinct(steps), AcqInit
    PROVE  OnceInv
<1>1. Distinct(plan) /\ taken = <<>> /\ configuredOffset = 0 /\ mpc = "idle" /\ rpc = "idle"
  BY DEF AcqInit
<1>2. QED
  BY <1>1 DEF OnceInv, Commanded, Copied, Taken, OffsetUsedOnce

\* A step of the client's plan begins.
LEMMA OncePlan ==
    ASSUME Types, OnceInv, plan # <<>>, plan' = Tail(plan),
           UNCHANGED <<configuredOffset, rpc, currentOffset, taken>>,
           mpc' = "offset" => /\ plan[1].op = "configure" /\ command' = plan[1]
                              /\ plan[1] \in Configurations
    PROVE  OnceInv'
<1>1. /\ Len(plan) \in Nat \ {0} /\ Len(plan') = Len(plan) - 1
      /\ \A i \in 1 .. Len(plan') : plan'[i] = plan[i + 1]
  BY DEF Types
<1>2. Distinct(plan)'
  <2> SUFFICES ASSUME NEW i \in 1 .. Len(plan'), NEW j \in 1 .. Len(plan'), i # j,
                      plan'[i].op = "configure", plan'[j].op = "configure",
                      plan'[i].offset = plan'[j].offset
               PROVE  plan'[i].offset \in {0, Absent}
    BY DEF Distinct
  <2>1. i + 1 \in 1 .. Len(plan) /\ j + 1 \in 1 .. Len(plan) /\ i + 1 # j + 1
    BY <1>1
  <2>2. plan'[i] = plan[i + 1] /\ plan'[j] = plan[j + 1]
    BY <1>1
  <2>3. QED
    BY <2>1, <2>2 DEF OnceInv, Distinct
<1>3. ASSUME NEW offset \in Nat \ {0}, Planned(offset)' PROVE Planned(offset) /\ ~Commanded(offset)'
  <2>1. PICK i \in 1 .. Len(plan') : plan'[i].op = "configure" /\ plan'[i].offset = offset
    BY <1>3 DEF Planned
  <2>2. i + 1 \in 1 .. Len(plan) /\ plan[i + 1] = plan'[i] /\ 1 \in 1 .. Len(plan)
        /\ i + 1 # 1
    BY <1>1
  <2>3. Planned(offset)
    BY <2>1, <2>2 DEF Planned
  <2>4. plan[1].op = "configure" => plan[1].offset # offset
    <3>1. offset # Absent /\ offset # 0
      BY AcquisitionAssumption
    <3>2. QED
      BY <2>1, <2>2, <3>1 DEF OnceInv, Distinct
  <2>5. QED
    BY <2>3, <2>4 DEF Commanded
<1>4. ASSUME NEW offset \in Nat \ {0}, Commanded(offset)' PROVE Planned(offset)
  BY <1>1, <1>4 DEF Commanded, Planned
<1>5. \A offset : (Copied(offset)' <=> Copied(offset)) /\ (Taken(offset)' <=> Taken(offset))
  BY DEF Copied, Taken
<1>6. OffsetUsedOnce'
  BY DEF OnceInv, OffsetUsedOnce
<1>7. QED
  BY <1>2, <1>3, <1>4, <1>5, <1>6 DEF OnceInv

\* The other steps.
LEMMA OnceNext ==
    ASSUME Types, OnceInv, [AcqNext]_acqVars
    PROVE  OnceInv'
<1>1. ASSUME UNCHANGED <<plan, configuredOffset, currentOffset, taken>>,
             \/ UNCHANGED <<mpc, command>>
             \/ mpc' # "offset",
             rpc' = rpc \/ rpc' \notin {"reset", "acq"}
      PROVE  OnceInv'
  <2>1. \A offset : /\ Planned(offset)' <=> Planned(offset)
                    /\ Commanded(offset)' => Commanded(offset)
                    /\ Copied(offset)' => Copied(offset) /\ rpc' = rpc
                    /\ Taken(offset)' <=> Taken(offset)
    BY <1>1 DEF Planned, Commanded, Copied, Taken
  <2>2. Distinct(plan)' /\ OffsetUsedOnce'
    BY <1>1 DEF OnceInv, Distinct, OffsetUsedOnce
  <2>3. QED
    BY <1>1, <2>1, <2>2 DEF OnceInv
<1>2. CASE UNCHANGED acqVars
  BY <1>1, <1>2 DEF acqVars, seriesVars, clientVars, mainVars, rxVars
<1>3. CASE ClientConfigures
  <2>1. plan[1] \in Configurations
    <3>1. plan[1] \in StepSet
      BY <1>3 DEF ClientConfigures, Types
    <3>2. QED
      BY <1>3, <3>1 DEF ClientConfigures, StepSet, Await
  <2>2. QED
    BY <1>3, <2>1, OncePlan DEF ClientConfigures, seriesVars, rxVars
<1>4. CASE ClientArms \/ ClientAwaits
  BY <1>4, OncePlan DEF ClientArms, ClientAwaits, seriesVars, mainVars, rxVars
<1>5. CASE MainOffset
  <2>1. /\ mpc = "offset" /\ mpc' = "acq" /\ UNCHANGED <<plan, rpc, currentOffset, taken>>
        /\ configuredOffset' = Given(command.offset, configuredOffset)
    BY <1>5 DEF MainOffset, MainUnchanged, clientVars, rxVars, seriesVars
  <2>2. \A offset : /\ Planned(offset)' <=> Planned(offset)
                    /\ ~Commanded(offset)'
                    /\ Copied(offset)' <=> Copied(offset)
                    /\ Taken(offset)' <=> Taken(offset)
    BY <2>1 DEF Planned, Commanded, Copied, Taken
  <2>3. Distinct(plan)' /\ OffsetUsedOnce'
    BY <2>1 DEF OnceInv, Distinct, OffsetUsedOnce
  <2>4. \A offset \in Nat : configuredOffset' = offset =>
            configuredOffset = offset \/ Commanded(offset)
    BY <2>1 DEF Given, Commanded
  <2>5. QED
    BY <2>1, <2>2, <2>3, <2>4 DEF OnceInv
<1>6. CASE Main /\ ~MainOffset
  BY <1>1, <1>6 DEF Main, MainAssign, MainAssigned, MainCache, MainBlock, MainRemove,
     MainEnter, MainUnlink, MainRmdir, RemoveUnchanged, MainUnchanged, clientVars, rxVars,
     seriesVars
<1>7. CASE RxOffset
  <2>1. /\ rpc' = "reset" /\ currentOffset' = configuredOffset
        /\ UNCHANGED <<plan, mpc, command, configuredOffset, taken>>
    BY <1>7 DEF RxOffset, RxUnchanged, clientVars, mainVars
  <2>2. \A offset : /\ Planned(offset)' <=> Planned(offset)
                    /\ Commanded(offset)' <=> Commanded(offset)
                    /\ Copied(offset)' <=> configuredOffset = offset
                    /\ Taken(offset)' <=> Taken(offset)
    BY <2>1 DEF Planned, Commanded, Copied, Taken
  <2>3. Distinct(plan)' /\ OffsetUsedOnce'
    BY <2>1 DEF OnceInv, Distinct, OffsetUsedOnce
  <2>4. QED
    BY <2>1, <2>2, <2>3 DEF OnceInv
<1>8. CASE RxReset
  <2>1. /\ rpc = "reset" /\ rpc' = "acq" /\ configuredOffset' = 0
        /\ UNCHANGED <<plan, mpc, command, currentOffset, taken>>
    BY <1>8 DEF RxReset, ResetCounters, clientVars
  <2>2. \A offset : /\ Planned(offset)' <=> Planned(offset)
                    /\ Commanded(offset)' <=> Commanded(offset)
                    /\ Copied(offset)' <=> Copied(offset)
                    /\ Taken(offset)' <=> Taken(offset)
    BY <2>1 DEF Planned, Commanded, Copied, Taken
  <2>3. Distinct(plan)' /\ OffsetUsedOnce'
    BY <2>1 DEF OnceInv, Distinct, OffsetUsedOnce
  <2>4. QED
    BY <2>1, <2>2, <2>3 DEF OnceInv
<1>9. CASE RxAcquisition
  <2>1. /\ rpc = "acq" /\ rpc' = "part"
        /\ UNCHANGED <<plan, mpc, command, configuredOffset>>
        /\ taken' = Append(taken, [offset |-> currentOffset, acq |-> configuredAcquisitionID])
    BY <1>9 DEF RxAcquisition, RxUnchanged, clientVars, mainVars
  <2>2. /\ Len(taken) \in Nat /\ Len(taken') = Len(taken) + 1
        /\ \A i \in 1 .. Len(taken) : taken'[i] = taken[i]
        /\ taken'[Len(taken) + 1].offset = currentOffset
        /\ \A i \in 1 .. Len(taken') : i \in 1 .. Len(taken) \/ i = Len(taken) + 1
    BY <2>1 DEF Types
  <2>3. \A offset : Taken(offset)' => Taken(offset) \/ Copied(offset)
    BY <2>1, <2>2 DEF Taken, Copied
  <2>4. \A offset : /\ Planned(offset)' <=> Planned(offset)
                    /\ Commanded(offset)' <=> Commanded(offset)
                    /\ ~Copied(offset)'
    BY <2>1 DEF Planned, Commanded, Copied
  <2>5. OffsetUsedOnce'
    <3> SUFFICES ASSUME NEW i \in 1 .. Len(taken'), NEW j \in 1 .. Len(taken'),
                        i # j, taken'[i].offset # 0
                 PROVE  taken'[i].offset # taken'[j].offset
      BY DEF OffsetUsedOnce
    <3>1. \A n \in 1 .. Len(taken) : taken[n].offset \in Nat
      <4>1. taken \in Seq([offset : Offsets, acq : Ids])
        BY DEF Types
      <4>2. \A n \in 1 .. Len(taken) : taken[n] \in [offset : Offsets, acq : Ids]
        BY <4>1, ElementOfSeq
      <4>3. QED
        BY <4>2, DistributionAssumption
    <3>2. currentOffset \in Nat \ {0} => ~Taken(currentOffset)
      BY <2>1 DEF OnceInv, Copied
    <3>3. currentOffset \in Nat
      BY DistributionAssumption DEF Types, TypeOK
    <3>4. CASE i \in 1 .. Len(taken) /\ j \in 1 .. Len(taken)
      BY <2>2, <3>4 DEF OnceInv, OffsetUsedOnce
    <3>5. CASE i = Len(taken) + 1 /\ j \in 1 .. Len(taken)
      BY <2>2, <3>2, <3>3, <3>5 DEF Taken
    <3>6. CASE j = Len(taken) + 1 /\ i \in 1 .. Len(taken)
      BY <2>2, <3>1, <3>2, <3>3, <3>6 DEF Taken
    <3>7. QED
      BY <2>2, <3>4, <3>5, <3>6
  <2>6. Distinct(plan)'
    BY <2>1 DEF OnceInv, Distinct
  <2>7. \A offset \in Nat \ {0} : Copied(offset) => configuredOffset # offset
    BY <2>1 DEF OnceInv
  <2>8. QED
    BY <2>1, <2>3, <2>4, <2>5, <2>6, <2>7 DEF OnceInv
<1>10. CASE RxTake \/ RxChoose \/ RxWrite \/ RxCreateRoot \/ RxMkdir \/ RxGiveUp
            \/ RxOpen \/ RxRename \/ RxSend
  <2>1. UNCHANGED <<plan, mpc, command, configuredOffset, currentOffset, taken>>
    BY <1>10 DEF RxTake, RxChoose, ChooseConsumer, RxWrite, RxCreateRoot, RxMkdir, RxGiveUp,
       RxOpen, RxRename, RxSend, RxInFile, RxUnchanged, seriesVars, clientVars, mainVars
  <2>2. rpc' \notin {"reset", "acq"}
    BY <1>10, RxTakes DEF RxChoose, RxWrite, RxCreateRoot, RxMkdir, RxGiveUp,
       RxOpen, RxRename, RxSend
  <2>3. QED
    BY <1>1, <2>1, <2>2
<1>11. QED
  BY <1>2, <1>3, <1>4, <1>5, <1>6, <1>7, <1>8, <1>9, <1>10 DEF AcqNext, Client, Rx

\* If every offset of a plan is configured once, no two series take it, at whatever
\* moments the main thread sets it and the rx thread copies and clears it.
THEOREM OffsetUsedOnceAlways ==
    ASSUME \A steps \in Plans : Distinct(steps)
    PROVE  AcqSpec => []OffsetUsedOnce
<1>1. AcqInit => Types /\ OnceInv
  BY TypesInit, OnceInit
<1>2. Types /\ OnceInv /\ [AcqNext]_acqVars => (Types /\ OnceInv)'
  BY TypesNext, OnceNext
<1>3. OnceInv => OffsetUsedOnce
  BY DEF OnceInv
<1>4. QED
  BY <1>1, <1>2, <1>3, PTL DEF AcqSpec

-----------------------------------------------------------------------------
(***************************************************************************)
(* A series takes the settings meant for it                                *)
(***************************************************************************)
Headers(messages) == {i \in 1 .. Len(messages) : messages[i] = "header"}

\* A header is at hand and its series has not taken the settings.
InHand == rpc \in {"offset", "reset", "acq"}

\* Every series that is armed has taken the settings, has its header at hand or has
\* a header that waits.
AheadInv ==
    Len(wishes) = Len(taken) + (IF InHand THEN 1 ELSE 0) + Cardinality(Headers(queue))

\* The acquisition ID that will be configured when the command at hand is over.
ComingAcq ==
    CASE mpc \in {"offset", "acq"} -> Given(command.acq, configuredAcquisitionID)
      [] mpc = "assigned" -> command.acq
      [] OTHER -> configuredAcquisitionID

ComingOffset ==
    IF mpc = "offset" THEN Given(command.offset, configuredOffset) ELSE configuredOffset

\* What the next series may expect.
ExpectedInv ==
    /\ expected.acq = ComingAcq
    /\ expected.sure /\ Len(wishes) = Len(taken) => expected.offset = ComingOffset
    /\ expected.sure /\ Len(wishes) # Len(taken) =>
           /\ mpc = "idle" /\ expected.offset = 0
           /\ rpc = "acq" /\ Len(wishes) = Len(taken) + 1 => configuredOffset = 0

\* What an armed series that has yet to take the settings may expect: the first of
\* them what is configured or copied, the others no offset.
WishInv ==
    \A i \in 1 .. Len(wishes) : i > Len(taken) /\ wishes[i].sure =>
        /\ mpc = "idle" /\ wishes[i].acq = configuredAcquisitionID
        /\ i = Len(taken) + 1 =>
               wishes[i].offset = IF rpc \in {"reset", "acq"} THEN currentOffset
                                  ELSE configuredOffset
        /\ i > Len(taken) + 1 => wishes[i].offset = 0
        /\ i = Len(taken) + 2 /\ rpc = "acq" => configuredOffset = 0

TakesInv == AheadInv /\ ExpectedInv /\ WishInv /\ TakesWhatWasConfigured

LEMMA HeadersType ==
    ASSUME NEW messages \in Seq(Kinds)
    PROVE  IsFiniteSet(Headers(messages)) /\ Cardinality(Headers(messages)) \in Nat
<1>1. IsFiniteSet(1 .. Len(messages))
  BY FS_Interval
<1>2. Headers(messages) \subseteq 1 .. Len(messages)
  BY DEF Headers
<1>3. QED
  BY <1>1, <1>2, FS_Subset, FS_CardinalityType

\* The head of the queue is a header or none of them.
LEMMA HeadersTail ==
    ASSUME NEW messages \in Seq(Kinds), messages # <<>>
    PROVE  Cardinality(Headers(messages)) =
               Cardinality(Headers(Tail(messages)))
                   + (IF Head(messages) = "header" THEN 1 ELSE 0)
<1> DEFINE H == Headers(messages)
           T == Headers(Tail(messages))
           R == H \ {1}
           f == [i \in T |-> i + 1]
<1>1. /\ Tail(messages) \in Seq(Kinds) /\ Len(Tail(messages)) = Len(messages) - 1
      /\ Len(messages) \in Nat \ {0}
      /\ \A i \in 1 .. Len(messages) - 1 : Tail(messages)[i] = messages[i + 1]
      /\ Head(messages) = messages[1]
  OBVIOUS
<1>2. \A i \in T : i \in Nat \ {0} /\ i + 1 \in R
  BY <1>1 DEF Headers
<1>3. \A j \in R : j - 1 \in T /\ j \in Int
  BY <1>1 DEF Headers
<1>4. ExistsBijection(T, R)
  <2>1. f \in [T -> R]
    BY <1>2
  <2>2. \A i, j \in T : f[i] = f[j] => i = j
    BY <1>2
  <2>3. \A j \in R : \E i \in T : f[i] = j
    BY <1>3
  <2>4. f \in Bijection(T, R)
    BY <2>1, <2>2, <2>3 DEF Bijection, Injection, Surjection, IsInjective
  <2>5. QED
    BY <2>4 DEF ExistsBijection
<1>5. Cardinality(R) = Cardinality(T) /\ IsFiniteSet(R)
  BY <1>1, <1>4, HeadersType, FS_Bijection
<1>6. CASE Head(messages) = "header"
  <2>1. 1 \in H /\ H = R \cup {1} /\ 1 \notin R
    BY <1>1, <1>6 DEF Headers
  <2>2. Cardinality(H) = Cardinality(R) + 1
    BY <1>5, <2>1, FS_AddElement
  <2>3. QED
    BY <1>5, <1>6, <2>2
<1>7. CASE Head(messages) # "header"
  <2>1. H = R
    BY <1>1, <1>7 DEF Headers
  <2>2. Cardinality(T) \in Nat
    BY <1>1, HeadersType
  <2>3. Cardinality(H) = Cardinality(T)
    BY <1>5, <2>1
  <2> HIDE DEF H, T
  <2>4. Cardinality(H) = Cardinality(T) + (IF Head(messages) = "header" THEN 1 ELSE 0)
    BY <1>7, <2>2, <2>3
  <2>5. QED
    BY <2>4 DEF H, T
<1>8. QED
  BY <1>6, <1>7

\* A series has one header.
LEMMA HeadersSeries ==
    ASSUME NEW messages \in Seq(Kinds), NEW n \in Nat
    PROVE  Cardinality(Headers(messages \o Series(n))) = Cardinality(Headers(messages)) + 1
<1> DEFINE s == Series(n)
           q == messages \o s
<1>1. s \in Seq(Kinds)
  BY SeriesType
<1>2. /\ Len(s) = n + 2 /\ s[1] = "header"
      /\ \A i \in 2 .. n + 2 : s[i] # "header"
  BY DEF Series
<1> HIDE DEF s
<1>3. /\ Len(q) = Len(messages) + Len(s) /\ Len(messages) \in Nat
      /\ \A i \in 1 .. Len(q) : q[i] = IF i <= Len(messages) THEN messages[i]
                                       ELSE s[i - Len(messages)]
  BY <1>1, ConcatProperties
<1> HIDE DEF q
<1>4. Headers(q) = Headers(messages) \cup {Len(messages) + 1}
  <2> DEFINE m == Len(messages)
  <2>1. /\ m \in Nat /\ Len(q) = m + (n + 2)
        /\ \A i \in 1 .. m : i \in 1 .. Len(q) /\ q[i] = messages[i]
    BY <1>2, <1>3
  <2>2. m + 1 \in 1 .. Len(q) /\ q[m + 1] = "header"
    BY <1>2, <1>3, <2>1
  <2>3. ASSUME NEW i \in 1 .. Len(q), i > m + 1
        PROVE  q[i] # "header"
    <3>1. i - m \in 2 .. n + 2
      BY <2>1, <2>3
    <3>2. q[i] = s[i - m]
      BY <1>3, <2>1, <2>3
    <3>3. QED
      BY <1>2, <3>1, <3>2
  <2> HIDE DEF m
  <2>4. \A i \in 1 .. Len(q) : i \in 1 .. m \/ i = m + 1 \/ i > m + 1
    BY <2>1
  <2>5. QED
    BY <2>1, <2>2, <2>3, <2>4 DEF Headers, m
<1>5. Len(messages) + 1 \notin Headers(messages)
  BY <1>3 DEF Headers
<1>6. Cardinality(Headers(q)) = Cardinality(Headers(messages)) + 1
  BY <1>4, <1>5, HeadersType, FS_AddElement
<1>7. QED
  BY <1>6 DEF q, s

LEMMA HeadersNone ==
    ASSUME NEW messages \in Seq(Kinds)
    PROVE  Cardinality(Headers(messages)) = 0
               <=> \A i \in 1 .. Len(messages) : messages[i] # "header"
<1>1. Cardinality(Headers(messages)) = 0 <=> Headers(messages) = {}
  BY HeadersType, FS_EmptySet
<1>2. QED
  BY <1>1 DEF Headers

LEMMA Counts ==
    ASSUME Types, AheadInv
    PROVE  /\ Len(wishes) \in Nat /\ Len(taken) \in Nat
           /\ Cardinality(Headers(queue)) \in Nat
           /\ Len(taken) <= Len(wishes)
           /\ InHand => Len(taken) < Len(wishes)
           /\ NoHeaderAhead <=> Len(wishes) = Len(taken)
<1>1. /\ Len(wishes) \in Nat /\ Len(taken) \in Nat
      /\ Cardinality(Headers(queue)) \in Nat
  BY HeadersType DEF Types
<1>2. NoHeaderAhead <=> ~InHand /\ Cardinality(Headers(queue)) = 0
  BY HeadersNone DEF Types, NoHeaderAhead, InHand
<1>3. QED
  BY <1>1, <1>2 DEF AheadInv

LEMMA TakesInit == AcqInit => TakesInv
<1> SUFFICES ASSUME AcqInit PROVE TakesInv
  OBVIOUS
<1>1. Headers(queue) = {} /\ Len(wishes) = 0 /\ Len(taken) = 0
  BY DEF AcqInit, Headers
<1>2. Cardinality(Headers(queue)) = 0
  BY <1>1, FS_EmptySet
<1>3. QED
  BY <1>1, <1>2
  DEF AcqInit, TakesInv, AheadInv, InHand, ExpectedInv, ComingAcq, ComingOffset, WishInv,
      TakesWhatWasConfigured

\* The steps that neither change nor copy a setting.
LEMMA TakesKept ==
    ASSUME TakesInv,
           UNCHANGED <<wishes, taken, expected, queue, command, currentOffset,
                       configuredOffset, configuredAcquisitionID>>,
           \/ mpc' = mpc
           \/ mpc \notin {"idle", "offset", "acq", "assigned"}
                  /\ mpc' \notin {"idle", "offset", "acq", "assigned"},
           \/ rpc' = rpc
           \/ ~InHand /\ ~InHand'
    PROVE  TakesInv'
<1>1. AheadInv'
  BY DEF TakesInv, AheadInv, InHand, Headers
<1>2. ComingAcq' = ComingAcq /\ ComingOffset' = ComingOffset
  BY DEF ComingAcq, ComingOffset
<1>3. rpc' = rpc \/ (rpc \notin {"reset", "acq"} /\ rpc' \notin {"reset", "acq"})
  BY DEF InHand
<1>4. (mpc = "idle") = (mpc' = "idle")
  OBVIOUS
<1>5. ExpectedInv'
  BY <1>2, <1>3, <1>4 DEF TakesInv, ExpectedInv
<1>6. WishInv'
  BY <1>3, <1>4 DEF TakesInv, WishInv
<1>7. TakesWhatWasConfigured'
  BY DEF TakesInv, TakesWhatWasConfigured
<1>8. QED
  BY <1>1, <1>5, <1>6, <1>7 DEF TakesInv

LEMMA TakesClient ==
    ASSUME Types, TakesInv, Client
    PROVE  TakesInv'
<1> USE DEF TakesInv
<1>0. /\ Len(wishes) \in Nat /\ Len(taken) \in Nat /\ Len(taken) <= Len(wishes)
      /\ Cardinality(Headers(queue)) \in Nat
      /\ InHand => Len(taken) < Len(wishes)
      /\ NoHeaderAhead <=> Len(wishes) = Len(taken)
  BY Counts
<1>1. CASE ClientAwaits
  BY <1>1, TakesKept DEF ClientAwaits, mainVars, rxVars, seriesVars
<1>2. CASE ClientConfigures
  <2>1. /\ mpc = "idle" /\ mpc' = "offset" /\ command' = plan[1]
        /\ UNCHANGED <<taken, queue, rpc, configuredOffset, configuredAcquisitionID,
                       currentOffset>>
        /\ expected' = [offset |-> Given(plan[1].offset, expected.offset),
                        acq |-> Given(plan[1].acq, expected.acq),
                        sure |-> expected.sure /\ NoHeaderAhead]
    BY <1>2 DEF ClientConfigures, rxVars, seriesVars
  <2>2. /\ Len(wishes') = Len(wishes)
        /\ \A i \in 1 .. Len(wishes) :
               wishes'[i] = IF i > Len(taken) THEN [wishes[i] EXCEPT !.sure = FALSE]
                            ELSE wishes[i]
    BY <1>0, <1>2 DEF ClientConfigures
  <2>3. AheadInv'
    BY <2>1, <2>2 DEF AheadInv, InHand, Headers
  <2>4. ExpectedInv'
    <3>1. expected'.acq = ComingAcq'
      BY <2>1 DEF ExpectedInv, ComingAcq, Given
    <3>2. expected'.sure => /\ expected.sure /\ Len(wishes) = Len(taken)
      BY <1>0, <2>1
    <3>3. expected.sure /\ Len(wishes) = Len(taken) => expected'.offset = ComingOffset'
      BY <2>1 DEF ExpectedInv, ComingOffset, Given
    <3>4. QED
      BY <2>1, <2>2, <3>1, <3>2, <3>3 DEF ExpectedInv
  <2>5. WishInv'
    <3>1. \A i \in 1 .. Len(wishes') : i > Len(taken) => wishes'[i].sure = FALSE
      <4> SUFFICES ASSUME NEW i \in 1 .. Len(wishes'), i > Len(taken) PROVE wishes'[i].sure = FALSE
        OBVIOUS
      <4>1. wishes \in Seq([offset : Offsets, acq : Ids, sure : BOOLEAN])
        BY DEF Types
      <4>2. wishes[i] \in [offset : Offsets, acq : Ids, sure : BOOLEAN]
        BY <2>2, <4>1, ElementOfSeq
      <4>3. QED
        BY <2>2, <4>2
    <3>2. QED
      BY <2>1, <3>1 DEF WishInv
  <2>6. TakesWhatWasConfigured'
    <3>1. \A i \in 1 .. Len(taken) : i \in 1 .. Len(wishes) /\ wishes'[i] = wishes[i]
      <4> SUFFICES ASSUME NEW i \in 1 .. Len(taken)
                   PROVE  i \in 1 .. Len(wishes) /\ wishes'[i] = wishes[i]
        OBVIOUS
      <4>1. i \in 1 .. Len(wishes) /\ ~(i > Len(taken))
        BY <1>0
      <4>2. QED
        BY <2>2, <4>1
    <3>2. QED
      BY <2>1, <3>1 DEF TakesWhatWasConfigured
  <2>7. QED
    BY <2>3, <2>4, <2>5, <2>6
<1>3. CASE ClientArms
  <2>1. /\ mpc = "idle" /\ wishes' = Append(wishes, expected)
        /\ expected' = [offset |-> 0, acq |-> expected.acq, sure |-> TRUE]
        /\ queue' = queue \o Series(plan[1].images)
        /\ UNCHANGED <<mpc, command, taken, rpc, configuredOffset, configuredAcquisitionID,
                       currentOffset>>
    BY <1>3 DEF ClientArms, mainVars, rxVars, seriesVars
  <2>2. /\ Len(wishes') = Len(wishes) + 1
        /\ \A i \in 1 .. Len(wishes) : wishes'[i] = wishes[i]
        /\ wishes'[Len(wishes) + 1] = expected
        /\ \A i \in 1 .. Len(wishes') : i \in 1 .. Len(wishes) \/ i = Len(wishes) + 1
    BY <1>0, <2>1 DEF Types
  <2>3. AheadInv'
    <3>1. plan[1].images \in Nat /\ queue \in Seq(Kinds)
      <4>1. plan[1] \in StepSet
        BY <1>3 DEF ClientArms, Types
      <4>2. QED
        BY <1>3, <4>1 DEF ClientArms, StepSet, Configurations, Await, Types
    <3>2. Cardinality(Headers(queue)') = Cardinality(Headers(queue)) + 1
      BY <2>1, <3>1, HeadersSeries DEF Headers
    <3>3. InHand' = InHand /\ Len(taken') = Len(taken)
      BY <2>1 DEF InHand
    <3> DEFINE before == Cardinality(Headers(queue))
               hand == IF InHand THEN 1 ELSE 0
    <3>4. before \in Nat /\ hand \in Nat /\ Len(wishes) = Len(taken) + hand + before
      BY <1>0 DEF AheadInv
    <3>5. hand' = hand /\ before' = before + 1
      BY <3>2, <3>3
    <3> HIDE DEF before, hand
    <3>6. Len(wishes') = Len(taken') + hand' + before'
      BY <1>0, <2>2, <3>3, <3>4, <3>5
    <3>7. QED
      BY <3>6 DEF AheadInv, before, hand
  <2>4. ExpectedInv'
    <3>1. expected'.acq = ComingAcq'
      BY <2>1 DEF ExpectedInv, ComingAcq
    <3>2. Len(wishes') # Len(taken)
      BY <1>0, <2>2
    <3>3. rpc = "acq" => Len(wishes') # Len(taken) + 1
      BY <1>0, <2>2 DEF InHand
    <3>4. QED
      BY <2>1, <3>1, <3>2, <3>3 DEF ExpectedInv
  <2>5. WishInv'
    <3> SUFFICES ASSUME NEW i \in 1 .. Len(wishes'), i > Len(taken), wishes'[i].sure
                 PROVE  /\ wishes'[i].acq = configuredAcquisitionID
                        /\ i = Len(taken) + 1 =>
                               wishes'[i].offset = IF rpc \in {"reset", "acq"}
                                                   THEN currentOffset ELSE configuredOffset
                        /\ i > Len(taken) + 1 => wishes'[i].offset = 0
                        /\ i = Len(taken) + 2 /\ rpc = "acq" => configuredOffset = 0
      BY <2>1 DEF WishInv
    <3>1. CASE i \in 1 .. Len(wishes)
      BY <2>2, <3>1 DEF WishInv
    <3>2. CASE i = Len(wishes) + 1
      <4>1. wishes'[i] = expected /\ expected.sure
        BY <2>2, <3>2
      <4>2. expected.acq = configuredAcquisitionID
        BY <2>1 DEF ExpectedInv, ComingAcq
      <4>3. CASE Len(wishes) = Len(taken)
        <5>1. rpc \notin {"reset", "acq"}
          BY <1>0, <4>3 DEF InHand
        <5>2. expected.offset = configuredOffset
          BY <2>1, <4>1, <4>3 DEF ExpectedInv, ComingOffset
        <5>3. QED
          BY <1>0, <3>2, <4>1, <4>2, <4>3, <5>1, <5>2
      <4>4. CASE Len(wishes) # Len(taken)
        <5>1. /\ expected.offset = 0
              /\ rpc = "acq" /\ Len(wishes) = Len(taken) + 1 => configuredOffset = 0
          BY <4>1, <4>4 DEF ExpectedInv
        <5>2. QED
          BY <1>0, <3>2, <4>1, <4>2, <4>4, <5>1
      <4>5. QED
        BY <4>3, <4>4
    <3>3. QED
      BY <2>2, <3>1, <3>2
  <2>6. TakesWhatWasConfigured'
    <3>1. \A i \in 1 .. Len(taken) : i \in 1 .. Len(wishes) /\ wishes'[i] = wishes[i]
      BY <1>0, <2>2
    <3>2. QED
      BY <2>1, <3>1 DEF TakesWhatWasConfigured
  <2>7. QED
    BY <2>3, <2>4, <2>5, <2>6
<1>4. QED
  BY <1>1, <1>2, <1>3 DEF Client

LEMMA TakesMain ==
    ASSUME Types, TakesInv, Main
    PROVE  TakesInv'
<1> USE DEF TakesInv
<1>0. /\ mpc # "idle"
      /\ UNCHANGED <<wishes, taken, expected, queue, command, rpc, currentOffset>>
  BY DEF Main, MainOffset, MainAssign, MainAssigned, MainCache, MainBlock, MainRemove,
     MainEnter, MainUnlink, MainRmdir, RemoveUnchanged, MainUnchanged, seriesVars,
     clientVars, rxVars
<1>1. AheadInv' /\ TakesWhatWasConfigured'
  BY <1>0 DEF AheadInv, InHand, Headers, TakesWhatWasConfigured
<1>2. WishInv'
  BY <1>0 DEF WishInv
<1>3. expected.sure => Len(wishes) = Len(taken)
  BY <1>0 DEF ExpectedInv
<1>4. ASSUME ComingAcq' = ComingAcq, ComingOffset' = ComingOffset
      PROVE  TakesInv'
  <2>1. ExpectedInv'
    BY <1>0, <1>3, <1>4 DEF ExpectedInv
  <2>2. QED
    BY <1>1, <1>2, <2>1
<1>5. CASE MainOffset
  <2>1. /\ mpc = "offset" /\ mpc' = "acq" /\ UNCHANGED configuredAcquisitionID
        /\ configuredOffset' = Given(command.offset, configuredOffset)
    BY <1>5 DEF MainOffset
  <2>2. ComingAcq' = ComingAcq /\ ComingOffset' = ComingOffset
    BY <1>0, <2>1 DEF ComingAcq, ComingOffset
  <2>3. QED
    BY <1>4, <2>2
<1>6. CASE MainAssign
  <2>1. /\ mpc = "acq" /\ UNCHANGED configuredOffset
        /\ \/ command.acq = Absent /\ mpc' = "cache" /\ UNCHANGED configuredAcquisitionID
           \/ command.acq # Absent /\ mpc' = "assigned"
    BY <1>6 DEF MainAssign
  <2>2. ComingAcq' = ComingAcq /\ ComingOffset' = ComingOffset
    BY <1>0, <2>1 DEF ComingAcq, ComingOffset, Given
  <2>3. QED
    BY <1>4, <2>2
<1>7. CASE MainAssigned
  <2>1. /\ mpc = "assigned" /\ mpc' = "cache" /\ UNCHANGED configuredOffset
        /\ configuredAcquisitionID' = command.acq
    BY <1>7 DEF MainAssigned
  <2>2. ComingAcq' = ComingAcq /\ ComingOffset' = ComingOffset
    BY <1>0, <2>1 DEF ComingAcq, ComingOffset
  <2>3. QED
    BY <1>4, <2>2
<1>8. CASE MainCache \/ MainBlock \/ MainRemove \/ MainEnter \/ MainUnlink \/ MainRmdir
  <2>1. /\ mpc \notin {"offset", "acq", "assigned"}
        /\ mpc' \notin {"offset", "acq", "assigned"}
        /\ UNCHANGED <<configuredOffset, configuredAcquisitionID>>
    BY <1>8 DEF MainCache, MainBlock, MainRemove, MainEnter, MainUnlink, MainRmdir,
       RemoveUnchanged
  <2>2. ComingAcq' = ComingAcq /\ ComingOffset' = ComingOffset
    BY <1>0, <2>1 DEF ComingAcq, ComingOffset
  <2>3. QED
    BY <1>4, <2>2
<1>9. QED
  BY <1>5, <1>6, <1>7, <1>8 DEF Main

LEMMA TakesRx ==
    ASSUME Types, TakesInv, Rx
    PROVE  TakesInv'
<1> USE DEF TakesInv
<1>0. /\ Len(wishes) \in Nat /\ Len(taken) \in Nat /\ Len(taken) <= Len(wishes)
      /\ Cardinality(Headers(queue)) \in Nat
      /\ InHand => Len(taken) < Len(wishes)
  BY Counts
<1>1. UNCHANGED <<wishes, expected, mpc, command>>
  BY DEF Rx, RxTake, RxOffset, RxReset, ResetCounters, RxAcquisition, RxChoose,
     RxWrite, RxCreateRoot, RxMkdir, RxGiveUp, RxOpen, RxRename, RxSend, RxUnchanged,
     clientVars, mainVars
<1>2. CASE RxTake
  <2>1. /\ rpc = "idle" /\ queue' = Tail(queue) /\ queue # <<>> /\ queue \in Seq(Kinds)
        /\ UNCHANGED <<taken, currentOffset, configuredOffset, configuredAcquisitionID>>
    BY <1>2 DEF RxTake, RxUnchanged, seriesVars, mainVars, Types
  <2>2. rpc' \in {"offset", "choose", "part"} /\ (rpc' = "offset" <=> Head(queue) = "header")
    BY <1>2, RxTakes DEF Kinds
  <2>3. AheadInv'
    <3> DEFINE before == Cardinality(Headers(queue))
               hand == IF InHand THEN 1 ELSE 0
    <3>1. hand = 0 /\ hand' = IF Head(queue) = "header" THEN 1 ELSE 0
      BY <2>1, <2>2 DEF InHand
    <3>2. before = before' + (IF Head(queue) = "header" THEN 1 ELSE 0)
      BY <2>1, HeadersTail
    <3>3. before' \in Nat
      <4>1. Tail(queue) \in Seq(Kinds)
        BY <1>2, RxTakes
      <4>2. before' = Cardinality(Headers(Tail(queue)))
        BY <2>1
      <4>3. QED
        BY <4>1, <4>2, HeadersType
    <3>4. Len(wishes) = Len(taken) + hand + before
      BY DEF AheadInv
    <3> HIDE DEF before, hand
    <3>5. Len(wishes') = Len(taken') + hand' + before'
      BY <1>0, <1>1, <2>1, <3>1, <3>2, <3>3, <3>4
    <3>6. QED
      BY <3>5 DEF AheadInv, before, hand
  <2>4. ExpectedInv'
    <3>1. ComingAcq' = ComingAcq /\ ComingOffset' = ComingOffset
      BY <1>1, <2>1 DEF ComingAcq, ComingOffset
    <3>2. QED
      BY <1>1, <2>1, <2>2, <3>1 DEF ExpectedInv
  <2>5. WishInv'
    BY <1>1, <2>1, <2>2 DEF WishInv
  <2>6. TakesWhatWasConfigured'
    BY <1>1, <2>1 DEF TakesWhatWasConfigured
  <2>7. QED
    BY <2>3, <2>4, <2>5, <2>6
<1>3. CASE RxOffset
  <2>1. /\ rpc = "offset" /\ rpc' = "reset" /\ currentOffset' = configuredOffset
        /\ UNCHANGED <<taken, queue, configuredOffset, configuredAcquisitionID>>
    BY <1>3 DEF RxOffset, RxUnchanged, mainVars
  <2>2. AheadInv' /\ TakesWhatWasConfigured'
    BY <1>1, <2>1 DEF AheadInv, InHand, Headers, TakesWhatWasConfigured
  <2>3. ExpectedInv'
    <3>1. ComingAcq' = ComingAcq /\ ComingOffset' = ComingOffset
      BY <1>1, <2>1 DEF ComingAcq, ComingOffset
    <3>2. QED
      BY <1>1, <2>1, <3>1 DEF ExpectedInv
  <2>4. WishInv'
    BY <1>1, <2>1 DEF WishInv
  <2>5. QED
    BY <2>2, <2>3, <2>4
<1>4. CASE RxReset
  <2>1. /\ rpc = "reset" /\ rpc' = "acq" /\ configuredOffset' = 0
        /\ UNCHANGED <<taken, queue, currentOffset, configuredAcquisitionID>>
    BY <1>4 DEF RxReset, ResetCounters
  <2>2. AheadInv' /\ TakesWhatWasConfigured'
    BY <1>1, <2>1 DEF AheadInv, InHand, Headers, TakesWhatWasConfigured
  <2>3. Len(taken) # Len(wishes)
    BY <1>0, <2>1 DEF InHand
  <2>4. ExpectedInv'
    <3>1. ComingAcq' = ComingAcq
      BY <1>1, <2>1 DEF ComingAcq
    <3>2. QED
      BY <1>1, <2>1, <2>3, <3>1 DEF ExpectedInv
  <2>5. WishInv'
    BY <1>1, <2>1 DEF WishInv
  <2>6. QED
    BY <2>2, <2>4, <2>5
<1>5. CASE RxAcquisition
  <2>1. /\ rpc = "acq" /\ rpc' = "part"
        /\ taken' = Append(taken, [offset |-> currentOffset, acq |-> configuredAcquisitionID])
        /\ UNCHANGED <<queue, configuredOffset, configuredAcquisitionID, currentOffset>>
    BY <1>5 DEF RxAcquisition, RxUnchanged, seriesVars, mainVars
  <2>2. /\ Len(taken') = Len(taken) + 1
        /\ \A i \in 1 .. Len(taken) : taken'[i] = taken[i]
        /\ taken'[Len(taken) + 1].offset = currentOffset
        /\ taken'[Len(taken) + 1].acq = configuredAcquisitionID
        /\ \A i \in 1 .. Len(taken') : i \in 1 .. Len(taken) \/ i = Len(taken) + 1
    BY <1>0, <2>1 DEF Types
  <2>3. Len(taken) < Len(wishes)
    BY <1>0, <2>1 DEF InHand
  <2>4. AheadInv'
    <3> DEFINE before == Cardinality(Headers(queue))
               hand == IF InHand THEN 1 ELSE 0
    <3>1. hand = 1 /\ hand' = 0 /\ before' = before
      BY <2>1 DEF InHand
    <3>2. Len(wishes) = Len(taken) + hand + before
      BY DEF AheadInv
    <3> HIDE DEF hand
    <3>3. Len(wishes') = Len(taken') + hand' + before'
      BY <1>0, <1>1, <2>2, <3>1, <3>2
    <3>4. QED
      BY <3>3 DEF AheadInv, hand
  <2>5. ExpectedInv'
    <3>1. ComingAcq' = ComingAcq /\ ComingOffset' = ComingOffset
      BY <1>1, <2>1 DEF ComingAcq, ComingOffset
    <3>2. expected.sure => mpc = "idle" /\ expected.offset = 0
      BY <2>3 DEF ExpectedInv
    <3>3. expected.sure /\ Len(wishes) = Len(taken) + 1 => configuredOffset = 0
      BY <2>1, <2>3 DEF ExpectedInv
    <3>4. mpc = "idle" => ComingOffset = configuredOffset
      BY DEF ComingOffset
    <3>5. QED
      BY <1>1, <2>1, <2>2, <3>1, <3>2, <3>3, <3>4 DEF ExpectedInv
  <2>6. WishInv'
    <3> SUFFICES ASSUME NEW i \in 1 .. Len(wishes), i > Len(taken) + 1, wishes[i].sure
                 PROVE  /\ mpc = "idle" /\ wishes[i].acq = configuredAcquisitionID
                        /\ i = Len(taken) + 2 => wishes[i].offset = configuredOffset
                        /\ i > Len(taken) + 2 => wishes[i].offset = 0
      BY <1>1, <2>1, <2>2 DEF WishInv
    <3>1. i > Len(taken)
      BY <1>0
    <3>2. /\ mpc = "idle" /\ wishes[i].acq = configuredAcquisitionID
          /\ wishes[i].offset = 0
          /\ i = Len(taken) + 2 => configuredOffset = 0
      BY <2>1, <3>1 DEF WishInv
    <3>3. QED
      BY <3>2
  <2>7. TakesWhatWasConfigured'
    <3> SUFFICES ASSUME NEW i \in 1 .. Len(taken'), wishes[i].sure
                 PROVE  /\ taken'[i].offset = wishes[i].offset
                        /\ taken'[i].acq = wishes[i].acq
      BY <1>1 DEF TakesWhatWasConfigured
    <3>1. CASE i \in 1 .. Len(taken)
      BY <2>2, <3>1 DEF TakesWhatWasConfigured
    <3>2. CASE i = Len(taken) + 1
      <4>1. i \in 1 .. Len(wishes) /\ i > Len(taken)
        BY <1>0, <2>3, <3>2
      <4>2. wishes[i].acq = configuredAcquisitionID /\ wishes[i].offset = currentOffset
        BY <2>1, <3>2, <4>1 DEF WishInv
      <4>3. QED
        BY <2>2, <3>2, <4>2
    <3>3. QED
      BY <2>2, <3>1, <3>2
  <2>8. QED
    BY <2>4, <2>5, <2>6, <2>7
<1>6. CASE RxChoose \/ RxWrite \/ RxCreateRoot \/ RxMkdir \/ RxGiveUp \/ RxOpen \/ RxRename
           \/ RxSend
  <2>1. UNCHANGED <<taken, queue, currentOffset, configuredOffset, configuredAcquisitionID>>
    BY <1>6 DEF RxChoose, ChooseConsumer, RxWrite, RxCreateRoot, RxMkdir, RxGiveUp,
       RxOpen, RxRename, RxSend, RxInFile, RxUnchanged, seriesVars, mainVars
  <2>2. ~InHand /\ ~InHand'
    BY <1>6 DEF RxChoose, RxWrite, RxCreateRoot, RxMkdir, RxGiveUp, RxOpen, RxRename,
       RxSend, InHand
  <2>3. QED
    BY <1>1, <2>1, <2>2, TakesKept
<1>7. QED
  BY <1>2, <1>3, <1>4, <1>5, <1>6 DEF Rx

\* A series takes the offset and the acquisition ID that its client configured for
\* it at a time when no header was on its way, for every plan of the client.
THEOREM TakesWhatWasConfiguredAlways == AcqSpec => []TakesWhatWasConfigured
<1>1. Types /\ TakesInv /\ [AcqNext]_acqVars => (Types /\ TakesInv)'
  <2> SUFFICES ASSUME Types, TakesInv, [AcqNext]_acqVars PROVE (Types /\ TakesInv)'
    OBVIOUS
  <2>1. CASE UNCHANGED acqVars
    BY <2>1, TakesKept, TypesNext
    DEF acqVars, seriesVars, clientVars, mainVars, rxVars
  <2>2. CASE AcqNext
    BY <2>2, TypesNext, TakesClient, TakesMain, TakesRx DEF AcqNext
  <2>3. QED
    BY <2>1, <2>2
<1>2. Types /\ TakesInv => TakesWhatWasConfigured
  BY DEF TakesInv
<1>3. QED
  BY TypesInit, TakesInit, <1>1, <1>2, PTL DEF AcqSpec

-----------------------------------------------------------------------------
(***************************************************************************)
(* The round robin over several series                                     *)
(***************************************************************************)

\* A client that configures block sizes configures them before its first series.
BlocksFirst(steps) ==
    \A i, j \in 1 .. Len(steps) :
        steps[i].op = "configure" /\ steps[i].block # Absent /\ steps[j].op = "arm"
        => i < j

\* A block size is still to be set.
Resizing ==
    \/ \E i \in 1 .. Len(plan) : plan[i].op = "configure" /\ plan[i].block # Absent
    \/ mpc # "idle" /\ command.block # Absent

\* Nothing has come yet.
Fresh ==
    /\ queue = <<>> /\ rpc = "idle"
    /\ frame = 0 /\ index = -1 /\ run = 0
    /\ \A c \in 0 .. NumConsumers - 1 : num_frames_consumed[c] = 0

\* An image has its consumer and is not counted yet.
Chosen == handling = "image" /\ rpc \in {"part", "create", "mkdir", "open", "rename"}

\* The position after the images counted.
Counted(offset) == IF Chosen THEN frame + offset - 1 ELSE frame + offset

\* The counters and the last consumer are those of the series with this offset.
RoundOf(offset) ==
    /\ frame > 0 =>
           /\ index = ID!Holder(frame + offset - 1, block_size, NumConsumers)
           /\ NumConsumers > 1 => run <= ID!Place(frame + offset - 1, block_size) + 1
    /\ lost = 0 => ID!Dealt(num_frames_consumed, Counted(offset), offset, block_size,
                            NumConsumers)

\* Between the two statements of a header that take the offset and clear the
\* counters, they are still those of the series before.
RoundInv ==
    /\ BlocksFirst(plan)
    /\ Resizing => Fresh
    /\ rpc \in {"offset", "reset", "acq"} => handling = "header"
    /\ rpc = "choose" => handling = "image"
    /\ Chosen => frame > 0
    /\ frame = 0 => index = -1 /\ run = 0
    /\ \E offset \in Nat : (rpc # "reset" => offset = currentOffset) /\ RoundOf(offset)

LEMMA RoundNumbers ==
    ASSUME Types
    PROVE  /\ frame \in Nat /\ run \in Nat /\ lost \in Nat /\ currentOffset \in Nat
           /\ block_size \in Nat \ {0} /\ NumConsumers \in Nat \ {0}
           /\ num_frames_consumed \in [0 .. NumConsumers - 1 -> Nat]
           /\ configuredOffset \in Nat
  BY DistributionAssumption DEF Types, TypeOK, Consumers

LEMMA RoundInit ==
    ASSUME \A steps \in Plans : BlocksFirst(steps), AcqInit
    PROVE  RoundInv
<1>1. /\ BlocksFirst(plan) /\ queue = <<>> /\ rpc = "idle" /\ handling = "end"
      /\ frame = 0 /\ index = -1 /\ run = 0 /\ currentOffset = 0 /\ block_size = 1
      /\ num_frames_consumed = [c \in 0 .. NumConsumers - 1 |-> 0]
  BY DEF AcqInit, Consumers
<1>2. ID!Dealt(num_frames_consumed, 0, 0, block_size, NumConsumers)
  <2>1. \A c \in 0 .. NumConsumers - 1 : num_frames_consumed[c] = 0
    BY <1>1
  <2>2. 0 \in Nat /\ block_size \in Nat \ {0} /\ NumConsumers \in Nat \ {0}
    BY <1>1, DistributionAssumption
  <2>3. QED
    BY <2>1, <2>2, DistributionAssumption, ID!DealtFirst
<1>3. ~Chosen /\ Counted(0) = 0
  BY <1>1 DEF Chosen, Counted
<1>4. RoundOf(0)
  BY <1>1, <1>2, <1>3 DEF RoundOf
<1>5. Fresh
  BY <1>1 DEF Fresh
<1>6. QED
  BY <1>1, <1>3, <1>4, <1>5 DEF RoundInv

\* A step that leaves the distribution alone.
LEMMA RoundKept ==
    ASSUME Types, Types', RoundInv,
           UNCHANGED <<currentOffset, block_size, frame, index, num_frames_consumed, run>>,
           lost' = 0 => lost = 0,
           BlocksFirst(plan)', (Resizing => Fresh)',
           (rpc \in {"offset", "reset", "acq"} => handling = "header")',
           (rpc = "choose" => handling = "image")',
           Chosen' <=> Chosen, rpc' = "reset" <=> rpc = "reset"
    PROVE  RoundInv'
<1>1. PICK offset \in Nat : (rpc # "reset" => offset = currentOffset) /\ RoundOf(offset)
  BY DEF RoundInv
<1>2. Counted(offset)' = Counted(offset)
  BY DEF Counted
<1>3. RoundOf(offset)'
  BY <1>1, <1>2 DEF RoundOf
<1>4. (rpc # "reset" => offset = currentOffset)'
  BY <1>1
<1>5. (Chosen => frame > 0)' /\ (frame = 0 => index = -1 /\ run = 0)'
  BY DEF RoundInv
<1>6. QED
  BY <1>3, <1>4, <1>5 DEF RoundInv

\* The steps of the plan.
LEMMA RoundClient ==
    ASSUME Types, Types', RoundInv, Client
    PROVE  RoundInv'
<1>1. /\ plan # <<>> /\ plan' = Tail(plan) /\ mpc = "idle"
      /\ UNCHANGED <<currentOffset, block_size, frame, index, num_frames_consumed, run>>
      /\ UNCHANGED <<rpc, handling, lost>>
  BY DEF Client, ClientConfigures, ClientArms, ClientAwaits, seriesVars, rxVars
<1>2. /\ Len(plan) \in Nat \ {0} /\ Len(plan') = Len(plan) - 1
      /\ \A i \in 1 .. Len(plan') : plan'[i] = plan[i + 1] /\ i + 1 \in 1 .. Len(plan)
  BY <1>1 DEF Types
<1>3. BlocksFirst(plan)'
  <2> SUFFICES ASSUME NEW i \in 1 .. Len(plan'), NEW j \in 1 .. Len(plan'),
                      plan'[i].op = "configure", plan'[i].block # Absent,
                      plan'[j].op = "arm"
               PROVE  i < j
    BY DEF BlocksFirst
  <2>1. i + 1 < j + 1
    BY <1>2 DEF RoundInv, BlocksFirst
  <2>2. QED
    BY <2>1
<1>4. (\E i \in 1 .. Len(plan) : plan[i].op = "configure" /\ plan[i].block # Absent)'
        => \E i \in 2 .. Len(plan) : plan[i].op = "configure" /\ plan[i].block # Absent
  BY <1>2
<1>5. (Resizing => Fresh)'
  <2>1. CASE ClientArms
    <3>1. plan[1].op = "arm" /\ mpc' = "idle"
      BY <1>1, <2>1 DEF ClientArms, mainVars
    <3>2. \A i \in 2 .. Len(plan) : ~(plan[i].op = "configure" /\ plan[i].block # Absent)
      BY <1>2, <3>1 DEF RoundInv, BlocksFirst
    <3>3. ~Resizing'
      BY <1>4, <3>1, <3>2 DEF Resizing
    <3>4. QED
      BY <3>3
  <2>2. CASE ClientConfigures \/ ClientAwaits
    <3>1. queue' = queue
      BY <2>2 DEF ClientConfigures, ClientAwaits, rxVars
    <3>2. mpc' # "idle" => command' = plan[1] /\ plan[1].op = "configure"
      <4>1. CASE ClientConfigures
        BY <4>1 DEF ClientConfigures
      <4>2. CASE ClientAwaits
        BY <1>1, <4>2 DEF ClientAwaits, mainVars
      <4>3. QED
        BY <2>2, <4>1, <4>2
    <3>5. Resizing' => Resizing
      BY <1>2, <1>4, <3>2 DEF Resizing
    <3>3. Fresh => Fresh'
      BY <1>1, <3>1 DEF Fresh
    <3>4. QED
      BY <3>3, <3>5 DEF RoundInv
  <2>3. QED
    BY <2>1, <2>2 DEF Client
<1>6. (rpc \in {"offset", "reset", "acq"} => handling = "header")'
      /\ (rpc = "choose" => handling = "image")' /\ (Chosen' <=> Chosen)
  BY <1>1 DEF RoundInv, Chosen
<1>7. QED
  BY <1>1, <1>3, <1>5, <1>6, RoundKept

\* The steps of the main thread; the block size changes while nothing has come.
LEMMA RoundMain ==
    ASSUME Types, Types', RoundInv, Main
    PROVE  RoundInv'
<1>1. /\ UNCHANGED <<currentOffset, frame, index, num_frames_consumed, run>>
      /\ UNCHANGED <<rpc, handling, lost, queue, plan, command>> /\ mpc # "idle"
  BY DEF Main, MainOffset, MainAssign, MainAssigned, MainCache, MainBlock, MainRemove,
     MainEnter, MainUnlink, MainRmdir, RemoveUnchanged, MainUnchanged, seriesVars,
     clientVars, rxVars
<1>2. Resizing' => Resizing
  BY <1>1 DEF Resizing
<1>3. Fresh => Fresh'
  BY <1>1 DEF Fresh
<1>4. /\ BlocksFirst(plan)' /\ (Resizing => Fresh)' /\ (Chosen' <=> Chosen)
      /\ (rpc \in {"offset", "reset", "acq"} => handling = "header")'
      /\ (rpc = "choose" => handling = "image")'
  BY <1>1, <1>2, <1>3 DEF RoundInv, Chosen, BlocksFirst
<1>5. CASE block_size' = block_size
  BY <1>1, <1>4, <1>5, RoundKept
<1>6. CASE block_size' # block_size
  <2>1. MainBlock
    BY <1>6 DEF Main, MainOffset, MainAssign, MainAssigned, MainCache, MainRemove,
       MainEnter, MainUnlink, MainRmdir, RemoveUnchanged
  <2>2. command.block # Absent
    BY <2>1, <1>6 DEF MainBlock, Given
  <2>3. Fresh
    BY <1>1, <2>2 DEF RoundInv, Resizing
  <2>4. Fresh' /\ ~Chosen' /\ rpc' # "reset"
    BY <1>1, <1>3, <2>3 DEF Fresh, Chosen
  <2>5. currentOffset' \in Nat /\ block_size' \in Nat \ {0} /\ NumConsumers \in Nat \ {0}
    BY RoundNumbers, DistributionAssumption DEF Types, TypeOK
  <2>6. ID!Dealt(num_frames_consumed', currentOffset', currentOffset', block_size',
                 NumConsumers)
    <3>1. \A c \in 0 .. NumConsumers - 1 : num_frames_consumed'[c] = 0
      BY <2>4 DEF Fresh
    <3>2. QED
      BY <2>5, <3>1, DistributionAssumption, ID!DealtFirst
  <2>7. Counted(currentOffset)' = currentOffset' /\ frame' = 0
    <3>1. frame' = 0
      BY <2>4 DEF Fresh
    <3>2. currentOffset' = currentOffset /\ 0 + currentOffset = currentOffset
      BY <1>1, RoundNumbers
    <3>3. QED
      BY <2>4, <3>1, <3>2, Zenon DEF Counted
  <2>8. RoundOf(currentOffset)'
    BY <2>6, <2>7 DEF RoundOf
  <2>9. (frame = 0 => index = -1 /\ run = 0)'
    BY <2>4 DEF Fresh
  <2>10. QED
    BY <1>4, <2>4, <2>5, <2>8, <2>9 DEF RoundInv
<1>7. QED
  BY <1>5, <1>6

\* The steps of rx: nothing is fresh any more.
LEMMA RoundRx ==
    ASSUME Types, Types', RoundInv, Rx
    PROVE  RoundInv'
<1> DEFINE B == block_size
           N == NumConsumers
<1>1. /\ UNCHANGED <<plan, mpc, command, block_size>>
  BY DEF Rx, RxTake, RxOffset, RxReset, ResetCounters, RxAcquisition, RxChoose,
     ChooseConsumer, RxWrite, RxCreateRoot, RxMkdir, RxGiveUp, RxOpen, RxRename, RxSend,
     RxUnchanged, clientVars, mainVars
<1>2. ~Fresh
  BY DEF Fresh, Rx, RxTake, RxOffset, RxReset, ResetCounters, RxAcquisition, RxChoose,
     RxWrite, RxCreateRoot, RxMkdir, RxGiveUp, RxOpen, RxRename, RxSend
<1>3. BlocksFirst(plan)' /\ ~Resizing'
  BY <1>1, <1>2 DEF RoundInv, BlocksFirst, Resizing
<1>4. /\ frame \in Nat /\ run \in Nat /\ lost \in Nat /\ currentOffset \in Nat
      /\ block_size \in Nat \ {0} /\ NumConsumers \in Nat \ {0}
      /\ num_frames_consumed \in [0 .. NumConsumers - 1 -> Nat]
  BY RoundNumbers
<1>5. CASE RxTake
  <2>1. /\ UNCHANGED <<currentOffset, frame, index, num_frames_consumed, run, lost>>
        /\ rpc = "idle" /\ handling' = Head(queue)
        /\ rpc' = (CASE Head(queue) = "header" -> "offset"
                     [] Head(queue) = "image" -> "choose"
                     [] Head(queue) = "end" -> "part")
    BY <1>5 DEF RxTake, seriesVars
  <2>2. Head(queue) \in Kinds
    BY <1>5 DEF Types, RxTake
  <2>3. CASE handling' = "header" /\ rpc' = "offset"
    BY <1>1, <1>3, <2>1, <2>3, RoundKept DEF Chosen
  <2>4. CASE handling' = "image" /\ rpc' = "choose"
    BY <1>1, <1>3, <2>1, <2>4, RoundKept DEF Chosen
  <2>5. CASE handling' = "end" /\ rpc' = "part"
    BY <1>1, <1>3, <2>1, <2>5, RoundKept DEF Chosen
  <2>6. QED
    BY <2>1, <2>2, <2>3, <2>4, <2>5 DEF Kinds
<1>6. CASE RxOffset
  <2>1. /\ rpc = "offset" /\ rpc' = "reset" /\ handling' = handling
        /\ UNCHANGED <<frame, index, num_frames_consumed, run, lost>>
    BY <1>6 DEF RxOffset
  <2>2. PICK offset \in Nat : offset = currentOffset /\ RoundOf(offset)
    BY <2>1 DEF RoundInv
  <2>3. ~Chosen /\ ~Chosen'
    BY <2>1 DEF Chosen
  <2>4. Counted(offset)' = Counted(offset)
    BY <2>1, <2>3 DEF Counted
  <2>5. RoundOf(offset)'
    BY <1>1, <2>1, <2>2, <2>4 DEF RoundOf
  <2>6. QED
    BY <1>3, <2>1, <2>2, <2>3, <2>5 DEF RoundInv
<1>7. CASE RxReset
  <2>1. /\ rpc = "reset" /\ rpc' = "acq" /\ handling' = handling
        /\ UNCHANGED <<currentOffset, lost>>
        /\ frame' = 0 /\ index' = -1 /\ run' = 0
        /\ num_frames_consumed' = [c \in 0 .. NumConsumers - 1 |-> 0]
    BY <1>7 DEF RxReset, ResetCounters, Consumers
  <2>2. ~Chosen'
    BY <2>1 DEF Chosen
  <2>3. Counted(currentOffset)' = currentOffset'
    BY <1>4, <2>1, <2>2 DEF Counted
  <2>4. ID!Dealt(num_frames_consumed', currentOffset, currentOffset, B, N)
    <3>1. \A c \in 0 .. NumConsumers - 1 : num_frames_consumed'[c] = 0
      BY <2>1
    <3>2. QED
      BY <1>4, <3>1, DistributionAssumption, ID!DealtFirst
  <2>5. RoundOf(currentOffset)'
    BY <1>1, <2>1, <2>3, <2>4 DEF RoundOf
  <2>6. handling = "header" /\ currentOffset' \in Nat
    BY <1>4, <2>1 DEF RoundInv
  <2>7. QED
    BY <1>3, <2>1, <2>2, <2>5, <2>6 DEF RoundInv
<1>8. CASE RxAcquisition
  <2>1. /\ UNCHANGED <<currentOffset, frame, index, num_frames_consumed, run, lost>>
        /\ rpc = "acq" /\ rpc' = "part" /\ handling' = handling
    BY <1>8 DEF RxAcquisition, seriesVars
  <2>2. handling = "header"
    BY <2>1 DEF RoundInv
  <2>3. QED
    BY <1>1, <1>3, <2>1, <2>2, RoundKept DEF Chosen
<1>9. CASE RxChoose
  <2>1. /\ rpc = "choose" /\ rpc' = "part" /\ handling' = handling
        /\ index' = Target /\ frame' = frame + 1
        /\ run' = (IF Target = index THEN run + 1 ELSE 1)
        /\ UNCHANGED <<currentOffset, num_frames_consumed, lost>>
    BY <1>9 DEF RxChoose, ChooseConsumer
  <2> DEFINE y == frame + currentOffset
  <2>2. Target = ID!Holder(y, B, N) /\ y \in Nat
    <3>1. Target = ID!ConsumerIndex(frame, currentOffset, block_size, NumConsumers)
      BY DEF Target, ConsumerIndex, CRem, CDiv, ID!ConsumerIndex, ID!CRem, ID!CDiv
    <3>2. QED
      BY <1>4, <3>1, DistributionAssumption, ID!TargetIsHolder
  <2>3. RoundOf(currentOffset) /\ handling = "image"
    BY <2>1 DEF RoundInv
  <2>4. ~Chosen /\ Chosen'
    BY <2>1, <2>3 DEF Chosen
  <2>5. frame' > 0 /\ frame' + currentOffset' - 1 = y
    BY <1>4, <2>1
  <2>6. Counted(currentOffset) = y /\ Counted(currentOffset)' = y
    BY <2>1, <2>4, <2>5 DEF Counted
  <2>7. N > 1 => run' <= ID!Place(y, B) + 1
    <3>1. CASE frame = 0
      <4>1. ID!Holder(y, B, N) \in 0 .. N - 1 /\ ID!Place(y, B) \in 0 .. B - 1
        BY <1>4, <2>2, DistributionAssumption, ID!PlaceAndHolder
      <4>2. index = -1
        BY <3>1 DEF RoundInv
      <4>3. run' = 1
        BY <2>1, <2>2, <4>1, <4>2
      <4>4. QED
        BY <4>1, <4>3
    <3>2. CASE frame > 0
      <4> DEFINE w == frame + currentOffset - 1
      <4>1. w \in Nat /\ w + 1 = y
        BY <1>4, <3>2
      <4>2. index = ID!Holder(w, B, N) /\ (N > 1 => run <= ID!Place(w, B) + 1)
        BY <2>3, <3>2 DEF RoundOf
      <4>3. Target = ID!Holder(w + 1, B, N)
        BY <2>2, <4>1
      <4> HIDE DEF w, y
      <4>4. N > 1 => (IF Target = index THEN run + 1 ELSE 1) <= ID!Place(w + 1, B) + 1
        BY <1>4, <4>1, <4>2, <4>3, DistributionAssumption, ID!NextRun
      <4>5. QED
        BY <2>1, <4>1, <4>4
    <3>3. QED
      BY <1>4, <3>1, <3>2
  <2>8. lost' = 0 => ID!Dealt(num_frames_consumed', y, currentOffset', B, N)
    BY <2>1, <2>3, <2>6 DEF RoundOf
  <2>9. RoundOf(currentOffset)'
    BY <1>1, <2>1, <2>2, <2>5, <2>6, <2>7, <2>8 DEF RoundOf
  <2>10. currentOffset' \in Nat
    BY <1>4, <2>1
  <2>11. (frame = 0 => index = -1 /\ run = 0)'
    BY <2>5
  <2>12. QED
    BY <1>3, <2>1, <2>5, <2>9, <2>10, <2>11 DEF RoundInv
<1>10. CASE RxWrite \/ RxCreateRoot \/ RxMkdir \/ RxOpen \/ RxRename
  <2>1. /\ UNCHANGED <<currentOffset, frame, index, num_frames_consumed, run, lost, handling>>
        /\ rpc \in {"part", "create", "mkdir", "open", "rename"}
        /\ rpc' \in {"part", "create", "mkdir", "open", "rename"}
    BY <1>10 DEF RxWrite, RxCreateRoot, RxMkdir, RxOpen, RxRename, RxInFile, seriesVars
  <2>2. QED
    BY <1>1, <1>3, <2>1, RoundKept DEF Chosen
<1>11. CASE RxGiveUp
  <2>1. /\ UNCHANGED <<currentOffset, frame, index, num_frames_consumed, run>>
        /\ lost' = lost + 1 /\ rpc = "mkdir" /\ rpc' = "idle"
    BY <1>11 DEF RxGiveUp, RxInFile, seriesVars
  <2>2. lost' # 0 /\ ~Chosen'
    BY <1>4, <2>1 DEF Chosen
  <2>3. RoundOf(currentOffset)
    BY <2>1 DEF RoundInv
  <2>4. RoundOf(currentOffset)'
    BY <1>1, <2>1, <2>2, <2>3 DEF RoundOf
  <2>5. (frame = 0 => index = -1 /\ run = 0)' /\ currentOffset' \in Nat
    BY <1>4, <2>1 DEF RoundInv
  <2>6. QED
    BY <1>3, <2>1, <2>2, <2>4, <2>5 DEF RoundInv
<1>12. CASE RxSend
  <2>1. /\ UNCHANGED <<currentOffset, frame, index, run, lost>>
        /\ rpc = "part" /\ rpc' = "idle"
        /\ IF handling = "image" THEN CountImage(index) ELSE UNCHANGED num_frames_consumed
    BY <1>12 DEF RxSend
  <2>2. RoundOf(currentOffset) /\ ~Chosen'
    BY <2>1 DEF RoundInv, Chosen
  <2>3. (frame = 0 => index = -1 /\ run = 0)' /\ currentOffset' \in Nat
    BY <1>4, <2>1 DEF RoundInv
  <2>4. CASE handling # "image"
    <3>1. ~Chosen /\ UNCHANGED num_frames_consumed
      BY <2>1, <2>4 DEF Chosen
    <3>2. Counted(currentOffset)' = Counted(currentOffset)
      BY <2>1, <2>2, <3>1 DEF Counted
    <3>3. RoundOf(currentOffset)'
      BY <1>1, <2>1, <2>2, <3>1, <3>2 DEF RoundOf
    <3>4. QED
      BY <1>3, <2>1, <2>2, <2>3, <3>3 DEF RoundInv
  <2>5. CASE handling = "image"
    <3> DEFINE w == frame + currentOffset - 1
    <3>1. Chosen /\ frame > 0
      BY <2>1, <2>5 DEF Chosen, RoundInv
    <3>2. w \in Nat /\ Counted(currentOffset) = w /\ Counted(currentOffset)' = w + 1
      BY <1>4, <2>1, <2>2, <3>1 DEF Counted
    <3>3. index = ID!Holder(w, B, N)
      BY <2>2, <3>1 DEF RoundOf
    <3>4. num_frames_consumed'
            = [num_frames_consumed EXCEPT ![ID!Holder(w, B, N)] = @ + 1]
      BY <2>1, <2>5, <3>3 DEF CountImage
    <3>5. lost' = 0 => ID!Dealt(num_frames_consumed, w, currentOffset, B, N)
      BY <2>1, <2>2, <3>2 DEF RoundOf
    <3>6. lost' = 0 => ID!Dealt(num_frames_consumed', w + 1, currentOffset, B, N)
      <4>1. SUFFICES ASSUME lost' = 0
                     PROVE  ID!Dealt(num_frames_consumed', w + 1, currentOffset, B, N)
        OBVIOUS
      <4>2. ID!Dealt(num_frames_consumed, w, currentOffset, B, N)
        BY <3>5, <4>1
      <4> HIDE DEF w
      <4>3. ID!Dealt([num_frames_consumed EXCEPT ![ID!Holder(w, B, N)] = @ + 1], w + 1,
                     currentOffset, B, N)
        BY <1>4, <3>2, <4>2, DistributionAssumption, ID!DealtNext
      <4>4. QED
        BY <3>4, <4>3
    <3>7. RoundOf(currentOffset)'
      BY <1>1, <2>1, <2>2, <3>2, <3>6 DEF RoundOf
    <3>8. QED
      BY <1>3, <2>1, <2>2, <2>3, <3>7 DEF RoundInv
  <2>6. QED
    BY <2>4, <2>5
<1>13. QED
  BY <1>5, <1>6, <1>7, <1>8, <1>9, <1>10, <1>11, <1>12 DEF Rx

LEMMA RoundNext ==
    ASSUME Types, RoundInv, [AcqNext]_acqVars
    PROVE  Types' /\ RoundInv'
<1>1. Types'
  BY TypesNext
<1>2. CASE UNCHANGED acqVars
  <2>1. /\ UNCHANGED <<currentOffset, block_size, frame, index, num_frames_consumed, run>>
        /\ UNCHANGED <<lost, plan, mpc, command, queue, rpc, handling>>
    BY <1>2 DEF acqVars, seriesVars, clientVars, mainVars, rxVars
  <2>2. /\ BlocksFirst(plan)' /\ (Resizing => Fresh)' /\ (Chosen' <=> Chosen)
        /\ (rpc \in {"offset", "reset", "acq"} => handling = "header")'
        /\ (rpc = "choose" => handling = "image")'
    BY <2>1 DEF RoundInv, BlocksFirst, Resizing, Fresh, Chosen
  <2>3. QED
    BY <1>1, <2>1, <2>2, RoundKept
<1>3. CASE AcqNext
  BY <1>1, <1>3, RoundClient, RoundMain, RoundRx DEF AcqNext
<1>4. QED
  BY <1>1, <1>2, <1>3

LEMMA RoundAlways ==
    ASSUME \A steps \in Plans : BlocksFirst(steps)
    PROVE  AcqSpec => [](Types /\ RoundInv)
<1>1. AcqInit => Types /\ RoundInv
  BY TypesInit, RoundInit
<1>2. Types /\ RoundInv /\ [AcqNext]_acqVars => (Types /\ RoundInv)'
  BY RoundNext
<1>3. QED
  BY <1>1, <1>2, PTL DEF AcqSpec

\* Over any number of series with any offsets and lengths, if the block sizes of a
\* plan are configured before its first series, no consumer gets ahead of another by
\* more than a block of images until an image is given up.
THEOREM BalancedUnlessLostAlways ==
    ASSUME \A steps \in Plans : BlocksFirst(steps)
    PROVE  AcqSpec => []BalancedUnlessLost
<1>1. Types /\ RoundInv => BalancedUnlessLost
  <2> SUFFICES ASSUME Types, RoundInv, lost = 0, NEW c \in Consumers, NEW d \in Consumers
               PROVE  num_frames_consumed[c] - num_frames_consumed[d] <= block_size
    BY DEF BalancedUnlessLost, Balanced
  <2>1. PICK offset \in Nat :
            ID!Dealt(num_frames_consumed, Counted(offset), offset, block_size, NumConsumers)
    BY DEF RoundInv, RoundOf
  <2>2. Counted(offset) \in Nat
    BY RoundNumbers DEF RoundInv, Counted
  <2>3. block_size \in Nat \ {0} /\ NumConsumers \in Nat \ {0}
        /\ c \in 0 .. NumConsumers - 1 /\ d \in 0 .. NumConsumers - 1
    BY RoundNumbers DEF Consumers
  <2>4. QED
    BY <2>1, <2>2, <2>3, DistributionAssumption, ID!DealtBalanced
<1>2. QED
  BY <1>1, RoundAlways, PTL

\* Under the same condition no consumer gets more than a block of images in a row,
\* given up images included.
THEOREM BlocksStayTogetherAlways ==
    ASSUME \A steps \in Plans : BlocksFirst(steps)
    PROVE  AcqSpec => []BlocksStayTogether
<1>1. Types /\ RoundInv => BlocksStayTogether
  <2> SUFFICES ASSUME Types, RoundInv, NumConsumers > 1 PROVE run <= block_size
    BY DEF BlocksStayTogether
  <2>1. frame \in Nat /\ run \in Nat /\ block_size \in Nat \ {0} /\ NumConsumers \in Nat \ {0}
    BY RoundNumbers
  <2>2. CASE frame = 0
    BY <2>1, <2>2 DEF RoundInv
  <2>3. CASE frame > 0
    <3>1. PICK offset \in Nat : RoundOf(offset)
      BY DEF RoundInv
    <3> DEFINE w == frame + offset - 1
    <3>2. run <= ID!Place(w, block_size) + 1
      BY <2>3, <3>1 DEF RoundOf
    <3>3. w \in Nat
      BY <2>1, <2>3
    <3> HIDE DEF w
    <3>4. ID!Place(w, block_size) \in 0 .. block_size - 1
      BY <2>1, <3>3, DistributionAssumption, ID!PlaceAndHolder
    <3>5. QED
      BY <2>1, <3>2, <3>4
  <2>4. QED
    BY <2>1, <2>2, <2>3
<1>2. QED
  BY <1>1, RoundAlways, PTL

\* Under the same condition the consumer changes to the next rank, and only between
\* two blocks, whatever the threads do in between.
THEOREM NextConsumerAlways ==
    ASSUME \A steps \in Plans : BlocksFirst(steps)
    PROVE  AcqSpec => NextConsumerAtBlockEnd
<1> DEFINE Step == index' # index /\ index # -1 /\ index' # -1 =>
              /\ index' = (index + 1) % NumConsumers
              /\ (frame + currentOffset) % block_size = 0
<1>1. Types /\ RoundInv /\ [AcqNext]_acqVars => [Step]_vars
  <2> SUFFICES ASSUME Types, RoundInv, [AcqNext]_acqVars,
                      index' # index, index # -1, index' # -1
               PROVE  /\ index' = (index + 1) % NumConsumers
                      /\ (frame + currentOffset) % block_size = 0
    OBVIOUS
  <2>1. RxChoose
    BY DEF AcqNext, acqVars, seriesVars, Client, ClientConfigures, ClientArms, ClientAwaits,
       Main, MainOffset, MainAssign, MainAssigned, MainCache, MainBlock, MainRemove,
       MainEnter, MainUnlink, MainRmdir, RemoveUnchanged, MainUnchanged,
       Rx, RxTake, RxOffset, RxReset, ResetCounters, RxAcquisition,
       RxWrite, RxCreateRoot, RxMkdir, RxGiveUp, RxOpen, RxRename, RxSend, RxInFile
  <2>2. index' = Target /\ rpc = "choose"
    BY <2>1 DEF RxChoose, ChooseConsumer
  <2>3. /\ frame \in Nat /\ run \in Nat /\ currentOffset \in Nat
        /\ block_size \in Nat \ {0} /\ NumConsumers \in Nat \ {0}
    BY RoundNumbers
  <2>4. frame > 0 /\ RoundOf(currentOffset)
    BY <2>2, <2>3 DEF RoundInv
  <2> DEFINE w == frame + currentOffset - 1
  <2>5. w \in Nat /\ w + 1 = frame + currentOffset
    BY <2>3, <2>4
  <2>6. /\ index = ID!Holder(w, block_size, NumConsumers)
        /\ NumConsumers > 1 => run <= ID!Place(w, block_size) + 1
    BY <2>4 DEF RoundOf
  <2>7. Target = ID!Holder(w + 1, block_size, NumConsumers)
    <3>1. Target = ID!ConsumerIndex(frame, currentOffset, block_size, NumConsumers)
      BY DEF Target, ConsumerIndex, CRem, CDiv, ID!ConsumerIndex, ID!CRem, ID!CDiv
    <3>2. QED
      BY <2>3, <2>5, <3>1, DistributionAssumption, ID!TargetIsHolder
  <2> HIDE DEF w
  <2>8. index' = (index + 1) % NumConsumers /\ ID!Place(w + 1, block_size) = 0
    BY <2>2, <2>3, <2>5, <2>6, <2>7, DistributionAssumption, ID!NextRun
  <2>9. QED
    BY <2>5, <2>8 DEF ID!Place
<1>2. QED
  BY <1>1, RoundAlways, PTL DEF AcqSpec, NextConsumerAtBlockEnd
=============================================================================
