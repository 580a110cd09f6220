---------------------------- MODULE ReplicaProofs ----------------------------
(***************************************************************************)
(* Proofs about Replica, for every set of uploads and handlers, and however*)
(* often the process is started: what is proved of the process and of the  *)
(* handlers apart holds of the two together, restarts included.            *)
(***************************************************************************)
EXTENDS Replica, ServiceLifecycleProofs, FiniteSetTheorems

(* The theorems of FilesStore, about the stores of this replica.           *)
StoreP == INSTANCE FilesStoreProofs WITH Readers <- {}, view <- <<>>

-----------------------------------------------------------------------------
(* The definitions of the two instances of FilesStore are the same.        *)

LEMMA StoreAssumptions == StoreP!StoreAssumption /\ StoreP!BucketAssumption
BY ReplicaAssumption, BucketAssumption
   DEF StoreP!StoreAssumption, StoreP!BucketAssumption, StoreP!Chunks, Chunks

LEMMA SameUploadFile ==
  ASSUME NEW h PROVE Store!UploadFile(h) <=> StoreP!UploadFile(h)
<1> USE DEF Store!Upload, StoreP!Upload, Store!Path, StoreP!Path,
            Store!Total, StoreP!Total, Store!Parts, StoreP!Parts,
            Store!PutPart, StoreP!PutPart, Store!AllPartsUploaded,
            StoreP!AllPartsUploaded, Store!StoredParts, StoreP!StoredParts,
            Store!ChunkTooSmall, StoreP!ChunkTooSmall, Store!StoreParts,
            StoreP!StoreParts, Store!CompleteObject, StoreP!CompleteObject,
            Store!UploadPartEffect, StoreP!UploadPartEffect, Store!Proceed,
            StoreP!Proceed, Store!Answer, StoreP!Answer, Store!Fault,
            StoreP!Fault, Store!StatusOf, StoreP!StatusOf,
            Store!RegisterError, StoreP!RegisterError, Store!Registered,
            StoreP!Registered, Store!RegisterFile, StoreP!RegisterFile,
            Store!MarkFileUploaded, StoreP!MarkFileUploaded, Store!Blank,
            StoreP!Blank, Store!TrimQuotes, StoreP!TrimQuotes,
            Store!ETagHeader, StoreP!ETagHeader, Store!Chunks, StoreP!Chunks,
            Store!s3Vars, StoreP!s3Vars, Store!Cardinality, StoreP!Cardinality
<1>1. Store!StorePart(h) <=> StoreP!StorePart(h)
  BY DEF Store!StorePart, StoreP!StorePart
<1>2. Store!CompleteUpload(h) <=> StoreP!CompleteUpload(h)
  BY DEF Store!CompleteUpload, StoreP!CompleteUpload
<1>3. Store!RejectChunk(h) <=> StoreP!RejectChunk(h)
  BY DEF Store!RejectChunk, StoreP!RejectChunk
<1>4. Store!UploadPartFails(h) <=> StoreP!UploadPartFails(h)
  BY DEF Store!UploadPartFails, StoreP!UploadPartFails
<1>5. Store!Register(h) <=> StoreP!Register(h)
  BY DEF Store!Register, StoreP!Register
<1>6. Store!RegisterConflict(h) <=> StoreP!RegisterConflict(h)
  BY DEF Store!RegisterConflict, StoreP!RegisterConflict
<1>7. Store!RegisterFails(h) <=> StoreP!RegisterFails(h)
  BY DEF Store!RegisterFails, StoreP!RegisterFails
<1>8. Store!HeadObject(h) <=> StoreP!HeadObject(h)
  BY DEF Store!HeadObject, StoreP!HeadObject
<1>9. Store!HeadFails(h) <=> StoreP!HeadFails(h)
  BY DEF Store!HeadFails, StoreP!HeadFails
<1>10. Store!MarkUploaded(h) <=> StoreP!MarkUploaded(h)
  BY DEF Store!MarkUploaded, StoreP!MarkUploaded
<1>11. Store!MarkFails(h) <=> StoreP!MarkFails(h)
  BY DEF Store!MarkFails, StoreP!MarkFails
<1>12. QED
  BY <1>1, <1>2, <1>3, <1>4, <1>5, <1>6, <1>7, <1>8, <1>9, <1>10, <1>11
     DEF Store!UploadFile, StoreP!UploadFile

LEMMA SameReceive ==
  ASSUME NEW h, NEW u, NEW n PROVE Store!Receive(h, u, n) <=> StoreP!Receive(h, u, n)
BY DEF Store!Receive, StoreP!Receive, Store!s3Vars, StoreP!s3Vars

LEMMA SameInit == Store!Init <=> StoreP!Init
BY DEF Store!Init, StoreP!Init, Store!Blank, StoreP!Blank, Store!Chunks,
   StoreP!Chunks, Store!Unregistered, StoreP!Unregistered, Store!NoMessage,
   StoreP!NoMessage

LEMMA SameLoneFile == StoreP!LoneFileIsSentFile => LoneFileIsSentFile
BY DEF LoneFileIsSentFile, Store!LoneFileIsSentFile, StoreP!LoneFileIsSentFile,
   Store!Alone, StoreP!Alone, Store!Numbered, StoreP!Numbered, Store!Whole, StoreP!Whole, Store!Path, StoreP!Path,
   Store!Upload, StoreP!Upload, Store!Chunks, StoreP!Chunks

LEMMA SameFinisher ==
  /\ Store!CreatedHasFinisher <=> StoreP!CreatedHasFinisher
  /\ Store!CreatedHasFinisher' <=> StoreP!CreatedHasFinisher'
BY DEF Store!CreatedHasFinisher, StoreP!CreatedHasFinisher, Store!Finishing,
   StoreP!Finishing, Store!Path, StoreP!Path, Store!Upload, StoreP!Upload

-----------------------------------------------------------------------------
(* What a step of the replica is to its parts.                             *)

LEMMA AcceptSteps ==
  ASSUME NEW h \in Handlers, NEW u \in Uploads, NEW n \in Chunks, Accept(h, u, n)
  PROVE  Arrive /\ StoreP!Receive(h, u, n) /\ StoreP!Next /\ UNCHANGED unclean
<1>1. Arrive /\ StoreP!Receive(h, u, n) /\ UNCHANGED unclean
  BY SameReceive DEF Accept
<1>2. StoreP!Next
  BY <1>1 DEF StoreP!Next, StoreP!Chunks, Chunks
<1>3. QED
  BY <1>1, <1>2

LEMMA HandleSteps ==
  ASSUME NEW h \in Handlers, Handle(h)
  PROVE  /\ Running /\ StoreP!UploadFile(h) /\ StoreP!Next /\ UNCHANGED unclean
         /\ IF pc'[h] = "idle" THEN Finish ELSE UNCHANGED vars
<1>1. /\ Running /\ StoreP!UploadFile(h) /\ UNCHANGED unclean
      /\ IF pc'[h] = "idle" THEN Finish ELSE UNCHANGED vars
  BY SameUploadFile DEF Handle, processVars
<1>2. StoreP!Next
  BY <1>1 DEF StoreP!Next
<1>3. QED
  BY <1>1, <1>2

(* The process itself: it neither takes requests nor answers them.         *)
ProcessStep == /\ Next /\ Running /\ UNCHANGED requests
               /\ IF main' = "exited"
                  THEN CutOff /\ unclean' = (unclean \/ outcome' # "clean")
                  ELSE UNCHANGED <<storeVars, unclean>>

LEMMA ProcessSteps ==
  ASSUME \/ Process(Run \/ Serve \/ Signal \/ Select)
         \/ Process(Closer \/ Timeout \/ CloseReturns)
  PROVE  ProcessStep
<1>1. /\ Run \/ Serve \/ Signal \/ Select \/ Closer \/ Timeout \/ CloseReturns
      /\ IF main' = "exited"
         THEN CutOff /\ unclean' = (unclean \/ outcome' # "clean")
         ELSE UNCHANGED <<storeVars, unclean>>
  BY DEF Process
<1>2. Running /\ UNCHANGED requests
  <2> USE DEF Running, Continue, Exit, serverVars
  <2>1. CASE Run
    BY <2>1 DEF Run, GetConfig, GetS3Uploaded, GetS3StaticFileUploader,
       GetHealthCheck, RegisterCheckers, StartService, RunFails
  <2>2. CASE Serve \/ Signal \/ Select
    BY <2>2 DEF Serve, Listen, ListenAndServeReturns, SendError, Signal, Select,
       ReceiveError, ReceiveSignal
  <2>3. CASE Closer \/ Timeout \/ CloseReturns
    BY <2>3 DEF Closer, StopHealthCheck, Shutdown, ShutdownReturns, ShutdownFails,
       Cancel, Timeout, CloseReturns
  <2>4. QED
    BY <1>1, <2>1, <2>2, <2>3
<1>3. Next
  BY <1>1 DEF Next
<1>4. QED
  BY <1>1, <1>2, <1>3 DEF ProcessStep

LEMMA ReplicaSteps ==
  ASSUME [ReplicaNext]_replicaVars
  PROVE  \/ \E h \in Handlers :
              Handle(h) \/ \E u \in Uploads, n \in Chunks : Accept(h, u, n)
         \/ ProcessStep
         \/ Restart
         \/ UNCHANGED replicaVars
BY ProcessSteps DEF ReplicaNext

-----------------------------------------------------------------------------
(* The process.                                                            *)

LEMMA LifecycleInit == ASSUME ReplicaInit PROVE Inv
BY InitType, InitRest DEF ReplicaInit, Inv, Rest

(* A process that is started again begins where the first began.           *)
LEMMA RestartBegins == ASSUME Restart PROVE Inv'
<1>1. /\ main' = "config" /\ outcome' = "none"
      /\ serviceList' = {} /\ healthCheck' = "none"
      /\ server' = "none" /\ listeners' = "open" /\ requests' = 0
      /\ svcErrors' = 0 /\ signals' = 0
      /\ closer' = "none" /\ ctx' = "none" /\ hasShutdownError' = FALSE
  BY DEF Restart
<1>2. TypeOK'
  <2>1. 0 \in 0 .. MaxRequests /\ 0 \in 0 .. SignalsCap
    BY LifecycleAssumption DEF SignalsCap
  <2>2. MainTypes' /\ CloserTypes'
    BY <1>1 DEF MainTypes, CloserTypes
  <2>3. ServerTypes'
    BY <1>1, <2>1 DEF ServerTypes
  <2>4. QED
    BY <2>2, <2>3 DEF TypeOK
<1>3. Rest'
  BY <1>1 DEF Rest, Order, HealthCheckStopsFirst, CleanExitIsDrained, FailedRunStartsNothing
<1>4. QED
  BY <1>2, <1>3 DEF Inv, Rest

(* A step of the replica is to its process one of its own, or a restart.   *)
LEMMA LifecycleSteps ==
  ASSUME [ReplicaNext]_replicaVars
  PROVE  [Next]_vars \/ Restart
<1>1. ASSUME NEW h \in Handlers, Handle(h) PROVE [Next]_vars
  BY <1>1, HandleSteps DEF Next
<1>2. ASSUME NEW h \in Handlers, NEW u \in Uploads, NEW n \in Chunks, Accept(h, u, n)
      PROVE  [Next]_vars
  BY <1>2 DEF Accept, Next
<1>3. ASSUME ProcessStep PROVE [Next]_vars
  BY <1>3 DEF ProcessStep
<1>4. ASSUME UNCHANGED replicaVars PROVE [Next]_vars
  BY <1>4 DEF replicaVars, processVars
<1>5. QED
  BY <1>1, <1>2, <1>3, <1>4, ReplicaSteps

LEMMA LifecycleStep == ASSUME Inv, [ReplicaNext]_replicaVars PROVE Inv'
BY LifecycleSteps, RestartBegins, InvStep

-----------------------------------------------------------------------------
(* The stores and the handlers.                                            *)

LEMMA StoreInit ==
  ASSUME ReplicaInit PROVE StoreP!Init /\ StoreP!Inv /\ StoreP!CreatedHasFinisher
<1>1. StoreP!Init
  BY SameInit DEF ReplicaInit
<1>2. StoreP!Inv
  BY <1>1, StoreAssumptions, StoreP!InitInv
<1>3. StoreP!CreatedHasFinisher
  BY <1>1 DEF StoreP!Init, StoreP!CreatedHasFinisher, StoreP!Unregistered
<1>4. QED
  BY <1>1, <1>2, <1>3

(* When the handlers are cut off, what they have stored and recorded stays,*)
(* and no answer is given that promises more.                              *)
LEMMA CutOffKeeps == ASSUME StoreP!Inv, CutOff PROVE StoreP!Inv'
<1> USE DEF StoreP!Inv
<1>1. /\ pc' = [h \in Handlers |-> "idle"]
      /\ etag' = [h \in Handlers |-> Blank]
      /\ answer' = [h \in Handlers |-> IF h \in Busy THEN 0 ELSE answer[h]]
      /\ UNCHANGED <<pending, object, versions, meta, job, faults>>
  BY DEF CutOff
<1>2. Blank \in StoreP!Objects
  BY StoreAssumptions, StoreP!BlankType DEF StoreP!Blank, Blank, StoreP!Chunks, Chunks
<1>3. StoreP!TypeOK'
  BY <1>1, <1>2 DEF StoreP!TypeOK
<1>4. StoreP!BucketInv' /\ StoreP!UploadedEtagWasStored'
  BY <1>1 DEF StoreP!BucketInv, StoreP!UploadedEtagWasStored, StoreP!Registered
<1>5. StoreP!ProgressInv' /\ StoreP!OneFinisher'
  BY <1>1 DEF StoreP!ProgressInv, StoreP!OneFinisher, StoreP!Finishing
<1>6. ASSUME NEW h \in Handlers, answer'[h] # 0 PROVE answer'[h] = answer[h]
  BY <1>1, <1>6
<1>7. StoreP!CreatedIsUploaded' /\ StoreP!AckedChunkArrived' /\ StoreP!ConflictIsRegistered'
  BY <1>1, <1>6 DEF StoreP!CreatedIsUploaded, StoreP!AckedChunkArrived,
     StoreP!ConflictIsRegistered, StoreP!Path, StoreP!Upload, StoreP!Arrived,
     StoreP!Stored, StoreP!Registered
<1>8. StoreP!StatusInv' /\ StoreP!StatusFindsObject'
  BY DEF StoreP!StatusInv, StoreP!StatusFindsObject
<1>9. QED
  BY <1>3, <1>4, <1>5, <1>7, <1>8

LEMMA StoreOrCutOff ==
  ASSUME [ReplicaNext]_replicaVars
  PROVE  [StoreP!Next]_(StoreP!vars) \/ CutOff
<1>1. ASSUME NEW h \in Handlers, Handle(h) PROVE StoreP!Next
  BY <1>1, HandleSteps
<1>2. ASSUME NEW h \in Handlers, NEW u \in Uploads, NEW n \in Chunks, Accept(h, u, n)
      PROVE  StoreP!Next
  BY <1>2, AcceptSteps
<1>3. ASSUME UNCHANGED storeVars PROVE UNCHANGED StoreP!vars
  BY <1>3 DEF storeVars, StoreP!vars
<1>4. ASSUME ProcessStep PROVE CutOff \/ UNCHANGED StoreP!vars
  BY <1>3, <1>4 DEF ProcessStep
<1>5. ASSUME Restart \/ UNCHANGED replicaVars PROVE UNCHANGED StoreP!vars
  BY <1>3, <1>5 DEF Restart, replicaVars
<1>6. QED
  BY <1>1, <1>2, <1>4, <1>5, ReplicaSteps

LEMMA StoreStep == ASSUME StoreP!Inv, [ReplicaNext]_replicaVars PROVE StoreP!Inv'
BY StoreOrCutOff, CutOffKeeps, StoreAssumptions, StoreP!InvStep

(* Parts and objects stay what they are when the handlers are cut off.     *)
LEMMA PartsAreSent ==
  ASSUME StoreP!TypeOK, StoreP!PartsInv, [ReplicaNext]_replicaVars
  PROVE  StoreP!PartsInv'
<1>1. CASE [StoreP!Next]_(StoreP!vars)
  BY <1>1, StoreAssumptions, StoreP!PartsStep
<1>2. CASE CutOff
  BY <1>2 DEF CutOff, StoreP!PartsInv, StoreP!Total, StoreP!Upload, StoreP!SentTo
<1>3. QED
  BY <1>1, <1>2, StoreOrCutOff

-----------------------------------------------------------------------------
(* The process and its handlers.                                           *)

(* A process that has exited has left no handler behind.                   *)
ExitedIsIdle == ~ Running => Busy = {}

(* The inductive invariant of the composition.                             *)
ReplicaInv == Inv /\ StoreP!Inv /\ RequestsAreHandlers /\ ExitedIsIdle

LEMMA BusyFinite == IsFiniteSet(Busy)
BY ReplicaAssumption, FS_Subset DEF Busy

LEMMA BusyCut == ASSUME CutOff PROVE Busy' = {}
BY DEF CutOff, Busy

(* One more handler, one more request.                                     *)
LEMMA BusyAccept ==
  ASSUME StoreP!TypeOK, RequestsAreHandlers, Running, NEW h \in Handlers,
         NEW u \in Uploads, NEW n \in Chunks, Accept(h, u, n)
  PROVE  RequestsAreHandlers'
<1>1. pc[h] = "idle" /\ pc' = [pc EXCEPT ![h] = "upload"] /\ requests' = requests + 1
  BY AcceptSteps DEF StoreP!Receive, Arrive
<1>2. Busy' = Busy \cup {h} /\ h \notin Busy
  BY <1>1 DEF Busy, StoreP!TypeOK
<1>3. Cardinality(Busy') = Cardinality(Busy) + 1
  BY <1>2, BusyFinite, FS_AddElement
<1>4. QED
  BY <1>1, <1>3 DEF RequestsAreHandlers

(* A request is finished by the step that idles its handler.               *)
LEMMA BusyHandle ==
  ASSUME StoreP!TypeOK, RequestsAreHandlers, Running, NEW h \in Handlers, Handle(h)
  PROVE  RequestsAreHandlers' /\ Running'
<1>1. PICK s : pc[h] # "idle" /\ pc' = [pc EXCEPT ![h] = s]
  BY HandleSteps, StoreAssumptions, StoreP!UploadFileSteps
<1>2. pc'[h] = s /\ \A k \in Handlers \ {h} : pc'[k] = pc[k]
  BY <1>1 DEF StoreP!TypeOK
<1>3. h \in Busy
  BY <1>1 DEF Busy
<1>4. CASE s = "idle"
  <2>1. Busy' = Busy \ {h}
    BY <1>2, <1>4 DEF Busy
  <2>2. Cardinality(Busy') = Cardinality(Busy) - 1
    BY <1>3, <2>1, BusyFinite, FS_RemoveElement
  <2>3. requests' = requests - 1 /\ main' = main
    BY <1>2, <1>4, HandleSteps DEF Finish
  <2>4. QED
    BY <2>2, <2>3 DEF RequestsAreHandlers, Running
<1>5. CASE s # "idle"
  <2>1. Busy' = Busy
    BY <1>2, <1>3, <1>5 DEF Busy
  <2>2. requests' = requests /\ main' = main
    BY <1>2, <1>5, HandleSteps DEF vars
  <2>3. QED
    BY <2>1, <2>2 DEF RequestsAreHandlers, Running
<1>6. QED
  BY <1>4, <1>5

LEMMA ReplicaInvInit == ReplicaInit => ReplicaInv
<1> SUFFICES ASSUME ReplicaInit PROVE ReplicaInv
  OBVIOUS
<1>1. Inv /\ StoreP!Inv
  BY LifecycleInit, StoreInit
<1>2. Running /\ requests = 0
  BY DEF ReplicaInit, Init, Running
<1>3. Busy = {}
  BY StoreInit DEF StoreP!Init, Busy
<1>4. RequestsAreHandlers
  BY <1>2, <1>3, FS_EmptySet DEF RequestsAreHandlers
<1>5. QED
  BY <1>1, <1>2, <1>4 DEF ReplicaInv, ExitedIsIdle

LEMMA ReplicaInvStep == ReplicaInv /\ [ReplicaNext]_replicaVars => ReplicaInv'
<1> SUFFICES ASSUME ReplicaInv, [ReplicaNext]_replicaVars PROVE ReplicaInv'
  OBVIOUS
<1> USE DEF ReplicaInv
<1>1. Inv' /\ StoreP!Inv'
  BY LifecycleStep, StoreStep
<1>2. StoreP!TypeOK
  BY DEF StoreP!Inv
<1>3. ASSUME NEW h \in Handlers, NEW u \in Uploads, NEW n \in Chunks, Accept(h, u, n)
      PROVE  RequestsAreHandlers' /\ ExitedIsIdle'
  <2>1. Running /\ Running'
    BY <1>3 DEF Accept, Arrive, Running
  <2>2. QED
    BY <1>2, <1>3, <2>1, BusyAccept DEF ExitedIsIdle
<1>4. ASSUME NEW h \in Handlers, Handle(h)
      PROVE  RequestsAreHandlers' /\ ExitedIsIdle'
  <2>1. Running
    BY <1>4, HandleSteps
  <2>2. QED
    BY <1>2, <1>4, <2>1, BusyHandle DEF ExitedIsIdle
<1>5. CASE ProcessStep /\ main' = "exited"
  <2>1. Busy' = {} /\ ~ Running'
    BY <1>5, BusyCut DEF ProcessStep, Running
  <2>2. QED
    BY <1>1, <2>1 DEF RequestsAreHandlers, ExitedIsIdle
<1>6. CASE ProcessStep /\ main' # "exited"
  <2>1. Running /\ Running' /\ requests' = requests /\ Busy' = Busy
    BY <1>6 DEF ProcessStep, Running, storeVars, Busy
  <2>2. QED
    BY <1>1, <2>1 DEF RequestsAreHandlers, ExitedIsIdle
<1>7. CASE Restart
  <2>1. ~ Running /\ Running' /\ requests' = 0 /\ Busy' = Busy
    BY <1>7 DEF Restart, Running, storeVars, Busy
  <2>2. Cardinality(Busy') = 0
    BY <2>1, FS_EmptySet DEF ExitedIsIdle
  <2>3. QED
    BY <1>1, <2>1, <2>2 DEF RequestsAreHandlers, ExitedIsIdle
<1>8. CASE UNCHANGED replicaVars
  <2>1. Running' = Running /\ requests' = requests /\ Busy' = Busy
    BY <1>8 DEF replicaVars, processVars, vars, storeVars, Running, Busy
  <2>2. QED
    BY <1>1, <2>1 DEF RequestsAreHandlers, ExitedIsIdle
<1>9. QED
  BY <1>1, <1>3, <1>4, <1>5, <1>6, <1>7, <1>8, ReplicaSteps

(* Clean exits leave nothing half done: there is no handler to cut off.    *)
LEMMA StrandsStep ==
  ASSUME ReplicaInv, CleanExitStrandsNothing, [ReplicaNext]_replicaVars
  PROVE  CleanExitStrandsNothing'
<1> USE DEF ReplicaInv, CleanExitStrandsNothing
<1> SUFFICES ASSUME ~ unclean' PROVE Store!CreatedHasFinisher'
  OBVIOUS
<1>1. ~ unclean
  BY ReplicaSteps, HandleSteps, AcceptSteps DEF ProcessStep, Restart, replicaVars
<1>2. StoreP!CreatedHasFinisher
  BY <1>1, SameFinisher
<1>3. ASSUME [StoreP!Next]_(StoreP!vars)
      PROVE  StoreP!CreatedHasFinisher'
  BY <1>2, <1>3, StoreAssumptions, StoreP!CreatedHasFinisherStep
<1>4. ASSUME UNCHANGED storeVars PROVE UNCHANGED StoreP!vars
  BY <1>4 DEF storeVars, StoreP!vars
<1>5. CASE ProcessStep /\ main' = "exited"
  <2>1. CutOff /\ outcome' = "clean" /\ requests' = requests /\ Running
    BY <1>5 DEF ProcessStep
  <2>2. requests = 0
    BY <2>1, LifecycleStep DEF Inv, CleanExitIsDrained
  <2>3. Busy = {}
    BY <2>1, <2>2, BusyFinite, FS_EmptySet DEF RequestsAreHandlers
  <2>4. ASSUME NEW h \in Handlers PROVE ~ StoreP!Finishing(h)
    BY <2>3 DEF Busy, StoreP!Finishing
  <2>5. StoreP!CreatedHasFinisher'
    BY <1>2, <2>1, <2>4 DEF StoreP!CreatedHasFinisher, CutOff
  <2>6. QED
    BY <2>5, SameFinisher
<1>6. CASE ~ (ProcessStep /\ main' = "exited")
  <2>1. [StoreP!Next]_(StoreP!vars)
    BY <1>4, <1>6, ReplicaSteps, HandleSteps, AcceptSteps
       DEF ProcessStep, Restart, replicaVars
  <2>2. QED
    BY <1>3, <2>1, SameFinisher
<1>7. QED
  BY <1>5, <1>6

-----------------------------------------------------------------------------
(* The theorems.                                                           *)

(* The invariants of the process and of the handlers hold together, however*)
(* often a process ends in the middle of uploads and another takes over.   *)
THEOREM ReplicaInvCorrect == ReplicaSpec => []ReplicaInv
BY ReplicaInvInit, ReplicaInvStep, PTL DEF ReplicaSpec

(* What is proved of one process holds of each of the processes that follow*)
(* one another.                                                            *)
THEOREM ProcessInvCorrect == ReplicaSpec => []Inv
<1>1. ReplicaInv => Inv
  BY DEF ReplicaInv
<1>2. QED
  BY <1>1, ReplicaInvCorrect, PTL

(* Shutdown waits for the uploads, since they are the requests.            *)
THEOREM RequestsAreHandlersCorrect == ReplicaSpec => []RequestsAreHandlers
<1>1. ReplicaInv => RequestsAreHandlers
  BY DEF ReplicaInv
<1>2. QED
  BY <1>1, ReplicaInvCorrect, PTL

(* Stopping and starting the service, if Close succeeds, strands no file.  *)
THEOREM CleanExitStrandsNothingCorrect == ReplicaSpec => []CleanExitStrandsNothing
<1>1. ReplicaInit => CleanExitStrandsNothing
  BY StoreInit, SameFinisher DEF CleanExitStrandsNothing
<1>2. ReplicaInv /\ CleanExitStrandsNothing /\ [ReplicaNext]_replicaVars
        => CleanExitStrandsNothing'
  BY StrandsStep
<1>3. QED
  BY <1>1, <1>2, ReplicaInvCorrect, PTL DEF ReplicaSpec

(* A lone file that was answered with 201 is stored as it was sent, by     *)
(* however many processes.                                                 *)
THEOREM LoneFileCorrect == ReplicaSpec => []LoneFileIsSentFile
<1>1. ReplicaInit => StoreP!PartsInv
  BY StoreInit, StoreAssumptions, StoreP!InitParts
<1>2. ReplicaInv /\ StoreP!PartsInv /\ [ReplicaNext]_replicaVars => StoreP!PartsInv'
  BY PartsAreSent DEF ReplicaInv, StoreP!Inv
<1>3. ReplicaInv /\ StoreP!PartsInv => LoneFileIsSentFile
  BY StoreAssumptions, StoreP!LoneFileSent, SameLoneFile DEF ReplicaInv
<1>4. QED
  BY <1>1, <1>2, <1>3, ReplicaInvCorrect, PTL DEF ReplicaSpec

-----------------------------------------------------------------------------
(* The replica implements FileCatalogue.                                   *)

LEMMA CatalogueInit == ReplicaInit => Store!Catalogue!Init
BY StoreInit, StoreAssumptions, StoreP!InitRefines
   DEF Store!Catalogue!Init, StoreP!Catalogue!Init, Store!Blank, StoreP!Blank,
       Store!Chunks, StoreP!Chunks

LEMMA SameCatalogueNext == Store!Catalogue!Next <=> StoreP!Catalogue!Next
BY DEF Store!Catalogue!Next, StoreP!Catalogue!Next,
       Store!Catalogue!Store, StoreP!Catalogue!Store,
       Store!Catalogue!Enter, StoreP!Catalogue!Enter,
       Store!Catalogue!Complete, StoreP!Catalogue!Complete,
       Store!Objects, StoreP!Objects, Store!Blank, StoreP!Blank,
       Store!Chunks, StoreP!Chunks

(* A step of a handler is one of the catalogue; the process, its exit and  *)
(* its restart change neither records nor objects.                         *)
LEMMA CatalogueStep ==
  ASSUME ReplicaInv, [ReplicaNext]_replicaVars
  PROVE  [Store!Catalogue!Next]_<<meta, versions>>
<1>1. ASSUME StoreP!Next
      PROVE  [StoreP!Catalogue!Next]_<<meta, versions>>
  BY <1>1, StoreAssumptions, StoreP!StepRefines DEF ReplicaInv
<1>2. ASSUME ProcessStep \/ Restart \/ UNCHANGED replicaVars
      PROVE  UNCHANGED <<meta, versions>>
  BY <1>2 DEF ProcessStep, CutOff, Restart, replicaVars, storeVars
<1>3. QED
  BY <1>1, <1>2, ReplicaSteps, HandleSteps, AcceptSteps, SameCatalogueNext

(* The promises of the catalogue are kept by processes that end in the     *)
(* middle of uploads and by those that take over.                          *)
THEOREM CatalogueImplemented == ReplicaSpec => ImplementsCatalogue
<1>1. ReplicaInv /\ [ReplicaNext]_replicaVars => [Store!Catalogue!Next]_<<meta, versions>>
  BY CatalogueStep
<1>2. QED
  BY CatalogueInit, ReplicaInvCorrect, <1>1, PTL
     DEF ReplicaSpec, ImplementsCatalogue, Store!ImplementsCatalogue, Store!Catalogue!Spec

CatalogueP == INSTANCE FileCatalogueProofs WITH catalogue <- meta, stored <- versions

(* A record, once UPLOADED, is the same for all the processes to come.     *)
THEOREM NothingIsTakenBackCorrect == ReplicaSpec => NothingIsTakenBack
<1> USE DEF Store!Objects, Objects, Store!Blank, Blank, Store!Chunks, Chunks
<1>1. Store!Catalogue!Init <=> CatalogueP!Init
  BY DEF Store!Catalogue!Init, CatalogueP!Init
<1>2. Store!Catalogue!Next <=> CatalogueP!Next
  BY DEF Store!Catalogue!Next, CatalogueP!Next, Store!Catalogue!Store,
     CatalogueP!Store, Store!Catalogue!Enter, CatalogueP!Enter,
     Store!Catalogue!Complete, CatalogueP!Complete
<1>3. [Store!Catalogue!Next]_<<meta, versions>> <=> [CatalogueP!Next]_<<meta, versions>>
  BY <1>2
<1>4. Store!Catalogue!Spec => CatalogueP!Spec
  BY <1>1, <1>3, PTL DEF Store!Catalogue!Spec, CatalogueP!Spec
<1>5. CatalogueP!Spec => CatalogueP!NothingIsTakenBack
  BY CatalogueP!NothingIsTakenBackCorrect
<1>6. CatalogueP!NothingIsTakenBack => Store!Catalogue!NothingIsTakenBack
  BY PTL DEF CatalogueP!NothingIsTakenBack, Store!Catalogue!NothingIsTakenBack
<1>7. QED
  BY <1>4, <1>5, <1>6, CatalogueImplemented, PTL
     DEF ImplementsCatalogue, Store!ImplementsCatalogue, NothingIsTakenBack,
         Store!NothingIsTakenBack

-----------------------------------------------------------------------------
(* The replica implements GracefulProcess.                                 *)

LEMMA RestartPromised == ASSUME Restart PROVE Promise!StartAgain
<1>1. main = "exited"
  BY DEF Restart, Running
<1>2. /\ main' = "config" /\ outcome' = "none" /\ requests' = 0
      /\ healthCheck' = "none"
  BY DEF Restart
<1>3. QED
  BY <1>1, <1>2 DEF Promise!StartAgain, Phase, Starting, Verdict

LEMMA ReplicaPromised ==
  ASSUME Inv, [ReplicaNext]_replicaVars
  PROVE  [Promise!Next]_(Promise!state)
BY LifecycleSteps, PromiseStep, RestartPromised DEF Promise!Next

(* The requests that the process promises to answer are uploads, and each  *)
(* start of the service makes the promise again.                           *)
THEOREM ReplicaKeepsPromise == ReplicaSpec => ImplementsProcess
<1>1. ReplicaInit => Promise!Init
  BY PromiseInit DEF ReplicaInit
<1>2. Inv /\ [ReplicaNext]_replicaVars => [Promise!Next]_(Promise!state)
  BY ReplicaPromised
<1>3. QED
  BY <1>1, <1>2, ProcessInvCorrect, PTL DEF ReplicaSpec, ImplementsProcess, Promise!Spec

=============================================================================
