------------------------------ MODULE Replica ------------------------------
(***************************************************************************)
(* A replica and the uploads it serves: the life of the process            *)
(* (ServiceLifecycle) composed with the handlers of POST /upload-new       *)
(* (FilesStore), over stores that outlive it.                              *)
(*                                                                         *)
(* The handlers are goroutines of the process: they are started by its     *)
(* HTTP server while that accepts requests, Shutdown waits for them, and   *)
(* they end, wherever they are, when main does.  A new process may then be *)
(* started; it finds in the stores what the old one left there.            *)
(***************************************************************************)
EXTENDS ServiceLifecycle, Bucket

CONSTANTS
  Paths, Handlers, PathOf, TotalChunks, ChunkNumbers,
  MaxFaults,      (* these six as in FilesStore                           *)
  MaxStarts       (* bound on how often the process is started            *)

ASSUME ReplicaAssumption ==
  /\ MaxStarts \in Nat \ {0}
  /\ IsFiniteSet(Handlers)
  /\ PathOf \in [Uploads -> Paths] /\ TotalChunks \in [Uploads -> Chunks]
  /\ ChunkNumbers \in [Uploads -> SUBSET Chunks]
  /\ MaxFaults \in Nat

VARIABLES
  pending, object, versions, meta, pc, job, etag, answer, faults,
  starts,         (* how often the process was started                    *)
  unclean         (* history: a process ended other than by a clean Close *)

processVars == vars
storeVars == <<pending, object, versions, meta, pc, job, etag, answer, faults>>
replicaVars == <<processVars, storeVars, starts, unclean>>

Store == INSTANCE FilesStore WITH Readers <- {}, view <- <<>>

Busy == {h \in Handlers : pc[h] # "idle"}

ReplicaInit == Init /\ Store!Init /\ starts = 1 /\ unclean = FALSE

-----------------------------------------------------------------------------
(* The HTTP server starts a handler for a request it accepts.              *)
Accept(h, u, n) ==
  /\ Arrive
  /\ Store!Receive(h, u, n)
  /\ UNCHANGED <<starts, unclean>>

(* As if the request were finished first, and its upload in the background.*)
HandleInBackground(h) ==
  /\ Running
  /\ Store!UploadFile(h)
  /\ IF pc[h] = "upload" THEN Finish ELSE UNCHANGED processVars
  /\ UNCHANGED <<starts, unclean>>

(* The next call of a handler; the request is finished with its answer.    *)
Handle(h) ==
  /\ Running
  /\ Store!UploadFile(h)
  /\ IF pc'[h] = "idle" THEN Finish ELSE UNCHANGED processVars
  /\ UNCHANGED <<starts, unclean>>

(* Handlers do not outlive main; their clients get no answer.              *)
CutOff ==
  /\ pc' = [h \in Handlers |-> "idle"]
  /\ etag' = [h \in Handlers |-> Blank]
  /\ answer' = [h \in Handlers |-> IF h \in Busy THEN 0 ELSE answer[h]]
  /\ UNCHANGED <<pending, object, versions, meta, job, faults>>

(* A step of the process, and what becomes of its handlers.                *)
Process(A) ==
  /\ A
  /\ IF main' = "exited"
     THEN CutOff /\ unclean' = (unclean \/ outcome' # "clean")
     ELSE UNCHANGED <<storeVars, unclean>>
  /\ UNCHANGED starts

(* The scheduler starts the service again.                                 *)
Restart ==
  /\ ~Running /\ starts < MaxStarts
  /\ starts' = starts + 1
  /\ main' = "config" /\ outcome' = "none"
  /\ serviceList' = {} /\ healthCheck' = "none"
  /\ server' = "none" /\ listeners' = "open" /\ requests' = 0
  /\ svcErrors' = 0 /\ signals' = 0
  /\ closer' = "none" /\ ctx' = "none" /\ hasShutdownError' = FALSE
  /\ UNCHANGED <<storeVars, unclean>>

ReplicaNext ==
  \/ \E h \in Handlers :
       Handle(h) \/ \E u \in Uploads, n \in Chunks : Accept(h, u, n)
  \/ Process(Run \/ Serve \/ Signal \/ Select)
  \/ Process(Closer \/ Timeout \/ CloseReturns)
  \/ Restart

ReplicaSpec == ReplicaInit /\ [][ReplicaNext]_replicaVars

(* As in the two parts: handlers go on, main does, errors are handed over  *)
(* and the timer fires.  Nothing is asked of Shutdown and health checks.   *)
ReplicaFairness ==
  /\ \A h \in Handlers : WF_replicaVars(Handle(h))
  /\ WF_replicaVars(Process(Run)) /\ WF_replicaVars(Process(SendError))
  /\ WF_replicaVars(Process(Select)) /\ WF_replicaVars(Process(Timeout))
  /\ WF_replicaVars(Process(CloseReturns))

FairReplica == ReplicaSpec /\ ReplicaFairness

-----------------------------------------------------------------------------
(* Properties.                                                             *)

(* What Shutdown waits for is the uploads: as many requests are open as    *)
(* handlers are between Receive and their answer.                          *)
RequestsAreHandlers == Running => requests = Cardinality(Busy)

(* A deployment strands no file: as long as processes end with a clean     *)
(* Close and no call fails, every registered file is UPLOADED or a handler *)
(* of the living process is about to mark it.                              *)
CleanExitStrandsNothing == ~unclean => Store!CreatedHasFinisher

(* A file that is alone on its path, its chunks numbered from 1 to their   *)
(* total, is stored as it was sent, also when the process ended between    *)
(* its chunks and another took the rest.                                   *)
LoneFileIsSentFile == Store!LoneFileIsSentFile

(* Processes that end in the middle of uploads, and others that take over, *)
(* keep the promises of the catalogue.                                     *)
ImplementsCatalogue == Store!ImplementsCatalogue

(* Nor does it take anything back when it is stopped and started.          *)
NothingIsTakenBack == Store!NothingIsTakenBack

(* In the end only failed calls and processes that did not close cleanly   *)
(* leave a file CREATED.                                                   *)
OnlyUncleanExitsStrandFiles ==
  \A p \in Paths : meta[p].state = "CREATED" ~>
    (meta[p].state = "UPLOADED" \/ faults > 0 \/ unclean)

=============================================================================
