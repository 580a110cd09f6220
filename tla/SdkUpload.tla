----------------------------- MODULE SdkUpload -----------------------------
(***************************************************************************)
(* The SDK's Client.Upload (sdk/upload.go) against the service: callers    *)
(* that cut a file into chunks and send them to /upload-new one after the  *)
(* other, and that may call again with the same file when a call fails.    *)
(*                                                                         *)
(* The service is FilesStore; each request of a caller is served by one of *)
(* its handlers, which goes on when the caller no longer waits for it.     *)
(***************************************************************************)
EXTENDS Bucket, Integers

CONSTANTS
  Paths, Handlers, PathOf, MaxFaults,     (* as in FilesStore              *)
  ChunkSize,      (* chunkSize, in bytes                                  *)
  SizeInBytes,    (* the size that an upload's metadata declares          *)
  ContentBytes,   (* the bytes its fileContent really has                 *)
  MaxCalls,       (* bound on the calls of Upload for one upload          *)
  NoHandler       (* a caller that waits for no answer                    *)

ASSUME SdkAssumption ==
  /\ PathOf \in [Uploads -> Paths]
  /\ MaxFaults \in Nat
  /\ ChunkSize \in Nat \ {0}
  /\ SizeInBytes \in [Uploads -> Int]
  /\ ContentBytes \in [Uploads -> Nat]
  /\ MaxCalls \in [Uploads -> Nat]
  /\ NoHandler \notin Handlers

VARIABLES
  pending, object, versions, meta, pc, job, etag, answer, faults,
  call            (* the latest call of Upload for each upload            *)

serverVars == <<pending, object, versions, meta, pc, job, etag, answer, faults>>
vars == <<pending, object, versions, meta, pc, job, etag, answer, faults, call>>

maxFileSize == ChunkSize * MaxChunks

(* Go's division, which truncates.                                         *)
Quotient(a, b) == IF a >= 0 THEN a \div b ELSE -((-a) \div b)

(* As if the last, shorter chunk were not counted.                         *)
FullChunks(u) == Quotient(SizeInBytes[u], ChunkSize)

totalChunks(u) == Quotient(SizeInBytes[u] + ChunkSize - 1, ChunkSize)

(* The resumableTotalChunks of the chunks that are sent, if there are any. *)
SentTotals ==
  [u \in Uploads |-> IF totalChunks(u) \in Chunks THEN totalChunks(u) ELSE 1]

(* Their resumableChunkNumbers: the loop counts from 1 to the total.       *)
SentNumbers == [u \in Uploads |-> 1 .. SentTotals[u]]

Server == INSTANCE FilesStore WITH
            TotalChunks <- SentTotals, ChunkNumbers <- SentNumbers,
            Readers <- {}, view <- <<>>

Results == {"none", "nil", "ErrFileTooLarge", "APIError", "error"}

Call == [pc : {"idle", "loop", "wait", "returned"},
         current : 1 .. MaxChunks + 1,          (* chunkInfo.Current       *)
         left : Nat,                            (* bytes not yet read      *)
         length : 0 .. ChunkSize,               (* of the chunk just sent  *)
         handler : Handlers \cup {NoHandler},   (* whose answer it awaits  *)
         result : Results,
         calls : Nat]

TypeOK == Server!TypeOK /\ call \in [Uploads -> Call]

Init ==
  /\ Server!Init
  /\ call = [u \in Uploads |->
               [pc |-> "idle", current |-> 1, left |-> ContentBytes[u],
                length |-> 0, handler |-> NoHandler, result |-> "none",
                calls |-> 0]]

-----------------------------------------------------------------------------
Return(u, err) ==
  call' = [call EXCEPT ![u].pc = "returned", ![u].handler = NoHandler,
                       ![u].result = err]

MayCall(u) == call[u].pc \in {"idle", "returned"} /\ call[u].calls < MaxCalls[u]

RefuseLarge(u) ==
  /\ MayCall(u)
  /\ SizeInBytes[u] > maxFileSize
  /\ call' = [call EXCEPT ![u].pc = "returned", ![u].result = "ErrFileTooLarge",
                          ![u].calls = @ + 1]
  /\ UNCHANGED serverVars

(* A caller that calls again opens its file again.                         *)
Begin(u) ==
  /\ MayCall(u)
  /\ SizeInBytes[u] <= maxFileSize
  /\ call' = [call EXCEPT ![u] =
                [pc |-> "loop", current |-> 1, left |-> ContentBytes[u],
                 length |-> 0, handler |-> NoHandler, result |-> "none",
                 calls |-> @.calls + 1]]
  /\ UNCHANGED serverVars

(* One round of the loop: chunkReader takes up to ChunkSize bytes of what  *)
(* is left, and Do sends them; a handler decodes the form, or refuses it.  *)
Least(a, b) == IF a < b THEN a ELSE b

ChunkLength(u) == Least(call[u].left, ChunkSize)

Free(h) == pc[h] = "idle" /\ \A v \in Uploads : call[v].handler # h

SendChunk(u, h) ==
  /\ call[u].pc = "loop" /\ call[u].current <= totalChunks(u)
  /\ Free(h)
  /\ Server!Receive(h, u, call[u].current) \/ Server!RejectForm(h)
  /\ call' = [call EXCEPT ![u].pc = "wait", ![u].handler = h,
                          ![u].length = ChunkLength(u),
                          ![u].left = @ - ChunkLength(u)]

(* The reader returns an error, or the request never gets through.         *)
SendFails(u) ==
  /\ call[u].pc = "loop" /\ call[u].current <= totalChunks(u)
  /\ Server!Fault
  /\ Return(u, "error")
  /\ UNCHANGED <<pending, object, versions, meta, pc, job, etag, answer>>

(* Do gives up waiting; the handler does not know and goes on.             *)
DoFails(u) ==
  /\ call[u].pc = "wait"
  /\ Server!Fault
  /\ Return(u, "error")
  /\ UNCHANGED <<pending, object, versions, meta, pc, job, etag, answer>>

Answered(u) == call[u].pc = "wait" /\ pc[call[u].handler] = "idle"

Accepted == {200, 201}

NextChunk(u) ==
  /\ Answered(u) /\ answer[call[u].handler] \in Accepted
  /\ call' = [call EXCEPT ![u].pc = "loop", ![u].handler = NoHandler,
                          ![u].current = @ + 1]
  /\ UNCHANGED serverVars

(* As if a chunk that is refused were sent again.                          *)
SendAgain(u) ==
  /\ Answered(u) /\ answer[call[u].handler] \notin Accepted
  /\ call' = [call EXCEPT ![u].pc = "loop", ![u].handler = NoHandler]
  /\ UNCHANGED serverVars

(* Any other status ends the call, with an APIError unless its body is not *)
(* the JSON expected; so does a connection that the server drops.          *)
ReturnError(u) ==
  /\ Answered(u) /\ answer[call[u].handler] \notin Accepted
  /\ \/ Return(u, "error")
     \/ answer[call[u].handler] # 0 /\ Return(u, "APIError")
  /\ UNCHANGED serverVars

ReturnNil(u) ==
  /\ call[u].pc = "loop" /\ call[u].current > totalChunks(u)
  /\ Return(u, "nil")
  /\ UNCHANGED serverVars

Handle(h) == (Server!UploadFile(h) \/ Server!Crash(h)) /\ UNCHANGED call

Upload(u) ==
  \/ \E h \in Handlers : SendChunk(u, h)
  \/ SendFails(u) \/ DoFails(u)
  \/ NextChunk(u) \/ ReturnError(u) \/ ReturnNil(u)

Next ==
  \/ \E u \in Uploads : RefuseLarge(u) \/ Begin(u) \/ Upload(u)
  \/ \E h \in Handlers : Handle(h)

Spec == Init /\ [][Next]_vars

(* A call that can go on does, and so does a handler.                      *)
Fairness ==
  /\ \A u \in Uploads : WF_vars(Upload(u))
  /\ \A h \in Handlers : WF_vars(Handle(h))

FairSpec == Spec /\ Fairness

-----------------------------------------------------------------------------
(* Properties.                                                             *)

(* No other upload of the path has begun.                                  *)
Alone(u) ==
  \A v \in Uploads \ {u} : PathOf[v] = PathOf[u] => call[v].calls = 0

Sent(u) == ContentBytes[u] - call[u].left

IsUploaded(u) ==
  meta[PathOf[u]].state = "UPLOADED" /\ meta[PathOf[u]].by = u

(* The first call for a path that nobody else has used yet returns nil     *)
(* only when its file is UPLOADED.                                         *)
FirstCallUploads ==
  \A u \in Uploads :
    call[u].result = "nil" /\ call[u].calls = 1 /\ Alone(u) /\ totalChunks(u) > 0
      => IsUploaded(u)

(* The uploads of the path that have begun are cut into as many chunks.    *)
Agreed(u) ==
  \A v \in Uploads : PathOf[v] = PathOf[u] /\ call[v].calls > 0 =>
    SentTotals[v] = SentTotals[u]

(* A call that has returned nil has every chunk number among the parts of  *)
(* its path or in the object that is there now, also when it repeats one   *)
(* that failed and while uploads with as many chunks replace the object.   *)
NilKeepsChunks ==
  \A u \in Uploads : call[u].result = "nil" /\ Agreed(u) =>
    \A n \in 1 .. totalChunks(u) : Server!Kept(PathOf[u], n)

(* The chunks sent are a prefix of the file, cut off or padded with empty  *)
(* chunks if it does not have the size declared.  If it has, none is       *)
(* empty, all but the last are full, as S3 wants them, and the call has    *)
(* sent every byte when it returns nil.                                    *)
ChunksAreTheFile ==
  \A u \in Uploads :
    /\ call[u].pc = "wait" =>
         /\ Sent(u) = Least(ContentBytes[u], call[u].current * ChunkSize)
         /\ SizeInBytes[u] = ContentBytes[u] =>
              /\ call[u].length > 0
              /\ call[u].length = ChunkSize \/ call[u].current = totalChunks(u)
    /\ call[u].result = "nil" /\ SizeInBytes[u] = ContentBytes[u] => call[u].left = 0

(* A file that is UPLOADED, by the only upload of its path that has begun  *)
(* yet, is stored as it was sent, chunk by chunk, however often its caller *)
(* has called and whatever failed: the end of what FirstCallUploads and    *)
(* ChunksAreTheFile begin.                                                 *)
StoredFileIsTheFile ==
  \A u \in Uploads : Alone(u) /\ IsUploaded(u) =>
    /\ object[PathOf[u]] = Server!Whole(u)
    /\ meta[PathOf[u]].etag = Server!Whole(u)

(* What is stored, or about to be, is of an upload that has begun.         *)
PartsAreOfCalls ==
  /\ \A h \in Handlers : pc[h] # "idle" => call[job[h].upload].calls > 0
  /\ \A p \in Paths : \A obj \in versions[p] \cup {pending[p]} :
       \A n \in StoredParts(obj) : call[obj[n]].calls > 0

(* The loop between two chunks; a call keeps to the chunks that there are. *)
LoopInv ==
  \A u \in Uploads :
    /\ call[u].pc = "idle" => call[u].current = 1 /\ call[u].calls = 0
    /\ call[u].pc # "idle" => call[u].calls > 0
    /\ call[u].result = "nil" => call[u].pc = "returned"
    /\ call[u].pc \in {"loop", "wait"} \/ call[u].result = "nil" =>
         SizeInBytes[u] <= maxFileSize
    /\ call[u].pc = "wait" => call[u].current <= totalChunks(u)
    /\ call[u].pc = "loop" =>
         Sent(u) = Least(ContentBytes[u], (call[u].current - 1) * ChunkSize)

(* The handler whose answer a call awaits serves its chunk, or has refused *)
(* the form, and is awaited by nobody else.                                *)
WaitInv ==
  \A u \in Uploads :
    LET h == call[u].handler IN
    /\ call[u].pc = "wait" <=> h # NoHandler
    /\ call[u].pc = "wait" =>
         /\ \/ job[h] = [upload |-> u, chunk |-> call[u].current]
            \/ pc[h] = "idle" /\ answer[h] \notin Accepted
         /\ \A v \in Uploads \ {u} : call[v].handler # h

(* The chunks before the current one have been stored, and all of them if  *)
(* nil was returned: as parts or in one of the objects there have been.    *)
PrefixArrived ==
  \A u \in Uploads : call[u].pc \in {"loop", "wait"} =>
    \A n \in Chunks : n < call[u].current => Server!Arrived(PathOf[u], n)

NilChunksArrived ==
  \A u \in Uploads : call[u].result = "nil" =>
    \A n \in 1 .. totalChunks(u) : Server!Arrived(PathOf[u], n)

(* During a first call that is alone, exactly the chunks sent so far wait  *)
(* in the bucket until the last one is in, and nobody else touches them.   *)
Waiting(u, k) ==
  /\ versions[PathOf[u]] = {}
  /\ StoredParts(pending[PathOf[u]]) = 1 .. k

FirstCall(u) ==
  LET c == call[u]  h == c.handler  last == totalChunks(u) IN
  /\ \A k \in Handlers :
       pc[k] # "idle" /\ PathOf[job[k].upload] = PathOf[u] => k = h
  /\ c.pc \in {"idle", "loop"} =>
       IF c.current <= last THEN Waiting(u, c.current - 1) ELSE IsUploaded(u)
  /\ c.pc = "wait" /\ pc[h] = "upload" => Waiting(u, c.current - 1)
  /\ c.pc = "wait" /\ pc[h] = "idle" /\ answer[h] = 200 =>
       c.current < last /\ Waiting(u, c.current)
  /\ c.pc = "wait" /\ (pc[h] \in {"register", "head", "mark"} \/ answer[h] = 201)
       => c.current = last

FirstInv ==
  \A u \in Uploads :
    /\ Alone(u) /\ call[u].calls <= 1
    /\ totalChunks(u) \in Chunks /\ call[u].pc # "returned"
    => FirstCall(u)

(* The inductive invariant: what the handlers keep, what calls keep, and   *)
(* what the two keep together.                                             *)
Inv ==
  /\ TypeOK /\ Server!Inv
  /\ LoopInv /\ WaitInv
  /\ ChunksAreTheFile
  /\ PrefixArrived /\ NilChunksArrived
  /\ FirstInv /\ FirstCallUploads

(* However callers compete, give up and call again, the service keeps the  *)
(* promises of the catalogue to them.                                      *)
ImplementsCatalogue == Server!ImplementsCatalogue

(* How far a call has got with its chunks.                                 *)
Progress(u) == 2 * call[u].current + (IF call[u].pc = "wait" THEN 1 ELSE 0)

GoesOn(u) ==
  \/ call'[u] = call[u]
  \/ call[u].pc \in {"idle", "returned"}
  \/ call'[u].pc = "returned"
  \/ /\ call'[u].calls = call[u].calls
     /\ Progress(u)' > Progress(u) /\ Progress(u)' <= 2 * totalChunks(u) + 2

(* Within a call every step goes on to the next thing to be done: no chunk *)
(* is sent twice and no answer is awaited again.                           *)
CallsGoOn == [][\A u \in Uploads : GoesOn(u)]_vars

(* Upload returns, whatever the service answers: it never sends a chunk    *)
(* again and never waits for an answer that cannot come.                   *)
UploadReturns == \A u \in Uploads : call[u].pc \in {"loop", "wait"} ~>
                                    call[u].pc = "returned"

(* sdk/upload.go:27, "Upload uploads a file in chunks to the upload        *)
(* service": for a path that nobody else uses, and a file that has bytes,  *)
(* nil means uploaded when no request is being served any more.  A call    *)
(* that repeats a failed one takes 200 for its last chunk too.             *)
NilMeansUploaded ==
  \A u \in Uploads :
    /\ call[u].result = "nil" /\ Alone(u) /\ totalChunks(u) > 0
    /\ \A h \in Handlers : pc[h] = "idle"
    => IsUploaded(u)

=============================================================================
