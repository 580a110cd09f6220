-------------------------- MODULE SdkUploadProofs ---------------------------
(***************************************************************************)
(* Proofs about SdkUpload, for every set of uploads, handlers and paths,   *)
(* every size and every size of a chunk.  What the service does is taken   *)
(* from the lemmas of FilesStore.                                          *)
(***************************************************************************)
EXTENDS SdkUpload, FiniteSetTheorems, TLAPS

ServerP == INSTANCE FilesStoreProofs WITH
             TotalChunks <- SentTotals, ChunkNumbers <- SentNumbers,
             Readers <- {}, view <- <<>>

-----------------------------------------------------------------------------
(* Sizes.                                                                  *)

LEMMA MaxFileSizeType ==
  maxFileSize \in Nat /\ MaxChunks \in Nat \ {0} /\ ChunkSize \in Nat \ {0}
BY SdkAssumption, BucketAssumption DEF maxFileSize

LEMMA Rounding ==
  ASSUME NEW s \in Nat, NEW c \in Nat \ {0}, NEW t, t = (s + c - 1) \div c
  PROVE  t \in Nat /\ (t - 1) * c < s /\ s <= t * c
OBVIOUS

LEMMA Monotone ==
  ASSUME NEW a \in Int, NEW b \in Int, a <= b, NEW c \in Nat
  PROVE  a * c <= b * c
OBVIOUS

LEMMA Distributes ==
  ASSUME NEW a \in Int, NEW c \in Nat
  PROVE  (a - 1) * c + c = a * c
OBVIOUS

(* The number of chunks of a size that is not refused: the least number of *)
(* chunks that hold it, none for a size that is not positive.              *)
LEMMA ChunkCount ==
  ASSUME NEW u \in Uploads, SizeInBytes[u] <= maxFileSize
  PROVE  LET t == totalChunks(u)  s == SizeInBytes[u] IN
         /\ t \in Int /\ t <= MaxChunks
         /\ s > 0 => t \in Chunks /\ (t - 1) * ChunkSize < s /\ s <= t * ChunkSize
         /\ s <= 0 => t <= 0
<1> DEFINE s == SizeInBytes[u]
           c == ChunkSize
           t == totalChunks(u)
<1>1. s \in Int /\ c \in Nat \ {0}
  BY SdkAssumption
<1>2. CASE s <= 0
  <2>1. t \in Int /\ t <= 0
    BY <1>1, <1>2 DEF totalChunks, Quotient
  <2>2. QED
    BY <1>1, <1>2, <2>1, MaxFileSizeType
<1>3. CASE s > 0
  <2>1. t = (s + c - 1) \div c
    BY <1>1, <1>3 DEF totalChunks, Quotient
  <2>2. t \in Nat /\ (t - 1) * c < s /\ s <= t * c
    <3>1. s \in Nat
      BY <1>1, <1>3
    <3>2. QED
      BY ONLY <1>1, <2>1, <3>1, Rounding
  <2>3. t <= MaxChunks
    <3>1. SUFFICES ASSUME MaxChunks <= t - 1 PROVE FALSE
      BY <2>2, MaxFileSizeType
    <3>2. MaxChunks * c <= (t - 1) * c
      BY <1>1, <2>2, <3>1, Monotone, MaxFileSizeType
    <3>3. s <= c * MaxChunks
      BY DEF maxFileSize
    <3>4. c * MaxChunks = MaxChunks * c
      BY <1>1, MaxFileSizeType
    <3>5. MaxChunks * c \in Int /\ (t - 1) * c \in Int
      BY <1>1, <2>2, MaxFileSizeType
    <3>6. QED
      BY <1>1, <2>2, <3>2, <3>3, <3>4, <3>5
  <2>4. t >= 1
    <3>1. SUFFICES ASSUME t = 0 PROVE FALSE
      BY <2>2
    <3>2. QED
      BY <1>1, <1>3, <2>2, <3>1
  <2>5. QED
    BY <1>1, <1>3, <2>2, <2>3, <2>4 DEF Chunks
<1>4. QED
  BY <1>1, <1>2, <1>3

LEMMA SentTotalsType ==
  /\ SentTotals \in [Uploads -> Chunks]
  /\ SentNumbers \in [Uploads -> SUBSET Chunks]
<1>1. SentTotals \in [Uploads -> Chunks]
  BY BucketAssumption DEF SentTotals, Chunks
<1>2. \A u \in Uploads : 1 .. SentTotals[u] \subseteq Chunks
  BY <1>1, BucketAssumption DEF Chunks
<1>3. QED
  BY <1>1, <1>2 DEF SentNumbers

-----------------------------------------------------------------------------
(* The definitions of the two instances of FilesStore are the same.        *)

LEMMA ServerAssumptions == ServerP!StoreAssumption /\ ServerP!BucketAssumption
BY SdkAssumption, BucketAssumption, SentTotalsType
   DEF ServerP!StoreAssumption, ServerP!BucketAssumption, ServerP!Chunks, Chunks

LEMMA SameUploadFile ==
  ASSUME NEW h
  PROVE  /\ Server!UploadFile(h) <=> ServerP!UploadFile(h)
         /\ Server!Crash(h) <=> ServerP!Crash(h)
         /\ Server!RejectForm(h) <=> ServerP!RejectForm(h)
<1> USE DEF Server!Upload, ServerP!Upload, Server!Path, ServerP!Path,
            Server!Total, ServerP!Total, Server!Parts, ServerP!Parts,
            Server!PutPart, ServerP!PutPart, Server!AllPartsUploaded,
            ServerP!AllPartsUploaded, Server!StoredParts, ServerP!StoredParts,
            Server!ChunkTooSmall, ServerP!ChunkTooSmall, Server!StoreParts,
            ServerP!StoreParts, Server!CompleteObject, ServerP!CompleteObject,
            Server!UploadPartEffect, ServerP!UploadPartEffect, Server!Proceed,
            ServerP!Proceed, Server!Answer, ServerP!Answer, Server!Fault,
            ServerP!Fault, Server!StatusOf, ServerP!StatusOf,
            Server!RegisterError, ServerP!RegisterError, Server!Registered,
            ServerP!Registered, Server!RegisterFile, ServerP!RegisterFile,
            Server!MarkFileUploaded, ServerP!MarkFileUploaded, Server!Blank,
            ServerP!Blank, Server!TrimQuotes, ServerP!TrimQuotes,
            Server!ETagHeader, ServerP!ETagHeader, Server!Chunks, ServerP!Chunks,
            Server!s3Vars, ServerP!s3Vars, Server!Cardinality,
            ServerP!Cardinality
<1>1. Server!StorePart(h) <=> ServerP!StorePart(h)
  BY DEF Server!StorePart, ServerP!StorePart
<1>2. Server!CompleteUpload(h) <=> ServerP!CompleteUpload(h)
  BY DEF Server!CompleteUpload, ServerP!CompleteUpload
<1>3. Server!RejectChunk(h) <=> ServerP!RejectChunk(h)
  BY DEF Server!RejectChunk, ServerP!RejectChunk
<1>4. Server!UploadPartFails(h) <=> ServerP!UploadPartFails(h)
  BY DEF Server!UploadPartFails, ServerP!UploadPartFails
<1>5. Server!Register(h) <=> ServerP!Register(h)
  BY DEF Server!Register, ServerP!Register
<1>6. Server!RegisterConflict(h) <=> ServerP!RegisterConflict(h)
  BY DEF Server!RegisterConflict, ServerP!RegisterConflict
<1>7. Server!RegisterFails(h) <=> ServerP!RegisterFails(h)
  BY DEF Server!RegisterFails, ServerP!RegisterFails
<1>8. Server!HeadObject(h) <=> ServerP!HeadObject(h)
  BY DEF Server!HeadObject, ServerP!HeadObject
<1>9. Server!HeadFails(h) <=> ServerP!HeadFails(h)
  BY DEF Server!HeadFails, ServerP!HeadFails
<1>10. Server!MarkUploaded(h) <=> ServerP!MarkUploaded(h)
  BY DEF Server!MarkUploaded, ServerP!MarkUploaded
<1>11. Server!MarkFails(h) <=> ServerP!MarkFails(h)
  BY DEF Server!MarkFails, ServerP!MarkFails
<1>12. Server!UploadFile(h) <=> ServerP!UploadFile(h)
  BY <1>1, <1>2, <1>3, <1>4, <1>5, <1>6, <1>7, <1>8, <1>9, <1>10, <1>11
     DEF Server!UploadFile, ServerP!UploadFile
<1>13. Server!Crash(h) <=> ServerP!Crash(h)
  BY DEF Server!Crash, ServerP!Crash
<1>14. Server!RejectForm(h) <=> ServerP!RejectForm(h)
  BY DEF Server!RejectForm, ServerP!RejectForm, Server!FormStatus, ServerP!FormStatus
<1>15. QED
  BY <1>12, <1>13, <1>14

LEMMA SameReceive ==
  ASSUME NEW h, NEW u, NEW n
  PROVE  Server!Receive(h, u, n) <=> ServerP!Receive(h, u, n)
BY DEF Server!Receive, ServerP!Receive, Server!s3Vars, ServerP!s3Vars

LEMMA SameInit == Server!Init <=> ServerP!Init
BY DEF Server!Init, ServerP!Init, Server!Blank, ServerP!Blank, Server!Chunks,
   ServerP!Chunks, Server!Unregistered, ServerP!Unregistered, Server!NoMessage,
   ServerP!NoMessage

LEMMA SameArrived ==
  ASSUME NEW p, NEW n
  PROVE  /\ Server!Arrived(p, n) <=> ServerP!Arrived(p, n)
         /\ Server!Arrived(p, n)' <=> ServerP!Arrived(p, n)'
BY DEF Server!Arrived, ServerP!Arrived, Server!Stored, ServerP!Stored

LEMMA SameType ==
  /\ Server!TypeOK <=> ServerP!TypeOK
  /\ Server!TypeOK' <=> ServerP!TypeOK'
BY DEF Server!TypeOK, ServerP!TypeOK, Server!Objects, ServerP!Objects,
   Server!Chunks, ServerP!Chunks, Server!MetaRecord, ServerP!MetaRecord,
   Server!States, ServerP!States, Server!View, ServerP!View,
   Server!StatusMessage, ServerP!StatusMessage

LEMMA SameInv ==
  /\ Server!Inv <=> ServerP!Inv
  /\ Server!Inv' <=> ServerP!Inv'
<1> USE DEF Server!Registered, ServerP!Registered, Server!Finishing,
            ServerP!Finishing, Server!Path, ServerP!Path, Server!Upload,
            ServerP!Upload, Server!Arrived, ServerP!Arrived, Server!Stored,
            ServerP!Stored, Server!Blank, ServerP!Blank, Server!Chunks,
            ServerP!Chunks
<1>1. /\ Server!BucketInv <=> ServerP!BucketInv
      /\ Server!BucketInv' <=> ServerP!BucketInv'
  BY DEF Server!BucketInv, ServerP!BucketInv
<1>2. /\ Server!ProgressInv <=> ServerP!ProgressInv
      /\ Server!ProgressInv' <=> ServerP!ProgressInv'
  BY DEF Server!ProgressInv, ServerP!ProgressInv
<1>3. /\ Server!UploadedEtagWasStored <=> ServerP!UploadedEtagWasStored
      /\ Server!UploadedEtagWasStored' <=> ServerP!UploadedEtagWasStored'
  BY DEF Server!UploadedEtagWasStored, ServerP!UploadedEtagWasStored
<1>4. /\ Server!OneFinisher <=> ServerP!OneFinisher
      /\ Server!OneFinisher' <=> ServerP!OneFinisher'
  BY DEF Server!OneFinisher, ServerP!OneFinisher
<1>5. /\ Server!CreatedIsUploaded <=> ServerP!CreatedIsUploaded
      /\ Server!CreatedIsUploaded' <=> ServerP!CreatedIsUploaded'
  BY DEF Server!CreatedIsUploaded, ServerP!CreatedIsUploaded
<1>6. /\ Server!AckedChunkArrived <=> ServerP!AckedChunkArrived
      /\ Server!AckedChunkArrived' <=> ServerP!AckedChunkArrived'
  BY DEF Server!AckedChunkArrived, ServerP!AckedChunkArrived
<1>7. /\ Server!ConflictIsRegistered <=> ServerP!ConflictIsRegistered
      /\ Server!ConflictIsRegistered' <=> ServerP!ConflictIsRegistered'
  BY DEF Server!ConflictIsRegistered, ServerP!ConflictIsRegistered
<1>8. /\ Server!StatusInv /\ Server!StatusFindsObject
      /\ ServerP!StatusInv /\ ServerP!StatusFindsObject
      /\ Server!StatusInv' /\ Server!StatusFindsObject'
      /\ ServerP!StatusInv' /\ ServerP!StatusFindsObject'
  BY DEF Server!StatusInv, ServerP!StatusInv, Server!StatusFindsObject,
     ServerP!StatusFindsObject
<1>9. QED
  BY <1>1, <1>2, <1>3, <1>4, <1>5, <1>6, <1>7, <1>8, SameType
     DEF Server!Inv, ServerP!Inv

-----------------------------------------------------------------------------
(* The steps, sorted.                                                      *)

StoresRest == UNCHANGED <<pending, object, versions, meta, pc, job, etag, answer>>

OthersRest(u) ==
  /\ \E c \in Call : call' = [call EXCEPT ![u] = c]
  /\ call'[u] \in Call
  /\ \A v \in Uploads \ {u} : call'[v] = call[v]

(* A call ends with an error.                                              *)
Fails(u) ==
  /\ StoresRest /\ faults' \in 0 .. MaxFaults /\ OthersRest(u)
  /\ call'[u].pc = "returned" /\ call'[u].handler = NoHandler
  /\ call'[u].result \notin {"none", "nil"}
  /\ call'[u].calls > 0 /\ call'[u].calls >= call[u].calls

(* A call begins.                                                          *)
Begins(u) ==
  /\ UNCHANGED serverVars /\ OthersRest(u)
  /\ call[u].pc \in {"idle", "returned"}
  /\ SizeInBytes[u] <= maxFileSize
  /\ call'[u] = [pc |-> "loop", current |-> 1, left |-> ContentBytes[u],
                 length |-> 0, handler |-> NoHandler, result |-> "none",
                 calls |-> call[u].calls + 1]

(* A chunk is sent to a handler.                                           *)
Sends(u, h) ==
  /\ call[u].pc = "loop" /\ call[u].current <= totalChunks(u)
  /\ call[u].current \in Chunks
  /\ pc[h] = "idle" /\ \A v \in Uploads : call[v].handler # h
  /\ ServerP!Receive(h, u, call[u].current) \/ ServerP!RejectForm(h)
  /\ OthersRest(u)
  /\ call'[u].pc = "wait" /\ call'[u].handler = h
  /\ call'[u].length = ChunkLength(u) /\ call'[u].left = call[u].left - ChunkLength(u)
  /\ call'[u].current = call[u].current /\ call'[u].result = call[u].result
  /\ call'[u].calls = call[u].calls

(* An answer is accepted.                                                  *)
Accepts(u) ==
  /\ UNCHANGED serverVars /\ OthersRest(u)
  /\ Answered(u) /\ answer[call[u].handler] \in Accepted
  /\ call'[u].pc = "loop" /\ call'[u].handler = NoHandler
  /\ call'[u].current = call[u].current + 1
  /\ call'[u].left = call[u].left /\ call'[u].length = call[u].length
  /\ call'[u].result = call[u].result /\ call'[u].calls = call[u].calls

(* A call ends without an error.                                           *)
Succeeds(u) ==
  /\ UNCHANGED serverVars /\ OthersRest(u)
  /\ call[u].pc = "loop" /\ call[u].current > totalChunks(u)
  /\ call'[u].pc = "returned" /\ call'[u].handler = NoHandler
  /\ call'[u].result = "nil" /\ call'[u].calls = call[u].calls
  /\ call'[u].current = call[u].current /\ call'[u].left = call[u].left
  /\ call'[u].length = call[u].length

(* A handler goes on, or dies.                                             *)
Handles(h) ==
  /\ ServerP!UploadFile(h) \/ ServerP!Crash(h)
  /\ UNCHANGED call

LEMMA CallType ==
  ASSUME TypeOK, NEW u \in Uploads
  PROVE  /\ call[u] \in Call
         /\ call[u].pc \in {"idle", "loop", "wait", "returned"}
         /\ call[u].current \in 1 .. MaxChunks + 1
         /\ call[u].left \in Nat /\ call[u].length \in 0 .. ChunkSize
         /\ call[u].handler \in Handlers \cup {NoHandler}
         /\ call[u].result \in Results /\ call[u].calls \in Nat
BY DEF TypeOK, Call

LEMMA FaultType == ASSUME TypeOK, Server!Fault PROVE faults' \in 0 .. MaxFaults
BY SdkAssumption DEF TypeOK, Server!TypeOK, Server!Fault

LEMMA RefuseSteps ==
  ASSUME TypeOK, WaitInv, NEW u \in Uploads, RefuseLarge(u)
  PROVE  Fails(u)
<1> DEFINE c == [call[u] EXCEPT !.pc = "returned", !.result = "ErrFileTooLarge",
                   !.calls = call[u].calls + 1]
<1>1. call \in [Uploads -> Call] /\ call' = [call EXCEPT ![u] = c]
  BY CallType DEF RefuseLarge, TypeOK
<1>2. call[u].handler = NoHandler
  BY DEF RefuseLarge, MayCall, WaitInv
<1>3. /\ c \in Call
      /\ c.pc = "returned" /\ c.handler = NoHandler
      /\ c.result = "ErrFileTooLarge" /\ c.calls = call[u].calls + 1
  <2>1. call[u] \in Call /\ call[u].calls + 1 \in Nat
    BY CallType
  <2>2. QED
    BY ONLY <1>2, <2>1 DEF Call, Results
<1>4. OthersRest(u) /\ call'[u] = c
  BY <1>1, <1>3 DEF OthersRest
<1>5. StoresRest /\ faults' \in 0 .. MaxFaults
  BY DEF RefuseLarge, StoresRest, serverVars, TypeOK, Server!TypeOK
<1>6. call[u].calls + 1 > 0 /\ call[u].calls + 1 >= call[u].calls
  BY CallType
<1>7. QED
  BY <1>3, <1>4, <1>5, <1>6 DEF Fails

LEMMA ErrorSteps ==
  ASSUME TypeOK, LoopInv, NEW u \in Uploads,
         SendFails(u) \/ DoFails(u) \/ ReturnError(u)
  PROVE  Fails(u)
<1>1. PICK r \in {"APIError", "error"} : Return(u, r)
  BY DEF SendFails, DoFails, ReturnError
<1> DEFINE c == [call[u] EXCEPT !.pc = "returned", !.handler = NoHandler,
                   !.result = r]
<1>2. call \in [Uploads -> Call] /\ call' = [call EXCEPT ![u] = c]
  BY <1>1, CallType DEF Return, TypeOK
<1>3. /\ c \in Call
      /\ c.pc = "returned" /\ c.handler = NoHandler
      /\ c.result \notin {"none", "nil"} /\ c.calls = call[u].calls
  <2>1. call[u] \in Call
    BY CallType
  <2>2. QED
    BY ONLY <2>1, r \in {"APIError", "error"} DEF Call, Results
<1>4. OthersRest(u) /\ call'[u] = c
  BY <1>2, <1>3 DEF OthersRest
<1>5. call[u].calls \in Nat /\ call[u].calls > 0
  BY CallType DEF SendFails, DoFails, ReturnError, Answered, LoopInv
<1>6. StoresRest /\ faults' \in 0 .. MaxFaults
  BY FaultType DEF SendFails, DoFails, ReturnError, StoresRest, serverVars,
     TypeOK, Server!TypeOK
<1>7. QED
  BY <1>3, <1>4, <1>5, <1>6 DEF Fails

LEMMA BeginSteps ==
  ASSUME TypeOK, NEW u \in Uploads, Begin(u)
  PROVE  Begins(u)
<1> DEFINE c == [pc |-> "loop", current |-> 1, left |-> ContentBytes[u],
                 length |-> 0, handler |-> NoHandler, result |-> "none",
                 calls |-> call[u].calls + 1]
<1>1. call \in [Uploads -> Call] /\ call' = [call EXCEPT ![u] = c]
  BY DEF TypeOK, Begin
<1>2. c \in Call
  BY CallType, MaxFileSizeType, SdkAssumption DEF Call, Results
<1>3. OthersRest(u) /\ call'[u] = c
  BY <1>1, <1>2 DEF OthersRest
<1>4. QED
  BY <1>3 DEF Begin, Begins, MayCall

LEMMA LengthType ==
  ASSUME TypeOK, NEW u \in Uploads
  PROVE  /\ ChunkLength(u) \in 0 .. ChunkSize
         /\ call[u].left - ChunkLength(u) \in Nat
BY CallType, MaxFileSizeType DEF ChunkLength, Least

LEMMA SendSteps ==
  ASSUME TypeOK, LoopInv, NEW u \in Uploads, NEW h \in Handlers, SendChunk(u, h)
  PROVE  Sends(u, h)
<1> DEFINE c == [call[u] EXCEPT !.pc = "wait", !.handler = h,
                   !.length = ChunkLength(u), !.left = call[u].left - ChunkLength(u)]
<1>1. call[u].current \in Chunks
  <2>1. totalChunks(u) \in Int /\ totalChunks(u) <= MaxChunks
    BY ChunkCount DEF SendChunk, LoopInv
  <2>2. QED
    BY <2>1, CallType, MaxFileSizeType DEF SendChunk, Chunks
<1>2. call \in [Uploads -> Call] /\ call' = [call EXCEPT ![u] = c]
  BY CallType DEF SendChunk, TypeOK
<1>3. /\ c \in Call
      /\ c.pc = "wait" /\ c.handler = h
      /\ c.length = ChunkLength(u)
      /\ c.left = call[u].left - ChunkLength(u)
      /\ c.current = call[u].current /\ c.result = call[u].result
      /\ c.calls = call[u].calls
  <2>1. call[u] \in Call
    BY CallType
  <2>2. QED
    BY ONLY <2>1, LengthType, TypeOK, u \in Uploads, h \in Handlers DEF Call
<1>4. OthersRest(u) /\ call'[u] = c
  BY <1>2, <1>3 DEF OthersRest
<1>5. QED
  BY <1>1, <1>3, <1>4, SameReceive, SameUploadFile DEF SendChunk, Sends, Free

LEMMA NextChunkSteps ==
  ASSUME TypeOK, LoopInv, NEW u \in Uploads, NextChunk(u)
  PROVE  Accepts(u)
<1> DEFINE c == [call[u] EXCEPT !.pc = "loop", !.handler = NoHandler,
                   !.current = call[u].current + 1]
<1>1. call \in [Uploads -> Call] /\ call' = [call EXCEPT ![u] = c]
  BY CallType DEF NextChunk, TypeOK
<1>2. call[u].current + 1 \in 1 .. MaxChunks + 1
  <2>1. /\ totalChunks(u) \in Int /\ totalChunks(u) <= MaxChunks
        /\ call[u].current <= totalChunks(u)
    BY ChunkCount DEF NextChunk, Answered, LoopInv
  <2>2. QED
    BY <2>1, CallType, MaxFileSizeType
<1>3. /\ c \in Call
      /\ c.pc = "loop" /\ c.handler = NoHandler /\ c.current = call[u].current + 1
      /\ c.left = call[u].left /\ c.length = call[u].length
      /\ c.result = call[u].result /\ c.calls = call[u].calls
  <2>1. call[u] \in Call
    BY CallType
  <2>2. QED
    BY ONLY <1>2, <2>1 DEF Call
<1>4. OthersRest(u) /\ call'[u] = c
  BY <1>1, <1>3 DEF OthersRest
<1>5. QED
  BY <1>3, <1>4 DEF NextChunk, Accepts

LEMMA ReturnNilSteps ==
  ASSUME TypeOK, NEW u \in Uploads, ReturnNil(u)
  PROVE  Succeeds(u)
<1> DEFINE c == [call[u] EXCEPT !.pc = "returned", !.handler = NoHandler,
                   !.result = "nil"]
<1>1. call \in [Uploads -> Call] /\ call' = [call EXCEPT ![u] = c]
  BY CallType DEF ReturnNil, Return, TypeOK
<1>2. /\ c \in Call
      /\ c.pc = "returned" /\ c.handler = NoHandler /\ c.result = "nil"
      /\ c.left = call[u].left /\ c.length = call[u].length
      /\ c.current = call[u].current /\ c.calls = call[u].calls
  <2>1. call[u] \in Call
    BY CallType
  <2>2. QED
    BY ONLY <2>1 DEF Call, Results
<1>3. OthersRest(u) /\ call'[u] = c
  BY <1>1, <1>2 DEF OthersRest
<1>4. QED
  BY <1>2, <1>3 DEF ReturnNil, Succeeds

LEMMA Steps ==
  ASSUME TypeOK, LoopInv, WaitInv, [Next]_vars
  PROVE  \/ \E u \in Uploads : Fails(u) \/ Begins(u) \/ Accepts(u) \/ Succeeds(u)
         \/ \E u \in Uploads, h \in Handlers : Sends(u, h)
         \/ \E h \in Handlers : Handles(h)
         \/ UNCHANGED vars
BY RefuseSteps, ErrorSteps, BeginSteps, SendSteps, NextChunkSteps, ReturnNilSteps,
   SameUploadFile
   DEF Next, Upload, Handle, Handles

(* What the service sees of a step: a step of its own, or a fault that     *)
(* touches nothing.                                                        *)
LEMMA ServerSteps ==
  ASSUME TypeOK, LoopInv, WaitInv, [Next]_vars
  PROVE  \/ [ServerP!Next]_(ServerP!vars)
         \/ StoresRest /\ faults' \in 0 .. MaxFaults
<1>1. ASSUME NEW u \in Uploads, NEW h \in Handlers, Sends(u, h) PROVE ServerP!Next
  BY <1>1 DEF Sends, ServerP!Next, ServerP!Chunks, Chunks
<1>2. ASSUME NEW h \in Handlers, Handles(h) PROVE ServerP!Next
  BY <1>2 DEF Handles, ServerP!Next
<1>3. ASSUME UNCHANGED serverVars PROVE UNCHANGED ServerP!vars
  BY <1>3 DEF serverVars, ServerP!vars
<1>4. QED
  BY <1>1, <1>2, <1>3, Steps DEF Fails, Begins, Accepts, Succeeds, vars, serverVars

LEMMA ServerStep ==
  ASSUME TypeOK, LoopInv, WaitInv, ServerP!Inv, [Next]_vars
  PROVE  ServerP!Inv'
<1>1. CASE [ServerP!Next]_(ServerP!vars)
  BY <1>1, ServerAssumptions, ServerP!InvStep
<1>2. CASE StoresRest /\ faults' \in 0 .. MaxFaults
  BY <1>2 DEF StoresRest, ServerP!Inv, ServerP!TypeOK, ServerP!BucketInv,
     ServerP!ProgressInv, ServerP!UploadedEtagWasStored, ServerP!OneFinisher,
     ServerP!CreatedIsUploaded, ServerP!AckedChunkArrived,
     ServerP!ConflictIsRegistered, ServerP!StatusInv, ServerP!StatusFindsObject,
     ServerP!Registered, ServerP!Finishing, ServerP!Path, ServerP!Upload,
     ServerP!Arrived, ServerP!Stored
<1>3. QED
  BY <1>1, <1>2, ServerSteps

-----------------------------------------------------------------------------
(* Types.                                                                  *)

LEMMA InitType == Init => TypeOK
<1> SUFFICES ASSUME Init PROVE TypeOK
  OBVIOUS
<1>1. Server!TypeOK
  BY ServerAssumptions, ServerP!InitType, SameInit, SameType DEF Init
<1>2. ASSUME NEW u \in Uploads
      PROVE  [pc |-> "idle", current |-> 1, left |-> ContentBytes[u],
              length |-> 0, handler |-> NoHandler, result |-> "none",
              calls |-> 0] \in Call
  BY MaxFileSizeType, SdkAssumption DEF Call, Results
<1>3. QED
  BY <1>1, <1>2 DEF Init, TypeOK

LEMMA CallStep ==
  ASSUME TypeOK, LoopInv, WaitInv, [Next]_vars
  PROVE  call' \in [Uploads -> Call]
<1>1. call \in [Uploads -> Call]
  BY DEF TypeOK
<1>2. ASSUME NEW u \in Uploads, OthersRest(u) PROVE call' \in [Uploads -> Call]
  BY <1>1, <1>2 DEF OthersRest
<1>3. QED
  BY <1>1, <1>2, Steps DEF Fails, Begins, Accepts, Succeeds, Sends, Handles, vars

LEMMA TypeStep ==
  ASSUME TypeOK, LoopInv, WaitInv, ServerP!Inv, [Next]_vars
  PROVE  TypeOK'
BY CallStep, ServerStep, SameType DEF TypeOK, ServerP!Inv

-----------------------------------------------------------------------------
(* The bytes of a file.                                                    *)

(* Each of the two facts about one call, and a call that does nothing.     *)
LoopFacts(c, u) ==
  /\ c.pc = "idle" => c.current = 1 /\ c.calls = 0
  /\ c.pc # "idle" => c.calls > 0
  /\ c.result = "nil" => c.pc = "returned"
  /\ c.pc \in {"loop", "wait"} \/ c.result = "nil" => SizeInBytes[u] <= maxFileSize
  /\ c.pc = "wait" => c.current <= totalChunks(u)
  /\ c.pc = "loop" =>
       ContentBytes[u] - c.left = Least(ContentBytes[u], (c.current - 1) * ChunkSize)

ByteFacts(c, u) ==
  /\ c.pc = "wait" =>
       /\ ContentBytes[u] - c.left = Least(ContentBytes[u], c.current * ChunkSize)
       /\ SizeInBytes[u] = ContentBytes[u] =>
            /\ c.length > 0
            /\ c.length = ChunkSize \/ c.current = totalChunks(u)
  /\ c.result = "nil" /\ SizeInBytes[u] = ContentBytes[u] => c.left = 0

LEMMA FactsOfAll ==
  /\ LoopInv <=> \A u \in Uploads : LoopFacts(call[u], u)
  /\ LoopInv' <=> \A u \in Uploads : LoopFacts(call'[u], u)
  /\ ChunksAreTheFile <=> \A u \in Uploads : ByteFacts(call[u], u)
  /\ ChunksAreTheFile' <=> \A u \in Uploads : ByteFacts(call'[u], u)
BY DEF LoopInv, LoopFacts, ChunksAreTheFile, ByteFacts, Sent

(* Taking a chunk off what is left.                                        *)
LEMMA TakeChunk ==
  ASSUME NEW content \in Nat, NEW left \in Nat, NEW k \in Nat \ {0},
         NEW c \in Nat \ {0}, content - left = Least(content, (k - 1) * c)
  PROVE  /\ content - (left - Least(left, c)) = Least(content, k * c)
         /\ (k - 1) * c < content => Least(left, c) > 0
         /\ k * c <= content => Least(left, c) = c
<1>1. (k - 1) * c + c = k * c /\ (k - 1) * c \in Int
  BY Distributes
<1> DEFINE b == (k - 1) * c
<1> HIDE DEF b
<1>2. b + c = k * c /\ b \in Int /\ content - left = Least(content, b)
  BY <1>1 DEF b
<1>3. /\ content - (left - Least(left, c)) = Least(content, b + c)
      /\ b < content => Least(left, c) > 0
      /\ b + c <= content => Least(left, c) = c
  BY <1>2 DEF Least
<1>4. QED
  BY <1>2, <1>3 DEF b

(* Every step leaves a call alone or is one of its own.                    *)
LEMMA CallSteps ==
  ASSUME TypeOK, LoopInv, WaitInv, [Next]_vars, NEW u \in Uploads
  PROVE  \/ call'[u] = call[u]
         \/ Fails(u) \/ Begins(u) \/ Accepts(u) \/ Succeeds(u)
         \/ \E h \in Handlers : Sends(u, h)
<1>1. ASSUME NEW v \in Uploads, OthersRest(v) PROVE u = v \/ call'[u] = call[u]
  BY <1>1 DEF OthersRest
<1>2. CASE \E v \in Uploads : Fails(v) \/ Begins(v) \/ Accepts(v) \/ Succeeds(v)
  <2>1. PICK v \in Uploads : Fails(v) \/ Begins(v) \/ Accepts(v) \/ Succeeds(v)
    BY <1>2
  <2>2. OthersRest(v)
    BY <2>1 DEF Fails, Begins, Accepts, Succeeds
  <2>3. QED
    BY <1>1, <2>1, <2>2
<1>3. CASE \E v \in Uploads, h \in Handlers : Sends(v, h)
  BY <1>1, <1>3 DEF Sends
<1>4. CASE (\E h \in Handlers : Handles(h)) \/ UNCHANGED vars
  BY <1>4 DEF Handles, vars
<1>5. QED
  BY <1>2, <1>3, <1>4, Steps

LEMMA BytesStep ==
  ASSUME TypeOK, LoopInv, WaitInv, ChunksAreTheFile, [Next]_vars
  PROVE  LoopInv' /\ ChunksAreTheFile'
<1> SUFFICES ASSUME NEW u \in Uploads
             PROVE  LoopFacts(call'[u], u) /\ ByteFacts(call'[u], u)
  BY FactsOfAll
<1> DEFINE c == ChunkSize
           k == call[u].current
           t == totalChunks(u)
           content == ContentBytes[u]
<1>1. LoopFacts(call[u], u) /\ ByteFacts(call[u], u)
  BY FactsOfAll
<1>2. /\ k \in Nat \ {0} /\ c \in Nat \ {0} /\ content \in Nat
      /\ call[u].left \in Nat
  BY CallType, MaxFileSizeType, SdkAssumption
<1>3. CASE call'[u] = call[u]
  BY <1>1, <1>3
<1>4. CASE Fails(u)
  BY <1>4 DEF Fails, LoopFacts, ByteFacts
<1>5. CASE Begins(u)
  <2>1. content - content = Least(content, (1 - 1) * c)
    BY <1>2 DEF Least
  <2>2. call[u].calls + 1 > 0
    BY CallType
  <2>3. QED
    BY <1>5, <2>1, <2>2 DEF Begins, LoopFacts, ByteFacts
<1>6. CASE Accepts(u)
  <2>1. call[u].pc = "wait" /\ call[u].calls > 0
    BY <1>1, <1>6 DEF Accepts, Answered, LoopFacts
  <2>2. content - call[u].left = Least(content, k * c)
    BY <1>1, <2>1 DEF ByteFacts
  <2>3. (k + 1) - 1 = k
    BY <1>2
  <2>4. content - call'[u].left = Least(content, (call'[u].current - 1) * c)
    BY <1>6, <2>2, <2>3 DEF Accepts
  <2>5. call[u].result # "nil" /\ SizeInBytes[u] <= maxFileSize
    BY <1>1, <2>1 DEF LoopFacts
  <2>6. QED
    BY <1>6, <2>1, <2>4, <2>5 DEF Accepts, LoopFacts, ByteFacts
<1>7. CASE Succeeds(u)
  <2>1. /\ call[u].pc = "loop" /\ k > t /\ call[u].calls > 0
        /\ SizeInBytes[u] <= maxFileSize
        /\ content - call[u].left = Least(content, (k - 1) * c)
    BY <1>1, <1>7 DEF Succeeds, LoopFacts
  <2>2. ASSUME SizeInBytes[u] = content PROVE call[u].left = 0
    <3>1. /\ t \in Int
          /\ content > 0 => t \in Chunks /\ content <= t * c
      BY <2>1, <2>2, ChunkCount
    <3>2. (k - 1) * c \in Int /\ (k - 1) * c >= 0
      BY <1>2, 0 <= k - 1, Monotone
    <3>3. content <= (k - 1) * c
      <4>1. CASE content = 0
        BY <3>2, <4>1
      <4>2. CASE content > 0
        <5>1. t * c <= (k - 1) * c
          BY <1>2, <2>1, <3>1, Monotone
        <5>2. t * c \in Int
          BY <1>2, <3>1
        <5>3. QED
          BY <1>2, <3>1, <3>2, <4>2, <5>1, <5>2
      <4>3. QED
        BY <1>2, <4>1, <4>2
    <3>4. QED
      BY <1>2, <2>1, <3>2, <3>3 DEF Least
  <2>3. QED
    BY <1>7, <2>1, <2>2 DEF Succeeds, LoopFacts, ByteFacts
<1>8. CASE \E h \in Handlers : Sends(u, h)
  <2>1. /\ call[u].pc = "loop" /\ k <= t /\ call[u].calls > 0
        /\ SizeInBytes[u] <= maxFileSize
        /\ content - call[u].left = Least(content, (k - 1) * c)
        /\ call[u].result # "nil"
    BY <1>1, <1>8 DEF Sends, LoopFacts
  <2>2. /\ content - (call[u].left - ChunkLength(u)) = Least(content, k * c)
        /\ (k - 1) * c < content => ChunkLength(u) > 0
        /\ k * c <= content => ChunkLength(u) = c
    BY <1>2, <2>1, TakeChunk DEF ChunkLength
  <2>3. ASSUME SizeInBytes[u] = content
        PROVE  ChunkLength(u) > 0 /\ (ChunkLength(u) = c \/ k = t)
    <3>1. /\ t \in Int
          /\ content <= 0 => t <= 0
          /\ content > 0 => (t - 1) * c < content
      BY <2>1, <2>3, ChunkCount
    <3>2. content > 0 /\ (t - 1) * c < content /\ (t - 1) * c \in Int
      BY <1>2, <2>1, <3>1
    <3>3. (k - 1) * c <= (t - 1) * c /\ (k - 1) * c \in Int
      <4>1. k - 1 <= t - 1 /\ k - 1 \in Int /\ t - 1 \in Int
        BY <1>2, <2>1, <3>1
      <4>2. QED
        BY <1>2, <4>1, Monotone
    <3>4. k < t => k * c <= (t - 1) * c /\ k * c \in Int
      <4>1. k < t => k <= t - 1 /\ t - 1 \in Int
        BY <1>2, <3>1
      <4>2. QED
        BY <1>2, <4>1, Monotone
    <3>5. k < t => k * c <= content
      BY <1>2, <3>2, <3>4
    <3>6. (k - 1) * c < content
      BY <1>2, <3>2, <3>3
    <3>7. QED
      BY <1>2, <2>1, <2>2, <3>1, <3>5, <3>6
  <2>4. QED
    BY <1>8, <2>1, <2>2, <2>3 DEF Sends, LoopFacts, ByteFacts
<1>9. QED
  BY <1>3, <1>4, <1>5, <1>6, <1>7, <1>8, CallSteps

-----------------------------------------------------------------------------
(* What a step is to the handlers.                                         *)

HandlerRests(h) ==
  pc'[h] = pc[h] /\ job'[h] = job[h] /\ answer'[h] = answer[h]

LEMMA ServerTypes ==
  ASSUME TypeOK
  PROVE  /\ ServerP!TypeOK
         /\ pc \in [Handlers -> {"idle", "upload", "register", "head", "mark"}]
         /\ job \in [Handlers -> [upload : Uploads, chunk : Chunks]]
         /\ answer \in [Handlers -> {0, 200, 201, 400, 401, 403, 409, 500}]
         /\ pending \in [Paths -> [Chunks -> Uploads \cup {NoPart}]]
         /\ versions \in [Paths -> SUBSET [Chunks -> Uploads \cup {NoPart}]]
BY SameType DEF TypeOK, ServerP!TypeOK, ServerP!Chunks, ServerP!Objects, Chunks

LEMMA SendEffect ==
  ASSUME TypeOK, NEW u \in Uploads, NEW h \in Handlers, Sends(u, h)
  PROVE  /\ UNCHANGED <<pending, object, versions, meta, faults>>
         /\ \A k \in Handlers \ {h} : HandlerRests(k)
         /\ \/ /\ job'[h] = [upload |-> u, chunk |-> call[u].current]
               /\ pc'[h] = "upload" /\ answer'[h] = 0
            \/ pc'[h] = "idle" /\ answer'[h] \notin Accepted /\ job'[h] = job[h]
<1> USE ServerTypes DEF HandlerRests
<1>1. CASE ServerP!Receive(h, u, call[u].current)
  BY <1>1 DEF ServerP!Receive, ServerP!s3Vars
<1>2. CASE ServerP!RejectForm(h)
  <2>1. PICK check \in DOMAIN ServerP!FormStatus :
          ServerP!Answer(h, ServerP!FormStatus[check])
    BY <1>2 DEF ServerP!RejectForm
  <2>2. ServerP!FormStatus[check] \in {400, 500}
    BY DEF ServerP!FormStatus
  <2>3. /\ UNCHANGED <<pending, object, versions, meta, job, faults>>
    BY <1>2 DEF ServerP!RejectForm, ServerP!s3Vars
  <2>4. QED
    BY <2>1, <2>2, <2>3 DEF ServerP!Answer, Accepted
<1>3. QED
  BY <1>1, <1>2 DEF Sends

LEMMA HandlesRest ==
  ASSUME TypeOK, NEW h \in Handlers, Handles(h)
  PROVE  pc[h] # "idle" /\ job' = job /\ \A k \in Handlers \ {h} : HandlerRests(k)
<1> USE ServerTypes DEF HandlerRests
<1>1. CASE ServerP!UploadFile(h)
  <2>1. /\ pc[h] # "idle" /\ job' = job
        /\ \E s : pc' = [pc EXCEPT ![h] = s]
        /\ answer' = answer \/ \E c : answer' = [answer EXCEPT ![h] = c]
    BY <1>1, ServerAssumptions, ServerP!UploadFileSteps
  <2>2. \A k \in Handlers \ {h} : pc'[k] = pc[k]
    BY <2>1
  <2>3. \A k \in Handlers \ {h} : answer'[k] = answer[k]
    BY <2>1
  <2>4. QED
    BY <2>1, <2>2, <2>3
<1>2. CASE ServerP!Crash(h)
  BY <1>2 DEF ServerP!Crash, ServerP!Answer
<1>3. QED
  BY <1>1, <1>2 DEF Handles

(* No step moves a handler but its own and a request to it.                *)
LEMMA HandlerSteps ==
  ASSUME TypeOK, LoopInv, WaitInv, [Next]_vars, NEW h \in Handlers
  PROVE  \/ HandlerRests(h)
         \/ Handles(h)
         \/ \E u \in Uploads : Sends(u, h)
<1>1. ASSUME UNCHANGED serverVars \/ StoresRest PROVE HandlerRests(h)
  BY <1>1 DEF serverVars, StoresRest, HandlerRests
<1>2. ASSUME UNCHANGED vars PROVE HandlerRests(h)
  BY <1>2 DEF vars, HandlerRests
<1>3. QED
  BY <1>1, <1>2, Steps, SendEffect, HandlesRest DEF Fails, Begins, Accepts, Succeeds

(* A call waits for its own handler.                                       *)
LEMMA AwaitSteps ==
  ASSUME TypeOK, LoopInv, WaitInv, [Next]_vars, NEW u \in Uploads
  PROVE  \/ call'[u] = call[u]
         \/ call'[u].handler = NoHandler /\ call'[u].pc # "wait"
         \/ \E h \in Handlers : Sends(u, h)
<1>1. ASSUME Fails(u) \/ Begins(u) \/ Accepts(u) \/ Succeeds(u)
      PROVE  call'[u].handler = NoHandler /\ call'[u].pc # "wait"
  BY <1>1 DEF Fails, Begins, Accepts, Succeeds
<1>2. QED
  BY <1>1, CallSteps

LEMMA AwaitedOnce ==
  ASSUME TypeOK, LoopInv, WaitInv, [Next]_vars,
         NEW u \in Uploads, NEW v \in Uploads, u # v, call'[u].pc = "wait"
  PROVE  call'[v].handler # call'[u].handler
<1>1. NoHandler \notin Handlers
  BY SdkAssumption
<1>2. CASE \E h \in Handlers : Sends(u, h)
  <2>1. PICK h \in Handlers : Sends(u, h)
    BY <1>2
  <2>2. call'[u].handler = h /\ call'[v] = call[v] /\ call[v].handler # h
    BY <2>1 DEF Sends, OthersRest
  <2>3. QED
    BY <2>2
<1>3. CASE call'[u] = call[u]
  <2>1. call[u].pc = "wait" /\ call[u].handler # NoHandler /\ call[v].handler # call[u].handler
    BY <1>3 DEF WaitInv
  <2>2. CASE call'[v] = call[v] \/ call'[v].handler = NoHandler
    BY <1>3, <2>1, <2>2
  <2>3. CASE \E h \in Handlers : Sends(v, h)
    BY <1>3, <2>3 DEF Sends
  <2>4. QED
    BY <2>2, <2>3, AwaitSteps
<1>4. QED
  BY <1>2, <1>3, AwaitSteps

LEMMA WaitStep ==
  ASSUME TypeOK, LoopInv, WaitInv, [Next]_vars
  PROVE  WaitInv'
<1>1. ASSUME NEW u \in Uploads, NEW v \in Uploads \ {u}, call'[u].pc = "wait"
      PROVE  call'[v].handler # call'[u].handler
  BY <1>1, AwaitedOnce
<1>2. ASSUME NEW u \in Uploads
      PROVE  /\ call'[u].pc = "wait" <=> call'[u].handler # NoHandler
             /\ call'[u].pc = "wait" =>
                  \/ job'[call'[u].handler] = [upload |-> u, chunk |-> call'[u].current]
                  \/ /\ pc'[call'[u].handler] = "idle"
                     /\ answer'[call'[u].handler] \notin Accepted
  <2>1. CASE Fails(u) \/ Begins(u) \/ Accepts(u) \/ Succeeds(u)
    BY <2>1 DEF Fails, Begins, Accepts, Succeeds
  <2>2. CASE \E h \in Handlers : Sends(u, h)
    <3>1. PICK h \in Handlers : Sends(u, h)
      BY <2>2
    <3>2. /\ call'[u].pc = "wait" /\ call'[u].handler = h
          /\ call'[u].current = call[u].current
      BY <3>1 DEF Sends
    <3>3. QED
      BY <3>1, <3>2, SendEffect, SdkAssumption
  <2>3. CASE call'[u] = call[u] /\ call[u].pc # "wait"
    BY <2>3 DEF WaitInv
  <2>4. CASE call'[u] = call[u] /\ call[u].pc = "wait"
    <3> DEFINE h == call[u].handler
    <3>1. h \in Handlers
      BY <2>4, CallType DEF WaitInv
    <3>2. \/ job[h] = [upload |-> u, chunk |-> call[u].current]
          \/ pc[h] = "idle" /\ answer[h] \notin Accepted
      BY <2>4 DEF WaitInv
    <3>3. \A v \in Uploads : ~ Sends(v, h)
      BY <2>4 DEF Sends
    <3>4. CASE HandlerRests(h)
      <4>1. job'[h] = job[h] /\ pc'[h] = pc[h] /\ answer'[h] = answer[h]
        BY <3>4 DEF HandlerRests
      <4>2. call'[u].handler = h /\ h # NoHandler
        BY <2>4 DEF WaitInv
      <4>3. QED
        BY <2>4, <3>2, <4>1, <4>2
    <3>5. CASE Handles(h)
      BY <2>4, <3>1, <3>2, <3>5, HandlesRest, SdkAssumption
    <3>6. QED
      BY <3>1, <3>3, <3>4, <3>5, HandlerSteps
  <2>5. QED
    BY <2>1, <2>2, <2>3, <2>4, CallSteps
<1>3. QED
  BY <1>1, <1>2 DEF WaitInv

-----------------------------------------------------------------------------
(* Chunks arrive.                                                          *)

LEMMA ArrivedGrows ==
  ASSUME TypeOK, LoopInv, WaitInv, [Next]_vars,
         NEW p \in Paths, NEW n \in Chunks, Server!Arrived(p, n)
  PROVE  Server!Arrived(p, n)'
<1>1. n \in ServerP!Chunks /\ ServerP!TypeOK
  BY ServerTypes DEF Chunks, ServerP!Chunks
<1>2. CASE [ServerP!Next]_(ServerP!vars)
  BY <1>1, <1>2, SameArrived, ServerAssumptions, ServerP!StoresGrow
<1>3. CASE StoresRest
  BY <1>3 DEF StoresRest, Server!Arrived, Server!Stored
<1>4. QED
  BY <1>2, <1>3, ServerSteps

(* An accepted answer is about the chunk that was sent.                    *)
LEMMA AcceptedAnswer ==
  ASSUME TypeOK, WaitInv, ServerP!Inv, NEW u \in Uploads, Accepts(u)
  PROVE  LET h == call[u].handler IN
         /\ h \in Handlers /\ pc[h] = "idle" /\ answer[h] \in {200, 201}
         /\ job[h] = [upload |-> u, chunk |-> call[u].current]
         /\ Server!Arrived(PathOf[u], call[u].current)
         /\ answer[h] = 201 => IsUploaded(u)
<1> DEFINE h == call[u].handler
<1>1. call[u].pc = "wait" /\ pc[h] = "idle" /\ answer[h] \in {200, 201}
  BY DEF Accepts, Answered, Accepted
<1>2. h \in Handlers
  BY <1>1, CallType DEF WaitInv
<1>3. job[h] = [upload |-> u, chunk |-> call[u].current]
  BY <1>1 DEF WaitInv, Accepted
<1>4. ServerP!Path(h) = PathOf[u] /\ ServerP!Upload(h) = u
  BY <1>3 DEF ServerP!Path, ServerP!Upload
<1>5. ServerP!Arrived(PathOf[u], call[u].current)
  BY <1>1, <1>2, <1>3, <1>4 DEF ServerP!Inv, ServerP!AckedChunkArrived
<1>6. answer[h] = 201 => IsUploaded(u)
  BY <1>2, <1>4 DEF ServerP!Inv, ServerP!CreatedIsUploaded, IsUploaded
<1>7. QED
  BY <1>1, <1>2, <1>3, <1>5, <1>6, SameArrived

LEMMA PrefixStep ==
  ASSUME TypeOK, LoopInv, WaitInv, ServerP!Inv, PrefixArrived, [Next]_vars
  PROVE  PrefixArrived'
<1> SUFFICES ASSUME NEW u \in Uploads, call'[u].pc \in {"loop", "wait"},
                    NEW n \in Chunks, n < call'[u].current
             PROVE  Server!Arrived(PathOf[u], n)'
  BY DEF PrefixArrived
<1>0. PathOf[u] \in Paths
  BY SdkAssumption
<1>1. CASE Begins(u)
  BY <1>1 DEF Begins, Chunks
<1>2. CASE Accepts(u)
  <2>1. call'[u].current = call[u].current + 1 /\ call[u].pc = "wait"
    BY <1>2 DEF Accepts, Answered
  <2>2. n < call[u].current \/ n = call[u].current
    BY <2>1, CallType DEF Chunks
  <2>3. Server!Arrived(PathOf[u], n)
    BY <1>2, <2>1, <2>2, AcceptedAnswer DEF PrefixArrived
  <2>4. QED
    BY <1>0, <2>3, ArrivedGrows
<1>3. CASE call'[u] = call[u]
  BY <1>0, <1>3, ArrivedGrows DEF PrefixArrived
<1>4. CASE \E h \in Handlers : Sends(u, h)
  <2>1. call[u].pc = "loop" /\ call'[u].current = call[u].current
    BY <1>4 DEF Sends
  <2>2. QED
    BY <1>0, <2>1, ArrivedGrows DEF PrefixArrived
<1>5. CASE Fails(u) \/ Succeeds(u)
  BY <1>5 DEF Fails, Succeeds
<1>6. QED
  BY <1>1, <1>2, <1>3, <1>4, <1>5, CallSteps

(* The step that makes a call return nil.                                  *)
LEMMA NewlyNil ==
  ASSUME TypeOK, LoopInv, WaitInv, [Next]_vars,
         NEW u \in Uploads, call'[u].result = "nil"
  PROVE  call'[u] = call[u] \/ Succeeds(u)
<1>1. ~ Fails(u) /\ ~ Begins(u)
  BY DEF Fails, Begins
<1>2. ~ Accepts(u)
  BY DEF Accepts, Answered, LoopInv
<1>3. \A h \in Handlers : ~ Sends(u, h)
  BY DEF Sends, LoopInv
<1>4. QED
  BY <1>1, <1>2, <1>3, CallSteps

LEMMA NilStep ==
  ASSUME TypeOK, LoopInv, WaitInv, PrefixArrived, NilChunksArrived, [Next]_vars
  PROVE  NilChunksArrived'
<1> SUFFICES ASSUME NEW u \in Uploads, call'[u].result = "nil",
                    NEW n \in 1 .. totalChunks(u)
             PROVE  Server!Arrived(PathOf[u], n)'
  BY DEF NilChunksArrived
<1>1. PathOf[u] \in Paths
  BY SdkAssumption
<1>2. CASE call'[u] = call[u]
  <2>1. Server!Arrived(PathOf[u], n)
    BY <1>2 DEF NilChunksArrived
  <2>2. n \in Chunks
    <3>1. totalChunks(u) \in Int /\ totalChunks(u) <= MaxChunks
      BY <1>2, ChunkCount DEF LoopInv
    <3>2. QED
      BY <3>1, MaxFileSizeType DEF Chunks
  <2>3. QED
    BY <1>1, <2>1, <2>2, ArrivedGrows
<1>3. CASE Succeeds(u)
  <2>1. /\ call[u].pc = "loop" /\ call[u].current > totalChunks(u)
        /\ SizeInBytes[u] <= maxFileSize
    BY <1>3 DEF Succeeds, LoopInv
  <2>2. totalChunks(u) \in Int /\ totalChunks(u) <= MaxChunks
    BY <2>1, ChunkCount
  <2>3. n \in Chunks /\ n < call[u].current
    BY <2>1, <2>2, CallType, MaxFileSizeType DEF Chunks
  <2>4. Server!Arrived(PathOf[u], n)
    BY <2>1, <2>3 DEF PrefixArrived
  <2>5. QED
    BY <1>1, <2>3, <2>4, ArrivedGrows
<1>4. QED
  BY <1>2, <1>3, NewlyNil

-----------------------------------------------------------------------------
(* The first call of an upload that is alone.                              *)

LEMMA SameAllPartsUploaded ==
  ASSUME NEW parts, NEW total
  PROVE  /\ ServerP!StoredParts(parts) = StoredParts(parts)
         /\ ServerP!AllPartsUploaded(parts, total) <=> AllPartsUploaded(parts, total)
BY DEF ServerP!AllPartsUploaded, AllPartsUploaded, ServerP!StoredParts,
   StoredParts, ServerP!Chunks, Chunks, ServerP!Cardinality, Cardinality

(* One more chunk in its turn.                                             *)
LEMMA NextPart ==
  ASSUME NEW parts \in [Chunks -> Uploads \cup {NoPart}], NEW k \in Chunks,
         StoredParts(parts) = 1 .. k - 1, NEW u \in Uploads, NEW total
  PROVE  /\ StoredParts(PutPart(parts, k, u)) = 1 .. k
         /\ AllPartsUploaded(PutPart(parts, k, u), total) <=> k = total
<1>1. u # NoPart /\ k \in Nat \ {0}
  BY BucketAssumption DEF Chunks
<1>2. StoredParts(PutPart(parts, k, u)) = StoredParts(parts) \cup {k}
  BY <1>1 DEF StoredParts, PutPart
<1>3. StoredParts(PutPart(parts, k, u)) = 1 .. k
  BY <1>1, <1>2
<1>4. Cardinality(1 .. k) = k
  BY <1>1, FS_Interval
<1>5. QED
  BY <1>3, <1>4 DEF AllPartsUploaded

(* The calls of a handler, as far as the parts and the answer go.          *)
LEMMA HandlesSteps ==
  ASSUME TypeOK, NEW h \in Handlers, Handles(h)
  PROVE  \/ /\ pc[h] = "upload" /\ pc'[h] = "idle" /\ answer'[h] = 200
            /\ ~ ServerP!AllPartsUploaded(ServerP!Parts(h), ServerP!Total(h))
            /\ ServerP!StoreParts(ServerP!Path(h), ServerP!Parts(h))
         \/ /\ pc[h] = "upload" /\ pc'[h] = "register"
            /\ ServerP!AllPartsUploaded(ServerP!Parts(h), ServerP!Total(h))
         \/ pc'[h] = "idle" /\ answer'[h] \notin {200, 201}
         \/ /\ pc[h] \in {"register", "head", "mark"}
            /\ pc'[h] \in {"head", "mark"} \/ (pc'[h] = "idle" /\ answer'[h] = 201)
<1> USE ServerTypes, ServerAssumptions, ServerP!StatusCodes
    DEF ServerP!Answer, ServerP!Proceed
<1>1. CASE ServerP!StorePart(h)
  BY <1>1 DEF ServerP!StorePart
<1>2. CASE ServerP!CompleteUpload(h)
  BY <1>2 DEF ServerP!CompleteUpload
<1>3. CASE ServerP!RejectChunk(h) \/ ServerP!UploadPartFails(h)
  BY <1>3 DEF ServerP!RejectChunk, ServerP!UploadPartFails
<1>4. CASE ServerP!Register(h) \/ ServerP!RegisterConflict(h)
  BY <1>4 DEF ServerP!Register, ServerP!RegisterConflict
<1>5. CASE ServerP!RegisterFails(h)
  <2>1. \E code \in {400, 401, 403, 500} : ServerP!Answer(h, code)
    BY <1>5 DEF ServerP!RegisterFails
  <2>2. QED
    BY <2>1
<1>6. CASE ServerP!HeadObject(h) \/ ServerP!HeadFails(h)
  BY <1>6 DEF ServerP!HeadObject, ServerP!HeadFails
<1>7. CASE ServerP!MarkUploaded(h) \/ ServerP!MarkFails(h)
  BY <1>7 DEF ServerP!MarkUploaded, ServerP!MarkFails
<1>8. CASE ServerP!Crash(h)
  BY <1>8 DEF ServerP!Crash
<1>9. QED
  BY <1>1, <1>2, <1>3, <1>4, <1>5, <1>6, <1>7, <1>8 DEF Handles, ServerP!UploadFile

(* A handler changes the parts and objects of its own path alone.          *)
LEMMA PathsApart ==
  ASSUME TypeOK, NEW h \in Handlers, Handles(h),
         NEW p \in Paths, p # PathOf[job[h].upload] \/ pc[h] # "upload"
  PROVE  pending'[p] = pending[p] /\ versions'[p] = versions[p]
<1>1. \/ UNCHANGED <<pending, versions>>
      \/ pc[h] = "upload" /\ ServerP!StoreParts(ServerP!Path(h), ServerP!Parts(h))
      \/ pc[h] = "upload" /\ ServerP!CompleteObject(ServerP!Path(h), ServerP!Parts(h))
  BY DEF Handles, ServerP!UploadFile, ServerP!Crash, ServerP!StorePart,
     ServerP!CompleteUpload, ServerP!RejectChunk, ServerP!UploadPartFails,
     ServerP!UploadPartEffect, ServerP!Register, ServerP!RegisterConflict,
     ServerP!RegisterFails, ServerP!HeadObject, ServerP!HeadFails,
     ServerP!MarkUploaded, ServerP!MarkFails, ServerP!s3Vars
<1>2. QED
  BY <1>1, ServerTypes
     DEF ServerP!StoreParts, ServerP!CompleteObject, ServerP!Path, ServerP!Upload

LEMMA UploadedLasts ==
  ASSUME TypeOK, LoopInv, WaitInv, ServerP!Inv, [Next]_vars,
         NEW u \in Uploads, IsUploaded(u)
  PROVE  IsUploaded(u)'
<1>1. PathOf[u] \in Paths /\ ServerP!TypeOK /\ ServerP!OneFinisher
  BY SdkAssumption DEF ServerP!Inv
<1>2. CASE [ServerP!Next]_(ServerP!vars)
  BY <1>1, <1>2, ServerAssumptions, ServerP!RecordsLast DEF IsUploaded
<1>3. CASE StoresRest
  BY <1>3 DEF StoresRest, IsUploaded
<1>4. QED
  BY <1>2, <1>3, ServerSteps

(* Who is alone has been so all the time.                                  *)
LEMMA AloneBefore ==
  ASSUME TypeOK, LoopInv, WaitInv, [Next]_vars, NEW u \in Uploads, Alone(u)'
  PROVE  /\ Alone(u) /\ call[u].calls <= call'[u].calls
         /\ \A v \in Uploads, h \in Handlers :
              Sends(v, h) => v = u \/ PathOf[v] # PathOf[u]
<1>1. ASSUME NEW v \in Uploads PROVE call[v].calls <= call'[v].calls
  <2>1. call[v].calls \in Nat
    BY CallType
  <2>2. CASE Fails(v)
    BY <2>1, <2>2 DEF Fails
  <2>3. CASE Begins(v)
    BY <2>1, <2>3 DEF Begins
  <2>4. CASE Accepts(v) \/ Succeeds(v) \/ \E h \in Handlers : Sends(v, h)
    BY <2>1, <2>4 DEF Accepts, Succeeds, Sends
  <2>5. QED
    BY <2>1, <2>2, <2>3, <2>4, CallSteps
<1>2. Alone(u)
  BY <1>1, CallType DEF Alone
<1>3. ASSUME NEW v \in Uploads, NEW h \in Handlers, Sends(v, h)
      PROVE  v = u \/ PathOf[v] # PathOf[u]
  BY <1>2, <1>3, CallType DEF Alone, Sends, LoopInv
<1>4. QED
  BY <1>1, <1>2, <1>3

LEMMA FirstBegins ==
  ASSUME TypeOK, LoopInv, WaitInv, FirstInv, NEW u \in Uploads, Begins(u),
         Alone(u), call'[u].calls <= 1, totalChunks(u) \in Chunks
  PROVE  FirstCall(u)'
<1>1. call[u].pc = "idle" /\ call[u].current = 1 /\ call[u].calls = 0
  BY CallType DEF Begins, LoopInv
<1>2. FirstCall(u)
  BY <1>1 DEF FirstInv
<1>3. call[u].handler = NoHandler
  BY <1>1 DEF WaitInv
<1>4. Waiting(u, 1 - 1) /\ 1 <= totalChunks(u)
  BY <1>1, <1>2 DEF FirstCall, Chunks
<1>5. /\ call'[u].pc = "loop" /\ call'[u].current = 1
      /\ call'[u].handler = NoHandler
      /\ UNCHANGED <<pending, versions, pc, job>>
  BY DEF Begins, serverVars
<1>6. QED
  BY <1>2, <1>3, <1>4, <1>5 DEF FirstCall, Waiting

LEMMA FirstSends ==
  ASSUME TypeOK, LoopInv, WaitInv, FirstInv,
         NEW u \in Uploads, NEW h \in Handlers, Sends(u, h),
         Alone(u), call[u].calls <= 1, totalChunks(u) \in Chunks
  PROVE  FirstCall(u)'
<1>1. call[u].pc = "loop" /\ call[u].current <= totalChunks(u)
  BY DEF Sends
<1>2. FirstCall(u) /\ call[u].handler = NoHandler
  BY <1>1 DEF FirstInv, WaitInv
<1>3. Waiting(u, call[u].current - 1)
  BY <1>1, <1>2 DEF FirstCall
<1>4. \A k \in Handlers : pc[k] # "idle" => PathOf[job[k].upload] # PathOf[u]
  BY <1>2, SdkAssumption DEF FirstCall
<1>5. /\ call'[u].pc = "wait" /\ call'[u].handler = h
      /\ call'[u].current = call[u].current
  BY DEF Sends
<1>6. /\ pending' = pending /\ versions' = versions
      /\ \A k \in Handlers \ {h} : HandlerRests(k)
      /\ \/ pc'[h] = "upload" /\ answer'[h] = 0
         \/ pc'[h] = "idle" /\ answer'[h] \notin Accepted
  BY SendEffect
<1>7. \A k \in Handlers : pc'[k] # "idle" /\ PathOf[job'[k].upload] = PathOf[u] => k = h
  BY <1>4, <1>6 DEF HandlerRests
<1>8. Waiting(u, call[u].current - 1)'
  BY <1>3, <1>5, <1>6 DEF Waiting
<1>9. QED
  BY <1>5, <1>6, <1>7, <1>8 DEF FirstCall, Accepted

LEMMA FirstAccepts ==
  ASSUME TypeOK, LoopInv, WaitInv, ServerP!Inv, FirstInv, NEW u \in Uploads, Accepts(u),
         Alone(u), call[u].calls <= 1, totalChunks(u) \in Chunks
  PROVE  FirstCall(u)'
<1> DEFINE h == call[u].handler
<1>1. /\ h \in Handlers /\ pc[h] = "idle" /\ answer[h] \in {200, 201}
      /\ answer[h] = 201 => IsUploaded(u)
  BY AcceptedAnswer
<1>2. call[u].pc = "wait"
  BY DEF Accepts, Answered
<1>3. FirstCall(u)
  BY <1>2 DEF FirstInv
<1>4. /\ call'[u].pc = "loop" /\ call'[u].current = call[u].current + 1
      /\ UNCHANGED <<pending, versions, meta, pc, job>>
  BY DEF Accepts, serverVars
<1>5. \A k \in Handlers : pc[k] # "idle" => PathOf[job[k].upload] # PathOf[u]
  BY <1>1, <1>3 DEF FirstCall
<1>6. call[u].current \in Nat /\ totalChunks(u) \in Nat
  BY CallType DEF Chunks
<1>7. CASE answer[h] = 200
  <2>1. call[u].current < totalChunks(u) /\ Waiting(u, call[u].current)
    BY <1>1, <1>2, <1>3, <1>7 DEF FirstCall
  <2>2. call'[u].current <= totalChunks(u) /\ call'[u].current - 1 = call[u].current
    BY <1>4, <1>6, <2>1
  <2>3. Waiting(u, call[u].current - 1)'
    BY <1>4, <2>1, <2>2 DEF Waiting
  <2>4. QED
    BY <1>4, <1>5, <2>2, <2>3 DEF FirstCall
<1>8. CASE answer[h] = 201
  <2>1. call[u].current = totalChunks(u)
    BY <1>2, <1>3, <1>8 DEF FirstCall
  <2>2. ~ (call'[u].current <= totalChunks(u))
    BY <1>4, <1>6, <2>1
  <2>3. IsUploaded(u)'
    BY <1>1, <1>4, <1>8 DEF IsUploaded
  <2>4. QED
    BY <1>4, <1>5, <2>2, <2>3 DEF FirstCall
<1>9. QED
  BY <1>1, <1>7, <1>8

(* A step of the handler that the call awaits.                             *)
LEMMA FirstHandled ==
  ASSUME TypeOK, LoopInv, WaitInv, NEW u \in Uploads, FirstCall(u),
         NEW h \in Handlers, Handles(h), PathOf[job[h].upload] = PathOf[u],
         totalChunks(u) \in Chunks
  PROVE  FirstCall(u)'
<1> DEFINE p == PathOf[u]
           k == call[u].current
<1>1. /\ pc[h] # "idle" /\ job' = job /\ call' = call
      /\ \A g \in Handlers \ {h} : pc'[g] = pc[g]
  BY HandlesRest DEF HandlerRests, Handles
<1>2. call[u].handler = h
  BY <1>1 DEF FirstCall
<1>3. call[u].pc = "wait" /\ job[h] = [upload |-> u, chunk |-> k]
  BY <1>1, <1>2, SdkAssumption DEF WaitInv
<1>4. k \in Chunks /\ k <= totalChunks(u)
  <2>1. k \in Nat \ {0} /\ k <= totalChunks(u)
    BY <1>3, CallType, MaxFileSizeType DEF LoopInv
  <2>2. QED
    BY <2>1, MaxFileSizeType DEF Chunks
<1>5. /\ p \in Paths /\ ServerP!Path(h) = p /\ ServerP!Total(h) = totalChunks(u)
      /\ ServerP!Parts(h) = PutPart(pending[p], k, u)
  BY <1>3, SdkAssumption DEF ServerP!Path, ServerP!Upload, ServerP!Total, SentTotals,
     ServerP!Parts, ServerP!PutPart, PutPart
<1>6. \A g \in Handlers : pc'[g] # "idle" /\ PathOf[job'[g].upload] = p => g = h
  BY <1>1, <1>2 DEF FirstCall
<1>7. CASE pc[h] = "upload"
  <2>1. Waiting(u, k - 1)
    BY <1>2, <1>3, <1>7 DEF FirstCall
  <2>2. /\ StoredParts(ServerP!Parts(h)) = 1 .. k
        /\ ServerP!AllPartsUploaded(ServerP!Parts(h), ServerP!Total(h))
              <=> k = totalChunks(u)
    <3>1. /\ pending[p] \in [Chunks -> Uploads \cup {NoPart}]
          /\ StoredParts(pending[p]) = 1 .. k - 1
      BY <1>5, <2>1, ServerTypes DEF Waiting
    <3>2. /\ StoredParts(PutPart(pending[p], k, u)) = 1 .. k
          /\ AllPartsUploaded(PutPart(pending[p], k, u), totalChunks(u))
                <=> k = totalChunks(u)
      BY <1>4, <3>1, NextPart
    <3>3. QED
      BY <1>5, <3>2, SameAllPartsUploaded
  <2>3. CASE /\ pc'[h] = "idle" /\ answer'[h] = 200
             /\ ~ ServerP!AllPartsUploaded(ServerP!Parts(h), ServerP!Total(h))
             /\ ServerP!StoreParts(ServerP!Path(h), ServerP!Parts(h))
    <3>1. k < totalChunks(u)
      BY <1>4, <2>2, <2>3 DEF Chunks
    <3>2. pending'[p] = ServerP!Parts(h) /\ versions' = versions
      BY <1>5, <2>3, ServerTypes DEF ServerP!StoreParts
    <3>3. Waiting(u, k)'
      BY <1>1, <2>1, <2>2, <3>2 DEF Waiting
    <3>4. QED
      BY <1>1, <1>2, <1>3, <1>6, <2>3, <3>1, <3>3 DEF FirstCall
  <2>4. CASE /\ pc'[h] = "register"
             /\ ServerP!AllPartsUploaded(ServerP!Parts(h), ServerP!Total(h))
    BY <1>1, <1>2, <1>3, <1>6, <2>2, <2>4 DEF FirstCall
  <2>5. CASE pc'[h] = "idle" /\ answer'[h] \notin {200, 201}
    BY <1>1, <1>2, <1>3, <1>6, <2>5 DEF FirstCall
  <2>6. QED
    BY <1>7, <2>3, <2>4, <2>5, HandlesSteps
<1>8. CASE pc[h] \in {"register", "head", "mark"}
  <2>1. k = totalChunks(u)
    BY <1>2, <1>3, <1>8 DEF FirstCall
  <2>2. \/ pc'[h] \in {"head", "mark"}
        \/ pc'[h] = "idle" /\ answer'[h] # 200
    BY <1>8, HandlesSteps
  <2>3. QED
    BY <1>1, <1>2, <1>3, <1>6, <2>1, <2>2 DEF FirstCall
<1>9. QED
  BY <1>1, <1>7, <1>8, ServerTypes

(* While it goes on, a step of a handler is one of its own, or of another  *)
(* path.                                                                   *)
LEMMA FirstWhileHandled ==
  ASSUME TypeOK, LoopInv, WaitInv, NEW u \in Uploads, FirstCall(u),
         NEW h \in Handlers, Handles(h), call[u].pc # "returned",
         totalChunks(u) \in Chunks, IsUploaded(u) => IsUploaded(u)'
  PROVE  FirstCall(u)'
<1> DEFINE p == PathOf[u]
<1>1. CASE PathOf[job[h].upload] = p
  BY <1>1, FirstHandled
<1>2. CASE PathOf[job[h].upload] # p
  <2>1. /\ pc[h] # "idle" /\ job' = job /\ call' = call
        /\ \A g \in Handlers \ {h} : HandlerRests(g)
    BY HandlesRest DEF Handles
  <2>2. pending'[p] = pending[p] /\ versions'[p] = versions[p]
    BY <1>2, PathsApart, SdkAssumption
  <2>3. call[u].pc = "wait" => call[u].handler \in Handlers \ {h}
    <3>1. SUFFICES ASSUME call[u].pc = "wait" PROVE call[u].handler \in Handlers \ {h}
      OBVIOUS
    <3>2. call[u].handler \in Handlers
      BY <3>1, CallType DEF WaitInv
    <3>3. \/ job[call[u].handler].upload = u
          \/ pc[call[u].handler] = "idle"
      <4>1. \/ job[call[u].handler] = [upload |-> u, chunk |-> call[u].current]
            \/ pc[call[u].handler] = "idle"
        BY <3>1 DEF WaitInv
      <4>2. QED
        BY <4>1
    <3>4. QED
      BY <1>2, <2>1, <3>2, <3>3
  <2>4. \A g \in Handlers :
          pc'[g] # "idle" /\ PathOf[job'[g].upload] = p => g = call'[u].handler
    BY <1>2, <2>1 DEF FirstCall, HandlerRests
  <2>5. \A k : Waiting(u, k) => /\ versions'[p] = {}
                                /\ StoredParts(pending'[p]) = 1 .. k
    BY <2>2 DEF Waiting
  <2>6. call[u].pc = "wait" =>
          LET g == call[u].handler IN pc'[g] = pc[g] /\ answer'[g] = answer[g]
    BY <2>1, <2>3 DEF HandlerRests
  <2>7. QED
    BY <2>1, <2>4, <2>5, <2>6 DEF FirstCall, Waiting
<1>3. QED
  BY <1>1, <1>2

(* A request of another call goes to a handler that is free.               *)
LEMMA FirstWhileSent ==
  ASSUME TypeOK, LoopInv, WaitInv, NEW u \in Uploads, FirstCall(u),
         NEW v \in Uploads, NEW h \in Handlers, Sends(v, h),
         v # u, PathOf[v] # PathOf[u], call[u].pc # "returned"
  PROVE  FirstCall(u)'
<1> DEFINE p == PathOf[u]
<1>1. /\ UNCHANGED <<pending, versions, meta>> /\ pc[h] = "idle"
      /\ \A g \in Handlers \ {h} : HandlerRests(g)
      /\ \/ job'[h] = [upload |-> v, chunk |-> call[v].current]
         \/ pc'[h] = "idle"
  BY SendEffect DEF Sends
<1>2. call'[u] = call[u] /\ call[u].handler # h
  BY DEF Sends, OthersRest
<1>3. \A g \in Handlers :
        pc'[g] # "idle" /\ PathOf[job'[g].upload] = p => g = call'[u].handler
  BY <1>1, <1>2 DEF FirstCall, HandlerRests
<1>4. call[u].pc = "wait" =>
        LET g == call[u].handler IN pc'[g] = pc[g] /\ answer'[g] = answer[g]
  <2>1. call[u].pc = "wait" => call[u].handler \in Handlers \ {h}
    BY <1>2, CallType DEF WaitInv
  <2>2. QED
    BY <1>1, <2>1 DEF HandlerRests
<1>5. \A k : Waiting(u, k) => /\ versions'[p] = {}
                              /\ StoredParts(pending'[p]) = 1 .. k
  BY <1>1 DEF Waiting
<1>6. IsUploaded(u) => IsUploaded(u)'
  BY <1>1 DEF IsUploaded
<1>7. QED
  BY <1>2, <1>3, <1>4, <1>5, <1>6 DEF FirstCall, Waiting

(* Nothing that a handler sees happens.                                    *)
LEMMA FirstAtRest ==
  ASSUME NEW u \in Uploads, FirstCall(u), StoresRest, call'[u] = call[u]
  PROVE  FirstCall(u)'
BY DEF StoresRest, FirstCall, Waiting, IsUploaded

LEMMA FirstStep ==
  ASSUME TypeOK, LoopInv, WaitInv, ServerP!Inv, FirstInv, [Next]_vars
  PROVE  FirstInv'
<1> SUFFICES ASSUME NEW u \in Uploads, Alone(u)', call'[u].calls <= 1,
                    totalChunks(u) \in Chunks, call'[u].pc # "returned"
             PROVE  FirstCall(u)'
  BY DEF FirstInv, totalChunks
<1>1. /\ Alone(u) /\ call[u].calls <= 1
      /\ \A v \in Uploads, h \in Handlers :
           Sends(v, h) => v = u \/ PathOf[v] # PathOf[u]
  <2>1. /\ Alone(u) /\ call[u].calls <= call'[u].calls
        /\ \A v \in Uploads, h \in Handlers :
             Sends(v, h) => v = u \/ PathOf[v] # PathOf[u]
    BY AloneBefore
  <2>2. call[u].calls \in Nat /\ call'[u].calls \in Nat
    BY CallType, CallStep DEF Call
  <2>3. QED
    BY <2>1, <2>2
<1>2. ~ Fails(u) /\ ~ Succeeds(u)
  BY DEF Fails, Succeeds
<1>3. CASE Begins(u)
  BY <1>1, <1>3, FirstBegins
<1>4. CASE Accepts(u)
  BY <1>1, <1>4, FirstAccepts
<1>5. CASE \E h \in Handlers : Sends(u, h)
  BY <1>1, <1>5, FirstSends
<1>6. CASE call'[u] = call[u] /\ ~ \E h \in Handlers : Sends(u, h)
  <2>1. call[u].pc # "returned" /\ FirstCall(u)
    BY <1>1, <1>6 DEF FirstInv
  <2>2. CASE \E v \in Uploads : Fails(v) \/ Begins(v) \/ Accepts(v) \/ Succeeds(v)
    BY <1>6, <2>1, <2>2, FirstAtRest
       DEF Fails, Begins, Accepts, Succeeds, StoresRest, serverVars
  <2>3. CASE \E v \in Uploads, h \in Handlers : Sends(v, h)
    BY <1>1, <1>6, <2>1, <2>3, FirstWhileSent
  <2>4. CASE \E h \in Handlers : Handles(h)
    BY <2>1, <2>4, FirstWhileHandled, UploadedLasts
  <2>5. CASE UNCHANGED vars
    BY <1>6, <2>1, <2>5, FirstAtRest DEF vars, StoresRest
  <2>6. QED
    BY <2>2, <2>3, <2>4, <2>5, Steps
<1>7. QED
  BY <1>2, <1>3, <1>4, <1>5, <1>6, CallSteps

(* The round that ends a first call has seen the last chunk answered.      *)
LEMMA FirstCallStep ==
  ASSUME TypeOK, LoopInv, WaitInv, ServerP!Inv, FirstInv, FirstCallUploads,
         [Next]_vars
  PROVE  FirstCallUploads'
<1> SUFFICES ASSUME NEW u \in Uploads, call'[u].result = "nil",
                    call'[u].calls = 1, Alone(u)', totalChunks(u) > 0
             PROVE  IsUploaded(u)'
  BY DEF FirstCallUploads, totalChunks
<1>1. Alone(u)
  BY AloneBefore
<1>2. CASE call'[u] = call[u]
  BY <1>1, <1>2, UploadedLasts DEF FirstCallUploads
<1>3. CASE Succeeds(u)
  <2>1. /\ call[u].pc = "loop" /\ call[u].current > totalChunks(u)
        /\ call[u].calls = 1 /\ SizeInBytes[u] <= maxFileSize
    BY <1>3 DEF Succeeds, LoopInv
  <2>2. totalChunks(u) \in Chunks
    <3>1. totalChunks(u) \in Int /\ totalChunks(u) <= MaxChunks
      BY <2>1, ChunkCount
    <3>2. QED
      BY <3>1, MaxFileSizeType DEF Chunks
  <2>3. FirstCall(u)
    BY <1>1, <2>1, <2>2 DEF FirstInv
  <2>4. ~ (call[u].current <= totalChunks(u))
    BY <2>1, <2>2, CallType DEF Chunks
  <2>5. IsUploaded(u)
    BY <2>1, <2>3, <2>4 DEF FirstCall
  <2>6. QED
    BY <2>5, UploadedLasts
<1>4. QED
  BY <1>2, <1>3, NewlyNil

-----------------------------------------------------------------------------
LEMMA InitInv == Init => Inv
<1> SUFFICES ASSUME Init PROVE Inv
  OBVIOUS
<1>1. TypeOK
  BY InitType
<1>2. Server!Inv
  BY ServerAssumptions, ServerP!InitInv, SameInit, SameInv DEF Init
<1>3. /\ \A h \in Handlers : pc[h] = "idle"
      /\ \A p \in Paths : versions[p] = {} /\ pending[p] = [n \in Chunks |-> NoPart]
  BY DEF Init, Server!Init, Server!Blank, Server!Chunks, Chunks
<1>4. \A u \in Uploads :
        /\ call[u].pc = "idle" /\ call[u].current = 1 /\ call[u].calls = 0
        /\ call[u].handler = NoHandler /\ call[u].result = "none"
  BY DEF Init
<1>5. LoopInv /\ WaitInv /\ ChunksAreTheFile /\ PrefixArrived /\ NilChunksArrived
      /\ FirstCallUploads
  BY <1>4 DEF LoopInv, WaitInv, ChunksAreTheFile, PrefixArrived, NilChunksArrived,
     FirstCallUploads
<1>6. ASSUME NEW u \in Uploads, totalChunks(u) \in Chunks PROVE FirstCall(u)
  <2>1. Waiting(u, 1 - 1)
    <3>1. StoredParts(pending[PathOf[u]]) = {}
      BY <1>3, SdkAssumption DEF StoredParts
    <3>2. QED
      BY <1>3, <3>1, SdkAssumption DEF Waiting
  <2>2. 1 <= totalChunks(u)
    BY <1>6 DEF Chunks
  <2>3. QED
    BY <1>3, <1>4, <2>1, <2>2 DEF FirstCall
<1>7. FirstInv
  BY <1>6 DEF FirstInv
<1>8. QED
  BY <1>1, <1>2, <1>5, <1>7 DEF Inv

LEMMA InvStep == Inv /\ [Next]_vars => Inv'
<1> SUFFICES ASSUME Inv, [Next]_vars PROVE Inv'
  OBVIOUS
<1>1. TypeOK /\ LoopInv /\ WaitInv /\ ServerP!Inv
  BY SameInv DEF Inv
<1>2. Server!Inv'
  BY <1>1, ServerStep, SameInv
<1>3. TypeOK' /\ WaitInv' /\ LoopInv' /\ ChunksAreTheFile'
  BY <1>1, TypeStep, WaitStep, BytesStep DEF Inv
<1>4. PrefixArrived' /\ NilChunksArrived'
  BY <1>1, PrefixStep, NilStep DEF Inv
<1>5. FirstInv' /\ FirstCallUploads'
  BY <1>1, FirstStep, FirstCallStep DEF Inv
<1>6. QED
  BY <1>2, <1>3, <1>4, <1>5 DEF Inv

(* Callers and service keep their inductive invariant, whichever uploads,  *)
(* handlers and sizes there are.                                           *)
THEOREM InvCorrect == Spec => []Inv
<1>1. Init => Inv
  BY InitInv
<1>2. Inv /\ [Next]_vars => Inv'
  BY InvStep
<1>3. QED
  BY <1>1, <1>2, PTL DEF Spec

(* Every variable stays within its type.                                   *)
THEOREM TypeCorrect == Spec => []TypeOK
<1>1. Inv => TypeOK
  BY DEF Inv
<1>2. QED
  BY <1>1, InvCorrect, PTL

(* A first call that returns nil, for a path that nobody else has used,    *)
(* leaves its file UPLOADED, at every size that is not refused.            *)
THEOREM FirstCallUploadsCorrect == Spec => []FirstCallUploads
<1>1. Inv => FirstCallUploads
  BY DEF Inv
<1>2. QED
  BY <1>1, InvCorrect, PTL

(* The chunks sent are a prefix of the file, all of it when nil is         *)
(* returned, for every size of a file and of a chunk.                      *)
THEOREM ChunksAreTheFileCorrect == Spec => []ChunksAreTheFile
<1>1. Inv => ChunksAreTheFile
  BY DEF Inv
<1>2. QED
  BY <1>1, InvCorrect, PTL

-----------------------------------------------------------------------------
(* What is stored is what was sent.                                        *)

LEMMA SameParts ==
  /\ TypeOK /\ ServerP!PartsInv =>
       \A p \in Paths : \A obj \in versions[p] :
         /\ \A n \in StoredParts(obj) :
              PathOf[obj[n]] = p /\ n \in 1 .. SentTotals[obj[n]]
         /\ \E n \in StoredParts(obj) :
              ServerP!AllPartsUploaded(obj, SentTotals[obj[n]])
  /\ \A obj : ServerP!StoredParts(obj) = StoredParts(obj)
<1>1. \A obj : ServerP!StoredParts(obj) = StoredParts(obj)
  BY DEF ServerP!StoredParts, StoredParts, ServerP!Chunks, Chunks
<1>2. ASSUME TypeOK, ServerP!PartsInv, NEW p \in Paths, NEW obj \in versions[p]
      PROVE  /\ \A n \in StoredParts(obj) :
                  PathOf[obj[n]] = p /\ n \in 1 .. SentTotals[obj[n]]
             /\ \E n \in StoredParts(obj) :
                  ServerP!AllPartsUploaded(obj, SentTotals[obj[n]])
  <2>1. \A n \in StoredParts(obj) : obj[n] \in Uploads
    BY <1>2, ServerTypes DEF Objects, StoredParts
  <2>2. /\ \A n \in StoredParts(obj) :
             PathOf[obj[n]] = p /\ n \in SentNumbers[obj[n]]
        /\ \E n \in StoredParts(obj) :
             ServerP!AllPartsUploaded(obj, SentTotals[obj[n]])
    BY <1>1, <1>2 DEF ServerP!PartsInv, ServerP!SentTo
  <2>3. QED
    BY <2>1, <2>2 DEF SentNumbers
<1>3. QED
  BY <1>1, <1>2

LEMMA PartsStep ==
  ASSUME TypeOK, LoopInv, WaitInv, ServerP!PartsInv, [Next]_vars
  PROVE  ServerP!PartsInv'
<1>1. CASE [ServerP!Next]_(ServerP!vars)
  BY <1>1, ServerAssumptions, ServerTypes, ServerP!PartsStep
<1>2. CASE StoresRest
  BY <1>2 DEF StoresRest, ServerP!PartsInv, ServerP!Total, ServerP!Upload,
     ServerP!SentTo
<1>3. QED
  BY <1>1, <1>2, ServerSteps

(* No call is forgotten.                                                   *)
LEMMA CallsGrow ==
  ASSUME TypeOK, LoopInv, WaitInv, [Next]_vars, NEW u \in Uploads, call[u].calls > 0
  PROVE  call'[u].calls > 0
<1>1. ASSUME Fails(u) \/ Accepts(u) \/ Succeeds(u) \/ \E h \in Handlers : Sends(u, h)
      PROVE  call'[u].calls > 0
  BY <1>1 DEF Fails, Accepts, Succeeds, Sends
<1>2. ASSUME Begins(u) PROVE call'[u].calls > 0
  <2>1. call'[u].calls = call[u].calls + 1 /\ call[u].calls \in Nat
    BY <1>2, CallType DEF Begins
  <2>2. QED
    BY <2>1
<1>3. QED
  BY <1>1, <1>2, CallSteps

LEMMA UploadsOfCalls ==
  ASSUME TypeOK, LoopInv, WaitInv, PartsAreOfCalls, [Next]_vars,
         NEW h \in Handlers, pc'[h] # "idle"
  PROVE  call'[job'[h].upload].calls > 0
<1>1. CASE pc[h] # "idle" /\ job'[h] = job[h]
  <2>1. job[h].upload \in Uploads
    BY ServerTypes
  <2>2. QED
    BY <1>1, <2>1, CallsGrow DEF PartsAreOfCalls
<1>2. ASSUME NEW u \in Uploads, Sends(u, h)
      PROVE  call'[job'[h].upload].calls > 0
  <2>1. call[u].pc = "loop" /\ call'[u].calls = call[u].calls
    BY <1>2 DEF Sends
  <2>2. call[u].calls > 0
    BY <2>1 DEF LoopInv
  <2>3. job'[h] = [upload |-> u, chunk |-> call[u].current]
    BY <1>2, SendEffect
  <2>4. QED
    BY <2>1, <2>2, <2>3
<1>3. QED
  BY <1>1, <1>2, HandlerSteps, HandlesRest DEF HandlerRests

LEMMA PartsOfCallsStep ==
  ASSUME TypeOK, LoopInv, WaitInv, PartsAreOfCalls, [Next]_vars
  PROVE  PartsAreOfCalls'
<1> SUFFICES ASSUME NEW p \in Paths, NEW obj \in versions'[p] \cup {pending'[p]},
                    NEW n \in StoredParts(obj)
             PROVE  call'[obj[n]].calls > 0
  BY UploadsOfCalls DEF PartsAreOfCalls, StoredParts
<1>1. n \in Chunks /\ obj[n] # NoPart
  BY DEF StoredParts
<1>2. pending[p] \in Objects /\ versions[p] \subseteq Objects
  BY ServerTypes DEF Objects
<1>3. CASE obj \in versions[p] \cup {pending[p]}
  <2>1. call[obj[n]].calls > 0
    BY <1>3 DEF PartsAreOfCalls
  <2>2. obj[n] \in Uploads
    BY <1>1, <1>2, <1>3 DEF Objects
  <2>3. QED
    BY <2>1, <2>2, CallsGrow
<1>4. ASSUME NEW h \in Handlers, pc[h] = "upload", ServerP!Path(h) = p,
             obj = ServerP!Parts(h)
      PROVE  call'[obj[n]].calls > 0
  <2>1. obj = [pending[p] EXCEPT ![job[h].chunk] = job[h].upload]
    BY <1>4 DEF ServerP!Parts, ServerP!PutPart, ServerP!Upload
  <2>2. job[h].upload \in Uploads /\ job[h].chunk \in Chunks
    BY ServerTypes
  <2>3. CASE n = job[h].chunk
    <3>1. obj[n] = job[h].upload
      BY <1>2, <2>1, <2>2, <2>3 DEF Objects
    <3>2. call[job[h].upload].calls > 0
      BY <1>4 DEF PartsAreOfCalls
    <3>3. QED
      BY <2>2, <3>1, <3>2, CallsGrow
  <2>4. CASE n # job[h].chunk
    <3>1. obj[n] = pending[p][n]
      BY <1>1, <1>2, <2>1, <2>2, <2>4 DEF Objects
    <3>2. n \in StoredParts(pending[p]) /\ obj[n] \in Uploads
      BY <1>1, <1>2, <3>1 DEF StoredParts, Objects
    <3>3. call[obj[n]].calls > 0
      BY <3>1, <3>2 DEF PartsAreOfCalls
    <3>4. QED
      BY <3>2, <3>3, CallsGrow
  <2>5. QED
    BY <2>3, <2>4
<1>5. CASE StoresRest
  BY <1>3, <1>5 DEF StoresRest
<1>6. CASE [ServerP!Next]_(ServerP!vars)
  <2>1. obj # ServerP!Blank
    BY <1>1 DEF ServerP!Blank, ServerP!Chunks, Chunks
  <2>2. \/ pending'[p] = pending[p] /\ versions'[p] = versions[p]
        \/ \E h \in Handlers :
             /\ pc[h] = "upload" /\ ServerP!Path(h) = p
             /\ \/ pending'[p] = ServerP!Parts(h) /\ versions'[p] = versions[p]
                \/ /\ pending'[p] = ServerP!Blank
                   /\ versions'[p] = versions[p] \cup {ServerP!Parts(h)}
    BY <1>6, ServerAssumptions, ServerTypes, ServerP!PartsSteps
  <2>3. QED
    BY <1>3, <1>4, <2>1, <2>2
<1>7. QED
  BY <1>5, <1>6, ServerSteps

LEMMA FileStored ==
  ASSUME Inv, ServerP!PartsInv, PartsAreOfCalls
  PROVE  StoredFileIsTheFile
<1> SUFFICES ASSUME NEW u \in Uploads, Alone(u), IsUploaded(u)
             PROVE  /\ object[PathOf[u]] = Server!Whole(u)
                    /\ meta[PathOf[u]].etag = Server!Whole(u)
  BY DEF StoredFileIsTheFile
<1> DEFINE p == PathOf[u]
<1>1. p \in Paths /\ TypeOK /\ ServerP!Inv
  BY SdkAssumption, SameInv DEF Inv
<1>2. meta[p].etag \in versions[p]
  BY <1>1 DEF IsUploaded, ServerP!Inv, ServerP!UploadedEtagWasStored
<1>3. object[p] \in versions[p]
  BY <1>1, <1>2 DEF ServerP!Inv, ServerP!BucketInv
<1>4. ASSUME NEW obj \in versions[p]
      PROVE  obj = ServerP!Whole(u)
  <2>1. obj \in Objects
    BY <1>1, <1>4, ServerTypes DEF Objects
  <2>2. ASSUME NEW n \in StoredParts(obj)
        PROVE  obj[n] = u /\ n \in 1 .. SentTotals[u]
    <3>1. obj[n] \in Uploads
      BY <2>1 DEF StoredParts, Objects
    <3>2. PathOf[obj[n]] = p /\ n \in 1 .. SentTotals[obj[n]]
      BY <1>1, <1>4, SameParts
    <3>3. call[obj[n]].calls > 0
      BY <1>1, <1>4 DEF PartsAreOfCalls
    <3>4. QED
      BY <3>1, <3>2, <3>3 DEF Alone
  <2>3. ServerP!AllPartsUploaded(obj, SentTotals[u])
    BY <1>1, <1>4, <2>2, SameParts
  <2>4. obj \in ServerP!Objects /\ ServerP!StoredParts(obj) = StoredParts(obj)
    BY <2>1, SameParts DEF ServerP!Objects, Objects, ServerP!Chunks, Chunks
  <2>5. QED
    BY <2>2, <2>3, <2>4, ServerAssumptions, ServerP!OwnPartsAreWhole
<1>5. ServerP!Whole(u) = Server!Whole(u)
  BY DEF ServerP!Whole, Server!Whole, ServerP!Chunks, Server!Chunks
<1>6. QED
  BY <1>2, <1>3, <1>4, <1>5

(* Uploads that agree leave no chunk out of an object, so that what has    *)
(* arrived is in the object that there is now.                             *)
LEMMA NilKept ==
  ASSUME Inv, ServerP!PartsInv, PartsAreOfCalls
  PROVE  NilKeepsChunks
<1> SUFFICES ASSUME NEW u \in Uploads, call[u].result = "nil", Agreed(u),
                    NEW n \in 1 .. totalChunks(u)
             PROVE  Server!Kept(PathOf[u], n)
  BY DEF NilKeepsChunks
<1> DEFINE p == PathOf[u]
           t == SentTotals[u]
           obj == object[p]
<1>1. p \in Paths /\ TypeOK /\ ServerP!Inv
  BY SdkAssumption, SameInv DEF Inv
<1>2. t \in Chunks /\ n \in 1 .. t
  <2>1. totalChunks(u) \in Int /\ totalChunks(u) <= MaxChunks
    BY ChunkCount DEF Inv, LoopInv
  <2>2. totalChunks(u) \in Chunks
    BY <2>1, MaxFileSizeType DEF Chunks
  <2>3. QED
    BY <2>2 DEF SentTotals
<1>3. Server!Arrived(p, n)
  BY DEF Inv, NilChunksArrived
<1>4. CASE pending[p][n] # NoPart
  BY <1>4 DEF Server!Kept
<1>5. CASE Server!Stored(p, n)
  <2>1. obj \in versions[p]
    <3>1. versions[p] # {}
      BY <1>5 DEF Server!Stored
    <3>2. QED
      BY <1>1, <3>1 DEF ServerP!Inv, ServerP!BucketInv
  <2>2. obj \in Objects
    BY <1>1, <2>1, ServerTypes DEF Objects
  <2>3. ASSUME NEW m \in StoredParts(obj)
        PROVE  SentTotals[obj[m]] = t /\ m \in 1 .. t
    <3>1. obj[m] \in Uploads
      BY <2>2 DEF StoredParts, Objects
    <3>2. PathOf[obj[m]] = p /\ m \in 1 .. SentTotals[obj[m]]
      BY <1>1, <2>1, SameParts
    <3>3. call[obj[m]].calls > 0
      BY <1>1, <2>1 DEF PartsAreOfCalls
    <3>4. QED
      BY <3>1, <3>2, <3>3 DEF Agreed
  <2>4. ServerP!AllPartsUploaded(obj, t)
    BY <1>1, <2>1, <2>3, SameParts
  <2>5. ServerP!StoredParts(obj) \in SUBSET (1 .. t)
    BY <2>3, SameParts
  <2>6. t \in ServerP!Chunks
    BY <1>2 DEF ServerP!Chunks, Chunks
  <2>7. ServerP!StoredParts(obj) = 1 .. t
    BY <2>4, <2>5, <2>6, ServerAssumptions, ServerP!AllOfThem
       DEF ServerP!AllPartsUploaded
  <2>8. n \in StoredParts(obj)
    BY <1>2, <2>7, SameParts
  <2>9. QED
    BY <2>8 DEF StoredParts, Server!Kept
<1>6. QED
  BY <1>3, <1>4, <1>5 DEF Server!Arrived

LEMMA InitParts == Init => ServerP!PartsInv /\ PartsAreOfCalls
<1> SUFFICES ASSUME Init PROVE ServerP!PartsInv /\ PartsAreOfCalls
  OBVIOUS
<1>1. ServerP!Init
  BY SameInit DEF Init
<1>2. ServerP!PartsInv
  BY <1>1, ServerAssumptions, ServerP!InitParts
<1>3. /\ \A p \in Paths : versions[p] = {} /\ StoredParts(pending[p]) = {}
      /\ \A h \in Handlers : pc[h] = "idle"
  BY <1>1 DEF ServerP!Init, ServerP!Blank, ServerP!Chunks, StoredParts, Chunks
<1>4. QED
  BY <1>2, <1>3 DEF PartsAreOfCalls

LEMMA PartsCorrect == Spec => [](Inv /\ ServerP!PartsInv /\ PartsAreOfCalls)
<1>1. /\ Inv /\ ServerP!PartsInv /\ PartsAreOfCalls /\ [Next]_vars
      => ServerP!PartsInv' /\ PartsAreOfCalls'
  BY PartsStep, PartsOfCallsStep DEF Inv
<1>2. QED
  BY <1>1, InitParts, InvCorrect, PTL DEF Spec

(* A file that is UPLOADED and that only its own caller has sent is stored *)
(* as it was sent, chunk by chunk, for every size and however often calls  *)
(* fail and are repeated.                                                  *)
THEOREM StoredFileCorrect == Spec => []StoredFileIsTheFile
<1>1. Inv /\ ServerP!PartsInv /\ PartsAreOfCalls => StoredFileIsTheFile
  BY FileStored
<1>2. QED
  BY <1>1, PartsCorrect, PTL

(* After nil, and as long as the uploads of its path that have begun have  *)
(* as many chunks, each chunk number is among the parts or in the object   *)
(* that there is now, whichever uploads have replaced it.                  *)
THEOREM NilKeepsChunksCorrect == Spec => []NilKeepsChunks
<1>1. Inv /\ ServerP!PartsInv /\ PartsAreOfCalls => NilKeepsChunks
  BY NilKept
<1>2. QED
  BY <1>1, PartsCorrect, PTL

-----------------------------------------------------------------------------
(* The service implements FileCatalogue, whoever calls it.                 *)

LEMMA CatalogueInit == Init => Server!Catalogue!Init
BY SameInit, ServerAssumptions, ServerP!InitRefines
   DEF Init, Server!Catalogue!Init, ServerP!Catalogue!Init, Server!Blank,
       ServerP!Blank, Server!Chunks, ServerP!Chunks

LEMMA SameCatalogueNext == Server!Catalogue!Next <=> ServerP!Catalogue!Next
BY DEF Server!Catalogue!Next, ServerP!Catalogue!Next,
       Server!Catalogue!Store, ServerP!Catalogue!Store,
       Server!Catalogue!Enter, ServerP!Catalogue!Enter,
       Server!Catalogue!Complete, ServerP!Catalogue!Complete,
       Server!Objects, ServerP!Objects, Server!Blank, ServerP!Blank,
       Server!Chunks, ServerP!Chunks

LEMMA CatalogueStep ==
  ASSUME Inv, [Next]_vars
  PROVE  [Server!Catalogue!Next]_<<meta, versions>>
<1>1. TypeOK /\ LoopInv /\ WaitInv /\ ServerP!Inv
  BY SameInv DEF Inv
<1>2. CASE [ServerP!Next]_(ServerP!vars)
  BY <1>1, <1>2, ServerAssumptions, ServerP!StepRefines, SameCatalogueNext
<1>3. CASE StoresRest
  BY <1>3 DEF StoresRest
<1>4. QED
  BY <1>1, <1>2, <1>3, ServerSteps

(* Callers that compete, give up and call again get what the catalogue     *)
(* promises: an entry only for what is stored, completed once and for all. *)
THEOREM CatalogueImplemented == Spec => ImplementsCatalogue
<1>1. Inv /\ [Next]_vars => [Server!Catalogue!Next]_<<meta, versions>>
  BY CatalogueStep
<1>2. QED
  BY CatalogueInit, InvCorrect, <1>1, PTL
     DEF Spec, ImplementsCatalogue, Server!ImplementsCatalogue, Server!Catalogue!Spec

-----------------------------------------------------------------------------
(* Calls go on.                                                            *)

(* Within a call a step ends it, sends the chunk that is due, or turns to  *)
(* the next chunk.                                                         *)
LEMMA CallGoesOn ==
  ASSUME TypeOK, LoopInv, WaitInv, [Next]_vars, NEW u \in Uploads
  PROVE  GoesOn(u)
<1> USE DEF GoesOn
<1>1. /\ call[u].current \in Int /\ call[u].pc \in {"idle", "loop", "wait", "returned"}
      /\ call[u].pc = "wait" => SizeInBytes[u] <= maxFileSize
      /\ call[u].pc = "wait" => call[u].current <= totalChunks(u)
  BY CallType DEF LoopInv
<1>2. CASE Fails(u) \/ Succeeds(u) \/ Begins(u)
  BY <1>2 DEF Fails, Succeeds, Begins
<1>3. CASE Accepts(u)
  <2>1. /\ call[u].pc = "wait" /\ call'[u].pc = "loop"
        /\ call'[u].current = call[u].current + 1 /\ call'[u].calls = call[u].calls
    BY <1>3 DEF Accepts, Answered
  <2>2. totalChunks(u) \in Int
    BY <1>1, <2>1, ChunkCount
  <2>3. QED
    BY <1>1, <2>1, <2>2 DEF Progress
<1>4. CASE \E h \in Handlers : Sends(u, h)
  <2>1. /\ call[u].pc = "loop" /\ call'[u].pc = "wait"
        /\ call'[u].current = call[u].current /\ call'[u].calls = call[u].calls
        /\ call[u].current <= totalChunks(u)
    BY <1>4 DEF Sends
  <2>2. totalChunks(u) \in Int
    <3>1. SizeInBytes[u] <= maxFileSize
      BY <2>1 DEF LoopInv
    <3>2. QED
      BY <3>1, ChunkCount
  <2>3. QED
    BY <1>1, <2>1, <2>2 DEF Progress
<1>5. QED
  BY <1>2, <1>3, <1>4, CallSteps

(* No call repeats itself: a call makes at most two steps for each chunk   *)
(* and one to return, whatever it is answered and at every size.           *)
THEOREM CallsGoOnCorrect == Spec => CallsGoOn
<1>1. Inv /\ [Next]_vars => [\A u \in Uploads : GoesOn(u)]_vars
  BY CallGoesOn DEF Inv
<1>2. QED
  BY <1>1, InvCorrect, PTL DEF Spec, CallsGoOn

=============================================================================
