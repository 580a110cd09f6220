-------------------------- MODULE FilesStoreProofs --------------------------
(***************************************************************************)
(* Proofs about FilesStore, for every set of uploads, paths and handlers.  *)
(***************************************************************************)
EXTENDS FilesStore, FiniteSetTheorems, TLAPS

USE BucketAssumption, StoreAssumption

(* Storing a part leaves the others alone and stores that one.             *)
LEMMA PutPartStores ==
  ASSUME NEW parts \in Objects, NEW n \in Chunks, NEW u \in Uploads
  PROVE  /\ PutPart(parts, n, u) \in Objects
         /\ PutPart(parts, n, u)[n] = u
         /\ u # NoPart
         /\ PutPart(parts, n, u) # Blank
         /\ \A m \in Chunks : parts[m] # NoPart => PutPart(parts, n, u)[m] # NoPart
BY DEF PutPart, Objects, Blank

(* The locals of a handler name an upload, its path and its chunk.         *)
LEMMA LocalsType ==
  ASSUME TypeOK, NEW h \in Handlers
  PROVE  /\ Upload(h) \in Uploads
         /\ Path(h) \in Paths
         /\ job[h].chunk \in Chunks
         /\ Parts(h) \in Objects
         /\ Parts(h)[job[h].chunk] # NoPart
         /\ Parts(h) # Blank
         /\ \A m \in Chunks : pending[Path(h)][m] # NoPart => Parts(h)[m] # NoPart
<1>1. Upload(h) \in Uploads /\ Path(h) \in Paths /\ job[h].chunk \in Chunks
  BY DEF TypeOK, Upload, Path
<1>2. pending[Path(h)] \in Objects
  BY <1>1 DEF TypeOK
<1>3. QED
  BY <1>1, <1>2, PutPartStores DEF Parts

LEMMA BlankType == Blank \in Objects
BY DEF Blank, Objects

LEMMA UnregisteredType == Unregistered \in MetaRecord
BY BlankType DEF Unregistered, MetaRecord, States

-----------------------------------------------------------------------------
(* Type correctness.                                                       *)

LEMMA InitType == Init => TypeOK
<1> SUFFICES ASSUME Init PROVE TypeOK
  OBVIOUS
<1>1. 1 \in Chunks
  BY DEF Chunks
<1>2. job \in [Handlers -> [upload : Uploads, chunk : Chunks]]
  <2>1. \A u \in Uploads :
          [upload |-> u, chunk |-> 1] \in [upload : Uploads, chunk : Chunks]
    BY <1>1
  <2>2. QED
    BY <2>1 DEF Init
<1>3. Unregistered \in MetaRecord
  BY UnregisteredType
<1>4. view \in [Readers -> View]
  <2>1. NoMessage \in StatusMessage
    BY DEF NoMessage, StatusMessage
  <2>2. \A p \in Paths :
          [pc |-> "idle", path |-> p, metadata |-> Unregistered, code |-> 0,
           content |-> NoMessage] \in View
    BY <1>3, <2>1 DEF View
  <2>3. QED
    BY <2>2 DEF Init
<1>5. QED
  BY <1>2, <1>3, <1>4, BlankType DEF Init, TypeOK

LEMMA FaultType == ASSUME TypeOK, Fault PROVE faults' \in 0 .. MaxFaults
BY DEF TypeOK, Fault

LEMMA NoFault == ASSUME TypeOK, faults' = 0 PROVE ~ Fault
BY DEF TypeOK, Fault

LEMMA StatusCodes ==
  /\ \A e \in DOMAIN StatusOf : StatusOf[e] \in {400, 401, 403, 409, 500}
  /\ StatusOf.ErrChunkTooSmall = 400
  /\ StatusOf.InternalError = 500
  /\ StatusOf[RegisterError(409)] = 409
  /\ \A s \in {400, 401, 403, 500, 503} :
       StatusOf[RegisterError(s)] \in {400, 401, 403, 500}
BY DEF StatusOf, RegisterError

LEMMA AnswerType ==
  ASSUME TypeOK, NEW h \in Handlers,
         NEW code \in {0, 200, 201, 400, 401, 403, 409, 500}, Answer(h, code)
  PROVE  /\ pc' \in [Handlers -> {"idle", "upload", "register", "head", "mark"}]
         /\ etag' \in [Handlers -> Objects]
         /\ answer' \in [Handlers -> {0, 200, 201, 400, 401, 403, 409, 500}]
BY BlankType DEF TypeOK, Answer

LEMMA ProceedType ==
  ASSUME TypeOK, NEW h \in Handlers,
         NEW next \in {"register", "head", "mark"}, Proceed(h, next)
  PROVE  /\ pc' \in [Handlers -> {"idle", "upload", "register", "head", "mark"}]
         /\ answer' \in [Handlers -> {0, 200, 201, 400, 401, 403, 409, 500}]
BY DEF TypeOK, Proceed

S3Type == /\ pending \in [Paths -> Objects]
          /\ object \in [Paths -> Objects]
          /\ versions \in [Paths -> SUBSET Objects]

LEMMA StorePartsType ==
  ASSUME TypeOK, NEW p \in Paths, NEW parts \in Objects, StoreParts(p, parts)
  PROVE  S3Type'
BY DEF TypeOK, S3Type, StoreParts

LEMMA CompleteObjectType ==
  ASSUME TypeOK, NEW p \in Paths, NEW parts \in Objects, CompleteObject(p, parts)
  PROVE  S3Type'
<1>1. /\ pending' = [pending EXCEPT ![p] = Blank]
      /\ object' = [object EXCEPT ![p] = parts]
      /\ versions' = [versions EXCEPT ![p] = versions[p] \cup {parts}]
  BY DEF CompleteObject
<1>2. versions[p] \cup {parts} \in SUBSET Objects
  BY DEF TypeOK
<1>3. QED
  BY <1>1, <1>2, BlankType DEF TypeOK, S3Type

LEMMA RegisterFileType ==
  ASSUME TypeOK, NEW p \in Paths, NEW u \in Uploads, RegisterFile(p, u)
  PROVE  meta' \in [Paths -> MetaRecord]
BY BlankType DEF TypeOK, RegisterFile, MetaRecord, States

LEMMA MarkFileUploadedType ==
  ASSUME TypeOK, NEW p \in Paths, NEW e \in Objects, MarkFileUploaded(p, e)
  PROVE  meta' \in [Paths -> MetaRecord]
<1>1. [state |-> "UPLOADED", by |-> meta[p].by, etag |-> e] \in MetaRecord
  BY DEF TypeOK, MetaRecord, States
<1>2. QED
  BY <1>1 DEF TypeOK, MarkFileUploaded

LEMMA SetViewType ==
  ASSUME TypeOK, NEW r \in Readers, NEW p \in Paths, NEW next \in {"idle", "head"},
         NEW metadata \in MetaRecord, NEW code \in {0, 200, 404},
         NEW content \in StatusMessage,
         SetView(r, p, next, metadata, code, content)
  PROVE  /\ view' \in [Readers -> View]
         /\ UNCHANGED <<s3Vars, meta, handlerVars>>
BY DEF TypeOK, SetView, View

LEMMA UploadPartEffectType ==
  ASSUME TypeOK, NEW h \in Handlers, UploadPartEffect(h)
  PROVE  S3Type'
<1>1. CASE UNCHANGED s3Vars
  BY <1>1 DEF TypeOK, S3Type, s3Vars
<1>2. CASE StoreParts(Path(h), Parts(h))
  BY <1>2, LocalsType, StorePartsType
<1>3. CASE CompleteObject(Path(h), Parts(h))
  BY <1>3, LocalsType, CompleteObjectType
<1>4. QED
  BY <1>1, <1>2, <1>3 DEF UploadPartEffect

LEMMA ETagType ==
  \A obj : TrimQuotes(ETagHeader(obj)) = obj
BY DEF TrimQuotes, ETagHeader

(* Every step of UploadFile keeps the types.                               *)
LEMMA UploadFileType ==
  ASSUME TypeOK, NEW h \in Handlers, UploadFile(h)
  PROVE  TypeOK'
<1> USE DEF s3Vars
<1>1. CASE StorePart(h)
  BY <1>1, LocalsType, StorePartsType, AnswerType DEF StorePart, TypeOK, S3Type
<1>2. CASE CompleteUpload(h)
  BY <1>2, LocalsType, CompleteObjectType, ProceedType
     DEF CompleteUpload, TypeOK, S3Type
<1>3. CASE RejectChunk(h)
  BY <1>3, LocalsType, StorePartsType, AnswerType, StatusCodes
     DEF RejectChunk, TypeOK, S3Type
<1>4. CASE UploadPartFails(h)
  BY <1>4, UploadPartEffectType, AnswerType, FaultType, StatusCodes
     DEF UploadPartFails, TypeOK, S3Type
<1>5. CASE Register(h)
  BY <1>5, LocalsType, RegisterFileType, ProceedType DEF Register, TypeOK
<1>6. CASE RegisterConflict(h)
  BY <1>6, AnswerType, StatusCodes DEF RegisterConflict, TypeOK
<1>7. CASE RegisterFails(h)
  <2>1. CASE /\ \E status \in {400, 401, 403, 500, 503} :
                  Answer(h, StatusOf[RegisterError(status)])
             /\ UNCHANGED meta
    BY <1>7, <2>1, AnswerType, FaultType, StatusCodes DEF RegisterFails, TypeOK
  <2>2. CASE /\ RegisterFile(Path(h), Upload(h))
             /\ Answer(h, StatusOf.InternalError)
    BY <1>7, <2>2, LocalsType, RegisterFileType, AnswerType, FaultType, StatusCodes
       DEF RegisterFails, TypeOK
  <2>3. QED
    BY <1>7, <2>1, <2>2 DEF RegisterFails
<1>8. CASE HeadObject(h)
  <2>1. object[Path(h)] \in Objects
    BY LocalsType DEF TypeOK
  <2>2. etag' \in [Handlers -> Objects]
    BY <1>8, <2>1, ETagType DEF HeadObject, TypeOK
  <2>3. QED
    BY <1>8, <2>2, ProceedType DEF HeadObject, TypeOK
<1>9. CASE HeadFails(h)
  <2>1. faults' \in 0 .. MaxFaults
    BY <1>9, FaultType DEF HeadFails, TypeOK
  <2>2. QED
    BY <1>9, <2>1, AnswerType, StatusCodes DEF HeadFails, TypeOK
<1>10. CASE MarkUploaded(h)
  BY <1>10, LocalsType, MarkFileUploadedType, AnswerType DEF MarkUploaded, TypeOK
<1>11. CASE MarkFails(h)
  <2>1. meta' \in [Paths -> MetaRecord]
    BY <1>11, LocalsType, MarkFileUploadedType DEF MarkFails, TypeOK
  <2>2. QED
    BY <1>11, <2>1, AnswerType, FaultType, StatusCodes DEF MarkFails, TypeOK
<1>12. QED
  BY <1>1, <1>2, <1>3, <1>4, <1>5, <1>6, <1>7, <1>8, <1>9, <1>10, <1>11
     DEF UploadFile

LEMMA StatusType ==
  ASSUME TypeOK, NEW r \in Readers, Status(r)
  PROVE  TypeOK'
<1> USE DEF s3Vars, handlerVars
<1>1. NoMessage \in StatusMessage
  BY DEF NoMessage, StatusMessage
<1>2. view[r].path \in Paths /\ view[r].metadata \in MetaRecord
  BY DEF TypeOK, View
<1>3. ASSUME NEW p \in Paths, GetFile(r, p)
      PROVE  TypeOK'
  <2>1. meta[p] \in MetaRecord
    BY DEF TypeOK
  <2>2. QED
    BY <1>1, <1>3, <2>1, SetViewType DEF GetFile, TypeOK
<1>4. ASSUME NEW p \in Paths, GetFileFails(r, p)
      PROVE  TypeOK'
  <2>1. faults' \in 0 .. MaxFaults
    BY <1>4, FaultType DEF GetFileFails, TypeOK
  <2>2. QED
    BY <1>1, <1>4, <2>1, UnregisteredType, SetViewType DEF GetFileFails, TypeOK
<1>5. CASE StatusOfObject(r)
  <2>1. [valid |-> HasContent(object[view[r].path]), err |-> "none"] \in StatusMessage
    BY DEF StatusMessage, HasContent
  <2>2. QED
    BY <1>2, <1>5, <2>1, SetViewType DEF StatusOfObject, TypeOK
<1>6. CASE StatusOfNoObject(r)
  <2>1. [valid |-> FALSE,
         err |-> IF object[view[r].path] = Blank THEN "missing" ELSE "failed"]
          \in StatusMessage
    BY DEF StatusMessage
  <2>2. faults' \in 0 .. MaxFaults
    BY <1>6, FaultType DEF StatusOfNoObject, TypeOK
  <2>3. QED
    BY <1>2, <1>6, <2>1, <2>2, SetViewType DEF StatusOfNoObject, TypeOK
<1>7. QED
  BY <1>3, <1>4, <1>5, <1>6 DEF Status

LEMMA TypeStep == TypeOK /\ [Next]_vars => TypeOK'
<1> SUFFICES ASSUME TypeOK, [Next]_vars PROVE TypeOK'
  OBVIOUS
<1> USE DEF s3Vars
<1>1. ASSUME NEW h \in Handlers, RejectForm(h)
      PROVE  TypeOK'
  <2>1. \A check \in DOMAIN FormStatus : FormStatus[check] \in {400, 500}
    BY DEF FormStatus
  <2>2. QED
    BY <1>1, <2>1, AnswerType DEF RejectForm, TypeOK
<1>2. ASSUME NEW h \in Handlers, NEW u \in Uploads, NEW n \in Chunks, Receive(h, u, n)
      PROVE  TypeOK'
  BY <1>2 DEF Receive, TypeOK
<1>3. ASSUME NEW h \in Handlers, UploadFile(h)
      PROVE  TypeOK'
  BY <1>3, UploadFileType
<1>4. ASSUME NEW h \in Handlers, Crash(h)
      PROVE  TypeOK'
  BY <1>4, AnswerType, FaultType DEF Crash, TypeOK
<1>5. ASSUME NEW r \in Readers, Status(r)
      PROVE  TypeOK'
  BY <1>5, StatusType
<1>6. CASE UNCHANGED vars
  BY <1>6 DEF vars, TypeOK
<1>7. QED
  BY <1>1, <1>2, <1>3, <1>4, <1>5, <1>6 DEF Next

(* The variables, the clients' locals and the stores keep their types.     *)
THEOREM TypeCorrect == Spec => []TypeOK
BY InitType, TypeStep, PTL DEF Spec

-----------------------------------------------------------------------------
(* What a step does to the two stores, and to one handler.                 *)

StoresPart(h) == /\ pc[h] = "upload"
                 /\ \/ StoreParts(Path(h), Parts(h))
                    \/ /\ AllPartsUploaded(Parts(h), Total(h))
                       /\ CompleteObject(Path(h), Parts(h))

Registers(h) == /\ pc[h] = "register"
                /\ ~Registered(Path(h))
                /\ RegisterFile(Path(h), Upload(h))

Marks(h) == /\ pc[h] = "mark"
            /\ MarkFileUploaded(Path(h), etag[h])
            /\ pc' = [pc EXCEPT ![h] = "idle"]

(* No step touches both stores, and only UploadFile changes either.        *)
LEMMA StoreSteps ==
  ASSUME [Next]_vars
  PROVE  \/ UNCHANGED <<s3Vars, meta>>
         \/ UNCHANGED meta /\ \E h \in Handlers : StoresPart(h)
         \/ UNCHANGED s3Vars /\ \E h \in Handlers : Registers(h) \/ Marks(h)
<1>1. ASSUME NEW h \in Handlers, StorePart(h) \/ CompleteUpload(h) \/ RejectChunk(h)
      PROVE  UNCHANGED meta /\ StoresPart(h)
  BY <1>1 DEF StorePart, CompleteUpload, RejectChunk, StoresPart
<1>2. ASSUME NEW h \in Handlers, UploadPartFails(h)
      PROVE  UNCHANGED meta /\ (UNCHANGED s3Vars \/ StoresPart(h))
  BY <1>2 DEF UploadPartFails, UploadPartEffect, StoresPart
<1>3. ASSUME NEW h \in Handlers, Register(h) \/ RegisterFails(h)
      PROVE  UNCHANGED s3Vars /\ (UNCHANGED meta \/ Registers(h))
  BY <1>3 DEF Register, RegisterFails, Registers
<1>4. ASSUME NEW h \in Handlers, MarkUploaded(h) \/ MarkFails(h)
      PROVE  UNCHANGED s3Vars /\ (UNCHANGED meta \/ Marks(h))
  BY <1>4 DEF MarkUploaded, MarkFails, Marks, Answer
<1>5. ASSUME NEW h \in Handlers,
             RejectForm(h) \/ Crash(h) \/ RegisterConflict(h) \/ HeadObject(h)
               \/ HeadFails(h)
      PROVE  UNCHANGED <<s3Vars, meta>>
  BY <1>5 DEF RejectForm, Crash, RegisterConflict, HeadObject, HeadFails
<1>6. ASSUME NEW h \in Handlers, NEW u \in Uploads, NEW n \in Chunks, Receive(h, u, n)
      PROVE  UNCHANGED <<s3Vars, meta>>
  BY <1>6 DEF Receive
<1>7. ASSUME NEW r \in Readers, Status(r)
      PROVE  UNCHANGED <<s3Vars, meta>>
  BY <1>7 DEF Status, GetFile, GetFileFails, StatusOfObject, StatusOfNoObject, SetView
<1>8. CASE UNCHANGED vars
  BY <1>8 DEF vars, s3Vars
<1>9. QED
  BY <1>1, <1>2, <1>3, <1>4, <1>5, <1>6, <1>7, <1>8 DEF Next, UploadFile

(* A handler stands still, takes a request, gives up with an error that    *)
(* promises nothing, or takes one of UploadFile's successful steps.        *)
Rests(h) == /\ pc'[h] = pc[h]
            /\ job'[h] = job[h]
            /\ etag'[h] = etag[h]
            /\ answer'[h] = answer[h]

GivesUp(h) == /\ pc'[h] = "idle"
              /\ job'[h] = job[h]
              /\ answer'[h] \notin {200, 201, 409}

Advances(h) == \/ StorePart(h) \/ CompleteUpload(h)
               \/ Register(h) \/ RegisterConflict(h)
               \/ HeadObject(h) \/ MarkUploaded(h)

LEMMA UploadFileSteps ==
  ASSUME NEW k, UploadFile(k)
  PROVE  /\ pc[k] # "idle"
         /\ job' = job
         /\ \/ etag' = etag
            \/ \E e : etag' = [etag EXCEPT ![k] = e]
         /\ \E s : pc' = [pc EXCEPT ![k] = s]
         /\ \/ answer' = answer
            \/ \E c : answer' = [answer EXCEPT ![k] = c]
BY DEF UploadFile, StorePart, CompleteUpload, RejectChunk, UploadPartFails,
   Register, RegisterConflict, RegisterFails, HeadObject, HeadFails,
   MarkUploaded, MarkFails, Answer, Proceed

LEMMA OthersRest ==
  ASSUME TypeOK, NEW h \in Handlers, NEW k \in Handlers, UploadFile(k), k # h
  PROVE  Rests(h)
BY UploadFileSteps DEF Rests, TypeOK

LEMMA HandlerSteps ==
  ASSUME TypeOK, [Next]_vars, NEW h \in Handlers
  PROVE  \/ Rests(h)
         \/ \E u \in Uploads, n \in Chunks : Receive(h, u, n)
         \/ GivesUp(h)
         \/ Advances(h)
<1>1. ASSUME NEW k \in Handlers, RejectForm(k)
      PROVE  Rests(h) \/ GivesUp(h)
  <2>1. \A check \in DOMAIN FormStatus : FormStatus[check] \in {400, 500}
    BY DEF FormStatus
  <2>2. PICK code \in {400, 500} : Answer(k, code)
    BY <1>1, <2>1 DEF RejectForm
  <2>3. QED
    BY <1>1, <2>2 DEF RejectForm, Answer, TypeOK, Rests, GivesUp
<1>2. ASSUME NEW k \in Handlers, NEW u \in Uploads, NEW n \in Chunks, Receive(k, u, n)
      PROVE  Rests(h) \/ Receive(h, u, n)
  <2>1. CASE k = h
    BY <1>2, <2>1
  <2>2. CASE k # h
    BY <1>2, <2>2 DEF Receive, Rests, TypeOK
  <2>3. QED
    BY <2>1, <2>2
<1>3. ASSUME NEW k \in Handlers, UploadFile(k), k # h
      PROVE  Rests(h)
  BY <1>3, OthersRest
<1>4. ASSUME RejectChunk(h) \/ UploadPartFails(h) \/ HeadFails(h) \/ MarkFails(h)
      PROVE  GivesUp(h)
  <2>1. job' = job /\ (Answer(h, 400) \/ Answer(h, 500))
    BY <1>4, StatusCodes DEF RejectChunk, UploadPartFails, HeadFails, MarkFails
  <2>2. QED
    BY <2>1 DEF Answer, TypeOK, GivesUp
<1>5. ASSUME RegisterFails(h)
      PROVE  GivesUp(h)
  <2>1. PICK code \in {400, 401, 403, 500} : Answer(h, code)
    BY <1>5, StatusCodes DEF RegisterFails
  <2>2. QED
    BY <1>5, <2>1 DEF RegisterFails, Answer, TypeOK, GivesUp
<1>6. ASSUME NEW k \in Handlers, Crash(k)
      PROVE  Rests(h) \/ GivesUp(h)
  BY <1>6 DEF Crash, Answer, TypeOK, Rests, GivesUp
<1>7. ASSUME NEW r \in Readers, Status(r)
      PROVE  Rests(h)
  BY <1>7 DEF Status, GetFile, GetFileFails, StatusOfObject, StatusOfNoObject,
     SetView, handlerVars, Rests
<1>8. CASE UNCHANGED vars
  BY <1>8 DEF vars, Rests
<1>9. ASSUME UploadFile(h)
      PROVE  GivesUp(h) \/ Advances(h)
  BY <1>4, <1>5, <1>9 DEF UploadFile, Advances
<1>10. QED
  BY <1>1, <1>2, <1>3, <1>6, <1>7, <1>8, <1>9 DEF Next

-----------------------------------------------------------------------------
(* What is stored stays stored, what is recorded stays recorded.           *)

LEMMA StoresGrow ==
  ASSUME TypeOK, [Next]_vars, NEW p \in Paths, NEW n \in Chunks
  PROVE  /\ versions[p] \subseteq versions'[p]
         /\ Stored(p, n) => Stored(p, n)'
         /\ Arrived(p, n) => Arrived(p, n)'
<1>1. CASE UNCHANGED s3Vars
  BY <1>1 DEF s3Vars, Stored, Arrived
<1>2. ASSUME NEW h \in Handlers, StoresPart(h)
      PROVE  /\ versions[p] \subseteq versions'[p]
             /\ pending[p][n] # NoPart => Arrived(p, n)'
  <2>1. CASE StoreParts(Path(h), Parts(h))
    BY <2>1, LocalsType DEF StoreParts, TypeOK, Arrived
  <2>2. CASE CompleteObject(Path(h), Parts(h))
    <3>1. CASE p = Path(h)
      <4>1. Parts(h) \in versions'[p]
        BY <2>2, <3>1, LocalsType DEF CompleteObject, TypeOK
      <4>2. pending[p][n] # NoPart => Parts(h)[n] # NoPart
        BY <3>1, LocalsType
      <4>3. QED
        BY <2>2, <3>1, <4>1, <4>2 DEF CompleteObject, TypeOK, Arrived, Stored
    <3>2. CASE p # Path(h)
      BY <2>2, <3>2, LocalsType DEF CompleteObject, TypeOK, Arrived
    <3>3. QED
      BY <3>1, <3>2
  <2>3. QED
    BY <1>2, <2>1, <2>2 DEF StoresPart
<1>3. ASSUME versions[p] \subseteq versions'[p], Stored(p, n)
      PROVE  Stored(p, n)'
  BY <1>3 DEF Stored
<1>4. QED
  BY <1>1, <1>2, <1>3, StoreSteps DEF Arrived

(* Records only move forward, and only the handler that registered a path  *)
(* marks it.                                                               *)
LEMMA RecordsLast ==
  ASSUME TypeOK, OneFinisher, [Next]_vars, NEW p \in Paths
  PROVE  /\ Registered(p) => Registered(p)'
         /\ Registered(p) => meta'[p].by = meta[p].by
         /\ meta[p].state = "UPLOADED" => meta'[p] = meta[p]
<1>1. CASE UNCHANGED meta
  BY <1>1 DEF Registered
<1>2. ASSUME NEW h \in Handlers, Registers(h)
      PROVE  Registered(p) => meta'[p] = meta[p] /\ Registered(p)'
  BY <1>2, LocalsType DEF Registers, RegisterFile, Registered, TypeOK
<1>3. ASSUME NEW h \in Handlers, Marks(h)
      PROVE  /\ Registered(p) => Registered(p)' /\ meta'[p].by = meta[p].by
             /\ meta[p].state = "UPLOADED" => meta'[p] = meta[p]
  <2>1. meta[Path(h)].state = "CREATED" /\ Path(h) \in Paths
    BY <1>3, LocalsType DEF Marks, OneFinisher, Finishing
  <2>2. meta' = [meta EXCEPT ![Path(h)] =
                   [state |-> "UPLOADED", by |-> meta[Path(h)].by, etag |-> etag[h]]]
    BY <1>3 DEF Marks, MarkFileUploaded
  <2>3. QED
    BY <2>1, <2>2 DEF Registered, TypeOK
<1>4. QED
  <2>1. meta[p].state = "UPLOADED" => Registered(p)
    BY DEF Registered
  <2>2. QED
    BY <1>1, <1>2, <1>3, <2>1, StoreSteps

-----------------------------------------------------------------------------
(* The inductive invariant, part by part.                                  *)

LEMMA InitInv == Init => Inv
<1> SUFFICES ASSUME Init PROVE Inv
  OBVIOUS
<1>1. TypeOK
  BY InitType
<1>2. BucketInv
  BY DEF Init, BucketInv, Registered, Unregistered
<1>3. ProgressInv /\ OneFinisher
  BY DEF Init, ProgressInv, OneFinisher, Finishing
<1>4. UploadedEtagWasStored
  BY DEF Init, UploadedEtagWasStored, Unregistered
<1>5. CreatedIsUploaded /\ AckedChunkArrived /\ ConflictIsRegistered
  BY DEF Init, CreatedIsUploaded, AckedChunkArrived, ConflictIsRegistered
<1>6. StatusInv /\ StatusFindsObject
  <2>1. ASSUME NEW r \in Readers
        PROVE  view[r].pc = "idle" /\ view[r].code = 0 /\ view[r].content = NoMessage
    BY DEF Init
  <2>2. QED
    BY <2>1 DEF StatusInv, StatusFindsObject, NoMessage
<1>7. QED
  BY <1>1, <1>2, <1>3, <1>4, <1>5, <1>6 DEF Inv

LEMMA BucketStep == ASSUME Inv, [Next]_vars PROVE BucketInv'
<1> USE DEF Inv
<1> SUFFICES ASSUME NEW p \in Paths
             PROVE  /\ object'[p] \in versions'[p] \cup {Blank}
                    /\ versions'[p] # {} => object'[p] # Blank
                    /\ Blank \notin versions'[p]
                    /\ Registered(p)' => versions'[p] # {}
  BY DEF BucketInv
<1>1. CASE UNCHANGED <<s3Vars, meta>>
  BY <1>1 DEF s3Vars, BucketInv, Registered
<1>2. ASSUME NEW h \in Handlers, StoresPart(h), UNCHANGED meta
      PROVE  /\ object'[p] \in versions'[p] \cup {Blank}
             /\ versions'[p] # {} => object'[p] # Blank
             /\ Blank \notin versions'[p]
             /\ Registered(p)' => versions'[p] # {}
  <2>1. CASE StoreParts(Path(h), Parts(h))
    BY <1>2, <2>1 DEF StoreParts, BucketInv, Registered
  <2>2. CASE CompleteObject(Path(h), Parts(h))
    BY <1>2, <2>2, LocalsType DEF CompleteObject, TypeOK, BucketInv, Registered
  <2>3. QED
    BY <1>2, <2>1, <2>2 DEF StoresPart
<1>3. ASSUME NEW h \in Handlers, Registers(h) \/ Marks(h), UNCHANGED s3Vars
      PROVE  Registered(p)' => versions[p] # {}
  <2>1. versions[Path(h)] # {}
    BY <1>3 DEF Registers, Marks, ProgressInv, Stored
  <2>2. p # Path(h) => meta'[p] = meta[p]
    BY <1>3, LocalsType DEF Registers, Marks, RegisterFile, MarkFileUploaded, TypeOK
  <2>3. QED
    BY <2>1, <2>2 DEF BucketInv, Registered
<1>4. QED
  BY <1>1, <1>2, <1>3, StoreSteps DEF s3Vars, BucketInv

LEMMA ProgressStep == ASSUME Inv, [Next]_vars PROVE ProgressInv'
<1> USE DEF Inv
<1>1. TypeOK'
  BY TypeStep
<1> SUFFICES ASSUME NEW h \in Handlers
             PROVE  /\ pc'[h] \in {"register", "head", "mark"}
                         => Stored(Path(h), job[h].chunk)'
                    /\ pc'[h] = "mark" => etag'[h] \in versions'[Path(h)']
                    /\ pc'[h] # "idle" => answer'[h] = 0
  BY DEF ProgressInv
<1>2. PICK p \in Paths, n \in Chunks : p = Path(h) /\ n = job[h].chunk
  BY LocalsType
<1>3. job'[h] = job[h] => Path(h)' = p /\ job'[h].chunk = n
  BY <1>2 DEF Path, Upload
<1>4. /\ versions[p] \subseteq versions'[p]
      /\ Stored(p, n) => Stored(p, n)'
  BY <1>2, StoresGrow
<1>5. ASSUME job'[h] = job[h], Stored(p, n)'
      PROVE  Stored(Path(h), job[h].chunk)'
  BY <1>3, <1>5 DEF Stored
<1>6. CASE Rests(h)
  BY <1>2, <1>3, <1>4, <1>5, <1>6 DEF Rests, ProgressInv
<1>7. CASE \E u \in Uploads, m \in Chunks : Receive(h, u, m)
  BY <1>7 DEF Receive, TypeOK
<1>8. CASE GivesUp(h)
  BY <1>8 DEF GivesUp
<1>9. CASE StorePart(h) \/ RegisterConflict(h) \/ MarkUploaded(h)
  <2>1. pc'[h] = "idle"
    BY <1>9 DEF StorePart, RegisterConflict, MarkUploaded, Answer, TypeOK
  <2>2. QED
    BY <2>1
<1>10. CASE CompleteUpload(h)
  <2>1. pc'[h] = "register" /\ job'[h] = job[h] /\ answer'[h] = 0
    BY <1>10 DEF CompleteUpload, Proceed, TypeOK, ProgressInv
  <2>2. Parts(h) \in versions'[p] /\ Parts(h)[n] # NoPart
    BY <1>2, <1>10, LocalsType DEF CompleteUpload, CompleteObject, TypeOK
  <2>3. Stored(p, n)'
    BY <2>2 DEF Stored
  <2>4. QED
    BY <1>5, <2>1, <2>3
<1>11. CASE Register(h)
  <2>1. pc'[h] = "head" /\ job'[h] = job[h] /\ answer'[h] = 0
    BY <1>11 DEF Register, Proceed, TypeOK, ProgressInv
  <2>2. Stored(p, n)'
    BY <1>2, <1>4, <1>11 DEF Register, ProgressInv
  <2>3. QED
    BY <1>5, <2>1, <2>2
<1>12. CASE HeadObject(h)
  <2>1. pc'[h] = "mark" /\ job'[h] = job[h] /\ answer'[h] = 0
    BY <1>12 DEF HeadObject, Proceed, TypeOK, ProgressInv
  <2>2. Stored(p, n)'
    BY <1>2, <1>4, <1>12 DEF HeadObject, ProgressInv
  <2>3. etag'[h] = object[p]
    BY <1>2, <1>12, ETagType DEF HeadObject, TypeOK
  <2>4. object[p] \in versions'[p]
    BY <1>2, <1>4, <1>12 DEF HeadObject, BucketInv
  <2>5. QED
    BY <1>3, <1>5, <2>1, <2>2, <2>3, <2>4
<1>13. QED
  BY <1>6, <1>7, <1>8, <1>9, <1>10, <1>11, <1>12, HandlerSteps DEF Advances

LEMMA UploadedEtagStep == ASSUME Inv, [Next]_vars PROVE UploadedEtagWasStored'
<1> USE DEF Inv
<1> SUFFICES ASSUME NEW p \in Paths, meta'[p].state = "UPLOADED"
             PROVE  meta'[p].etag \in versions'[p]
  BY DEF UploadedEtagWasStored
<1>1. versions[p] \subseteq versions'[p]
  <2>1. 1 \in Chunks
    BY DEF Chunks
  <2>2. QED
    BY <2>1, StoresGrow
<1>2. CASE meta'[p] = meta[p]
  BY <1>1, <1>2 DEF UploadedEtagWasStored
<1>3. ASSUME NEW h \in Handlers, Registers(h)
      PROVE  meta'[p] = meta[p]
  BY <1>3, LocalsType DEF Registers, RegisterFile, TypeOK
<1>4. ASSUME NEW h \in Handlers, Marks(h)
      PROVE  meta'[p] = meta[p] \/ meta'[p].etag \in versions[p]
  BY <1>4, LocalsType DEF Marks, MarkFileUploaded, TypeOK, ProgressInv
<1>5. QED
  BY <1>1, <1>2, <1>3, <1>4, StoreSteps

(* The two handlers of one path that would finish it cannot both have      *)
(* registered it: the second finds it registered.                          *)
LEMMA OneFinisherStep == ASSUME Inv, [Next]_vars PROVE OneFinisher'
<1> USE DEF Inv
<1>1. TypeOK'
  BY TypeStep
<1>2. ASSUME NEW h \in Handlers, Finishing(h)'
      PROVE  /\ job'[h] = job[h] /\ Path(h)' = Path(h) /\ Upload(h)' = Upload(h)
             /\ \/ Finishing(h)
                \/ Register(h)
  <2>1. CASE Rests(h)
    BY <1>2, <2>1 DEF Rests, Finishing, Path, Upload
  <2>2. CASE \E u \in Uploads, n \in Chunks : Receive(h, u, n)
    BY <1>2, <2>2 DEF Receive, Finishing, TypeOK
  <2>3. CASE GivesUp(h)
    BY <1>2, <2>3 DEF GivesUp, Finishing
  <2>4. CASE StorePart(h) \/ RegisterConflict(h) \/ MarkUploaded(h)
    BY <1>2, <2>4 DEF StorePart, RegisterConflict, MarkUploaded, Answer, TypeOK, Finishing
  <2>5. CASE CompleteUpload(h)
    BY <1>2, <2>5 DEF CompleteUpload, Proceed, TypeOK, Finishing
  <2>6. CASE Register(h)
    BY <2>6 DEF Register, Path, Upload
  <2>7. CASE HeadObject(h)
    BY <2>7 DEF HeadObject, Finishing, Path, Upload
  <2>8. QED
    BY <2>1, <2>2, <2>3, <2>4, <2>5, <2>6, <2>7, HandlerSteps DEF Advances
<1>3. ASSUME NEW h \in Handlers, Finishing(h)'
      PROVE  meta'[Path(h)'].state = "CREATED" /\ meta'[Path(h)'].by = Upload(h)'
  <2>1. CASE Register(h)
    BY <1>2, <1>3, <2>1, LocalsType DEF Register, RegisterFile, TypeOK
  <2>2. CASE Finishing(h)
    <3>1. PICK p \in Paths : p = Path(h)
      BY LocalsType
    <3>2. meta[p].state = "CREATED" /\ meta[p].by = Upload(h)
      BY <2>2, <3>1 DEF OneFinisher
    <3>3. ASSUME NEW k \in Handlers, Registers(k)
          PROVE  meta'[p] = meta[p]
      BY <3>2, <3>3, LocalsType DEF Registers, RegisterFile, Registered, TypeOK
    <3>4. ASSUME NEW k \in Handlers, Marks(k)
          PROVE  meta'[p] = meta[p]
      <4>1. Finishing(k) /\ k # h
        BY <1>3, <3>4 DEF Marks, Finishing, TypeOK
      <4>2. Path(k) # p
        BY <2>2, <3>1, <4>1 DEF OneFinisher
      <4>3. QED
        BY <3>4, <4>2, LocalsType DEF Marks, MarkFileUploaded, TypeOK
    <3>5. meta'[p] = meta[p]
      BY <3>3, <3>4, StoreSteps
    <3>6. QED
      BY <1>2, <1>3, <3>1, <3>2, <3>5
  <2>3. QED
    BY <1>2, <1>3, <2>1, <2>2
<1>4. ASSUME NEW h \in Handlers, NEW k \in Handlers \ {h}, Finishing(h)', Finishing(k)'
      PROVE  Path(k)' # Path(h)'
  <2>1. CASE Finishing(h) /\ Finishing(k)
    BY <1>2, <1>4, <2>1 DEF OneFinisher
  <2>2. ASSUME NEW i \in Handlers, NEW j \in Handlers, Register(i), Finishing(j)
        PROVE  Path(i) # Path(j)
    BY <2>2 DEF Register, OneFinisher, Registered
  <2>3. ~(Register(h) /\ Register(k))
    BY DEF Register, Proceed, TypeOK
  <2>4. QED
    BY <1>2, <1>4, <2>1, <2>2, <2>3
<1>5. QED
  BY <1>3, <1>4 DEF OneFinisher

(* The count of the calls that failed is never set back.                   *)
LEMMA FaultsGrow == ASSUME TypeOK, [Next]_vars, faults' = 0 PROVE faults = 0
<1>1. ~ Fault
  BY NoFault
<1>2. faults' = faults
  BY <1>1 DEF Next, RejectForm, Receive, UploadFile, StorePart, CompleteUpload,
     RejectChunk, UploadPartFails, Register, RegisterConflict, RegisterFails,
     HeadObject, HeadFails, MarkUploaded, MarkFails, Crash, Status, GetFile,
     GetFileFails, StatusOfObject, StatusOfNoObject, vars
<1>3. QED
  BY <1>2

(* A handler that is finishing its file goes on until it has, unless a     *)
(* call fails: the object it asks Head for is there.                       *)
LEMMA FinisherGoesOn ==
  ASSUME Inv, [Next]_vars, faults' = 0, NEW h \in Handlers, Finishing(h)
  PROVE  /\ job'[h] = job[h]
         /\ Finishing(h)' \/ MarkUploaded(h)
<1> USE DEF Inv
<1>1. ~ Fault
  BY NoFault
<1>2. Path(h) \in Paths /\ object[Path(h)] # Blank
  BY LocalsType DEF OneFinisher, BucketInv, Registered
<1>3. ASSUME Rests(h)
      PROVE  job'[h] = job[h] /\ Finishing(h)'
  BY <1>3 DEF Rests, Finishing
<1>4. ASSUME NEW k \in Handlers, RejectForm(k)
      PROVE  Rests(h)
  <2>1. k # h
    BY <1>4 DEF RejectForm, Finishing
  <2>2. QED
    BY <1>4, <2>1 DEF RejectForm, Answer, Rests, TypeOK
<1>5. ASSUME NEW k \in Handlers, NEW u \in Uploads, NEW n \in Chunks, Receive(k, u, n)
      PROVE  Rests(h)
  <2>1. k # h
    BY <1>5 DEF Receive, Finishing
  <2>2. QED
    BY <1>5, <2>1 DEF Receive, Rests, TypeOK
<1>6. ASSUME NEW k \in Handlers, UploadFile(k), k # h
      PROVE  Rests(h)
  BY <1>6, OthersRest
<1>7. ASSUME UploadFile(h)
      PROVE  job'[h] = job[h] /\ (Finishing(h)' \/ MarkUploaded(h))
  <2>1. HeadObject(h) \/ MarkUploaded(h)
    BY <1>1, <1>2, <1>7 DEF UploadFile, StorePart, CompleteUpload, RejectChunk,
       UploadPartFails, Register, RegisterConflict, RegisterFails, HeadFails,
       MarkFails, Finishing
  <2>2. QED
    BY <2>1 DEF HeadObject, MarkUploaded, Proceed, Finishing, TypeOK
<1>8. ASSUME NEW r \in Readers, Status(r)
      PROVE  Rests(h)
  BY <1>8 DEF Status, GetFile, GetFileFails, StatusOfObject, StatusOfNoObject,
     SetView, handlerVars, Rests
<1>9. CASE UNCHANGED vars
  BY <1>3, <1>9 DEF vars, Rests
<1>10. ASSUME NEW k \in Handlers
       PROVE  ~ Crash(k)
  BY <1>1 DEF Crash
<1>11. QED
  BY <1>3, <1>4, <1>5, <1>6, <1>7, <1>8, <1>9, <1>10 DEF Next

(* What is CREATED now was so before, or Register has just made it so.     *)
LEMMA NewlyCreated ==
  ASSUME Inv, [Next]_vars, faults' = 0, NEW p \in Paths, meta'[p].state = "CREATED"
  PROVE  \/ meta[p].state = "CREATED"
         \/ \E h \in Handlers : Register(h) /\ Path(h) = p
<1> USE DEF Inv
<1>1. ~ Fault
  BY NoFault
<1>2. ASSUME NEW h \in Handlers, Register(h), Path(h) # p
      PROVE  meta'[p] = meta[p]
  BY <1>2, LocalsType DEF Register, RegisterFile, TypeOK
<1>3. ASSUME NEW h \in Handlers, MarkUploaded(h)
      PROVE  meta'[p] = meta[p]
  BY <1>3, LocalsType DEF MarkUploaded, MarkFileUploaded, TypeOK
<1>4. ASSUME NEW h \in Handlers,
             \/ StorePart(h) \/ CompleteUpload(h) \/ RejectChunk(h)
             \/ RegisterConflict(h) \/ HeadObject(h) \/ HeadFails(h)
             \/ RejectForm(h)
      PROVE  meta' = meta
  BY <1>4 DEF StorePart, CompleteUpload, RejectChunk, RegisterConflict, HeadObject,
     HeadFails, RejectForm
<1>5. ASSUME NEW h \in Handlers
      PROVE  ~ (UploadPartFails(h) \/ RegisterFails(h) \/ MarkFails(h) \/ Crash(h))
  BY <1>1 DEF UploadPartFails, RegisterFails, MarkFails, Crash
<1>6. ASSUME NEW h \in Handlers, NEW u \in Uploads, NEW n \in Chunks, Receive(h, u, n)
      PROVE  meta' = meta
  BY <1>6 DEF Receive
<1>7. ASSUME NEW r \in Readers, Status(r)
      PROVE  meta' = meta
  BY <1>7 DEF Status, GetFile, GetFileFails, StatusOfObject, StatusOfNoObject, SetView
<1>8. CASE UNCHANGED vars
  BY <1>8 DEF vars
<1>9. QED
  BY <1>2, <1>3, <1>4, <1>5, <1>6, <1>7, <1>8 DEF Next, UploadFile

LEMMA CreatedHasFinisherStep ==
  ASSUME Inv, CreatedHasFinisher, [Next]_vars
  PROVE  CreatedHasFinisher'
<1> SUFFICES ASSUME NEW p \in Paths, meta'[p].state = "CREATED", faults' = 0
             PROVE  \E h \in Handlers : Finishing(h)' /\ Path(h)' = p
  BY DEF CreatedHasFinisher
<1>1. CASE meta[p].state = "CREATED"
  <2>1. PICK h \in Handlers : Finishing(h) /\ Path(h) = p
    BY <1>1, FaultsGrow DEF Inv, CreatedHasFinisher
  <2>2. ~ MarkUploaded(h)
    BY <2>1, LocalsType DEF Inv, MarkUploaded, MarkFileUploaded, TypeOK
  <2>3. QED
    BY <2>1, <2>2, FinisherGoesOn DEF Path, Upload
<1>2. ASSUME NEW h \in Handlers, Register(h), Path(h) = p
      PROVE  Finishing(h)' /\ Path(h)' = p
  BY <1>2 DEF Inv, Register, Proceed, Finishing, Path, Upload, TypeOK
<1>3. QED
  BY <1>1, <1>2, NewlyCreated

(* An answer that promises something was given in this step, or before it. *)
LEMMA NewAnswers ==
  ASSUME TypeOK, [Next]_vars, NEW h \in Handlers, answer'[h] \in {200, 201, 409}
  PROVE  /\ job'[h] = job[h]
         /\ \/ answer'[h] = answer[h]
            \/ answer'[h] = 200 /\ StorePart(h)
            \/ answer'[h] = 201 /\ MarkUploaded(h)
            \/ answer'[h] = 409 /\ RegisterConflict(h)
<1>1. CASE Rests(h)
  BY <1>1 DEF Rests
<1>2. CASE \E u \in Uploads, n \in Chunks : Receive(h, u, n)
  BY <1>2 DEF Receive, TypeOK
<1>3. CASE GivesUp(h)
  BY <1>3 DEF GivesUp
<1>4. CASE StorePart(h)
  BY <1>4 DEF StorePart, Answer, TypeOK
<1>5. CASE MarkUploaded(h)
  BY <1>5 DEF MarkUploaded, Answer, TypeOK
<1>6. CASE RegisterConflict(h)
  BY <1>6, StatusCodes DEF RegisterConflict, Answer, TypeOK
<1>7. CASE CompleteUpload(h) \/ Register(h) \/ HeadObject(h)
  BY <1>7 DEF CompleteUpload, Register, HeadObject, Proceed
<1>8. QED
  BY <1>1, <1>2, <1>3, <1>4, <1>5, <1>6, <1>7, HandlerSteps DEF Advances

LEMMA AnswersStep ==
  ASSUME Inv, [Next]_vars
  PROVE  CreatedIsUploaded' /\ AckedChunkArrived' /\ ConflictIsRegistered'
<1> USE DEF Inv
<1>1. ASSUME NEW h \in Handlers, answer'[h] = 201
      PROVE  (meta[Path(h)].state = "UPLOADED" /\ meta[Path(h)].by = Upload(h))'
  <2>1. PICK p \in Paths : p = Path(h)
    BY LocalsType
  <2>2. Path(h)' = p /\ Upload(h)' = Upload(h)
    BY <1>1, <2>1, NewAnswers DEF Path, Upload
  <2>3. CASE answer[h] = 201
    BY <2>1, <2>2, <2>3, RecordsLast DEF CreatedIsUploaded
  <2>4. CASE MarkUploaded(h)
    <3>1. meta[p].by = Upload(h)
      BY <2>1, <2>4 DEF MarkUploaded, OneFinisher, Finishing
    <3>2. QED
      BY <2>1, <2>2, <2>4, <3>1 DEF MarkUploaded, MarkFileUploaded, TypeOK
  <2>5. QED
    BY <1>1, <2>3, <2>4, NewAnswers
<1>2. ASSUME NEW h \in Handlers, answer'[h] \in {200, 201}
      PROVE  Arrived(Path(h), job[h].chunk)'
  <2>1. PICK p \in Paths, n \in Chunks : p = Path(h) /\ n = job[h].chunk
    BY LocalsType
  <2>2. Path(h)' = p /\ job'[h].chunk = n
    BY <1>2, <2>1, NewAnswers DEF Path, Upload
  <2>3. CASE answer[h] \in {200, 201}
    <3>1. Arrived(p, n)
      BY <2>1, <2>3 DEF AckedChunkArrived
    <3>2. Arrived(p, n)'
      BY <3>1, StoresGrow
    <3>3. QED
      BY <2>2, <3>2 DEF Arrived, Stored
  <2>4. CASE StorePart(h)
    <3>1. pending'[p][n] # NoPart
      BY <2>1, <2>4, LocalsType DEF StorePart, StoreParts, TypeOK
    <3>2. QED
      BY <2>2, <3>1 DEF Arrived
  <2>5. CASE MarkUploaded(h)
    <3>1. Stored(p, n)'
      BY <2>1, <2>5, StoresGrow DEF MarkUploaded, ProgressInv
    <3>2. QED
      BY <2>2, <3>1 DEF Arrived, Stored
  <2>6. QED
    BY <1>2, <2>3, <2>4, <2>5, NewAnswers
<1>3. ASSUME NEW h \in Handlers, answer'[h] = 409
      PROVE  Registered(Path(h))'
  <2>1. PICK p \in Paths : p = Path(h)
    BY LocalsType
  <2>2. Path(h)' = p
    BY <1>3, <2>1, NewAnswers DEF Path, Upload
  <2>3. Registered(p)
    BY <1>3, <2>1, NewAnswers DEF ConflictIsRegistered, RegisterConflict
  <2>4. Registered(p)'
    BY <2>3, RecordsLast
  <2>5. QED
    BY <2>2, <2>4 DEF Registered
<1>4. QED
  BY <1>1, <1>2, <1>3 DEF CreatedIsUploaded, AckedChunkArrived, ConflictIsRegistered

(* An object that is not blank has content, unless an empty file is stored.*)
LEMMA ObjectHasContent ==
  ASSUME NEW obj \in Objects, obj # Blank, EmptyUploads = {}
  PROVE  HasContent(obj)
BY DEF Objects, Blank, HasContent, StoredParts

LEMMA ViewSteps ==
  ASSUME [Next]_vars
  PROVE  view' = view \/ \E r \in Readers : Status(r)
<1>1. ASSUME NEW h \in Handlers,
             RejectForm(h) \/ UploadFile(h) \/ Crash(h)
               \/ \E u \in Uploads, n \in Chunks : Receive(h, u, n)
      PROVE  view' = view
  BY <1>1 DEF RejectForm, Crash, Receive, UploadFile, StorePart, CompleteUpload,
     RejectChunk, UploadPartFails, Register, RegisterConflict, RegisterFails,
     HeadObject, HeadFails, MarkUploaded, MarkFails
<1>2. QED
  BY <1>1 DEF Next, vars

(* What was read of a record stands until the next step, and after it.     *)
LEMMA StandsLast ==
  ASSUME TypeOK, OneFinisher, [Next]_vars, NEW p \in Paths, NEW m,
         Stands(m, meta[p])
  PROVE  Stands(m, meta'[p])
<1>1. Registered(p)
  BY DEF Stands, Registered
<1>2. QED
  BY <1>1, RecordsLast DEF Stands, Registered

LEMMA StatusStep ==
  ASSUME Inv, [Next]_vars PROVE StatusInv' /\ StatusFindsObject'
<1> USE DEF Inv
<1> DEFINE Good(q) == /\ view'[q].pc = "head" \/ view'[q].code = 200
                           => Stands(view'[q].metadata, meta'[view'[q].path])
                      /\ view'[q].content.err # "missing"
                      /\ (view'[q].code = 200 /\ EmptyUploads = {})
                           => (view'[q].content.valid
                                 <=> view'[q].content.err = "none")
<1> SUFFICES ASSUME NEW q \in Readers
             PROVE  Good(q)
  BY DEF StatusInv, StatusFindsObject
<1>1. PICK here \in Paths : here = view[q].path
  BY DEF TypeOK, View
<1>2. \A m : Stands(m, meta[here]) => Stands(m, meta'[here])
  BY StandsLast
<1>3. ASSUME view'[q] = view[q]
      PROVE  Good(q)
  BY <1>1, <1>2, <1>3 DEF StatusInv, StatusFindsObject
<1>4. ASSUME NEW r \in Readers, NEW p \in Paths, GetFile(r, p)
      PROVE  Good(q)
  <2>1. CASE r = q
    <3>1. view'[q] = [pc |-> "head", path |-> p, metadata |-> meta[p], code |-> 0,
                      content |-> NoMessage]
      BY <1>4, <2>1 DEF GetFile, SetView, TypeOK
    <3>2. Stands(meta[p], meta[p])
      BY <1>4 DEF GetFile, Registered, Stands
    <3>3. Stands(meta[p], meta'[p])
      BY <3>2, StandsLast
    <3>4. QED
      BY <3>1, <3>3 DEF NoMessage
  <2>2. CASE r # q
    BY <1>3, <1>4, <2>2 DEF GetFile, SetView, TypeOK
  <2>3. QED
    BY <2>1, <2>2
<1>5. ASSUME NEW r \in Readers, NEW p \in Paths, GetFileFails(r, p)
      PROVE  Good(q)
  <2>1. CASE r = q
    <3>1. view'[q] = [pc |-> "idle", path |-> p, metadata |-> Unregistered,
                      code |-> 404, content |-> NoMessage]
      BY <1>5, <2>1 DEF GetFileFails, SetView, TypeOK
    <3>2. QED
      BY <3>1 DEF NoMessage
  <2>2. CASE r # q
    BY <1>3, <1>5, <2>2 DEF GetFileFails, SetView, TypeOK
  <2>3. QED
    BY <2>1, <2>2
<1>6. ASSUME view[q].pc = "head"
      PROVE  Stands(view[q].metadata, meta'[here]) /\ object[here] # Blank
  <2>1. Stands(view[q].metadata, meta[here])
    BY <1>1, <1>6 DEF StatusInv
  <2>2. Registered(here)
    BY <2>1 DEF Stands, Registered
  <2>3. QED
    BY <1>2, <2>1, <2>2 DEF BucketInv
<1>7. ASSUME NEW r \in Readers, StatusOfObject(r)
      PROVE  Good(q)
  <2>1. CASE r = q
    <3>1. view'[q] = [pc |-> "idle", path |-> here, metadata |-> view[q].metadata,
                      code |-> 200,
                      content |-> [valid |-> HasContent(object[here]),
                                   err |-> "none"]]
      BY <1>1, <1>7, <2>1 DEF StatusOfObject, SetView, TypeOK
    <3>2. Stands(view[q].metadata, meta'[here]) /\ object[here] # Blank
      BY <1>6, <1>7, <2>1 DEF StatusOfObject
    <3>3. object[here] \in Objects
      BY DEF TypeOK
    <3>4. QED
      BY <3>1, <3>2, <3>3, ObjectHasContent
  <2>2. CASE r # q
    BY <1>3, <1>7, <2>2 DEF StatusOfObject, SetView, TypeOK
  <2>3. QED
    BY <2>1, <2>2
<1>8. ASSUME NEW r \in Readers, StatusOfNoObject(r)
      PROVE  Good(q)
  <2>1. CASE r = q
    <3>1. Stands(view[q].metadata, meta'[here]) /\ object[here] # Blank
      BY <1>6, <1>8, <2>1 DEF StatusOfNoObject
    <3>2. view'[q] = [pc |-> "idle", path |-> here, metadata |-> view[q].metadata,
                      code |-> 200, content |-> [valid |-> FALSE, err |-> "failed"]]
      BY <1>1, <1>8, <2>1, <3>1 DEF StatusOfNoObject, SetView, TypeOK
    <3>3. QED
      BY <3>1, <3>2
  <2>2. CASE r # q
    BY <1>3, <1>8, <2>2 DEF StatusOfNoObject, SetView, TypeOK
  <2>3. QED
    BY <2>1, <2>2
<1>9. QED
  BY <1>3, <1>4, <1>5, <1>7, <1>8, ViewSteps DEF Status

(* A new 404, as long as no call has failed, is of a path not registered.  *)
LEMMA NewNotFound ==
  ASSUME TypeOK, [Next]_vars, faults' = 0,
         NEW q \in Readers, view'[q] # view[q], view'[q].code = 404
  PROVE  ~Registered(view'[q].path)
<1>1. ~Fault
  BY NoFault
<1>2. ASSUME NEW r \in Readers, NEW p \in Paths, NEW next \in {"idle", "head"},
             NEW m, NEW code \in {0, 200}, NEW content,
             SetView(r, p, next, m, code, content)
      PROVE  FALSE
  BY <1>2 DEF SetView, TypeOK
<1>3. PICK r \in Readers : Status(r)
  BY ViewSteps
<1>4. view[r].path \in Paths
  BY DEF TypeOK, View
<1>5. ~ (StatusOfObject(r) \/ StatusOfNoObject(r))
  BY <1>2, <1>4 DEF StatusOfObject, StatusOfNoObject
<1>6. PICK p \in Paths : GetFileFails(r, p)
  BY <1>2, <1>3, <1>5 DEF Status, GetFile
<1>7. ~Registered(p) /\ view'[q].path = p
  BY <1>1, <1>6 DEF GetFileFails, SetView, TypeOK
<1>8. QED
  BY <1>7

-----------------------------------------------------------------------------
(* The theorems.                                                           *)

LEMMA InvStep == Inv /\ [Next]_vars => Inv'
<1> SUFFICES ASSUME Inv, [Next]_vars PROVE Inv'
  OBVIOUS
<1>1. TypeOK'
  BY TypeStep DEF Inv
<1>2. QED
  BY <1>1, BucketStep, ProgressStep, UploadedEtagStep, OneFinisherStep,
     AnswersStep, StatusStep DEF Inv

(* The inductive invariant holds in every reachable state, whatever fails, *)
(* dies or overtakes.                                                      *)
THEOREM InvCorrect == Spec => []Inv
BY InitInv, InvStep, PTL DEF Spec

(* The Files API never lists a path that has no object in the bucket.      *)
THEOREM RegisteredHasObjectCorrect == Spec => []RegisteredHasObject
<1>1. Inv => RegisteredHasObject
  BY DEF Inv, BucketInv, RegisteredHasObject
<1>2. QED
  BY <1>1, InvCorrect, PTL

(* The ETag of an uploaded file is that of an object stored at its path.   *)
THEOREM UploadedEtagCorrect == Spec => []UploadedEtagWasStored
<1>1. Inv => UploadedEtagWasStored
  BY DEF Inv
<1>2. QED
  BY <1>1, InvCorrect, PTL

(* One handler per path gets past registration, the one that made it.      *)
THEOREM OneFinisherCorrect == Spec => []OneFinisher
<1>1. Inv => OneFinisher
  BY DEF Inv
<1>2. QED
  BY <1>1, InvCorrect, PTL

(* A CREATED file has its handler, until a call fails.                     *)
THEOREM CreatedHasFinisherCorrect == Spec => []CreatedHasFinisher
<1>1. Init => CreatedHasFinisher
  BY DEF Init, CreatedHasFinisher, Unregistered
<1>2. Inv /\ CreatedHasFinisher /\ [Next]_vars => CreatedHasFinisher'
  BY CreatedHasFinisherStep
<1>3. QED
  BY <1>1, <1>2, InvCorrect, PTL DEF Spec

(* What a 201 of the upload handler promises holds from then on.           *)
THEOREM CreatedIsUploadedCorrect == Spec => []CreatedIsUploaded
<1>1. Inv => CreatedIsUploaded
  BY DEF Inv
<1>2. QED
  BY <1>1, InvCorrect, PTL

(* A 409 of the upload handler is about a file that exists.                *)
THEOREM ConflictCorrect == Spec => []ConflictIsRegistered
<1>1. Inv => ConflictIsRegistered
  BY DEF Inv
<1>2. QED
  BY <1>1, InvCorrect, PTL

(* A status query that finds its path registered finds an object there,    *)
(* and calls its content valid unless Head fails.                          *)
THEOREM StatusCorrect == Spec => []StatusFindsObject
<1>1. Inv => StatusFindsObject
  BY DEF Inv
<1>2. QED
  BY <1>1, InvCorrect, PTL

(* As long as no call has failed, a status query that is answered with 404 *)
(* found its path unregistered.                                            *)
THEOREM NotFoundCorrect == Spec => NotFoundNeedsFault
<1>1. TypeOK /\ [Next]_vars =>
        [\A r \in Readers :
           view'[r] # view[r] /\ view'[r].code = 404 /\ faults' = 0
             => ~Registered(view'[r].path)]_vars
  BY NewNotFound
<1>2. QED
  BY <1>1, TypeCorrect, PTL DEF Spec, NotFoundNeedsFault

-----------------------------------------------------------------------------
(* What is in the objects.                                                 *)

(* As many parts as there are chunks, none beyond the last, are all of     *)
(* them.                                                                   *)
LEMMA AllOfThem ==
  ASSUME NEW t \in Chunks, NEW S \in SUBSET (1 .. t), Cardinality(S) = t
  PROVE  S = 1 .. t
<1>1. IsFiniteSet(1 .. t) /\ Cardinality(1 .. t) = t
  BY FS_Interval DEF Chunks
<1>2. QED
  BY <1>1, FS_Subset

(* The part of a handler's own chunk, among those of its path.             *)
LEMMA PartsOfHandler ==
  ASSUME TypeOK, PartsInv, NEW h \in Handlers, pc[h] = "upload"
  PROVE  /\ SentTo(Path(h), Parts(h))
         /\ job[h].chunk \in StoredParts(Parts(h))
         /\ Parts(h)[job[h].chunk] = Upload(h)
<1>1. /\ Upload(h) \in Uploads /\ Path(h) \in Paths /\ job[h].chunk \in Chunks
      /\ pending[Path(h)] \in Objects
  BY LocalsType DEF TypeOK
<1>2. /\ SentTo(Path(h), pending[Path(h)])
      /\ job[h].chunk \in ChunkNumbers[Upload(h)]
  BY <1>1 DEF PartsInv
<1>3. Parts(h)[job[h].chunk] = Upload(h) /\ Upload(h) # NoPart
  BY <1>1, PutPartStores DEF Parts
<1>4. \A n \in Chunks : n # job[h].chunk => Parts(h)[n] = pending[Path(h)][n]
  BY <1>1 DEF Parts, PutPart, Objects
<1>5. SentTo(Path(h), Parts(h))
  BY <1>1, <1>2, <1>3, <1>4 DEF SentTo, StoredParts, Path
<1>6. QED
  BY <1>1, <1>3, <1>5 DEF StoredParts

(* What a step stores at a path: the part of a handler that is uploading,  *)
(* among the others, or an object made of them.                            *)
LEMMA PartsSteps ==
  ASSUME TypeOK, [Next]_vars, NEW p \in Paths
  PROVE  \/ pending'[p] = pending[p] /\ versions'[p] = versions[p]
         \/ \E h \in Handlers :
              /\ pc[h] = "upload" /\ Path(h) = p
              /\ \/ pending'[p] = Parts(h) /\ versions'[p] = versions[p]
                 \/ /\ AllPartsUploaded(Parts(h), Total(h))
                    /\ pending'[p] = Blank
                    /\ versions'[p] = versions[p] \cup {Parts(h)}
<1>1. /\ pending \in [Paths -> Objects]
      /\ versions \in [Paths -> SUBSET Objects]
      /\ \A h \in Handlers : Path(h) \in Paths
  BY LocalsType DEF TypeOK
<1>2. ASSUME NEW h \in Handlers, StoreParts(Path(h), Parts(h))
      PROVE  /\ versions' = versions
             /\ \/ pending'[p] = pending[p]
                \/ Path(h) = p /\ pending'[p] = Parts(h)
  BY <1>1, <1>2 DEF StoreParts
<1>3. ASSUME NEW h \in Handlers, CompleteObject(Path(h), Parts(h))
      PROVE  \/ pending'[p] = pending[p] /\ versions'[p] = versions[p]
             \/ /\ Path(h) = p /\ pending'[p] = Blank
                /\ versions'[p] = versions[p] \cup {Parts(h)}
  BY <1>1, <1>3 DEF CompleteObject
<1>4. CASE UNCHANGED s3Vars
  BY <1>4 DEF s3Vars
<1>5. QED
  BY <1>2, <1>3, <1>4, StoreSteps DEF StoresPart

LEMMA InitParts == Init => PartsInv
<1> SUFFICES ASSUME Init PROVE PartsInv
  OBVIOUS
<1>1. \A h \in Handlers : pc[h] = "idle" /\ answer[h] = 0
  BY DEF Init
<1>2. ASSUME NEW p \in Paths PROVE SentTo(p, pending[p]) /\ versions[p] = {}
  BY DEF Init, SentTo, StoredParts, Blank
<1>3. QED
  BY <1>1, <1>2 DEF PartsInv

LEMMA PartsStep == ASSUME TypeOK, PartsInv, [Next]_vars PROVE PartsInv'
<1>1. ASSUME NEW h \in Handlers, pc'[h] # "idle" \/ answer'[h] \in {200, 201}
      PROVE  (job[h].chunk \in ChunkNumbers[Upload(h)])'
  <2>1. CASE job'[h] = job[h] /\ (pc[h] # "idle" \/ answer[h] \in {200, 201})
    BY <2>1 DEF PartsInv, Upload
  <2>2. ASSUME NEW u \in Uploads, NEW n \in Chunks, Receive(h, u, n)
        PROVE  (job[h].chunk \in ChunkNumbers[Upload(h)])'
    BY <2>2 DEF Receive, TypeOK, Upload
  <2>3. Advances(h) => job' = job /\ pc[h] # "idle"
    BY DEF Advances, StorePart, CompleteUpload, Register, RegisterConflict,
       HeadObject, MarkUploaded
  <2>4. QED
    BY <1>1, <2>1, <2>2, <2>3, HandlerSteps DEF Rests, GivesUp
<1>2. ASSUME NEW p \in Paths
      PROVE  /\ SentTo(p, pending'[p])
             /\ \A obj \in versions'[p] :
                  /\ SentTo(p, obj)
                  /\ \E n \in StoredParts(obj) :
                       AllPartsUploaded(obj, TotalChunks[obj[n]])
  <2>1. SentTo(p, Blank)
    BY DEF SentTo, StoredParts, Blank
  <2>2. ASSUME NEW h \in Handlers, pc[h] = "upload",
               AllPartsUploaded(Parts(h), Total(h))
        PROVE  \E n \in StoredParts(Parts(h)) :
                 AllPartsUploaded(Parts(h), TotalChunks[Parts(h)[n]])
    BY <2>2, PartsOfHandler DEF Total
  <2>3. QED
    BY <2>1, <2>2, PartsSteps, PartsOfHandler DEF PartsInv
<1>3. QED
  BY <1>1, <1>2 DEF PartsInv, SentTo

(* An object that one upload sent all the parts of is that upload's file.  *)
LEMMA OwnPartsAreWhole ==
  ASSUME NEW obj \in Objects, NEW u \in Uploads,
         \A n \in StoredParts(obj) : obj[n] = u /\ n <= TotalChunks[u],
         AllPartsUploaded(obj, TotalChunks[u])
  PROVE  obj = Whole(u)
<1>1. TotalChunks[u] \in Chunks /\ TotalChunks[u] \in Nat
  BY DEF Chunks
<1>2. StoredParts(obj) \in SUBSET (1 .. TotalChunks[u])
  BY <1>1 DEF StoredParts, Chunks
<1>3. StoredParts(obj) = 1 .. TotalChunks[u]
  BY <1>1, <1>2, AllOfThem DEF AllPartsUploaded
<1>4. \A n \in Chunks : obj[n] = IF n <= TotalChunks[u] THEN u ELSE NoPart
  BY <1>1, <1>3 DEF StoredParts, Chunks
<1>5. QED
  BY <1>4 DEF Whole, Objects

LEMMA LoneObjects ==
  ASSUME TypeOK, PartsInv, NEW u \in Uploads, Alone(u), Numbered(u)
  PROVE  /\ \A n \in StoredParts(pending[PathOf[u]]) :
              pending[PathOf[u]][n] = u /\ n <= TotalChunks[u]
         /\ versions[PathOf[u]] \subseteq {Whole(u)}
<1>1. PathOf[u] \in Paths
  OBVIOUS
<1>2. ASSUME NEW obj \in Objects, SentTo(PathOf[u], obj)
      PROVE  \A n \in StoredParts(obj) : obj[n] = u /\ n <= TotalChunks[u]
  BY <1>2 DEF SentTo, StoredParts, Alone, Numbered, Objects
<1>3. pending[PathOf[u]] \in Objects /\ versions[PathOf[u]] \subseteq Objects
  BY <1>1 DEF TypeOK
<1>4. ASSUME NEW obj \in versions[PathOf[u]]
      PROVE  obj = Whole(u)
  <2>1. \A n \in StoredParts(obj) : obj[n] = u /\ n <= TotalChunks[u]
    BY <1>1, <1>2, <1>3 DEF PartsInv
  <2>2. AllPartsUploaded(obj, TotalChunks[u])
    BY <1>1, <2>1 DEF PartsInv
  <2>3. QED
    BY <1>3, <2>1, <2>2, OwnPartsAreWhole
<1>5. QED
  BY <1>1, <1>2, <1>3, <1>4 DEF PartsInv

LEMMA NoHoles == TypeOK /\ PartsInv => ObjectsHaveNoHoles
<1> SUFFICES ASSUME TypeOK, PartsInv, NEW p \in Paths, NEW t \in Chunks,
                    Agreed(p, t),
                    NEW obj \in versions[p]
             PROVE  StoredParts(obj) = 1 .. t /\ \A n \in 1 .. t : PathOf[obj[n]] = p
  BY DEF ObjectsHaveNoHoles
<1>1. obj \in Objects
  BY DEF TypeOK
<1>2. SentTo(p, obj)
  BY DEF PartsInv
<1>3. \A n \in StoredParts(obj) :
        PathOf[obj[n]] = p /\ TotalChunks[obj[n]] = t /\ n <= t
  BY <1>1, <1>2 DEF Agreed, Numbered, SentTo, StoredParts, Objects
<1>4. AllPartsUploaded(obj, t)
  BY <1>3 DEF PartsInv
<1>5. StoredParts(obj) \in SUBSET (1 .. t)
  BY <1>3 DEF StoredParts, Chunks
<1>6. StoredParts(obj) = 1 .. t
  BY <1>4, <1>5, AllOfThem DEF AllPartsUploaded
<1>7. QED
  BY <1>3, <1>6

(* Once agreed chunks have been in an object, they are in each later one.  *)
LEMMA ArrivedIsKept ==
  ASSUME TypeOK, BucketInv, ObjectsHaveNoHoles, NEW p \in Paths, NEW t \in Chunks,
         Agreed(p, t), NEW n \in 1 .. t, Arrived(p, n)
  PROVE  Kept(p, n)
<1>1. CASE pending[p][n] # NoPart
  BY <1>1 DEF Kept
<1>2. CASE Stored(p, n)
  <2>1. object[p] \in versions[p]
    BY <1>2 DEF Stored, BucketInv
  <2>2. n \in StoredParts(object[p])
    BY <2>1 DEF ObjectsHaveNoHoles
  <2>3. QED
    BY <2>2 DEF Kept, StoredParts
<1>3. QED
  BY <1>1, <1>2 DEF Arrived

LEMMA AckedKept == Inv /\ PartsInv => AckedChunkIsKept
<1> SUFFICES ASSUME Inv, PartsInv, NEW h \in Handlers, answer[h] \in {200, 201},
                    Agreed(Path(h), Total(h))
             PROVE  Kept(Path(h), job[h].chunk)
  BY DEF AckedChunkIsKept
<1>1. TypeOK /\ BucketInv /\ ObjectsHaveNoHoles
  BY NoHoles DEF Inv
<1>2. Upload(h) \in Uploads /\ Path(h) = PathOf[Upload(h)] /\ Path(h) \in Paths
  BY <1>1, LocalsType DEF Path
<1>3. job[h].chunk \in 1 .. Total(h) /\ Total(h) \in Chunks
  BY <1>2 DEF PartsInv, Agreed, Numbered, Total
<1>4. Arrived(Path(h), job[h].chunk)
  BY DEF Inv, AckedChunkArrived
<1>5. QED
  BY <1>1, <1>2, <1>3, <1>4, ArrivedIsKept

LEMMA LoneFileSent == Inv /\ PartsInv => LoneFileIsSentFile
<1> USE DEF Inv
<1> SUFFICES ASSUME Inv, PartsInv, NEW h \in Handlers, answer[h] = 201,
                    Alone(Upload(h)), Numbered(Upload(h))
             PROVE  /\ object[Path(h)] = Whole(Upload(h))
                    /\ meta[Path(h)].etag = Whole(Upload(h))
  BY DEF LoneFileIsSentFile
<1>1. Upload(h) \in Uploads /\ Path(h) \in Paths /\ Path(h) = PathOf[Upload(h)]
  BY LocalsType DEF Path
<1>2. meta[Path(h)].etag \in versions[Path(h)]
  BY <1>1 DEF CreatedIsUploaded, UploadedEtagWasStored
<1>3. object[Path(h)] \in versions[Path(h)]
  BY <1>1, <1>2 DEF BucketInv
<1>4. QED
  BY <1>1, <1>2, <1>3, LoneObjects

(* A handler of a lone file of one chunk has all of its parts at once.     *)
LEMMA OnlyChunkIsAll ==
  ASSUME TypeOK, PartsInv, NEW h \in Handlers, pc[h] = "upload",
         Alone(Upload(h)), Numbered(Upload(h)), Total(h) = 1
  PROVE  AllPartsUploaded(Parts(h), Total(h))
<1>1. Upload(h) \in Uploads /\ Path(h) = PathOf[Upload(h)] /\ Parts(h) \in Objects
  BY LocalsType DEF Path
<1>2. \A n \in StoredParts(Parts(h)) : n <= 1
  <2>1. SentTo(Path(h), Parts(h))
    BY PartsOfHandler
  <2>2. QED
    BY <1>1, <2>1 DEF SentTo, StoredParts, Alone, Numbered, Objects, Total
<1>3. StoredParts(Parts(h)) = {1}
  BY <1>2, PartsOfHandler DEF StoredParts, Chunks
<1>4. Cardinality({1}) = 1
  BY FS_Singleton
<1>5. QED
  BY <1>3, <1>4 DEF AllPartsUploaded

LEMMA OnlyChunkStep ==
  ASSUME TypeOK, PartsInv, OnlyChunkRegisters, [Next]_vars
  PROVE  OnlyChunkRegisters'
<1> SUFFICES ASSUME NEW h \in Handlers, Alone(Upload(h)'), Numbered(Upload(h)'),
                    Total(h)' = 1, answer'[h] = 200
             PROVE  FALSE
  BY DEF OnlyChunkRegisters, Alone, Numbered
<1>1. Upload(h)' = Upload(h) /\ Total(h)' = Total(h)
  BY NewAnswers DEF Upload, Total
<1>2. answer'[h] # answer[h]
  BY <1>1 DEF OnlyChunkRegisters
<1>3. StorePart(h)
  BY <1>2, NewAnswers
<1>4. QED
  BY <1>1, <1>3, OnlyChunkIsAll DEF StorePart

(* Each part was sent to the path it is stored at, and an object has as    *)
(* many as one of the uploads it is made of: whatever fails or overtakes.  *)
THEOREM PartsInvCorrect == Spec => []PartsInv
<1>1. TypeOK /\ PartsInv /\ [Next]_vars => PartsInv'
  BY PartsStep
<1>2. QED
  BY <1>1, InitParts, TypeCorrect, PTL DEF Spec

(* Uploads of one path that agree on its chunks never store an object with *)
(* a hole in it, mixed though it may be.                                   *)
THEOREM ObjectsHaveNoHolesCorrect == Spec => []ObjectsHaveNoHoles
BY NoHoles, TypeCorrect, PartsInvCorrect, PTL

(* Where the uploads of a path agree on their chunks, one answered with 200*)
(* or 201 is among the parts or in the object that is there now, whichever *)
(* uploads have replaced it.                                               *)
THEOREM AckedChunkCorrect == Spec => []AckedChunkIsKept
BY AckedKept, InvCorrect, PartsInvCorrect, PTL

(* A lone file that was answered with 201 is stored as it was sent.        *)
THEOREM LoneFileCorrect == Spec => []LoneFileIsSentFile
BY LoneFileSent, InvCorrect, PartsInvCorrect, PTL

(* The only chunk of a lone file is never left unregistered with a 200.    *)
THEOREM OnlyChunkCorrect == Spec => []OnlyChunkRegisters
<1>1. Init => OnlyChunkRegisters
  BY DEF Init, OnlyChunkRegisters
<1>2. TypeOK /\ PartsInv /\ OnlyChunkRegisters /\ [Next]_vars => OnlyChunkRegisters'
  BY OnlyChunkStep
<1>3. QED
  BY <1>1, <1>2, TypeCorrect, PartsInvCorrect, PTL DEF Spec

-----------------------------------------------------------------------------
(* FilesStore implements FileCatalogue.                                    *)

LEMMA InitRefines == Init => Catalogue!Init
BY DEF Init, Catalogue!Init, Unregistered

LEMMA StepRefines ==
  ASSUME Inv, [Next]_vars
  PROVE  [Catalogue!Next]_<<meta, versions>>
<1> USE DEF Inv
<1>1. CASE UNCHANGED <<s3Vars, meta>>
  BY <1>1 DEF s3Vars
<1>2. ASSUME NEW h \in Handlers, StoresPart(h), UNCHANGED meta
      PROVE  [Catalogue!Next]_<<meta, versions>>
  <2>1. CASE StoreParts(Path(h), Parts(h))
    BY <1>2, <2>1 DEF StoreParts
  <2>2. CASE CompleteObject(Path(h), Parts(h))
    <3>1. Catalogue!Store(Path(h))
      BY <1>2, <2>2, LocalsType DEF CompleteObject, Catalogue!Store
    <3>2. QED
      BY <3>1, LocalsType DEF Catalogue!Next
  <2>3. QED
    BY <1>2, <2>1, <2>2 DEF StoresPart
<1>3. ASSUME NEW h \in Handlers, Registers(h), UNCHANGED s3Vars
      PROVE  [Catalogue!Next]_<<meta, versions>>
  <2>1. meta[Path(h)].state = "NONE"
    BY <1>3 DEF Registers, Registered
  <2>2. versions[Path(h)] # {}
    BY <1>3 DEF Registers, ProgressInv, Stored
  <2>3. Catalogue!Enter(Path(h))
    BY <1>3, <2>1, <2>2, LocalsType DEF Registers, RegisterFile, s3Vars, Catalogue!Enter
  <2>4. QED
    BY <2>3, LocalsType DEF Catalogue!Next
<1>4. ASSUME NEW h \in Handlers, Marks(h), UNCHANGED s3Vars
      PROVE  [Catalogue!Next]_<<meta, versions>>
  <2>1. meta[Path(h)].state = "CREATED"
    BY <1>4 DEF Marks, OneFinisher, Finishing
  <2>2. etag[h] \in versions[Path(h)]
    BY <1>4 DEF Marks, ProgressInv
  <2>3. Catalogue!Complete(Path(h))
    BY <1>4, <2>1, <2>2 DEF Marks, MarkFileUploaded, s3Vars, Catalogue!Complete
  <2>4. QED
    BY <2>3, LocalsType DEF Catalogue!Next
<1>5. QED
  BY <1>1, <1>2, <1>3, <1>4, StoreSteps

(* Every behaviour of the handlers, the bucket and the Files API is one of *)
(* the catalogue: entered once, after storing, and completed once, with    *)
(* the digest of something stored.                                         *)
THEOREM CatalogueImplemented == Spec => ImplementsCatalogue
<1>1. Inv /\ [Next]_vars => [Catalogue!Next]_<<meta, versions>>
  BY StepRefines
<1>2. QED
  BY InitRefines, InvCorrect, <1>1, PTL DEF Spec, ImplementsCatalogue, Catalogue!Spec

CatalogueP == INSTANCE FileCatalogueProofs WITH catalogue <- meta, stored <- versions

(* Records are never taken back and, once UPLOADED, never changed: what    *)
(* holds of the catalogue holds of what implements it.                     *)
THEOREM NothingIsTakenBackCorrect == Spec => NothingIsTakenBack
<1>1. Catalogue!Init <=> CatalogueP!Init
  BY DEF Catalogue!Init, CatalogueP!Init
<1>2. Catalogue!Next <=> CatalogueP!Next
  BY DEF Catalogue!Next, CatalogueP!Next, Catalogue!Store, CatalogueP!Store,
     Catalogue!Enter, CatalogueP!Enter, Catalogue!Complete, CatalogueP!Complete
<1>3. [Catalogue!Next]_<<meta, versions>> <=> [CatalogueP!Next]_<<meta, versions>>
  BY <1>2
<1>4. Catalogue!Spec => CatalogueP!Spec
  BY <1>1, <1>3, PTL DEF Catalogue!Spec, CatalogueP!Spec
<1>5. CatalogueP!Spec => CatalogueP!NothingIsTakenBack
  BY CatalogueP!NothingIsTakenBackCorrect
<1>6. CatalogueP!NothingIsTakenBack => Catalogue!NothingIsTakenBack
  BY PTL DEF CatalogueP!NothingIsTakenBack, Catalogue!NothingIsTakenBack
<1>7. QED
  BY <1>4, <1>5, <1>6, CatalogueImplemented, PTL
     DEF ImplementsCatalogue, NothingIsTakenBack

=============================================================================
