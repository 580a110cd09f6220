----------------------------- MODULE FilesStore -----------------------------
(***************************************************************************)
(* The static files upload, /upload-new: the handler CreateV1UploadHandler *)
(* (api/upload.go) over Store.UploadFile (files/store.go), and the status  *)
(* query, StatusHandler (api/status.go) over Store.Status.                 *)
(*                                                                         *)
(* Every request is served by a goroutine of its own, and several replicas *)
(* of the service run side by side; nothing in the service is shared.  The *)
(* goroutines meet in the two stores they call: the S3 bucket and the      *)
(* Files API.  A step is one call of either; between two calls of one      *)
(* goroutine anything can happen.                                          *)
(***************************************************************************)
EXTENDS Bucket

CONSTANTS
  Paths,          (* keys, <path>/<resumableFilename>                     *)
  Handlers,       (* goroutines serving POST /upload-new                  *)
  Readers,        (* goroutines serving GET /upload-new/files/.../status  *)
  PathOf,         (* the path an upload is sent to                        *)
  TotalChunks,    (* the resumableTotalChunks of an upload                *)
  ChunkNumbers,   (* the resumableChunkNumbers a client sends with it     *)
  MaxFaults       (* bound on the calls that fail and goroutines that die *)

ASSUME StoreAssumption ==
  /\ PathOf \in [Uploads -> Paths]
  /\ TotalChunks \in [Uploads -> Chunks]
  /\ ChunkNumbers \in [Uploads -> SUBSET Chunks]
  /\ MaxFaults \in Nat

VARIABLES
  pending,        (* S3: the parts stored under a key, not yet assembled  *)
  object,         (* S3: the object stored under a key, or Blank          *)
  versions,       (* history: the objects ever stored under a key         *)
  meta,           (* Files API: the record of a path                      *)
  pc,             (* the next call of a handler's UploadFile              *)
  job,            (* the upload and chunk number of a handler's request   *)
  etag,           (* UploadFile's local: the ETag that Head returned      *)
  answer,         (* the status of a handler's last answer, 0 for none    *)
  view,           (* a status query and its answer                        *)
  faults          (* how many calls have failed so far                    *)

s3Vars      == <<pending, object, versions>>
handlerVars == <<pc, job, etag, answer>>
vars        == <<pending, object, versions, meta, pc, job, etag, answer,
                 view, faults>>

States == {"NONE", "CREATED", "UPLOADED"}

MetaRecord == [state : States, by : Uploads \cup {NoPart}, etag : Objects]

Unregistered == [state |-> "NONE", by |-> NoPart, etag |-> Blank]

Registered(p) == meta[p].state # "NONE"

(* newStatusMessage's two fields, the error abstracted to its cause.       *)
StatusMessage == [valid : BOOLEAN, err : {"none", "failed", "missing"}]

NoMessage == [valid |-> FALSE, err |-> "none"]

View == [pc : {"idle", "head"}, path : Paths, metadata : MetaRecord,
         code : {0, 200, 404}, content : StatusMessage]

TypeOK ==
  /\ pending \in [Paths -> Objects]
  /\ object \in [Paths -> Objects]
  /\ versions \in [Paths -> SUBSET Objects]
  /\ meta \in [Paths -> MetaRecord]
  /\ pc \in [Handlers -> {"idle", "upload", "register", "head", "mark"}]
  /\ job \in [Handlers -> [upload : Uploads, chunk : Chunks]]
  /\ etag \in [Handlers -> Objects]
  /\ answer \in [Handlers -> {0, 200, 201, 400, 401, 403, 409, 500}]
  /\ view \in [Readers -> View]
  /\ faults \in 0 .. MaxFaults

Init ==
  /\ pending  = [p \in Paths |-> Blank]
  /\ object   = [p \in Paths |-> Blank]
  /\ versions = [p \in Paths |-> {}]
  /\ meta     = [p \in Paths |-> Unregistered]
  /\ pc       = [h \in Handlers |-> "idle"]
  /\ job      \in [Handlers -> {[upload |-> u, chunk |-> 1] : u \in Uploads}]
  /\ etag     = [h \in Handlers |-> Blank]
  /\ answer   = [h \in Handlers |-> 0]
  /\ view     \in [Readers -> {[pc |-> "idle", path |-> p,
                                metadata |-> Unregistered, code |-> 0,
                                content |-> NoMessage] : p \in Paths}]
  /\ faults   = 0

-----------------------------------------------------------------------------
(* Locals of the handlers, and how a call of UploadFile ends.              *)

Upload(h) == job[h].upload
Path(h)   == PathOf[Upload(h)]

(* As if the number of a chunk were passed on as the number of chunks.     *)
ChunkAsTotal(h) == job[h].chunk

Total(h)  == TotalChunks[Upload(h)]

(* A call that does not succeed: refused, timed out, cut off because the   *)
(* client hung up and cancelled the request's context, or answered when    *)
(* nobody listened any more.                                               *)
Fault == faults < MaxFaults /\ faults' = faults + 1

Proceed(h, next) == /\ pc' = [pc EXCEPT ![h] = next]
                    /\ UNCHANGED answer

Answer(h, code) == /\ pc' = [pc EXCEPT ![h] = "idle"]
                   /\ etag' = [etag EXCEPT ![h] = Blank]
                   /\ answer' = [answer EXCEPT ![h] = code]

(* The status the handler writes for each error of storeFile.  Errors of   *)
(* other kinds than these, ErrS3Upload and ErrS3Head among them, take the  *)
(* default branch.                                                         *)
StatusOf == [ErrFileAlreadyRegistered |-> 409,
             ErrFileAPICreateInvalidData |-> 500,
             ErrChunkTooSmall |-> 400,
             ErrFilesServer |-> 500,
             ErrFilesUnauthorised |-> 401,
             ErrFilesForbidden |-> 403,
             InternalError |-> 500]

(* What registerFileWithContentItem makes of the Files API's refusal; any  *)
(* other status, or no answer at all, is passed on as it is.               *)
RegisterErrorSwapped(status) ==
  CASE status = 409 -> "ErrFileAlreadyRegistered"
    [] status = 400 -> "ErrFileAPICreateInvalidData"
    [] status = 401 -> "ErrFilesUnauthorised"
    [] status = 403 -> "ErrFileAlreadyRegistered"
    [] status = 500 -> "ErrFilesServer"
    [] OTHER        -> "InternalError"

RegisterError(status) ==
  CASE status = 409 -> "ErrFileAlreadyRegistered"
    [] status = 400 -> "ErrFileAPICreateInvalidData"
    [] status = 401 -> "ErrFilesUnauthorised"
    [] status = 403 -> "ErrFilesForbidden"
    [] status = 500 -> "ErrFilesServer"
    [] OTHER        -> "InternalError"

(* The quotes of the ETag header are trimmed before it is recorded.        *)
UntrimmedETag(header) == header
TrimQuotes(header) == header[2]

-----------------------------------------------------------------------------
(* The effects of the external calls.                                      *)

StoreParts(p, parts) == /\ pending' = [pending EXCEPT ![p] = parts]
                        /\ UNCHANGED <<object, versions>>

CompleteObject(p, parts) ==
  /\ pending'  = [pending EXCEPT ![p] = Blank]
  /\ object'   = [object EXCEPT ![p] = parts]
  /\ versions' = [versions EXCEPT ![p] = @ \cup {parts}]

RegisterFile(p, u) ==
  meta' = [meta EXCEPT ![p] = [state |-> "CREATED", by |-> u, etag |-> Blank]]

MarkFileUploaded(p, e) ==
  meta' = [meta EXCEPT ![p] = [state |-> "UPLOADED", by |-> meta[p].by, etag |-> e]]

-----------------------------------------------------------------------------
(* CreateV1UploadHandler up to its call of storeFile.                      *)

(* The first check of the request that fails, and the status it gets: the  *)
(* form and its two decodings, the validation, the file field, its bytes.  *)
FormStatus == [ParsingForm |-> 400, DecodingMetadata |-> 400,
               DecodingResumable |-> 400, ValidationError |-> 400,
               FileForm |-> 400, ReadAll |-> 500]

RejectForm(h) ==
  /\ pc[h] = "idle"
  /\ \E code \in {FormStatus[check] : check \in DOMAIN FormStatus} :
       Answer(h, code)
  /\ UNCHANGED <<s3Vars, meta, job, view, faults>>

(* A chunk of an upload arrives.  Chunks may come in any order, again, and *)
(* while other handlers still work on the same path.  Which numbers come   *)
(* is the client's choice: the handler compares none with the total.       *)
Receive(h, u, n) ==
  /\ pc[h] = "idle"
  /\ n \in ChunkNumbers[u]
  /\ job' = [job EXCEPT ![h] = [upload |-> u, chunk |-> n]]
  /\ pc' = [pc EXCEPT ![h] = "upload"]
  /\ answer' = [answer EXCEPT ![h] = 0]
  /\ UNCHANGED <<s3Vars, meta, etag, view, faults>>

-----------------------------------------------------------------------------
(* Store.UploadFile, one action per outcome of its calls.                  *)

(* The parts under the handler's key once its own is among them.           *)
Parts(h) == PutPart(pending[Path(h)], job[h].chunk, Upload(h))

(* As if AllPartsUploaded were not tested: every part is registered.       *)
StorePartAndRegister(h) ==
  /\ pc[h] = "upload"
  /\ ~AllPartsUploaded(Parts(h), Total(h))
  /\ StoreParts(Path(h), Parts(h))
  /\ Proceed(h, "register")
  /\ UNCHANGED <<meta, job, etag, view, faults>>

(* UploadPart succeeds and parts are still missing: 200.                   *)
StorePart(h) ==
  /\ pc[h] = "upload"
  /\ ~AllPartsUploaded(Parts(h), Total(h))
  /\ StoreParts(Path(h), Parts(h))
  /\ Answer(h, 200)
  /\ UNCHANGED <<meta, job, view, faults>>

(* UploadPart stores the last missing part and completes the object.       *)
CompleteUpload(h) ==
  /\ pc[h] = "upload"
  /\ AllPartsUploaded(Parts(h), Total(h))
  /\ ~ChunkTooSmall(Parts(h))
  /\ CompleteObject(Path(h), Parts(h))
  /\ Proceed(h, "register")
  /\ UNCHANGED <<meta, job, etag, view, faults>>

(* S3 will not assemble the parts: *s3client.ErrChunkTooSmall.             *)
RejectChunk(h) ==
  /\ pc[h] = "upload"
  /\ AllPartsUploaded(Parts(h), Total(h))
  /\ ChunkTooSmall(Parts(h))
  /\ StoreParts(Path(h), Parts(h))
  /\ Answer(h, StatusOf.ErrChunkTooSmall)
  /\ UNCHANGED <<meta, job, view, faults>>

(* What a failed UploadPart may have done before it failed: nothing,       *)
(* stored the part, or even completed the object.                          *)
UploadPartEffect(h) ==
  \/ UNCHANGED s3Vars
  \/ StoreParts(Path(h), Parts(h))
  \/ /\ AllPartsUploaded(Parts(h), Total(h))
     /\ ~ChunkTooSmall(Parts(h))
     /\ CompleteObject(Path(h), Parts(h))

(* As if the error of UploadPart were logged and then forgotten.           *)
UploadPartErrorIgnored(h) ==
  /\ pc[h] = "upload"
  /\ Fault
  /\ UploadPartEffect(h)
  /\ Answer(h, 200)
  /\ UNCHANGED <<meta, job, view>>

(* UploadPart returns any other error: ErrS3Upload, whatever it did.       *)
UploadPartFails(h) ==
  /\ pc[h] = "upload"
  /\ Fault
  /\ UploadPartEffect(h)
  /\ Answer(h, StatusOf.InternalError)
  /\ UNCHANGED <<meta, job, view>>

(* As if registering the file were all that is left to do.                 *)
RegisterAndReturn(h) ==
  /\ pc[h] = "register"
  /\ ~Registered(Path(h))
  /\ RegisterFile(Path(h), Upload(h))
  /\ Answer(h, 201)
  /\ UNCHANGED <<s3Vars, job, view, faults>>

(* registerFileWithContentItem: the first to register a path succeeds.     *)
Register(h) ==
  /\ pc[h] = "register"
  /\ ~Registered(Path(h))
  /\ RegisterFile(Path(h), Upload(h))
  /\ Proceed(h, "head")
  /\ UNCHANGED <<s3Vars, job, etag, view, faults>>

(* As if a conflict were taken for "registered by an earlier chunk".       *)
RegisterConflictIgnored(h) ==
  /\ pc[h] = "register"
  /\ Registered(Path(h))
  /\ Proceed(h, "head")
  /\ UNCHANGED <<s3Vars, meta, job, etag, view, faults>>

(* As if the handler asked again until the conflict went away.             *)
RegisterConflictRetried(h) ==
  /\ pc[h] = "register"
  /\ Registered(Path(h))
  /\ UNCHANGED vars

RegisterConflict(h) ==
  /\ pc[h] = "register"
  /\ Registered(Path(h))
  /\ Answer(h, StatusOf[RegisterError(409)])
  /\ UNCHANGED <<s3Vars, meta, job, view, faults>>

(* The Files API refuses for a reason of its own, or its answer is lost,   *)
(* in which case it may have registered the path all the same.             *)
RegisterFails(h) ==
  /\ pc[h] = "register"
  /\ Fault
  /\ \/ /\ \E status \in {400, 401, 403, 500, 503} :
             Answer(h, StatusOf[RegisterError(status)])
        /\ UNCHANGED meta
     \/ /\ ~Registered(Path(h))
        /\ RegisterFile(Path(h), Upload(h))
        /\ Answer(h, StatusOf.InternalError)
  /\ UNCHANGED <<s3Vars, job, view>>

(* Head returns the ETag of the object that is at the path now.            *)
HeadObject(h) ==
  /\ pc[h] = "head"
  /\ object[Path(h)] # Blank
  /\ etag' = [etag EXCEPT ![h] = TrimQuotes(ETagHeader(object[Path(h)]))]
  /\ Proceed(h, "mark")
  /\ UNCHANGED <<s3Vars, meta, job, view, faults>>

(* Head returns an error, or no ETag: ErrS3Head.                           *)
HeadFails(h) ==
  /\ pc[h] = "head"
  /\ IF object[Path(h)] = Blank THEN UNCHANGED faults ELSE Fault
  /\ Answer(h, StatusOf.InternalError)
  /\ UNCHANGED <<s3Vars, meta, job, view>>

MarkUploaded(h) ==
  /\ pc[h] = "mark"
  /\ MarkFileUploaded(Path(h), etag[h])
  /\ Answer(h, 201)
  /\ UNCHANGED <<s3Vars, job, view, faults>>

(* As if UploadFile returned true and dropped MarkFileUploaded's error.    *)
MarkErrorDropped(h) ==
  /\ pc[h] = "mark"
  /\ Fault
  /\ \/ UNCHANGED meta
     \/ MarkFileUploaded(Path(h), etag[h])
  /\ Answer(h, 201)
  /\ UNCHANGED <<s3Vars, job, view>>

(* MarkFileUploaded returns an error, having marked the file or not.       *)
MarkFails(h) ==
  /\ pc[h] = "mark"
  /\ Fault
  /\ \/ UNCHANGED meta
     \/ MarkFileUploaded(Path(h), etag[h])
  /\ Answer(h, StatusOf.InternalError)
  /\ UNCHANGED <<s3Vars, job, view>>

(* The replica dies; its client gets no answer.                            *)
Crash(h) ==
  /\ pc[h] # "idle"
  /\ Fault
  /\ Answer(h, 0)
  /\ UNCHANGED <<s3Vars, meta, job, view>>

-----------------------------------------------------------------------------
(* StatusHandler over Store.Status: GetFile, then Head.                    *)

SetView(r, p, next, metadata, code, content) ==
  /\ view' = [view EXCEPT ![r] = [pc |-> next, path |-> p,
                                  metadata |-> metadata, code |-> code,
                                  content |-> content]]
  /\ UNCHANGED <<s3Vars, meta, handlerVars>>

GetFile(r, p) ==
  /\ view[r].pc = "idle"
  /\ Registered(p)
  /\ SetView(r, p, "head", meta[p], 0, NoMessage)
  /\ UNCHANGED faults

(* Any error of GetFile becomes ErrFilesAPINotFound.                       *)
GetFileFails(r, p) ==
  /\ view[r].pc = "idle"
  /\ \/ ~Registered(p) /\ UNCHANGED faults
     \/ Fault
  /\ SetView(r, p, "idle", Unregistered, 404, NoMessage)

StatusOfObject(r) ==
  LET p == view[r].path IN
  /\ view[r].pc = "head"
  /\ object[p] # Blank
  /\ SetView(r, p, "idle", view[r].metadata, 200,
             [valid |-> HasContent(object[p]), err |-> "none"])
  /\ UNCHANGED faults

(* An error of Head does not fail the query: it is part of its answer.     *)
StatusOfNoObject(r) ==
  LET p == view[r].path IN
  /\ view[r].pc = "head"
  /\ IF object[p] = Blank THEN UNCHANGED faults ELSE Fault
  /\ SetView(r, p, "idle", view[r].metadata, 200,
             [valid |-> FALSE,
              err |-> IF object[p] = Blank THEN "missing" ELSE "failed"])

-----------------------------------------------------------------------------
UploadFile(h) ==
  \/ StorePart(h) \/ CompleteUpload(h) \/ RejectChunk(h) \/ UploadPartFails(h)
  \/ Register(h) \/ RegisterConflict(h) \/ RegisterFails(h)
  \/ HeadObject(h) \/ HeadFails(h)
  \/ MarkUploaded(h) \/ MarkFails(h)

Status(r) ==
  \/ \E p \in Paths : GetFile(r, p) \/ GetFileFails(r, p)
  \/ StatusOfObject(r)
  \/ StatusOfNoObject(r)

Next ==
  \/ \E h \in Handlers :
       \/ RejectForm(h)
       \/ \E u \in Uploads, n \in Chunks : Receive(h, u, n)
       \/ UploadFile(h)
       \/ Crash(h)
  \/ \E r \in Readers : Status(r)

Spec == Init /\ [][Next]_vars

(* Every external call returns, with an answer or with an error (the       *)
(* clients' timeouts and the request's context see to that), and a         *)
(* goroutine that can go on does.  Clients owe nothing.                    *)
Fairness ==
  /\ \A h \in Handlers : WF_vars(UploadFile(h))
  /\ \A r \in Readers : WF_vars(view[r].pc = "head" /\ Status(r))

FairSpec == Spec /\ Fairness

-----------------------------------------------------------------------------
(* Safety.                                                                 *)

Stored(p, n)  == \E obj \in versions[p] : obj[n] # NoPart
Arrived(p, n) == pending[p][n] # NoPart \/ Stored(p, n)
Kept(p, n)    == pending[p][n] # NoPart \/ object[p][n] # NoPart

(* What a client can do for the objects at its path, and the service never *)
(* checks: number its chunks from 1 to the total that it sends with each,  *)
(* and send the same total as whoever else uploads to that path.           *)
Numbered(u) == ChunkNumbers[u] \subseteq 1 .. TotalChunks[u]

Agreed(p, t) ==
  \A u \in Uploads : PathOf[u] = p => TotalChunks[u] = t /\ Numbered(u)

(* UploadFile registers a path only once its bytes are an object in the    *)
(* bucket: whatever fails, dies or overtakes, the Files API never lists a  *)
(* path with nothing behind it.                                            *)
RegisteredHasObject ==
  \A p \in Paths : Registered(p) => object[p] # Blank

(* The ETag recorded for an uploaded file is the bare digest of an object  *)
(* that really was stored at its path, not of a part, of another path's    *)
(* object or of nothing.                                                   *)
UploadedEtagWasStored ==
  \A p \in Paths : meta[p].state = "UPLOADED" => meta[p].etag \in versions[p]

Finishing(h) == pc[h] \in {"head", "mark"}

(* Of all the handlers that complete an object at one path, however often  *)
(* and concurrently it is uploaded, one gets past registration: it alone   *)
(* marks the file, its own registration, and only while that is CREATED.   *)
OneFinisher ==
  \A h \in Handlers : Finishing(h) =>
    /\ meta[Path(h)].state = "CREATED"
    /\ meta[Path(h)].by = Upload(h)
    /\ \A k \in Handlers \ {h} : Finishing(k) => Path(k) # Path(h)

(* As long as no call has failed, a file that is CREATED has a handler on  *)
(* its way to marking it, however many others were turned away meanwhile.  *)
CreatedHasFinisher ==
  \A p \in Paths : meta[p].state = "CREATED" /\ faults = 0 =>
    \E h \in Handlers : Finishing(h) /\ Path(h) = p

(* 201 means what it says, and for good: the file is registered with the   *)
(* metadata of this request's upload and marked UPLOADED.                  *)
CreatedIsUploaded ==
  \A h \in Handlers : answer[h] = 201 =>
    meta[Path(h)].state = "UPLOADED" /\ meta[Path(h)].by = Upload(h)

(* Where the uploads of a path agree on their chunks, a chunk answered with*)
(* 200 or 201 is not lost again, although each completion replaces the     *)
(* object: bytes for its number wait among the parts of the path or are in *)
(* the object that is there now.                                           *)
AckedChunkIsKept ==
  \A h \in Handlers :
    answer[h] \in {200, 201} /\ Agreed(Path(h), Total(h)) =>
      Kept(Path(h), job[h].chunk)

(* 409 is only ever answered for a path the Files API really lists.        *)
ConflictIsRegistered ==
  \A h \in Handlers : answer[h] = 409 => Registered(Path(h))

(* What a status query has read of a record still stands, now that the     *)
(* record is e: it is of the same upload, and if it was UPLOADED it is the *)
(* same to the ETag.                                                       *)
Stands(m, e) ==
  /\ m.state # "NONE" /\ e.state # "NONE"
  /\ e.by = m.by
  /\ m.state = "UPLOADED" => e = m

(* A status answer reads the metadata first and the object second.  Between*)
(* the two, and after, the record can move on and the object be replaced,  *)
(* but the metadata shown is never another upload's or taken back, and the *)
(* object is never missing: file_content is invalid only when Head failed  *)
(* or the stored file is empty.                                            *)
StatusFindsObject ==
  \A r \in Readers :
    /\ view[r].code = 200 => Stands(view[r].metadata, meta[view[r].path])
    /\ view[r].content.err # "missing"
    /\ (view[r].code = 200 /\ EmptyUploads = {})
         => (view[r].content.valid <=> view[r].content.err = "none")

(* The bucket: what is at a path was stored there, nothing stored goes     *)
(* away, and registration comes after storing.                             *)
BucketInv ==
  \A p \in Paths :
    /\ object[p] \in versions[p] \cup {Blank}
    /\ versions[p] # {} => object[p] # Blank
    /\ Blank \notin versions[p]
    /\ Registered(p) => versions[p] # {}

(* A handler past its UploadPart has its chunk in a stored object, and the *)
(* ETag it carries to MarkFileUploaded is of one.                          *)
ProgressInv ==
  \A h \in Handlers :
    /\ pc[h] \in {"register", "head", "mark"} => Stored(Path(h), job[h].chunk)
    /\ pc[h] = "mark" => etag[h] \in versions[Path(h)]
    /\ pc[h] # "idle" => answer[h] = 0

(* A chunk answered with 200 or 201 has been stored, as a part or in one of*)
(* the objects there have been.                                            *)
AckedChunkArrived ==
  \A h \in Handlers : answer[h] \in {200, 201} =>
    Arrived(Path(h), job[h].chunk)

(* A status query that goes on to Head has found its path registered.      *)
StatusInv ==
  \A r \in Readers : view[r].pc = "head" =>
    Stands(view[r].metadata, meta[view[r].path])

(* The inductive invariant: the properties above hold because of it.       *)
Inv ==
  /\ TypeOK
  /\ BucketInv
  /\ ProgressInv
  /\ UploadedEtagWasStored
  /\ OneFinisher
  /\ CreatedIsUploaded
  /\ AckedChunkArrived
  /\ ConflictIsRegistered
  /\ StatusInv
  /\ StatusFindsObject

-----------------------------------------------------------------------------
(* What is in the objects.                                                 *)

Whole(u) == [n \in Chunks |-> IF n <= TotalChunks[u] THEN u ELSE NoPart]

Alone(u) == \A v \in Uploads \ {u} : PathOf[v] # PathOf[u]

(* Uploads of one path may mix in an object, a retry with the same file    *)
(* for one.  As long as they agree on which chunks there are, the object   *)
(* has each of them, and each is a chunk sent to that path: counted parts, *)
(* whichever they are and however often they come, leave no hole.          *)
ObjectsHaveNoHoles ==
  \A p \in Paths, t \in Chunks :
    Agreed(p, t) =>
      \A obj \in versions[p] :
        StoredParts(obj) = 1 .. t /\ \A n \in 1 .. t : PathOf[obj[n]] = p

(* A file that is alone on its path, its chunks numbered as they should be,*)
(* is stored as it was sent: after a 201, and for good, the object at its  *)
(* path, and the one whose ETag is recorded, have all of its chunks, each  *)
(* in its place.                                                           *)
LoneFileIsSentFile ==
  \A h \in Handlers :
    answer[h] = 201 /\ Alone(Upload(h)) /\ Numbered(Upload(h)) =>
    /\ object[Path(h)] = Whole(Upload(h))
    /\ meta[Path(h)].etag = Whole(Upload(h))

(* A lone file of one chunk is registered with its first chunk: the handler*)
(* that gets it never leaves it at 200.                                    *)
OnlyChunkRegisters ==
  \A h \in Handlers :
    Alone(Upload(h)) /\ Numbered(Upload(h)) /\ Total(h) = 1 => answer[h] # 200

(* Parts that a client could have sent to a path.                          *)
SentTo(p, parts) ==
  \A n \in StoredParts(parts) :
    PathOf[parts[n]] = p /\ n \in ChunkNumbers[parts[n]]

(* What makes the three inductive: a request in progress or answered with  *)
(* 200 or 201 is for a chunk that was sent, parts are of the path that they*)
(* are stored at, and one of the uploads that an object is made of has as  *)
(* many chunks as the object has parts.                                    *)
PartsInv ==
  /\ \A h \in Handlers : pc[h] # "idle" \/ answer[h] \in {200, 201} =>
       job[h].chunk \in ChunkNumbers[Upload(h)]
  /\ \A p \in Paths :
       /\ SentTo(p, pending[p])
       /\ \A obj \in versions[p] :
            /\ SentTo(p, obj)
            /\ \E n \in StoredParts(obj) :
                 AllPartsUploaded(obj, TotalChunks[obj[n]])

(* The catalogue of files that /upload-new promises (FileCatalogue.tla).   *)
Catalogue == INSTANCE FileCatalogue WITH catalogue <- meta, stored <- versions

ImplementsCatalogue == Catalogue!Spec

(* What follows for the Files API's records: whoever overtakes, retries or *)
(* is refused, an entry keeps its upload, and an UPLOADED one its ETag.    *)
NothingIsTakenBack == Catalogue!NothingIsTakenBack

-----------------------------------------------------------------------------
(* Liveness.                                                               *)

(* Every request whose upload has begun gets its answer (or its replica    *)
(* dies): no outcome of the calls leaves UploadFile waiting or retrying.   *)
EveryUploadIsAnswered == \A h \in Handlers : pc[h] # "idle" ~> pc[h] = "idle"

(* Only a failed call or a dead replica strands a file in CREATED: however *)
(* many handlers meet at its path, the one that registered it marks it.    *)
OnlyFaultsStrandFiles ==
  \A p \in Paths : Registered(p) ~> (meta[p].state = "UPLOADED" \/ faults > 0)

-----------------------------------------------------------------------------
(* What features, docs and messages of the repository say of the system    *)
(* and the code does not do.                                               *)

(* features/uploading_a_file.feature:54, "File upload is marked as started *)
(* when first chunk is uploaded": a first chunk answered with 200 leaves   *)
(* its file registered.  The code registers after the last chunk.          *)
FirstChunkRegisters ==
  \A h \in Handlers :
    answer[h] = 200 /\ job[h].chunk = 1 => Registered(Path(h))

(* features/uploading_a_file.feature:98, "the stored file ... should match *)
(* the sent file": after a 201 the file recorded consists of the chunks of *)
(* that upload.  resumableIdentifier, "a unique identifier for the file    *)
(* upload session" (swagger.yaml:261), is not part of the S3 upload key.   *)
StoredFileIsSentFile ==
  \A h \in Handlers : answer[h] = 201 =>
    \A n \in StoredParts(meta[Path(h)].etag) :
      meta[Path(h)].etag[n] = Upload(h)

(* features/uploading_a_file.feature:90, a file is marked as uploaded with *)
(* an "etag", and "the stored file ... should match the sent file"; :117,  *)
(* "Uploading a file that already exists returns 409 Conflict": after such *)
(* a 409 the file that exists is still the one whose ETag was recorded.    *)
ConflictLeavesFile ==
  \A h \in Handlers :
    answer[h] = 409 /\ meta[Path(h)].state = "UPLOADED" =>
      meta[Path(h)].etag = object[Path(h)]

(* The rest of that statement: as long as no call has failed.              *)
NotFoundNeedsFault ==
  [][\A r \in Readers :
       view'[r] # view[r] /\ view'[r].code = 404 /\ faults' = 0
         => ~Registered(view'[r].path)]_vars

(* files/store.go:22, "cannot find a file with this path": a status query  *)
(* answered with 404 asked for a path that is not registered.              *)
NotFoundIsUnregistered ==
  [][\A r \in Readers :
       view'[r] # view[r] /\ view'[r].code = 404
         => ~Registered(view'[r].path)]_vars

=============================================================================
