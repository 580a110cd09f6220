# Verification of dp-upload-service

TLA+ specifications of the upload service, TLC configurations that check them
on small instances, and TLAPS proofs of the properties that matter most for
instances of any size. Paths such as `files/store.go` are relative to the
repository's source.

## The system

The service stores files in S3 and their metadata in another service, the
Files API. A client cuts a file into chunks and posts each to `/upload-new`;
several replicas of the service run side by side and share nothing but the two
stores.

| part | state it keeps | operations | properties that make it correct |
|---|---|---|---|
| static files upload: `CreateV1UploadHandler` (`api/upload.go`) over `Store.UploadFile` (`files/store.go`) | none; each request has its goroutine and locals | check the form; `UploadPart`; when that completed the object: `RegisterFile`, `Head`, `MarkFileUploaded`; map errors to statuses | a listed file exists; one uploader per path completes it; answers mean what they say; a chunk that was acknowledged is not lost when the object is replaced |
| file status: `StatusHandler` (`api/status.go`) over `Store.Status` | none | `GetFile`, then `Head` | the metadata shown is never another upload's or taken back, and there is an object, although uploads go on between the reads and after them |
| S3 bucket (`aws/s3.go` over the dp-s3 library) | parts of unfinished objects, objects | `UploadPart`, `CheckPartUploaded`, `Head` | external: its contract is assumed |
| Files API (external) | a record per path: CREATED, UPLOADED | `RegisterFile` (once per path), `MarkFileUploaded`, `GetFile` | external: its contract is assumed |
| SDK: `Client.Upload` (`sdk/upload.go`) | locals of the call | cut the reader into chunks, post them in turn, stop at the first refusal | the first call's nil means uploaded; the chunks are the file; it returns |
| lifecycle: `run` (`main.go`), `Run`, `Close` (`service/service.go`), `ExternalServiceList` (`service/initialise.go`) | flags of what was made; two channels; Close's context | start the parts in order; wait for a signal or an error; stop in order, with a timeout | a clean exit is drained; nothing runs after a failed start; nobody blocks for ever |
| legacy upload (`upload/upload.go`) | none | `Upload`, `CheckUploaded`, `GetS3URL` | what is reported as uploaded is kept; all chunks sent means the file is stored |
| upload form (`sdk/upload.go` writes it, `api/upload.go` reads it, `files/store.go` uses it) | none | encode a description; decode and validate it; `getStoreMetadata`; the key and number of the part; the record and the token | what is registered is what the caller described; paths do not meet; no number wraps; the handler dereferences nothing nil |
| `config`, `docs`, `features/steps` | | | no behaviour to model: settings, generated documents, test harness |

The hard part is what happens *between* the calls of one request: `UploadFile`
makes up to four, to two services, with no transaction and no lock. Requests
for one path interleave at any of them; a call may fail after it took effect; a
replica may die between two calls; a client may send a chunk again while the
first request is still being served. `PROJECT.json` lists these hazards one by
one, each at its line.

## Modules

    Bucket <- FilesStore <- FilesStoreProofs         (theorems)
                 |  ^ implements FileCatalogue       <- FileCatalogueProofs
                 |  ^ MCFilesStore                   (instances for TLC)
                 +-- SdkUpload  <- SdkUploadProofs, MCSdkUpload
                 |      ^ implements FileCatalogue
                 +-- Replica    <- ReplicaProofs, MCReplica
                        |  ^ implements FileCatalogue, GracefulProcess
    ServiceLifecycle <--+  <- ServiceLifecycleProofs
           ^ implements GracefulProcess
    Bucket <- Uploader     <- UploaderProofs, MCUploader
    UploadForm             <- UploadFormProofs, MCUploadForm

SdkUpload and Replica take FilesStore as an INSTANCE and add an actor each: the
caller that waits for a handler's answer, the process that a handler is part of.

**Bucket** states what callers rely on in the dp-s3 client: parts are stored
under a key and a chunk number, and nothing else; when as many parts are stored
as the request says there are, they become the object of that key; S3 refuses
to assemble a part, other than the last, that is too small. A part is abstracted
to the upload it came from, an object to the parts it was made of, an ETag to
the object it digests. The library is not in the repository; how it reads
`UploadPart`'s outcome is taken from `files/store.go`. `UploadPart` is one
step here. In truth it is several calls of S3; an `UploadPart` that fails may
have done nothing, stored the part or completed the object, which covers every
way it can be cut short.

**FilesStore** is the static files upload and the status query. A *handler* is
a goroutine that serves one POST at a time; since nothing in the service is
shared, handlers of one replica and of several are the same thing. `pc[h]` is
the external call that `UploadFile` makes next, and there is one action for each
outcome of each call:

| `pc` | code | actions |
|---|---|---|
| idle | `api/upload.go` 41-96 | `Receive`, `RejectForm` |
| upload | `files/store.go` 163-173 | `StorePart`, `CompleteUpload`, `RejectChunk`, `UploadPartFails` |
| register | 112-157, 174-177 | `Register`, `RegisterConflict`, `RegisterFails` |
| head | 179-187 | `HeadObject`, `HeadFails` |
| mark | 189 | `MarkUploaded`, `MarkFails` |
| any but idle | | `Crash` |

`meta` is the Files API's record of a path, with the upload that registered it;
`pending` and `object` are the bucket, and every completion replaces the object
of its key; `versions` is a history variable, the objects ever stored under a
key. `Kept` reads the object that is there now; `Arrived`, which is for the
inductive invariants, reads the history. `answer[h]` is the status of the last
answer. A failing call may have taken effect or not. A reader goes through
`GetFile` and `Head` in two steps, and keeps the metadata it has read in `view`.
Two files with equal bytes are two objects of the model: an ETag of one never
stands for the other.

The number and the total of a chunk are the client's to choose: neither
`api/upload.go` nor `files/store.go` compares the one with the other, or with
what was sent before. `TotalChunks` gives the total that an upload sends with
each of its chunks, `ChunkNumbers` the numbers, which may be any that S3 has. A
number below 1 is refused by S3, which is one of the outcomes of
`UploadPartFails`. So a chunk 2 of 1 is taken, counted, and assembled into an
object without a chunk 1. A property that needs more of a client says so:
`Numbered(u)`, that the numbers of an upload do not exceed its total, and
`Agreed(p, t)`, that all uploads of a path are numbered so and send the same
total. Without the latter even a chunk answered with 201 can be lost: an upload
of one chunk replaces an object of two.

**FileCatalogue** is the abstract specification: a path is entered once, by one
upload and after an object was stored for it, then completed once, with the
digest of an object stored for it; nothing is taken back. FilesStore implements
it with `catalogue <- meta, stored <- versions`, and so do SdkUpload and Replica.

**SdkUpload** composes `Client.Upload` with the service: it instantiates
FilesStore, gives each request of a call a handler, and adds what the caller
does: compute `totalChunks`, read up to `chunkSize` bytes for each chunk, wait
for the answer, go on, return. `DoFails` is a caller that stops waiting: its
handler is not told and goes on, while the caller may call `Upload` again with
the file opened anew. The HTTP client's own policy of sending a request again is
external and left out; a repeated call has the same effect on the service. The
loop of `Upload` numbers its chunks from 1 to the total, so `SentNumbers` does.

**Uploader** is the legacy `/upload`. Its two handlers make one external call
each, so a request is served in one step; what interleaves is requests. The
client is external: resumable.js (`upload/upload.go` 18 names it), which checks
a chunk, sends it if it is missing, has several requests on their way, gives up
on one and asks again, or is loaded again and starts over. A request it gave up
on stays among `requests`, no longer `heard`, and may still be served. A form
that a handler rejects counts as a fault. The key of the parts is the
identifier, which resumable.js makes of a file's size and name, so that two
clients may share one, and each completion replaces the `object` of the other.
They then cut a file of the same size into the same number of chunks: `Agreed`.
`clients` are the uploads that are made in a behaviour, one of the sets that the
constant `Clienteles` allows: an instance need not run all its uploads at once.
Chunk numbers are those that resumable.js sends, from 1 to the total; the
conversion of `ResumableChunkNumber` to an int32 changes none of them.

**ServiceLifecycle** has the three goroutines of a replica: main (`main.go`
34-57, `Run`, the wait in `Close`), the goroutine of `ListenAndServe`, and the
goroutine that `Close` starts. `svcErrors` and `signals` count what is in the
channels, `ctx` is Close's context, `closer` the next step of its goroutine.
A call of `Run` that may fail is a step of its own, and `RunFails` may take the
place of each.

**GracefulProcess** is the abstract specification of a replica, as its clients
and its scheduler see it: it admits requests from when it serves until it
drains; its health check is on when it starts to serve and off before it drains,
and between the two it goes on admitting, as the code does between `hc.Stop` and
the closing of the listeners in `Shutdown`; it ends gracefully only with every
request answered. It may fail at any time, and be started again. ServiceLifecycle
implements it: `phase` comes from where main is and whether the listeners are open, `open` is the requests, `watch` the health
check, `verdict` the outcome. What main, the server's goroutine and Close's do
beside that, the channels and the context, is a stutter. Replica implements it
process after process.

**Replica** is ServiceLifecycle and FilesStore together. What ServiceLifecycle
counts as a request is a handler of FilesStore: the HTTP server starts one when
it accepts a request (`Accept`), each of its calls is a step while the process
runs (`Handle`), and its answer finishes the request. When main exits, after
`Close` or by `os.Exit`, handlers end where they are (`CutOff`); the stores stay.
`Restart` is the scheduler, which is external: a new process, with nothing in
memory, over the same stores. `unclean` remembers that some process did not end
with a `Close` that returned nil.

**UploadForm** follows a file's description from the caller's `api.Metadata`
through the SDK's form fields, their decoding into `Metadata` and `Resumable`,
validation, `getStoreMetadata`, the part's key and number, to the record given
to the Files API and the token it is given with. It serves one request at a
time: to FilesStore, where requests interleave, a description is one upload.
`Call` is a call of the SDK, `Submit` a form of any other client. A call without
`IsPublishable` dereferences nil in the SDK itself (`sdk/upload.go` 138, "no nil
check"): the model has it as a panic of the caller and sends nothing. An integer
keeps its width, but the widths are parameters: `MaxInt32` and `MaxInt` are the
largest of each type. A path is the sequence of what its slashes separate, which
is what `filepath.Base` and the joining of path and name need; other strings are
empty or not.

## Runs

| run | instance | shows |
|---|---|---|
| `race` | two handlers, two uploads of one path, one of two chunks, the other sending a chunk 2 of 1, one reader, two faults | the safety properties of FilesStore that hold whatever clients number, and its inductive invariant `Inv` |
| `live` | two uploads of one path in two chunks each, the first chunk of one too small for S3, one fault, no reader, fair | FilesStore implements FileCatalogue; `ObjectsHaveNoHoles` and `AckedChunkIsKept`, among uploads that agree and replace each other's object; every request is answered; only faults leave a file CREATED |
| `sdk` | three callers, chunks of two bytes: two share a path, with a file of three bytes, called twice, and one of a single byte declared as two; a third file is one byte too large; two handlers, one fault, fair | the inductive invariant `Inv`, `FirstCallUploads`, `ChunksAreTheFile`, `NilKeepsChunks`, `StoredFileIsTheFile`, `CallsGoOn`, `UploadReturns` |
| `legacy` | two clients of `/upload` with the same file in two chunks, the chunks of one too small; or the first of them and one of another file in one chunk; one fault, fair | the inductive invariant `Inv`, `DoneChunkIsKept`, `PostedFileIsStored`, `CheckedFileIsStored`, `FileIsStoredInTheEnd` |
| `replica` | a replica started twice, two handlers, one upload of two chunks, no failed calls, fair | the properties of a replica's life, GracefulProcess implemented, and what they mean for uploads: `RequestsAreHandlers`, `CleanExitStrandsNothing`, `OnlyUncleanExitsStrandFiles`, `LoneFileIsSentFile`, FileCatalogue still implemented |
| `form` | some thirty descriptions, each different from a plain one in a field, with and without a token, and twenty forms of other clients; two requests after each other; `MaxInt32` 3, `MaxInt` 7 | `RegisteredAsDescribed`, `PathsDoNotCollide`, `NothingNilIsDereferenced`, `PartIsTheOneAsked` |
| `first_chunk`, `sent_file`, `conflict`, `not_found`, `sdk_retry`, `sdk_path` | smallest that shows it | statements of the repository that the code does not keep, see below |

**Why these bounds are enough.** Every property of FilesStore is about one path,
so one path suffices; paths do not interact. Two handlers reach every conflict
of two at one path; the proofs cover any number. Two chunks are the fewest for
which order, repetition and mixing matter; a total of one beside a total of
two lets an upload take another's parts, and a number above the total leaves a
hole. In `conflict` one chunk each is enough. Two faults are enough for a failure
with an effect followed by another failure; every fault may happen at any call.
`MaxFaults`, `MaxCalls` (for each upload), `MaxRequests` and `MaxStarts` are
bounds of the model; the code has none. One fault is enough for `live`, where
the step simulation is also proved, for `legacy`, where one failure can already
undo what a chunk relied on, and for `sdk`, where one lost answer makes a second
call meet the handler of the first. The two callers of `sdk` that share a path
differ in their number of chunks, so what `NilKeepsChunks` says of competing
callers that agree is checked by `AckedChunkIsKept` in `live`, for any client,
and proved. In `replica` nothing but the process fails:
two handlers are the fewest of which one can be cut off while the other has
answered, and two starts the fewest for one process to meet what another left.
In `form` two requests are the fewest that can conflict; the widths are small so
that numbers below, at and above each bound, and ones that wrap to a valid
number, are all tried, and the proofs cover every width. The proofs cover any
number of handlers, uploads, chunks, calls and starts. In `race`
handlers are symmetric; no liveness is checked there.

**Deadlock** is checked in the runs of FilesStore, where a service with no
request can always take one. A process ends, and starts, calls and requests are
bounded in number, and a client of `/upload` is done when its file is:
`CHECK_DEADLOCK FALSE` in `replica`, `form`, `legacy`, `sdk` and `sdk_*`.

**Fairness.** Of FilesStore: each handler's `UploadFile`, and a status query
that has begun, for the HTTP clients of both stores time out, or the request's
context is cancelled, so a call ends with an answer or an error. Nothing is
asked of those who send requests, nor of `Crash`. Of SdkUpload: a call in
progress goes on. Of Uploader: of each client's requests on their way one or
other is served, by a handler whose one call returns, and a client that has
chunks to ask for or to send goes on with one of them. Of Replica: the handlers,
as in FilesStore, while the process runs; main, the sending of the server's error, and the timer of
Close's context. Nothing is asked of `Shutdown`, of the health check's `Stop`, of
the server's failing, of signals or of the scheduler.

## What the runs found

Each of these is a statement of the repository that a run refutes; `PROJECT.json`
quotes the lines.

- `first_chunk`: a feature says that the first chunk registers its file. The
  code registers after the last chunk.
- `sent_file`: two uploads of one path at a time are mixed into one object, for
  the path alone is the key of the parts; the result is UPLOADED and answered 201.
- `conflict`: an upload refused with 409 has already replaced the existing file's
  object, because the chunk is stored before the path is registered: the file is
  UPLOADED with an ETag that is not of the object at its path.
- `not_found`: a status query is answered 404 when the Files API merely failed.
- `sdk_retry`: a repeated call of `Client.Upload` returns nil for a file that is
  never marked: a request of the first call, whose answer was lost, uses up the
  repeated call's parts and then fails, and `Upload` does not tell 200 from 201
  for the last chunk.
- `sdk_path`: `sdk/README.md` and the SDK's test give `Upload` the path of a file
  as `Path`. The handler takes it for a directory, as `swagger.yaml` and the
  service's own README do, and appends a slash and the file's name, which the SDK
  takes from the end of the same `Path`: `path/to/file.csv` is registered and
  stored as `path/to/file.csv/file.csv`. `RegisteredAsDescribed` says what holds
  on either reading.

`CheckedFileIsStored` allows one other outcome: when `UploadPart` stores the
last part and fails before it completes the object, a client that sends the chunk
again completes it (`PostedFileIsStored`), but one that is loaded again asks
`CheckUploaded` first, is told that every chunk is there, and sends none. Both
failures together are more than the one fault of `legacy`; the proof covers any
number.

Not the subject of a run, as no property would say more than the code does:
`README.md` names 5GB and 1000 parts as maxima, which the service does not
enforce and the SDK sets at 10000 parts; with `SizeInBytes` unset, `Upload`
sends nothing and returns nil, which `SdkUpload` and `UploadForm` have as well;
`swagger.yaml` calls `resumableFilename` and `resumableTotalChunks` required,
which nothing checks: a form without the first is stored under its path and a
slash, one without the second never completes. `UploadForm` has such forms. It
also has other clients' forms with a negative size, which is registered as a
huge one.

## Proofs

**FilesStoreProofs**, for any uploads, paths, handlers, readers, numbers of
chunks and of faults that satisfy `BucketAssumption` and `StoreAssumption`:

- `TypeCorrect`: the type invariant.
- `InvCorrect`: `Inv` is inductive. No single property is: that the one handler
  past registration marks its own file (`OneFinisher`) needs that a record is
  registered once; `RegisteredHasObject` and `StatusFindsObject` need that
  registration comes after storing and that nothing stored goes away
  (`BucketInv`); `UploadedEtagWasStored` needs that the ETag a handler carries
  is of a stored object, and `AckedChunkArrived` that a handler past `UploadPart`
  has its chunk in one (`ProgressInv`); `StatusFindsObject` needs that what a
  query has read of a record `Stands` until it answers (`StatusInv`). The proof
  first sorts the steps: what
  they do to the two stores (`StoreSteps`) and to one handler (`HandlerSteps`);
  then each part of `Inv` is shown from those.
- `RegisteredHasObjectCorrect`, `UploadedEtagCorrect`, `OneFinisherCorrect`,
  `CreatedIsUploadedCorrect`, `ConflictCorrect` (what 201 and 409 promise),
  `StatusCorrect` follow, whatever clients number.
- `CreatedHasFinisherCorrect`: while no call fails, a CREATED file has a handler
  on its way to marking it. It is no part of `Inv` but proved beside it, since a
  process that is cut off keeps `Inv` and breaks this.
- `PartsInvCorrect`: what the parts and the objects of a path are made of, a
  second inductive invariant that needs only the types. Only parts sent to a
  path are stored at it, under numbers that their upload sends, and one of the
  uploads in an object has as many chunks as the object has parts: that one's
  total is what `UploadPart` counted to. From it comes the true part of what
  `sent_file` and `first_chunk` refute, each with what it asks of the clients:
  `ObjectsHaveNoHolesCorrect` (uploads may mix, but where they are `Agreed` no
  chunk is missing or foreign to the path), `LoneFileCorrect` (a file alone on its
  path and `Numbered` is, after a 201, stored chunk by chunk as it was sent) and
  `OnlyChunkCorrect` (such a file of one chunk is registered with its first).
- `AckedChunkCorrect`: where the uploads of a path agree, a chunk answered with
  200 or 201 is among the parts or in the object that is there now. `Inv` says
  that it has arrived (`AckedChunkArrived`); if it is no longer among the parts,
  it is in one of the objects that were stored, so below the total, and the
  object there now, whoever completed it, has no hole (`NoHoles`).
- `NotFoundCorrect`: the true part of what `not_found` refutes; while no call has
  failed, a query answered with 404 asked for a path without a record.
- `CatalogueImplemented`: FilesStore implements FileCatalogue, initial states
  and steps, with `Inv` for the steps that register and mark.

**FileCatalogueProofs**: in the abstract specification an entry keeps its upload,
and a completed one its digest (`NothingIsTakenBackCorrect`). Refinement makes it
a theorem of the implementations: `NothingIsTakenBackCorrect` of FilesStoreProofs
and of ReplicaProofs cite the abstract one and `CatalogueImplemented`, and open no
action again.

**ServiceLifecycleProofs**, for any number of requests: `InvCorrect` from
`Order`, which ties what each goroutine has done to what it does next;
`CleanExitCorrect`, `HealthCheckFirstCorrect`, `FailedRunCorrect`,
`SendNeverBlocksCorrect` follow. `Order`'s clause that a living main has no
outcome yet is what makes the rest inductive. `ProcessImplemented`: every step is
one of GracefulProcess or a stutter. `Order` is needed where main begins to serve
(the health check is started, and not before), where the listeners close (it is
stopped) and where main exits with nil (nothing is open).

**ReplicaProofs**, for any number of handlers, uploads and starts, reuses the
two: every step of Replica is a step of the process or none, and a step of the
handlers, a `CutOff`, or none. `ReplicaInv` joins the two invariants with
`RequestsAreHandlers`, which is what turns "`Shutdown` returned nil" into "no
handler is at work", and so `CleanExitIsDrained` into
`CleanExitStrandsNothingCorrect`. `CatalogueImplemented` says that no cut-off and
no restart takes back what the catalogue promises. `LoneFileCorrect` carries
`PartsInv` over them: a file that one process took in half, and another the rest
of, is stored as it was sent. `ReplicaKeepsPromise`: each process is a
GracefulProcess, the next one `StartAgain`.

**SdkUploadProofs**, for any uploads, sizes, sizes of a chunk and handlers, and
any number of calls, reuses the lemmas of FilesStoreProofs through an instance
of that module, whose definitions are first shown to be those of `SdkUpload`'s
own instance (`Same...`). The steps are sorted by what they do to one call.
`Inv` is what the handlers keep, what a call keeps and what the two keep
together:

- `LoopInv` has the bytes read so far; `ChunksAreTheFileCorrect` rests on it and
  on `ChunkCount`, that the rounded quotient is the least number of chunks that
  hold the size, and never above S3's maximum for a size that is not refused.
- `WaitInv` says that the handler a call waits for serves that very chunk and is
  awaited by nobody else. With it an accepted answer is about the chunk sent,
  which `AckedChunkArrived` says has been stored; so have those before it
  (`PrefixArrived`), and all of them when nil is returned (`NilChunksArrived`).
- `NilKeepsChunksCorrect`: while the uploads of the path that have begun agree on
  the number of chunks, those chunks are there now. It needs `PartsInv` as
  `AckedChunkCorrect` does, and `PartsAreOfCalls`, by which the objects are made
  of uploads that have begun.
- `FirstInv` says that during a first call whose path nobody else has used
  exactly the chunks sent so far wait in the bucket. So the last one, and no
  other, completes the object, its answer cannot be 200, and
  `FirstCallUploadsCorrect` follows from what 201 promises. A second call breaks
  this, as `sdk_retry` shows.
- `StoredFileCorrect` holds for second calls as well: if the file of the only
  upload of its path that has begun is UPLOADED, by whichever call, its object
  has each of its chunks in its place. It needs `PartsInv` and that whatever is
  stored came from a call (`PartsAreOfCalls`).
- `CallsGoOnCorrect`: within a call each step is one further, and there are at
  most two for a chunk. This is the safety half of `UploadReturns`; fairness of
  the answers, which TLC checks, is the other.
- `CatalogueImplemented`: callers that give up and call again do not make the
  service break the catalogue's promises.

**UploaderProofs**, for any clients, identifiers, numbers of chunks and requests
on their way, and any sets of uploads that may be made together: `InvCorrect`,
from `PostedInv` (the parts and the object of a client that is alone are its own,
and as long as no object is stored, what it posted waits among the parts and is
not all) and `PartsInv` (as in FilesStore, by identifier, of the object there
now). `PostedFileCorrect` and `CheckedFileCorrect` follow, and
`SharedFileCorrect`: clients of one identifier that agree on the number of chunks
leave no hole in the object, however they take turns. With it `KeptForGoodCorrect`:
a chunk that was there once, which is what a check tells a client, is there for
good, for an object is only replaced by one that has the chunk too. That is the
step `DoneChunkCorrect` needs, so that `DoneChunkIsKept` is inductive only beside
`PartsInv`.

**UploadFormProofs**, for any descriptions, forms and widths of the integers
with `MaxSize` at most `MaxInt`: `InvCorrect`, from `SentAsCalled` (a request of
the SDK carries its call) and `KeysOfCalls` (a record that a call made has the
key of that call, which ties the record that a later call is refused for to the
call that made it); `TypeCorrect`, `RegisteredAsDescribedCorrect`,
`PathsDoNotCollideCorrect`, `NothingNilCorrect`, `PartIsTheOneAskedCorrect`
follow. The lemmas are about what becomes of one value: a positive size is the
same as an int, as text and as a uint64; an int32 that was decoded does not
wrap; a path and the name at its end determine each other's key.

A few of the proved properties are not named in a run's configuration. The
conjuncts of `Inv` are checked with it (`ConflictIsRegistered` in `race`,
`HealthCheckStopsFirst` and `FailedRunStartsNothing` in `replica`, the type
invariants everywhere, the `PartsInv` of Uploader in `legacy`), and
`NothingIsTakenBack` follows from `ImplementsCatalogue`. `NotFoundNeedsFault` and
the `PartsInv` of FilesStore hold in the instance of `race`,
`OnlyChunkRegisters`, which is about files that are alone, in one with two paths,
and `KeptForGood` and `SharedFileHasNoHoles` in that of `legacy`.

Only model-checked: the liveness properties, as liveness under fairness is out
of the prover's reach. They are `EveryUploadIsAnswered` and
`OnlyFaultsStrandFiles` (`live`), `UploadReturns` (`sdk`),
`FileIsStoredInTheEnd` (`legacy`), `SignalledServiceExits`,
`DeadServerEndsProcess` and `OnlyUncleanExitsStrandFiles` (`replica`). Every
safety property and every refinement that a passing run checks is proved.

## Not modelled

`GetS3URL`, which formats a URL; the SDK's `Checker`, `Health` and `URL`, which
delegate; `docs/docs.go`, which is generated, and `features/steps`, the test
harness. Encoding of forms, headers, JSON and URLs, beyond what becomes of their
values; logging; the health check's own work; authorisation beyond the statuses
401 and 403; how S3 and the Files API fail inside; connections of the HTTP
clients.

## Plan

Done, in this order: Bucket and FilesStore, its proofs, ServiceLifecycle and its
proofs, SdkUpload, Uploader, UploadForm, Replica, and the proofs of the last
four; then what objects are made of (`PartsInv`, in FilesStore, SdkUpload,
Replica and Uploader), GracefulProcess, and the refinements of SdkUpload and
Replica. The code has no further state to model. What is left to prove:

1. The safety halves of the other liveness properties, as `CallsGoOn` is one: a
   measure that every step of a request, or of a stop, makes smaller.
2. SdkUpload as an implementation of a specification of its own, of what a
   caller sees: a call that is refused or returns nil, over the catalogue.

What could be added when the code changes:

1. A repeated call of the SDK that asks for the file's status, or tells 200 from
   201 for its last chunk: `NilMeansUploaded` would then be a property to prove.
2. A key of the parts that holds `resumableIdentifier`: `StoredFileIsSentFile`
   would then follow from `BucketInv`.
