------------------------------ MODULE Uploader ------------------------------
(***************************************************************************)
(* The legacy upload, /upload (upload/upload.go): CheckUploaded, which     *)
(* says whether a chunk is there already, and Upload, which stores one.    *)
(* Each makes a single call of the S3 client; the upload key is the        *)
(* resumableIdentifier, and nothing is registered anywhere.                *)
(*                                                                         *)
(* The client is resumable.js, which the handlers are made for: it checks  *)
(* each chunk, sends those that are missing, several at a time and in any  *)
(* order, and starts over when its page is loaded again.  Chunk numbers    *)
(* are those such a client sends, far below what int32 changes.            *)
(***************************************************************************)
EXTENDS Bucket

CONSTANTS
  Identifiers,    (* resumableIdentifiers                                 *)
  IdentifierOf,   (* the identifier that the client of an upload uses     *)
  TotalChunks,    (* its resumableTotalChunks                             *)
  Clienteles,     (* the sets of uploads that may be made together        *)
  MaxFaults       (* bound on failed calls, repeated deliveries, reloads  *)

ASSUME UploaderAssumption ==
  /\ IdentifierOf \in [Uploads -> Identifiers]
  /\ TotalChunks \in [Uploads -> Chunks]
  /\ Clienteles \subseteq SUBSET Uploads
  /\ MaxFaults \in Nat

VARIABLES
  clients,        (* the uploads that are made                            *)
  pending,        (* S3: the parts stored under a key, not yet assembled  *)
  object,         (* S3: the object stored under a key, or Blank          *)
  requests,       (* requests on their way to a handler                   *)
  progress,       (* what a client knows of each chunk                    *)
  posted,         (* history: the chunks that Upload answered with 200    *)
  faults          (* how many faults there were so far                    *)

clientVars == <<progress, posted>>
vars == <<clients, pending, object, requests, progress, posted, faults>>

(* heard: the client still waits for the answer.                           *)
Requests == [method : {"GET", "POST"}, upload : Uploads, chunk : Chunks,
             heard : BOOLEAN]

TypeOK ==
  /\ clients \in Clienteles
  /\ pending \in [Identifiers -> Objects]
  /\ object \in [Identifiers -> Objects]
  /\ requests \subseteq Requests
  /\ progress \in [Uploads -> [Chunks -> {"unknown", "missing", "done"}]]
  /\ posted \in [Uploads -> SUBSET Chunks]
  /\ faults \in 0 .. MaxFaults

Fresh == [n \in Chunks |-> "unknown"]

Init ==
  /\ clients \in Clienteles
  /\ pending  = [i \in Identifiers |-> Blank]
  /\ object   = [i \in Identifiers |-> Blank]
  /\ requests = {}
  /\ progress = [u \in Uploads |-> Fresh]
  /\ posted   = [u \in Uploads |-> {}]
  /\ faults   = 0

Fault == faults < MaxFaults /\ faults' = faults + 1

-----------------------------------------------------------------------------
(* The client: a check for what it does not know, then the chunk itself.   *)

Awaited(u, n) == \E q \in requests : q.heard /\ q.upload = u /\ q.chunk = n

Send(u, n) ==
  /\ n <= TotalChunks[u]
  /\ progress[u][n] # "done" /\ ~Awaited(u, n)
  /\ requests' = requests \cup
       {[method |-> IF progress[u][n] = "unknown" THEN "GET" ELSE "POST",
         upload |-> u, chunk |-> n, heard |-> TRUE]}
  /\ UNCHANGED <<pending, object, clientVars, faults>>

Unheard(q) == [q EXCEPT !.heard = FALSE]

(* The client gives up waiting, and will ask again; a handler may yet      *)
(* serve the request.                                                      *)
GiveUp(q) ==
  /\ q.heard
  /\ Fault
  /\ requests' = (requests \ {q}) \cup {Unheard(q)}
  /\ UNCHANGED <<pending, object, clientVars>>

(* The page is loaded again and knows of nothing that was sent.            *)
Reload(u) ==
  /\ Fault
  /\ requests' = {IF q.upload = u THEN Unheard(q) ELSE q : q \in requests}
  /\ progress' = [progress EXCEPT ![u] = Fresh]
  /\ UNCHANGED <<pending, object, posted>>

-----------------------------------------------------------------------------
(* The handlers.                                                           *)

(* createS3Request: the key of the parts, and those that are stored there  *)
(* once the request's own is among them.                                   *)
Key(q) == IdentifierOf[q.upload]
Parts(q) == PutPart(pending[Key(q)], q.chunk, q.upload)

(* As if a key with no upload in progress had all of its chunks.           *)
NotUploadedIsOK == [ErrNotUploaded |-> 200, ErrListParts |-> 404,
                    ErrChunkNumberNotFound |-> 404, InternalError |-> 500]

statusCodeFromS3Error == [ErrNotUploaded |-> 404, ErrListParts |-> 404,
                          ErrChunkNumberNotFound |-> 404, InternalError |-> 500]

(* The answer to a request, and what its client makes of it.               *)
Answer(q, code) ==
  /\ requests' = requests \ {q}
  /\ IF q.heard
     THEN /\ progress' = [progress EXCEPT ![q.upload][q.chunk] =
                            IF code = 200 THEN "done" ELSE "missing"]
          /\ posted' = IF q.method = "POST" /\ code = 200
                       THEN [posted EXCEPT ![q.upload] = @ \cup {q.chunk}]
                       ELSE posted
     ELSE UNCHANGED clientVars

StorePart(q) ==
  /\ pending' = [pending EXCEPT ![Key(q)] = Parts(q)]
  /\ UNCHANGED object

CompleteObject(q) ==
  /\ pending' = [pending EXCEPT ![Key(q)] = Blank]
  /\ object' = [object EXCEPT ![Key(q)] = Parts(q)]

Completes(q) == AllPartsUploaded(Parts(q), TotalChunks[q.upload])

(* What UploadPart does when nothing goes wrong.                           *)
UploadPart(q) ==
  \/ ~Completes(q) /\ StorePart(q)
  \/ Completes(q) /\ ~ChunkTooSmall(Parts(q)) /\ CompleteObject(q)

(* Upload cannot read the form, or the file in it.                         *)
RejectForm(q) ==
  /\ q.method = "POST"
  /\ Fault
  /\ \E code \in {400, 500} : Answer(q, code)
  /\ UNCHANGED <<pending, object>>

Upload(q) ==
  /\ q.method = "POST"
  /\ UploadPart(q)
  /\ Answer(q, 200)
  /\ UNCHANGED faults

(* S3 will not assemble the parts; Upload has no case for it.              *)
UploadTooSmall(q) ==
  /\ q.method = "POST"
  /\ Completes(q) /\ ChunkTooSmall(Parts(q)) /\ StorePart(q)
  /\ Answer(q, statusCodeFromS3Error.InternalError)
  /\ UNCHANGED faults

(* As if the answer did not wait for the S3 client.                        *)
AnswerFirst(q) ==
  /\ q.method = "POST"
  /\ Fault
  /\ UNCHANGED <<pending, object>>
  /\ Answer(q, 200)

(* The S3 client fails, with or without an effect.                         *)
UploadFails(q) ==
  /\ q.method = "POST"
  /\ Fault
  /\ UNCHANGED <<pending, object>> \/ StorePart(q) \/ UploadPart(q)
  /\ \E err \in {"ErrListParts", "InternalError"} :
       Answer(q, statusCodeFromS3Error[err])

(* The S3 client finds the chunk among the parts of an upload in progress. *)
CheckPartUploaded(q) ==
  LET parts == StoredParts(pending[Key(q)]) IN
  CASE q.chunk \in parts -> 200
    [] parts = {} -> statusCodeFromS3Error.ErrNotUploaded
    [] OTHER -> statusCodeFromS3Error.ErrChunkNumberNotFound

CheckUploaded(q) ==
  /\ q.method = "GET"
  /\ Answer(q, CheckPartUploaded(q))
  /\ UNCHANGED <<pending, object, faults>>

(* The form cannot be decoded, or the S3 client fails.                     *)
CheckFails(q) ==
  /\ q.method = "GET"
  /\ Fault
  /\ \E err \in {"ErrListParts", "InternalError"} :
       Answer(q, statusCodeFromS3Error[err])
  /\ UNCHANGED <<pending, object>>

Serve(q) ==
  \/ Upload(q) \/ UploadTooSmall(q) \/ UploadFails(q) \/ RejectForm(q)
  \/ CheckUploaded(q) \/ CheckFails(q)

Next ==
  /\ \/ \E u \in clients : Reload(u) \/ \E n \in Chunks : Send(u, n)
     \/ \E q \in requests : Serve(q) \/ GiveUp(q)
  /\ UNCHANGED clients

Spec == Init /\ [][Next]_vars

(* The client of an upload goes on with it, and while it has requests on   *)
(* their way one or other of them is served.                               *)
Fairness ==
  \A u \in Uploads :
    /\ WF_vars(/\ u \in clients /\ UNCHANGED clients
               /\ \E n \in Chunks : Send(u, n))
    /\ WF_vars(/\ UNCHANGED clients
               /\ \E q \in requests : q.upload = u /\ Serve(q))

FairSpec == Spec /\ Fairness

-----------------------------------------------------------------------------
(* Properties.                                                             *)

Kept(u, n) ==
  \/ pending[IdentifierOf[u]][n] # NoPart
  \/ object[IdentifierOf[u]][n] # NoPart

(* An identifier is made of the name and the size of a file, so clients    *)
(* that use the same one cut it into the same number of chunks.            *)
Agreed(i) ==
  \A u, v \in clients :
    IdentifierOf[u] = i /\ IdentifierOf[v] = i => TotalChunks[u] = TotalChunks[v]

Alone(u) ==
  u \in clients /\ \A v \in clients \ {u} : IdentifierOf[v] # IdentifierOf[u]

Whole(u) == [n \in Chunks |-> IF n <= TotalChunks[u] THEN u ELSE NoPart]

IsStored(u) == object[IdentifierOf[u]] = Whole(u)

(* A chunk that either handler reported as uploaded is kept, among the     *)
(* parts or in the object that is there now: whoever else uploads the file *)
(* and replaces the object with one of its own, and however often requests *)
(* fail or are repeated.                                                   *)
DoneChunkIsKept ==
  \A u \in clients, n \in Chunks :
    Agreed(IdentifierOf[u]) /\ progress[u][n] = "done" => Kept(u, n)

(* A file all of whose chunks Upload answered with 200 is stored, although *)
(* no answer says so: neither order nor repetition nor failures in between *)
(* leave its last part waiting.                                            *)
PostedFileIsStored ==
  \A u \in Uploads :
    Alone(u) /\ posted[u] = 1 .. TotalChunks[u] => IsStored(u)

(* A client that has each chunk posted or found by CheckUploaded has its   *)
(* file stored, unless all of its parts wait for an assembly that failed:  *)
(* a check never counts a chunk that a late request has used up since.     *)
CheckedFileIsStored ==
  \A u \in Uploads :
    Alone(u) /\ (\A n \in 1 .. TotalChunks[u] : progress[u][n] = "done") =>
      IsStored(u) \/ StoredParts(pending[IdentifierOf[u]]) = 1 .. TotalChunks[u]

(* What makes the three inductive.  The parts and objects of a client that *)
(* is alone are its own, and the last part it posts completes an object.   *)
PostedInv ==
  \A u \in Uploads : Alone(u) =>
    /\ posted[u] \subseteq 1 .. TotalChunks[u]
    /\ \A n \in StoredParts(pending[IdentifierOf[u]]) :
         n <= TotalChunks[u] /\ pending[IdentifierOf[u]][n] = u
    /\ object[IdentifierOf[u]] \in {Blank, Whole(u)}
    /\ \/ IsStored(u)
       \/ /\ posted[u] # 1 .. TotalChunks[u]
          /\ posted[u] \subseteq StoredParts(pending[IdentifierOf[u]])

(* Parts that clients could have sent under an identifier, and an object   *)
(* that one of the clients they come from had reason to complete.          *)
SentTo(i, parts) ==
  \A n \in StoredParts(parts) :
    LET u == parts[n] IN
    u \in clients /\ IdentifierOf[u] = i /\ n <= TotalChunks[u]

PartsInv ==
  \A i \in Identifiers :
    /\ SentTo(i, pending[i])
    /\ SentTo(i, object[i])
    /\ \/ object[i] = Blank
       \/ \E n \in StoredParts(object[i]) :
            AllPartsUploaded(object[i], TotalChunks[object[i][n]])

Inv ==
  /\ TypeOK
  /\ \A q \in requests : q.upload \in clients /\ q.chunk <= TotalChunks[q.upload]
  /\ DoneChunkIsKept /\ PostedInv /\ PartsInv

(* Clients may share an identifier, the same file sent twice for one.  As  *)
(* long as they agree on how many chunks there are, an object has each of  *)
(* them, however the clients take turns, and none from anywhere else.      *)
SharedFileHasNoHoles ==
  \A u \in clients :
    LET i == IdentifierOf[u]  obj == object[i] IN
    Agreed(i) /\ obj # Blank =>
      /\ StoredParts(obj) = 1 .. TotalChunks[u]
      /\ \A n \in StoredParts(obj) : IdentifierOf[obj[n]] = i

(* A chunk that was there once is there for good, among the parts or in    *)
(* the object: where the clients agree on the number of chunks, an object  *)
(* is only ever replaced by one that has the chunk as well, so no late or  *)
(* repeated request takes it from those who skipped it.                    *)
KeepsAll ==
  \A u \in clients, n \in Chunks :
    Agreed(IdentifierOf[u]) /\ Kept(u, n) => Kept(u, n)'

KeptForGood == [][KeepsAll]_vars

(* A client that goes on gets its file stored, unless something fails or   *)
(* its chunks are too small: checks never keep it from the last chunk.     *)
FileIsStoredInTheEnd ==
  <>(\A u \in clients :
       Alone(u) /\ u \notin Undersized => IsStored(u) \/ faults > 0)

=============================================================================
