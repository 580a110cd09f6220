------------------------------- MODULE Bucket -------------------------------
(***************************************************************************)
(* The S3 client behind aws.Bucket (aws/s3.go), as the repository uses it. *)
(*                                                                         *)
(* The client itself is the library dp-s3: only the contract that the      *)
(* callers rely on is stated here, as operators on the parts stored under  *)
(* one upload key.  A part holds bytes of one upload, so it is abstracted  *)
(* to the upload it came from; the position of the part says which chunk   *)
(* of that upload it is.  An assembled object is the parts it was          *)
(* completed from, and its ETag, a digest, identifies them.                *)
(***************************************************************************)
EXTENDS Naturals, FiniteSets

CONSTANTS
  Uploads,        (* attempts at sending a file: its bytes and metadata   *)
  MaxChunks,      (* the largest chunk number a client sends              *)
  NoPart,         (* marks a chunk number under which nothing is stored   *)
  Undersized,     (* uploads whose chunks, but the last, are under 5MB    *)
  EmptyUploads    (* uploads of zero bytes                                *)

ASSUME BucketAssumption ==
  /\ MaxChunks \in Nat \ {0}
  /\ NoPart \notin Uploads
  /\ Undersized \subseteq Uploads
  /\ EmptyUploads \subseteq Uploads

Chunks  == 1 .. MaxChunks
Objects == [Chunks -> Uploads \cup {NoPart}]
Blank   == [n \in Chunks |-> NoPart]

(* UploadPart stores the payload under the request's key and chunk number. *)
(* The request names nothing else, so a part stored earlier under the same *)
(* key and number, by whichever upload, is replaced.                       *)
PutPart(parts, n, u) == [parts EXCEPT ![n] = u]

StoredParts(parts) == {n \in Chunks : parts[n] # NoPart}

(* MultipartUploadResponse.AllPartsUploaded: as many parts are stored as   *)
(* the request's TotalChunks says there are.                               *)
AllPartsUploaded(parts, total) == Cardinality(StoredParts(parts)) = total

(* S3 refuses to assemble parts of which one, but the last, is too small.  *)
ChunkTooSmall(parts) ==
  \E n, m \in StoredParts(parts) : n < m /\ parts[n] \in Undersized

(* HeadObjectOutput: the ETag header, in quotes, and the content length.   *)
ETagHeader(obj) == <<"quoted", obj>>
HasContent(obj) == \E n \in StoredParts(obj) : obj[n] \notin EmptyUploads

=============================================================================
