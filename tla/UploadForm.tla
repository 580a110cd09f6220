----------------------------- MODULE UploadForm -----------------------------
(***************************************************************************)
(* How a file's description travels: from the metadata that a caller gives *)
(* to the SDK's Upload (sdk/upload.go), or a browser's form, through the   *)
(* checks of CreateV1UploadHandler and getStoreMetadata (api/upload.go),   *)
(* to the key of the S3 part and the record registered with the Files API  *)
(* (files/store.go).  One request at a time: what interleaves is modelled  *)
(* in FilesStore, to which a description is one upload.                    *)
(*                                                                         *)
(* A value that may be missing (a nil pointer, a field not in the form) is *)
(* a set of at most one element.  A path is the sequence of the segments   *)
(* between its slashes.  The strings that validation requires go the same  *)
(* way; licence stands for type, licence and licenceUrl.                   *)
(***************************************************************************)
EXTENDS Integers, Sequences

CONSTANTS
  Calls,          (* what callers of the SDK pass: metadata and token     *)
  Submissions,    (* requests of other clients: a form and a header       *)
  Segments,       (* what is between the slashes of a path                *)
  Allowed,        (* the segments that the validator's pattern matches    *)
  ServiceToken,   (* cfg.ServiceAuthToken                                 *)
  MaxSize,        (* maxFileSize                                          *)
  MaxInt32,       (* the largest int32                                    *)
  MaxInt,         (* the largest int                                      *)
  MaxRequests     (* bound on the requests that are made                  *)

Optional(S) == {o \in SUBSET S : \A v, w \in o : v = w}

Or(o, default) == IF o = {} THEN default ELSE CHOOSE v \in o : TRUE

Texts == {"", "text"}
Paths == Seq(Segments) \ {<<>>}
NoText == <<"">>                        (* the path that is empty          *)
Items == [datasetId : Texts, edition : Texts, version : Texts]
Headers == [bearer : BOOLEAN, token : Texts \ {""}]

(* api.Metadata, as a caller fills it or the decoder.                      *)
Metadata == [path : Paths, isPublishable : Optional(BOOLEAN),
             collectionId : Optional(Texts), bundleId : Optional(Texts),
             title : Texts, size : Int, licence : Texts, item : Items]

Form == [path : Optional(Paths), isPublishable : Optional(BOOLEAN),
         collectionId : Optional(Texts), bundleId : Optional(Texts),
         title : Optional(Texts), size : Optional(Int), licence : Optional(Texts),
         datasetId : Optional(Texts), edition : Optional(Texts),
         version : Optional(Texts), filename : Optional(Paths),
         chunk : Optional(Int), total : Optional(Int), file : BOOLEAN]

ASSUME FormAssumption ==
  /\ Calls \subseteq [metadata : Metadata, token : Texts]
  /\ Submissions \subseteq [form : Form, header : Optional(Headers)]
  /\ Allowed \subseteq Segments /\ {"", "."} \subseteq Segments
  /\ MaxSize \in Nat /\ MaxInt32 \in Nat /\ MaxInt \in Nat /\ MaxRequests \in Nat
  /\ 0 < MaxInt32 /\ MaxInt32 <= MaxInt /\ MaxSize <= MaxInt

VARIABLES
  request,        (* the request being served, if there is one            *)
  from,           (* the call of the SDK that made the latest request     *)
  answer,         (* how the latest request or call ended                 *)
  part,           (* the number of the S3 part it stored, if it did       *)
  files,          (* the Files API: the records, each with its caller     *)
  made            (* how many requests were made                          *)

vars == <<request, from, answer, part, files, made>>

Init == /\ request = {} /\ from = {} /\ part = {} /\ files = {}
        /\ answer = "none" /\ made = 0

-----------------------------------------------------------------------------
(* The SDK.                                                                *)

(* filepath.Base: the last element, trailing slashes apart.                *)
Named(p) == {i \in DOMAIN p : p[i] # ""}

LastNamed(p) == CHOOSE i \in Named(p) : \A j \in Named(p) : j <= i

Base(p) == IF Named(p) # {} THEN <<p[LastNamed(p)]>>
           ELSE IF p = NoText THEN <<".">> ELSE <<"", "">>

Filled(text) == IF text = "" THEN {} ELSE {text}

(* writeMetadataFormFields, for a file of one chunk.                       *)
FormOf(m) ==
  [path |-> {m.path}, isPublishable |-> m.isPublishable,
   collectionId |-> m.collectionId, bundleId |-> m.bundleId,
   title |-> {m.title}, size |-> {m.size}, licence |-> {m.licence},
   datasetId |-> Filled(m.item.datasetId), edition |-> Filled(m.item.edition),
   version |-> Filled(m.item.version), filename |-> {Base(m.path)},
   chunk |-> {1}, total |-> {1}, file |-> TRUE]

(* Headers.Add: the token, with the prefix, unless it is empty.            *)
HeaderOf(token) ==
  IF token = "" THEN {} ELSE {[bearer |-> TRUE, token |-> token]}

CanMake == request = {} /\ made < MaxRequests

Make(form, header, by, end) ==
  /\ request' = IF end = "none" THEN {[form |-> form, header |-> header]} ELSE {}
  /\ from' = by /\ answer' = end /\ part' = {} /\ made' = made + 1
  /\ UNCHANGED files

(* Upload refuses a size over its maximum, sends nothing for one that is   *)
(* not positive, and dereferences IsPublishable without looking.           *)
Call(c) ==
  LET m == c.metadata IN
  /\ CanMake
  /\ Make(FormOf(m), HeaderOf(c.token), {c},
          IF m.size > MaxSize THEN "ErrFileTooLarge"
          ELSE IF m.size <= 0 THEN "nil"
          ELSE IF m.isPublishable = {} THEN "panic" ELSE "none")

Submit(s) == CanMake /\ Make(s.form, s.header, {}, "none")

-----------------------------------------------------------------------------
(* CreateV1UploadHandler: decoding and validation.                         *)

Fits(o, max) == \A n \in o : -max - 1 <= n /\ n <= max

(* Decode into Metadata and into Resumable, whose chunk number is an int32 *)
(* and whose total is an int.                                              *)
MetadataDecodes(f) == Fits(f.size, MaxInt)

(* As if the chunk number were decoded like the total.                     *)
IntDecodes(f) == Fits(f.chunk, MaxInt) /\ Fits(f.total, MaxInt)

ResumableDecodes(f) == Fits(f.chunk, MaxInt32) /\ Fits(f.total, MaxInt)

Decoded(f) ==
  [path |-> Or(f.path, NoText), isPublishable |-> f.isPublishable,
   collectionId |-> f.collectionId, bundleId |-> f.bundleId,
   title |-> Or(f.title, ""), size |-> Or(f.size, 0), licence |-> Or(f.licence, ""),
   item |-> [datasetId |-> Or(f.datasetId, ""), edition |-> Or(f.edition, ""),
             version |-> Or(f.version, "")]]

(* The validator's pattern: it is tried on the path and not on the name.   *)
awsUploadKeyValidator(p) == \A i \in DOMAIN p : p[i] \in Allowed

(* As if IsPublishable had no "required".                                  *)
ValidPublishable(m) ==
  /\ m.path # NoText /\ awsUploadKeyValidator(m.path)
  /\ m.size # 0 /\ m.licence # ""

Valid(m) ==
  /\ m.path # NoText /\ awsUploadKeyValidator(m.path)
  /\ m.isPublishable # {} /\ m.size # 0 /\ m.licence # ""

Accepted(f) ==
  MetadataDecodes(f) /\ ResumableDecodes(f) /\ Valid(Decoded(f)) /\ f.file

(* The first check that fails; getStoreMetadata dereferences what the      *)
(* checks let through.                                                     *)
Stops(f) == ~Accepted(f) \/ f.isPublishable = {}

Refusal(f) ==
  CASE ~MetadataDecodes(f) -> "DecodingMetadata"
    [] MetadataDecodes(f) /\ ~ResumableDecodes(f) -> "DecodingResumable"
    [] MetadataDecodes(f) /\ ResumableDecodes(f) /\ ~Valid(Decoded(f)) -> "ValidationError"
    [] Accepted(f) -> "nil dereference"
    [] OTHER -> "FileForm"

-----------------------------------------------------------------------------
(* getStoreMetadata, generateUploadPart, registerFileWithContentItem.      *)

(* As if a content item needed all of its parts.                           *)
WholeItem(item) ==
  IF "" \in {item.datasetId, item.edition, item.version} THEN {} ELSE {item}

ContentItem(item) ==
  IF item = [datasetId |-> "", edition |-> "", version |-> ""] THEN {} ELSE {item}

(* As if the name alone were the key.                                      *)
NameOnly(m, filename) == filename

Key(m, filename) == m.path \o filename

Token(header) == IF header = {} THEN ServiceToken ELSE Or(header, {}).token

(* As if the size were registered as the int that it is.                   *)
Signed(n) == n

(* uint64 of an int: one more than twice the largest int is the modulus.   *)
Unsigned(n) == n % (2 * (MaxInt + 1))

Record(q) ==
  LET m == Decoded(q.form) IN
  [path |-> Key(m, Or(q.form.filename, NoText)),
   isPublishable |-> Or(m.isPublishable, FALSE),
   collectionId |-> m.collectionId, bundleId |-> m.bundleId, title |-> m.title,
   size |-> Unsigned(m.size), licence |-> m.licence, item |-> ContentItem(m.item),
   token |-> Token(q.header)]

(* int32 of an int; a number that was decoded as an int32 stays the same.  *)
Int32(n) == ((n + MaxInt32 + 1) % (2 * (MaxInt32 + 1))) - (MaxInt32 + 1)

ChunkNumber(f) == Int32(Or(f.chunk, 0))

Finish(q, code) ==
  /\ request' = {} /\ answer' = code
  /\ part' = IF Stops(q.form) THEN {}
             ELSE {[asked |-> Or(q.form.chunk, 0), number |-> ChunkNumber(q.form)]}
  /\ UNCHANGED <<from, made>>

Refuse(q) ==
  /\ Stops(q.form)
  /\ Finish(q, Refusal(q.form))
  /\ UNCHANGED files

(* Whether the part completes the object depends on those stored before    *)
(* (Bucket); it never does if the form says that there are none.           *)
StorePart(q) ==
  /\ ~Stops(q.form)
  /\ Finish(q, "OK")
  /\ UNCHANGED files

Taken(p) == \E e \in files : e.record.path = p

Register(q) ==
  /\ ~Stops(q.form) /\ Or(q.form.total, 0) > 0
  /\ ~Taken(Record(q).path)
  /\ files' = files \cup {[record |-> Record(q), from |-> from]}
  /\ Finish(q, "Created")

Conflict(q) ==
  /\ ~Stops(q.form) /\ Or(q.form.total, 0) > 0
  /\ Taken(Record(q).path)
  /\ Finish(q, "DuplicateFile")
  /\ UNCHANGED files

Next ==
  \/ \E c \in Calls : Call(c)
  \/ \E s \in Submissions : Submit(s)
  \/ \E q \in request : Refuse(q) \/ StorePart(q) \/ Register(q) \/ Conflict(q)

Spec == Init /\ [][Next]_vars

-----------------------------------------------------------------------------
(* Properties.                                                             *)

Request == [form : Form, header : Optional(Headers)]

RecordType ==
  [path : Paths, isPublishable : BOOLEAN, collectionId : Optional(Texts),
   bundleId : Optional(Texts), title : Texts, size : Nat, licence : Texts,
   item : Optional(Items), token : Texts \cup {ServiceToken}]

TypeOK ==
  /\ request \in Optional(Request) /\ from \in Optional(Calls)
  /\ part \in Optional([asked : Int, number : -MaxInt32 - 1 .. MaxInt32])
  /\ files \subseteq [record : RecordType, from : Optional(Calls)]
  /\ made \in 0 .. MaxRequests

(* What the Files API should be told of a call, the path apart.            *)
Described(c) ==
  LET m == c.metadata IN
  [isPublishable |-> m.isPublishable = {TRUE},
   collectionId |-> m.collectionId, bundleId |-> m.bundleId, title |-> m.title,
   size |-> m.size, licence |-> m.licence,
   item |-> {i \in {m.item} : \E id \in DOMAIN i : i[id] # ""},
   token |-> IF c.token # "" THEN c.token ELSE ServiceToken]

Inside(p, dir) == Len(dir) < Len(p) /\ SubSeq(p, 1, Len(dir)) = dir

(* What is registered for a call of the SDK is what its caller described,  *)
(* though it went through two encodings written apart: nothing is dropped, *)
(* defaulted, wrapped or swapped, it is done in the caller's name, and the *)
(* file is put inside the path, "where the file will be stored" by         *)
(* swagger.yaml.  DescribedPathIsTheFile is the other reading of the path. *)
RegisteredAsDescribed ==
  \A e \in files : \A c \in e.from :
    /\ \A field \in DOMAIN Described(c) : e.record[field] = Described(c)[field]
    /\ Inside(e.record.path, c.metadata.path)

(* sdk/README.md opens "path/to/file.csv" and gives that as the Path of    *)
(* what it uploads, as sdk/upload_test.go does: the path of a call is the  *)
(* file itself.  The handler appends the name to it once more.             *)
DescribedPathIsTheFile ==
  \A e \in files : \A c \in e.from : e.record.path = c.metadata.path

CallKey(c) == Key(c.metadata, Base(c.metadata.path))

(* Files of different paths never meet: a call is refused as a duplicate   *)
(* only for the sake of a record under its own key, and each of those was  *)
(* made by a call for the very same path or by somebody's own form,        *)
(* whatever segments the paths share.                                      *)
PathsDoNotCollide ==
  answer = "DuplicateFile" => \A c \in from :
    LET clash == {e \in files : e.record.path = CallKey(c)} IN
    /\ clash # {}
    /\ \A e \in clash : \A d \in e.from : d.metadata.path = c.metadata.path

(* No form that gets past the checks lacks what getStoreMetadata           *)
(* dereferences.                                                           *)
NothingNilIsDereferenced == answer # "nil dereference"

(* A part is stored under the number that the form asked for: one that an  *)
(* int32 cannot hold is refused, not stored over another chunk.            *)
PartIsTheOneAsked == \A p \in part : p.number = p.asked

(* A request that the SDK makes carries its call, a call worth sending.    *)
SentAsCalled ==
  \A q \in request : \A c \in from :
    /\ q.form = FormOf(c.metadata) /\ q.header = HeaderOf(c.token)
    /\ 0 < c.metadata.size /\ c.metadata.size <= MaxSize
    /\ c.metadata.isPublishable # {}

(* A record that a call made has the key of that call.                     *)
KeysOfCalls ==
  \A e \in files : \A c \in e.from : e.record.path = CallKey(c)

(* The inductive invariant: the properties above hold because of it.       *)
Inv ==
  /\ TypeOK
  /\ SentAsCalled
  /\ KeysOfCalls
  /\ RegisteredAsDescribed
  /\ PathsDoNotCollide
  /\ NothingNilIsDereferenced
  /\ PartIsTheOneAsked

=============================================================================
