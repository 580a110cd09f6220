--------------------------- MODULE UploaderProofs ---------------------------
(***************************************************************************)
(* Proofs about Uploader, for every set of uploads and identifiers and any *)
(* number of chunks.                                                       *)
(***************************************************************************)
EXTENDS Uploader, FiniteSetTheorems, TLAPS

USE BucketAssumption, UploaderAssumption

(* What a request does to the bucket, its answer apart.                    *)
StoreUnchanged == UNCHANGED <<pending, object>>

Effect(q) ==
  StoreUnchanged \/ StorePart(q) \/ (Completes(q) /\ CompleteObject(q))

-----------------------------------------------------------------------------
(* The data of a request.                                                  *)

LEMMA ClientsType == TypeOK => clients \subseteq Uploads
BY DEF TypeOK

LEMMA RequestType ==
  ASSUME TypeOK, NEW q \in requests
  PROVE  /\ q.upload \in Uploads /\ q.upload # NoPart
         /\ q.chunk \in Chunks
         /\ q.method \in {"GET", "POST"} /\ q.heard \in BOOLEAN
         /\ Key(q) \in Identifiers /\ Key(q) = IdentifierOf[q.upload]
BY DEF TypeOK, Requests, Key

LEMMA PartsType ==
  ASSUME TypeOK, NEW q \in requests
  PROVE  /\ pending[Key(q)] \in Objects
         /\ Parts(q) \in Objects
         /\ Parts(q)[q.chunk] = q.upload
         /\ \A m \in Chunks : m # q.chunk => Parts(q)[m] = pending[Key(q)][m]
<1>1. pending[Key(q)] \in Objects
  BY RequestType DEF TypeOK
<1>2. QED
  BY <1>1, RequestType DEF Parts, PutPart, Objects

LEMMA BlankType == Blank \in Objects /\ StoredParts(Blank) = {}
BY DEF Blank, Objects, StoredParts

(* As many parts as there are chunks, none beyond the last, are all of     *)
(* them.                                                                   *)
LEMMA AllOfThem ==
  ASSUME NEW t \in Chunks, NEW S \in SUBSET (1 .. t)
  PROVE  Cardinality(S) = t <=> S = 1 .. t
<1>1. IsFiniteSet(1 .. t) /\ Cardinality(1 .. t) = t
  BY FS_Interval DEF Chunks
<1>2. QED
  BY <1>1, FS_Subset

-----------------------------------------------------------------------------
(* The steps, sorted.                                                      *)

LEMMA FaultSteps ==
  ASSUME TypeOK, Fault
  PROVE  faults' \in 0 .. MaxFaults
BY DEF TypeOK, Fault

LEMMA ServeSteps ==
  ASSUME TypeOK, NEW q \in requests, Serve(q)
  PROVE  \E code \in {200, 400, 404, 500} :
           /\ Answer(q, code)
           /\ Effect(q)
           /\ q.method = "GET" => StoreUnchanged
           /\ code = 200 /\ q.method = "GET" => pending[Key(q)][q.chunk] # NoPart
           /\ code = 200 /\ q.method = "POST" => UploadPart(q)
           /\ faults' \in 0 .. MaxFaults
<1> USE RequestType, FaultSteps DEF StoreUnchanged, Effect
<1>0. faults \in 0 .. MaxFaults
  BY DEF TypeOK
<1>1. CASE Upload(q)
  BY <1>0, <1>1 DEF Upload, UploadPart
<1>2. CASE UploadTooSmall(q)
  BY <1>0, <1>2 DEF UploadTooSmall, statusCodeFromS3Error
<1>3. CASE UploadFails(q)
  <2>1. \E err \in {"ErrListParts", "InternalError"} :
          Answer(q, statusCodeFromS3Error[err])
    BY <1>3 DEF UploadFails
  <2>2. \E code \in {404, 500} : Answer(q, code)
    BY <2>1 DEF statusCodeFromS3Error
  <2>3. q.method = "POST" /\ Fault /\ Effect(q)
    BY <1>3 DEF UploadFails, UploadPart
  <2>4. QED
    BY <2>2, <2>3
<1>4. CASE RejectForm(q)
  BY <1>4 DEF RejectForm
<1>5. CASE CheckUploaded(q)
  <2>1. /\ q.method = "GET" /\ StoreUnchanged /\ faults' = faults
        /\ Answer(q, CheckPartUploaded(q))
    BY <1>5 DEF CheckUploaded
  <2>2. /\ CheckPartUploaded(q) \in {200, 404}
        /\ CheckPartUploaded(q) = 200 => pending[Key(q)][q.chunk] # NoPart
    BY DEF CheckPartUploaded, statusCodeFromS3Error, StoredParts
  <2>3. QED
    BY <1>0, <2>1, <2>2
<1>6. CASE CheckFails(q)
  <2>1. \E err \in {"ErrListParts", "InternalError"} :
          Answer(q, statusCodeFromS3Error[err])
    BY <1>6 DEF CheckFails
  <2>2. \E code \in {404, 500} : Answer(q, code)
    BY <2>1 DEF statusCodeFromS3Error
  <2>3. QED
    BY <1>6, <2>2 DEF CheckFails
<1>7. QED
  BY <1>1, <1>2, <1>3, <1>4, <1>5, <1>6 DEF Serve

(* What an answer makes its client know, and the history of posted chunks. *)
LEMMA AnswerSteps ==
  ASSUME TypeOK, NEW q \in requests, NEW code, Answer(q, code)
  PROVE  /\ requests' = requests \ {q}
         /\ progress' \in [Uploads -> [Chunks -> {"unknown", "missing", "done"}]]
         /\ \A u \in Uploads, n \in Chunks :
              progress'[u][n] =
                IF q.heard /\ u = q.upload /\ n = q.chunk
                THEN IF code = 200 THEN "done" ELSE "missing"
                ELSE progress[u][n]
<1>1. requests' = requests \ {q}
  BY DEF Answer
<1>2. CASE q.heard
  <2>1. progress' = [progress EXCEPT ![q.upload][q.chunk] =
                       IF code = 200 THEN "done" ELSE "missing"]
    BY <1>2 DEF Answer
  <2>2. progress \in [Uploads -> [Chunks -> {"unknown", "missing", "done"}]]
    BY DEF TypeOK
  <2>3. QED
    BY <1>1, <1>2, <2>1, <2>2, RequestType
<1>3. CASE ~q.heard
  BY <1>1, <1>3 DEF Answer, TypeOK, clientVars
<1>4. QED
  BY <1>2, <1>3

LEMMA PostedSteps ==
  ASSUME TypeOK, NEW q \in requests, NEW code, Answer(q, code)
  PROVE  /\ posted' \in [Uploads -> SUBSET Chunks]
         /\ \A u \in Uploads : posted[u] \subseteq posted'[u]
         /\ \A u \in Uploads :
              (u # q.upload \/ q.method # "POST" \/ code # 200)
                => posted'[u] = posted[u]
         /\ posted'[q.upload] \subseteq posted[q.upload] \cup {q.chunk}
         /\ q.heard /\ q.method = "POST" /\ code = 200
              => q.chunk \in posted'[q.upload]
<1>0. posted \in [Uploads -> SUBSET Chunks]
  BY DEF TypeOK
<1>1. CASE q.heard /\ q.method = "POST" /\ code = 200
  <2>1. posted' = [posted EXCEPT ![q.upload] = @ \cup {q.chunk}]
    BY <1>1 DEF Answer
  <2>2. posted[q.upload] \cup {q.chunk} \in SUBSET Chunks
    BY <1>0, RequestType
  <2>3. QED
    BY <1>0, <1>1, <2>1, <2>2, RequestType
<1>2. CASE ~(q.heard /\ q.method = "POST" /\ code = 200)
  <2>1. posted' = posted
    BY <1>2 DEF Answer, clientVars
  <2>2. QED
    BY <1>0, <1>2, <2>1, RequestType
<1>3. QED
  BY <1>1, <1>2

(* What a request makes of the parts and the objects.                      *)
LEMMA EffectSteps ==
  ASSUME TypeOK, NEW q \in requests, Effect(q)
  PROVE  /\ pending' \in [Identifiers -> Objects]
         /\ object' \in [Identifiers -> Objects]
         /\ \A i \in Identifiers : i # Key(q) =>
              pending'[i] = pending[i] /\ object'[i] = object[i]
         /\ \/ /\ pending'[Key(q)] = pending[Key(q)]
               /\ object'[Key(q)] = object[Key(q)]
            \/ /\ pending'[Key(q)] = Parts(q)
               /\ object'[Key(q)] = object[Key(q)]
            \/ /\ Completes(q)
               /\ pending'[Key(q)] = Blank
               /\ object'[Key(q)] = Parts(q)
<1> USE RequestType, PartsType, BlankType
<1>0. pending \in [Identifiers -> Objects] /\ object \in [Identifiers -> Objects]
  BY DEF TypeOK
<1>1. CASE StoreUnchanged
  BY <1>0, <1>1 DEF StoreUnchanged
<1>2. CASE StorePart(q)
  BY <1>0, <1>2 DEF StorePart
<1>3. CASE Completes(q) /\ CompleteObject(q)
  BY <1>0, <1>3 DEF CompleteObject
<1>4. QED
  BY <1>1, <1>2, <1>3 DEF Effect

(* A client's own steps only change what is on its way and what it knows.  *)
ClientStep ==
  \/ \E u \in clients : Reload(u) \/ \E n \in Chunks : Send(u, n)
  \/ \E q \in requests : GiveUp(q)

LEMMA UnheardType ==
  ASSUME TypeOK, NEW q \in requests
  PROVE  /\ Unheard(q) \in Requests /\ ~Unheard(q).heard
         /\ Unheard(q).upload = q.upload /\ Unheard(q).chunk = q.chunk
         /\ Unheard(q).method = q.method
<1>1. q \in Requests
  BY DEF TypeOK
<1>2. QED
  BY <1>1 DEF Requests, Unheard

LEMMA ClientSteps ==
  ASSUME TypeOK, ClientStep
  PROVE  /\ UNCHANGED <<pending, object, posted>>
         /\ faults' \in 0 .. MaxFaults
         /\ progress' \in [Uploads -> [Chunks -> {"unknown", "missing", "done"}]]
         /\ \A u \in Uploads, n \in Chunks :
              progress'[u][n] = "done" => progress[u][n] = "done"
         /\ \A r \in requests' :
              \/ r \in requests
              \/ \E q \in requests : r = Unheard(q)
              \/ \E u \in clients, n \in Chunks :
                   /\ n <= TotalChunks[u] /\ progress[u][n] # "done"
                   /\ r = [method |-> IF progress[u][n] = "unknown"
                                      THEN "GET" ELSE "POST",
                           upload |-> u, chunk |-> n, heard |-> TRUE]
<1> USE FaultSteps, ClientsType
<1>0. /\ progress \in [Uploads -> [Chunks -> {"unknown", "missing", "done"}]]
      /\ faults \in 0 .. MaxFaults
  BY DEF TypeOK
<1>1. CASE \E u \in clients, n \in Chunks : Send(u, n)
  <2>1. PICK u \in clients, n \in Chunks : Send(u, n)
    BY <1>1
  <2>2. UNCHANGED <<pending, object, posted, progress, faults>>
    BY <2>1 DEF Send, clientVars
  <2>3. /\ n <= TotalChunks[u] /\ progress[u][n] # "done"
        /\ requests' = requests \cup
             {[method |-> IF progress[u][n] = "unknown" THEN "GET" ELSE "POST",
               upload |-> u, chunk |-> n, heard |-> TRUE]}
    BY <2>1 DEF Send
  <2>4. QED
    BY <1>0, <2>2, <2>3
<1>2. CASE \E u \in clients : Reload(u)
  <2>1. PICK u \in clients : Reload(u)
    BY <1>2
  <2>2. Fault /\ UNCHANGED <<pending, object, posted>>
    BY <2>1 DEF Reload
  <2>3. /\ progress' = [progress EXCEPT ![u] = Fresh]
        /\ Fresh \in [Chunks -> {"unknown", "missing", "done"}]
        /\ \A n \in Chunks : Fresh[n] = "unknown"
    BY <2>1 DEF Reload, Fresh
  <2>4. /\ progress' \in [Uploads -> [Chunks -> {"unknown", "missing", "done"}]]
        /\ \A v \in Uploads, n \in Chunks :
              progress'[v][n] = "done" => progress[v][n] = "done"
    BY <1>0, <2>3
  <2>5. \A r \in requests' :
          r \in requests \/ \E q \in requests : r = Unheard(q)
    BY <2>1 DEF Reload
  <2>6. QED
    BY <2>2, <2>4, <2>5
<1>3. CASE \E q \in requests : GiveUp(q)
  <2>1. PICK q \in requests : GiveUp(q)
    BY <1>3
  <2>2. /\ Fault /\ UNCHANGED <<pending, object, posted, progress>>
        /\ requests' = (requests \ {q}) \cup {Unheard(q)}
    BY <2>1 DEF GiveUp, clientVars
  <2>3. QED
    BY <1>0, <2>2
<1>4. QED
  BY <1>1, <1>2, <1>3 DEF ClientStep

LEMMA Steps ==
  ASSUME [Next]_vars
  PROVE  /\ clients' = clients
         /\ ClientStep \/ (\E q \in requests : Serve(q)) \/ UNCHANGED vars
BY DEF Next, ClientStep, vars

-----------------------------------------------------------------------------
(* Types, and requests for chunks that their upload has.                   *)

RequestsInv ==
  \A q \in requests : q.upload \in clients /\ q.chunk <= TotalChunks[q.upload]

LEMMA InitType == Init => TypeOK
BY BlankType DEF Init, TypeOK, Fresh

LEMMA TypeStep ==
  ASSUME TypeOK, [Next]_vars
  PROVE  TypeOK'
<1>0. clients' \in Clienteles
  BY Steps DEF TypeOK
<1>1. CASE ClientStep
  <2>1. requests' \subseteq Requests
    <3> SUFFICES ASSUME NEW r \in requests' PROVE r \in Requests
      OBVIOUS
    <3>1. CASE r \in requests
      BY <3>1 DEF TypeOK
    <3>2. CASE \E q \in requests : r = Unheard(q)
      BY <3>2, UnheardType
    <3>3. CASE \E u \in clients, n \in Chunks :
                 r = [method |-> IF progress[u][n] = "unknown"
                                 THEN "GET" ELSE "POST",
                      upload |-> u, chunk |-> n, heard |-> TRUE]
      BY <3>3, ClientsType DEF Requests
    <3>4. QED
      BY <1>1, <3>1, <3>2, <3>3, ClientSteps
  <2>2. QED
    BY <1>0, <1>1, <2>1, ClientSteps DEF TypeOK
<1>2. CASE \E q \in requests : Serve(q)
  <2>1. PICK q \in requests : Serve(q)
    BY <1>2
  <2>2. PICK code : Answer(q, code) /\ Effect(q) /\ faults' \in 0 .. MaxFaults
    BY <2>1, ServeSteps
  <2>3. requests' \subseteq Requests
    BY <2>2, AnswerSteps DEF TypeOK
  <2>4. QED
    BY <1>0, <2>2, <2>3, AnswerSteps, PostedSteps, EffectSteps DEF TypeOK
<1>3. CASE UNCHANGED vars
  BY <1>3 DEF vars, TypeOK
<1>4. QED
  BY <1>1, <1>2, <1>3, Steps

LEMMA RequestsStep ==
  ASSUME TypeOK, RequestsInv, [Next]_vars
  PROVE  RequestsInv'
<1>0. clients' = clients
  BY Steps
<1> SUFFICES ASSUME NEW r \in requests'
             PROVE  r.upload \in clients /\ r.chunk <= TotalChunks[r.upload]
  BY <1>0 DEF RequestsInv
<1>1. CASE ClientStep
  <2>1. CASE r \in requests
    BY <2>1 DEF RequestsInv
  <2>2. CASE \E q \in requests : r = Unheard(q)
    BY <2>2, UnheardType DEF RequestsInv
  <2>3. CASE \E u \in clients, n \in Chunks :
               /\ n <= TotalChunks[u]
               /\ r = [method |-> IF progress[u][n] = "unknown"
                                  THEN "GET" ELSE "POST",
                       upload |-> u, chunk |-> n, heard |-> TRUE]
    BY <2>3
  <2>4. QED
    BY <1>1, <2>1, <2>2, <2>3, ClientSteps
<1>2. CASE \E q \in requests : Serve(q)
  <2>1. r \in requests
    BY <1>2, ServeSteps, AnswerSteps
  <2>2. QED
    BY <2>1 DEF RequestsInv
<1>3. CASE UNCHANGED vars
  BY <1>3 DEF vars, RequestsInv
<1>4. QED
  BY <1>1, <1>2, <1>3, Steps

-----------------------------------------------------------------------------
(* What clients that share an identifier have stored.                      *)

(* A request brings a part that its client could send.                     *)
LEMMA SentParts ==
  ASSUME TypeOK, RequestsInv, PartsInv, NEW q \in requests
  PROVE  /\ SentTo(Key(q), Parts(q))
         /\ Completes(q) => \E n \in StoredParts(Parts(q)) :
                              AllPartsUploaded(Parts(q), TotalChunks[Parts(q)[n]])
<1> USE RequestType, PartsType
<1>1. \A n \in StoredParts(pending[Key(q)]) :
        /\ pending[Key(q)][n] \in clients
        /\ IdentifierOf[pending[Key(q)][n]] = Key(q)
        /\ n <= TotalChunks[pending[Key(q)][n]]
  BY DEF PartsInv, SentTo
<1>2. /\ q.upload \in clients /\ IdentifierOf[q.upload] = Key(q)
      /\ q.chunk <= TotalChunks[q.upload]
  BY DEF RequestsInv
<1>3. SentTo(Key(q), Parts(q))
  <2> SUFFICES ASSUME NEW n \in StoredParts(Parts(q))
               PROVE  /\ Parts(q)[n] \in clients
                      /\ IdentifierOf[Parts(q)[n]] = Key(q)
                      /\ n <= TotalChunks[Parts(q)[n]]
    BY DEF SentTo
  <2>1. n \in Chunks /\ Parts(q)[n] # NoPart
    BY DEF StoredParts
  <2>2. CASE n = q.chunk
    BY <1>2, <2>2
  <2>3. CASE n # q.chunk
    <3>1. Parts(q)[n] = pending[Key(q)][n]
      BY <2>1, <2>3
    <3>2. n \in StoredParts(pending[Key(q)])
      BY <2>1, <3>1 DEF StoredParts
    <3>3. QED
      BY <1>1, <3>1, <3>2
  <2>4. QED
    BY <2>2, <2>3
<1>4. q.chunk \in StoredParts(Parts(q))
  BY DEF StoredParts
<1>5. QED
  BY <1>3, <1>4 DEF Completes

LEMMA PartsStep ==
  ASSUME TypeOK, RequestsInv, PartsInv, [Next]_vars
  PROVE  PartsInv'
<1>0. clients' = clients
  BY Steps
<1>1. CASE UNCHANGED <<pending, object>>
  BY <1>0, <1>1 DEF PartsInv, SentTo
<1>2. ASSUME NEW q \in requests, Effect(q)
      PROVE  PartsInv'
  <2> SUFFICES ASSUME NEW i \in Identifiers
               PROVE  /\ SentTo(i, pending'[i])
                      /\ SentTo(i, object'[i])
                      /\ \/ object'[i] = Blank
                         \/ \E n \in StoredParts(object'[i]) :
                              AllPartsUploaded(object'[i], TotalChunks[object'[i][n]])
    BY <1>0 DEF PartsInv, SentTo, Blank
  <2>1. /\ SentTo(i, pending[i])
        /\ SentTo(i, object[i])
        /\ \/ object[i] = Blank
           \/ \E n \in StoredParts(object[i]) :
                AllPartsUploaded(object[i], TotalChunks[object[i][n]])
    BY DEF PartsInv
  <2>2. SentTo(i, Blank)
    BY BlankType DEF SentTo
  <2>3. /\ \/ pending'[i] \in {pending[i], Blank}
           \/ i = Key(q) /\ pending'[i] = Parts(q)
        /\ \/ object'[i] = object[i]
           \/ i = Key(q) /\ Completes(q) /\ object'[i] = Parts(q)
    BY <1>2, EffectSteps
  <2>4. QED
    BY <2>1, <2>2, <2>3, SentParts
<1>3. CASE ClientStep
  BY <1>1, <1>3, ClientSteps
<1>4. CASE \E q \in requests : Serve(q)
  BY <1>2, <1>4, ServeSteps
<1>5. QED
  BY <1>1, <1>3, <1>4, Steps DEF vars

(* Where all agree on the number of chunks, that many parts are all chunks.*)
LEMMA AgreedWhole ==
  ASSUME NEW u \in clients, clients \subseteq Uploads, NEW obj \in Objects,
         Agreed(IdentifierOf[u]), SentTo(IdentifierOf[u], obj),
         \E n \in StoredParts(obj) : AllPartsUploaded(obj, TotalChunks[obj[n]])
  PROVE  StoredParts(obj) = 1 .. TotalChunks[u]
<1> DEFINE t == TotalChunks[u]
<1>0. t \in Chunks
  OBVIOUS
<1>1. \A n \in StoredParts(obj) : n <= TotalChunks[obj[n]] /\ TotalChunks[obj[n]] = t
  BY DEF SentTo, Agreed
<1>2. Cardinality(StoredParts(obj)) = t
  BY <1>1 DEF AllPartsUploaded
<1>3. StoredParts(obj) \in SUBSET (1 .. t)
  BY <1>1 DEF StoredParts, Chunks
<1>4. QED
  BY <1>0, <1>2, <1>3, AllOfThem

LEMMA NoHoles == TypeOK /\ PartsInv => SharedFileHasNoHoles
<1> SUFFICES ASSUME TypeOK, PartsInv, NEW u \in clients,
                    Agreed(IdentifierOf[u]), object[IdentifierOf[u]] # Blank
             PROVE  LET obj == object[IdentifierOf[u]] IN
                    /\ StoredParts(obj) = 1 .. TotalChunks[u]
                    /\ \A n \in StoredParts(obj) :
                         IdentifierOf[obj[n]] = IdentifierOf[u]
  BY DEF SharedFileHasNoHoles
<1> DEFINE obj == object[IdentifierOf[u]]
<1>1. IdentifierOf[u] \in Identifiers /\ obj \in Objects
  BY ClientsType DEF TypeOK
<1>2. /\ SentTo(IdentifierOf[u], obj)
      /\ \E n \in StoredParts(obj) : AllPartsUploaded(obj, TotalChunks[obj[n]])
  BY <1>1 DEF PartsInv
<1>3. QED
  BY <1>1, <1>2, ClientsType, AgreedWhole DEF SentTo

-----------------------------------------------------------------------------
(* What is reported as uploaded is kept.                                   *)

(* A chunk that is kept has a number that its file has.                    *)
LEMMA KeptIsSent ==
  ASSUME TypeOK, PartsInv, NEW u \in clients, NEW n \in Chunks,
         Agreed(IdentifierOf[u]), Kept(u, n)
  PROVE  n \in 1 .. TotalChunks[u]
<1> DEFINE i == IdentifierOf[u]
<1>1. i \in Identifiers /\ u \in Uploads
  BY ClientsType
<1>2. SentTo(i, pending[i]) /\ SentTo(i, object[i])
  BY <1>1 DEF PartsInv
<1>3. PICK parts \in {pending[i], object[i]} : n \in StoredParts(parts)
  BY DEF Kept, StoredParts
<1>4. n <= TotalChunks[parts[n]] /\ TotalChunks[parts[n]] = TotalChunks[u]
  BY <1>2, <1>3 DEF SentTo, Agreed
<1>5. QED
  BY <1>4 DEF Chunks

(* The object that replaces one, or takes the parts, has that chunk too.   *)
LEMMA KeptStep ==
  ASSUME TypeOK, RequestsInv, PartsInv, NEW q \in requests, Effect(q),
         NEW u \in clients, NEW n \in Chunks,
         Agreed(IdentifierOf[u]), Kept(u, n)
  PROVE  Kept(u, n)'
<1> DEFINE i == IdentifierOf[u]
<1> USE RequestType, PartsType
<1>0. i \in Identifiers /\ clients \subseteq Uploads
  BY ClientsType
<1>1. CASE i # Key(q) \/ (pending'[i] = pending[i] /\ object'[i] = object[i])
  BY <1>0, <1>1, EffectSteps DEF Kept
<1>2. CASE i = Key(q) /\ pending'[i] = Parts(q) /\ object'[i] = object[i]
  <2>1. pending[i][n] # NoPart => Parts(q)[n] # NoPart
    BY <1>2
  <2>2. QED
    BY <1>2, <2>1 DEF Kept
<1>3. CASE i = Key(q) /\ Completes(q) /\ object'[i] = Parts(q)
  <2>1. StoredParts(Parts(q)) = 1 .. TotalChunks[u]
    BY <1>0, <1>3, SentParts, AgreedWhole
  <2>2. n \in StoredParts(Parts(q))
    BY <2>1, KeptIsSent
  <2>3. QED
    BY <1>3, <2>2 DEF Kept, StoredParts
<1>4. QED
  BY <1>1, <1>2, <1>3, EffectSteps

(* The chunk of a request that UploadPart served is kept.                  *)
LEMMA PostedIsKept ==
  ASSUME TypeOK, NEW q \in requests, UploadPart(q)
  PROVE  Kept(q.upload, q.chunk)'
<1> USE RequestType, PartsType
<1>0. pending \in [Identifiers -> Objects] /\ object \in [Identifiers -> Objects]
  BY DEF TypeOK
<1>1. CASE StorePart(q)
  BY <1>0, <1>1 DEF StorePart, Kept
<1>2. CASE CompleteObject(q)
  BY <1>0, <1>2 DEF CompleteObject, Kept
<1>3. QED
  BY <1>1, <1>2 DEF UploadPart

LEMMA DoneStep ==
  ASSUME TypeOK, RequestsInv, PartsInv, DoneChunkIsKept, [Next]_vars
  PROVE  DoneChunkIsKept'
<1>0. clients' = clients
  BY Steps
<1> SUFFICES ASSUME NEW u \in clients, NEW n \in Chunks,
                    Agreed(IdentifierOf[u]), progress'[u][n] = "done"
             PROVE  Kept(u, n)'
  BY <1>0 DEF DoneChunkIsKept, Agreed
<1> USE ClientsType
<1>1. CASE ClientStep
  <2>1. Kept(u, n)
    BY <1>1, ClientSteps DEF DoneChunkIsKept
  <2>2. QED
    BY <1>1, <2>1, ClientSteps DEF Kept
<1>2. CASE \E q \in requests : Serve(q)
  <2>1. PICK q \in requests : Serve(q)
    BY <1>2
  <2>2. PICK code :
           /\ Answer(q, code)
           /\ Effect(q)
           /\ code = 200 /\ q.method = "GET" => pending[Key(q)][q.chunk] # NoPart
           /\ code = 200 /\ q.method = "POST" => UploadPart(q)
    BY <2>1, ServeSteps
  <2>3. CASE progress[u][n] = "done"
    BY <2>2, <2>3, KeptStep DEF DoneChunkIsKept
  <2>4. CASE progress[u][n] # "done"
    <3>1. code = 200 /\ u = q.upload /\ n = q.chunk
      BY <2>2, <2>4, AnswerSteps
    <3>2. CASE q.method = "POST"
      BY <2>2, <3>1, <3>2, PostedIsKept
    <3>3. CASE q.method = "GET"
      <4>1. Kept(u, n)
        BY <2>2, <3>1, <3>3, RequestType DEF Kept
      <4>2. QED
        BY <2>2, <4>1, KeptStep
    <3>4. QED
      BY <3>2, <3>3, RequestType
  <2>5. QED
    BY <2>3, <2>4
<1>3. CASE UNCHANGED vars
  BY <1>3 DEF vars, DoneChunkIsKept, Kept
<1>4. QED
  BY <1>1, <1>2, <1>3, Steps

-----------------------------------------------------------------------------
(* A file whose chunks were all posted is stored.                          *)

LEMMA UploadPartIsEffect == ASSUME NEW q, UploadPart(q) PROVE Effect(q)
BY DEF UploadPart, Effect

(* A client that is alone shares its parts with no other request.          *)
LEMMA AloneKey ==
  ASSUME TypeOK, RequestsInv, NEW q \in requests, NEW u \in Uploads, Alone(u)
  PROVE  Key(q) = IdentifierOf[u] => q.upload = u
BY RequestType DEF Alone, RequestsInv

(* The parts of such a client, with the one that a request brings.         *)
LEMMA AloneParts ==
  ASSUME TypeOK, RequestsInv, PostedInv, NEW q \in requests, Alone(q.upload)
  PROVE  /\ StoredParts(Parts(q)) = StoredParts(pending[Key(q)]) \cup {q.chunk}
         /\ StoredParts(Parts(q)) \in SUBSET (1 .. TotalChunks[q.upload])
         /\ \A n \in StoredParts(Parts(q)) : Parts(q)[n] = q.upload
         /\ Completes(q) <=> StoredParts(Parts(q)) = 1 .. TotalChunks[q.upload]
         /\ Completes(q) => Parts(q) = Whole(q.upload)
<1> DEFINE u == q.upload
           t == TotalChunks[u]
           P == Parts(q)
<1> USE RequestType, PartsType
<1>0. t \in Chunks /\ q.chunk \in 1 .. t
  BY DEF RequestsInv, Chunks
<1>1. StoredParts(P) = StoredParts(pending[Key(q)]) \cup {q.chunk}
  BY DEF StoredParts
<1>2. \A n \in StoredParts(pending[Key(q)]) : n <= t /\ pending[Key(q)][n] = u
  BY DEF PostedInv
<1>3. \A n \in StoredParts(P) : n \in 1 .. t /\ P[n] = u
  BY <1>0, <1>1, <1>2 DEF StoredParts, Chunks
<1>4. Completes(q) <=> StoredParts(P) = 1 .. t
  BY <1>0, <1>3, AllOfThem DEF Completes, AllPartsUploaded
<1>5. ASSUME StoredParts(P) = 1 .. t PROVE P = Whole(u)
  <2>1. \A n \in Chunks : P[n] = IF n <= t THEN u ELSE NoPart
    BY <1>0, <1>3, <1>5 DEF StoredParts, Chunks
  <2>2. QED
    BY <2>1 DEF Whole, Objects
<1>6. QED
  BY <1>1, <1>3, <1>4, <1>5

LEMMA StoredStays ==
  ASSUME TypeOK, RequestsInv, PostedInv, NEW q \in requests, Effect(q),
         Alone(q.upload), IsStored(q.upload)
  PROVE  IsStored(q.upload)'
<1>1. Completes(q) => Parts(q) = Whole(q.upload)
  BY AloneParts
<1>2. object'[Key(q)] \in {object[Key(q)], Whole(q.upload)}
  BY <1>1, EffectSteps
<1>3. QED
  BY <1>2, RequestType DEF IsStored, Whole

LEMMA PostedServe ==
  ASSUME TypeOK, RequestsInv, PostedInv,
         NEW q \in requests, NEW code, Answer(q, code), Effect(q),
         code = 200 /\ q.method = "POST" => UploadPart(q), Alone(q.upload)
  PROVE  LET u == q.upload  k == IdentifierOf[u] IN
         /\ posted'[u] \subseteq 1 .. TotalChunks[u]
         /\ \A n \in StoredParts(pending'[k]) :
              n <= TotalChunks[u] /\ pending'[k][n] = u
         /\ object'[k] \in {Blank, Whole(u)}
         /\ \/ IsStored(u)'
            \/ /\ posted'[u] # 1 .. TotalChunks[u]
               /\ posted'[u] \subseteq StoredParts(pending'[k])
<1> DEFINE u == q.upload
           k == IdentifierOf[u]
           t == TotalChunks[u]
           All == 1 .. t
           P == Parts(q)
           S == StoredParts(pending[k])
<1> USE RequestType, AloneParts
<1>0. t \in Chunks /\ q.chunk \in All
  BY DEF RequestsInv, Chunks
<1>1. /\ posted[u] \subseteq All
      /\ \A n \in S : n <= t /\ pending[k][n] = u
      /\ object[k] \in {Blank, Whole(u)}
      /\ IsStored(u) \/ (posted[u] # All /\ posted[u] \subseteq S)
  BY DEF PostedInv
<1>2. /\ posted'[u] \subseteq posted[u] \cup {q.chunk}
      /\ ~(q.method = "POST" /\ code = 200) => posted'[u] = posted[u]
  BY PostedSteps
<1>3. posted'[u] \subseteq All
  BY <1>0, <1>1, <1>2
<1>4. \/ pending'[k] = pending[k]
      \/ pending'[k] = P
      \/ pending'[k] = Blank
  BY EffectSteps
<1>5. \A n \in StoredParts(pending'[k]) : n <= t /\ pending'[k][n] = u
  <2>1. \A n \in StoredParts(P) : n <= t
    BY <1>0 DEF Chunks
  <2>2. QED
    BY <1>1, <1>4, <2>1, BlankType
<1>50. object'[k] \in {Blank, Whole(u)}
  <2>1. Completes(q) => P = Whole(u)
    OBVIOUS
  <2>2. QED
    BY <1>1, <2>1, EffectSteps
<1>6. ASSUME Completes(q), CompleteObject(q) PROVE IsStored(u)'
  <2>1. P = object'[k]
    BY <1>6 DEF CompleteObject, TypeOK
  <2>2. P = Whole(u)
    BY <1>6
  <2>3. QED
    BY <2>1, <2>2 DEF IsStored, Whole
<1>7. CASE q.method = "POST" /\ code = 200
  <2>1. CASE Completes(q)
    BY <1>3, <1>5, <1>50, <1>6, <1>7, <2>1 DEF UploadPart
  <2>2. CASE ~Completes(q) /\ ~IsStored(u)
    <3>1. pending'[k] = P
      BY <1>7, <2>2 DEF UploadPart, StorePart, TypeOK
    <3>2. posted'[u] \subseteq StoredParts(P) /\ StoredParts(P) # All
      BY <1>1, <1>2, <2>2
    <3>3. StoredParts(P) \subseteq All
      OBVIOUS
    <3>4. QED
      BY <1>3, <1>5, <1>50, <3>1, <3>2, <3>3
  <2>3. CASE IsStored(u)
    BY <1>3, <1>5, <1>50, <2>3, StoredStays
  <2>4. QED
    BY <2>1, <2>2, <2>3
<1>8. CASE ~(q.method = "POST" /\ code = 200)
  <2>1. posted'[u] = posted[u]
    BY <1>2, <1>8
  <2>2. CASE IsStored(u)
    BY <1>3, <1>5, <1>50, <2>2, StoredStays
  <2>3. CASE Completes(q) /\ CompleteObject(q)
    BY <1>3, <1>5, <1>50, <1>6, <2>3
  <2>4. CASE ~IsStored(u) /\ (StoreUnchanged \/ StorePart(q))
    <3>1. pending'[k] = pending[k] \/ pending'[k] = P
      BY <2>4 DEF StoreUnchanged, StorePart, TypeOK
    <3>2. S \subseteq StoredParts(pending'[k])
      BY <3>1
    <3>3. QED
      BY <1>1, <1>3, <1>5, <1>50, <2>1, <2>4, <3>2
  <2>5. QED
    BY <2>2, <2>3, <2>4 DEF Effect
<1>9. QED
  BY <1>7, <1>8

LEMMA PostedStep ==
  ASSUME TypeOK, RequestsInv, PostedInv, [Next]_vars
  PROVE  PostedInv'
<1>0. clients' = clients
  BY Steps
<1>1. CASE ClientStep
  BY <1>0, <1>1, ClientSteps DEF PostedInv, IsStored, Whole, Alone, Blank
<1>2. CASE \E q \in requests : Serve(q)
  <2>1. PICK q \in requests : Serve(q)
    BY <1>2
  <2>2. PICK code :
           /\ Answer(q, code)
           /\ Effect(q)
           /\ code = 200 /\ q.method = "POST" => UploadPart(q)
    BY <2>1, ServeSteps
  <2>3. ASSUME NEW u \in Uploads, Alone(u), u # q.upload
        PROVE  /\ posted'[u] = posted[u]
               /\ pending'[IdentifierOf[u]] = pending[IdentifierOf[u]]
               /\ object'[IdentifierOf[u]] = object[IdentifierOf[u]]
               /\ IsStored(u)' <=> IsStored(u)
    <3>1. Key(q) # IdentifierOf[u]
      BY <2>3, AloneKey
    <3>2. posted'[u] = posted[u]
      BY <2>2, <2>3, PostedSteps
    <3>3. /\ pending'[IdentifierOf[u]] = pending[IdentifierOf[u]]
          /\ object'[IdentifierOf[u]] = object[IdentifierOf[u]]
      BY <2>2, <3>1, EffectSteps
    <3>4. QED
      BY <3>2, <3>3 DEF IsStored, Whole
  <2>4. ASSUME NEW u \in Uploads, Alone(u)
        PROVE  /\ posted'[u] \subseteq 1 .. TotalChunks[u]
               /\ \A n \in StoredParts(pending'[IdentifierOf[u]]) :
                    n <= TotalChunks[u] /\ pending'[IdentifierOf[u]][n] = u
               /\ object'[IdentifierOf[u]] \in {Blank, Whole(u)}
               /\ \/ IsStored(u)'
                  \/ /\ posted'[u] # 1 .. TotalChunks[u]
                     /\ posted'[u] \subseteq StoredParts(pending'[IdentifierOf[u]])
    <3>1. CASE u = q.upload
      BY <2>2, <2>4, <3>1, PostedServe
    <3>2. CASE u # q.upload
      BY <2>3, <2>4, <3>2 DEF PostedInv
    <3>3. QED
      BY <3>1, <3>2
  <2>5. QED
    BY <1>0, <2>4 DEF PostedInv, Whole, Alone, Blank
<1>3. CASE UNCHANGED vars
  BY <1>3 DEF vars, PostedInv, IsStored, Whole, Alone, Blank
<1>4. QED
  BY <1>1, <1>2, <1>3, Steps

(* What is there stays there.                                              *)
LEMMA KeepsAllStep ==
  ASSUME TypeOK, RequestsInv, PartsInv, [Next]_vars
  PROVE  KeepsAll
<1> SUFFICES ASSUME NEW u \in clients, NEW n \in Chunks,
                    Agreed(IdentifierOf[u]), Kept(u, n)
             PROVE  Kept(u, n)'
  BY DEF KeepsAll
<1>1. CASE ClientStep
  BY <1>1, ClientSteps DEF Kept
<1>2. CASE \E q \in requests : Serve(q)
  BY <1>2, ServeSteps, KeptStep
<1>3. CASE UNCHANGED vars
  BY <1>3 DEF vars, Kept
<1>4. QED
  BY <1>1, <1>2, <1>3, Steps

-----------------------------------------------------------------------------
(* The theorems.                                                           *)

LEMMA InitInv == Init => Inv
<1> SUFFICES ASSUME Init PROVE Inv
  OBVIOUS
<1>1. TypeOK
  BY InitType
<1>2. PostedInv
  <2>1. \A u \in Uploads : 1 \in 1 .. TotalChunks[u]
    BY DEF Chunks
  <2>2. QED
    BY <2>1, BlankType DEF Init, PostedInv
<1>3. PartsInv
  BY BlankType DEF Init, PartsInv, SentTo
<1>4. QED
  BY <1>1, <1>2, <1>3 DEF Init, Inv, DoneChunkIsKept, Fresh

(* Inv is inductive: every request for a chunk of its upload's, every done *)
(* chunk kept, every posted file stored, whatever the handlers meet.       *)
THEOREM InvCorrect == Spec => []Inv
<1>1. Inv /\ [Next]_vars => Inv'
  BY TypeStep, RequestsStep, DoneStep, PostedStep, PartsStep
     DEF Inv, RequestsInv
<1>2. QED
  BY <1>1, InitInv, PTL DEF Spec

(* A chunk that either handler reported as uploaded is kept.               *)
THEOREM DoneChunkCorrect == Spec => []DoneChunkIsKept
<1>1. Inv => DoneChunkIsKept
  BY DEF Inv
<1>2. QED
  BY <1>1, InvCorrect, PTL

(* All chunks answered by Upload with 200 means that the file is stored,   *)
(* where nobody else uses its identifier.                                  *)
THEOREM PostedFileCorrect == Spec => []PostedFileIsStored
<1>1. Inv => PostedFileIsStored
  BY DEF Inv, PostedInv, PostedFileIsStored
<1>2. QED
  BY <1>1, InvCorrect, PTL

(* What CheckUploaded lets a client skip is stored, unless the assembly    *)
(* failed and all parts wait.                                              *)
THEOREM CheckedFileCorrect == Spec => []CheckedFileIsStored
<1>1. Inv => CheckedFileIsStored
  <2> SUFFICES ASSUME Inv, NEW u \in Uploads, Alone(u), ~IsStored(u),
                      \A n \in 1 .. TotalChunks[u] : progress[u][n] = "done"
               PROVE  StoredParts(pending[IdentifierOf[u]]) = 1 .. TotalChunks[u]
    BY DEF CheckedFileIsStored
  <2>1. 1 .. TotalChunks[u] \subseteq Chunks
    BY DEF Chunks
  <2>2. \A n \in StoredParts(pending[IdentifierOf[u]]) : n <= TotalChunks[u]
    BY DEF Inv, PostedInv
  <2>3. object[IdentifierOf[u]] = Blank /\ u \in clients /\ Agreed(IdentifierOf[u])
    BY DEF Inv, PostedInv, IsStored, Alone, Agreed
  <2>4. \A n \in 1 .. TotalChunks[u] : n \in StoredParts(pending[IdentifierOf[u]])
    BY <2>1, <2>3 DEF Inv, DoneChunkIsKept, Kept, StoredParts, Blank
  <2>5. QED
    BY <2>1, <2>2, <2>4 DEF StoredParts, Chunks
<1>2. QED
  BY <1>1, InvCorrect, PTL

(* Clients that send the same file under one identifier never make an      *)
(* object with a hole of it.                                               *)
THEOREM SharedFileCorrect == Spec => []SharedFileHasNoHoles
<1>1. Inv => SharedFileHasNoHoles
  BY NoHoles DEF Inv
<1>2. QED
  BY <1>1, InvCorrect, PTL

(* Nothing that was stored is lost, by whatever order of requests.         *)
THEOREM KeptForGoodCorrect == Spec => KeptForGood
<1>1. Inv /\ [Next]_vars => [KeepsAll]_vars
  BY KeepsAllStep DEF Inv, RequestsInv, KeepsAll, Kept, vars
<1>2. QED
  BY <1>1, InvCorrect, PTL DEF Spec, KeptForGood

=============================================================================
