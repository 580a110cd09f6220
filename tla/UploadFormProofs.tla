-------------------------- MODULE UploadFormProofs --------------------------
(***************************************************************************)
(* Proofs about UploadForm, for every call, every form, every set of       *)
(* segments and every width of the integers.                               *)
(***************************************************************************)
EXTENDS UploadForm, WellFoundedInduction, SequenceTheorems, TLAPS

-----------------------------------------------------------------------------
(* Values that may be missing.                                             *)

LEMMA OrSome == ASSUME NEW x, NEW d PROVE Or({x}, d) = x
BY DEF Or

LEMMA OrNone == ASSUME NEW d PROVE Or({}, d) = d
BY DEF Or

LEMMA OrType ==
  ASSUME NEW S, NEW o \in Optional(S), NEW d \in S
  PROVE  Or(o, d) \in S
BY DEF Or, Optional

LEMMA OptionalSome == ASSUME NEW S, NEW x \in S PROVE {x} \in Optional(S)
BY DEF Optional

LEMMA OptionalNone == ASSUME NEW S PROVE {} \in Optional(S)
BY DEF Optional

LEMMA OptionalCases ==
  ASSUME NEW S, NEW o \in Optional(S)
  PROVE  o = {} \/ \E x \in S : o = {x}
BY DEF Optional

LEMMA OrFilled == ASSUME NEW t \in Texts PROVE Or(Filled(t), "") = t
BY OrSome, OrNone DEF Filled

LEMMA FilledType == ASSUME NEW t \in Texts PROVE Filled(t) \in Optional(Texts)
BY OptionalSome, OptionalNone DEF Filled

-----------------------------------------------------------------------------
(* Paths.                                                                  *)

(* There is no operator in this form of the least number principle.        *)
LEMMA LeastNatural ==
  ASSUME NEW T \in SUBSET Nat, T # {}
  PROVE  \E x \in T : \A y \in T : x <= y
<1> DEFINE Less == {ss \in Nat \X Nat : ss[1] < ss[2]}
<1>1. IsWellFoundedOn(Less, Nat)
  BY NatLessThanWellFounded DEF OpToRel
<1>2. PICK x \in T : \A y \in T : ~ (<<y, x>> \in Less)
  <2> HIDE DEF Less
  <2> QED
    BY <1>1, WFMin
<1>3. ASSUME NEW y \in T
      PROVE  x <= y
  <2>1. ~ (<<y, x>> \in Less)
    BY <1>2
  <2>2. <<y, x>> \in Nat \X Nat
    OBVIOUS
  <2>3. ~ (y < x)
    BY <2>1, <2>2
  <2>4. QED
    BY <2>3
<1>4. QED
  BY <1>3

(* A path with a segment that is not empty has a last one.                 *)
LEMMA LastNamedType ==
  ASSUME NEW p \in Paths, Named(p) # {}
  PROVE  LastNamed(p) \in Named(p)
<1>1. Named(p) \subseteq 1 .. Len(p) /\ Len(p) \in Nat
  BY LenProperties DEF Named, Paths
<1> DEFINE T == {Len(p) - i : i \in Named(p)}
<1>2. T \in SUBSET Nat /\ T # {}
  BY <1>1
<1>3. PICK x \in T : \A y \in T : x <= y
  <2> HIDE DEF T
  <2> QED
    BY <1>2, LeastNatural
<1>4. PICK i \in Named(p) : x = Len(p) - i
  BY <1>3
<1>5. \A j \in Named(p) : Len(p) - i <= Len(p) - j
  BY <1>3, <1>4
<1>6. \A j \in Named(p) : j <= i
  BY <1>1, <1>5
<1>7. QED
  BY <1>4, <1>6 DEF LastNamed

(* The name is one segment; only for slashes and nothing else it is two,   *)
(* both empty, which is how a slash is written.                            *)
Slashes(p) == Named(p) = {} /\ p # NoText

LEMMA OneSegment ==
  ASSUME NEW s \in Segments PROVE <<s>> \in Paths /\ Len(<<s>>) = 1
BY DEF Paths

LEMMA BaseOfName ==
  ASSUME NEW p \in Paths, ~ Slashes(p)
  PROVE  Base(p) \in Paths /\ Len(Base(p)) = 1
<1>1. "." \in Segments
  BY FormAssumption
<1>2. CASE Named(p) # {}
  <2>1. p[LastNamed(p)] \in Segments
    BY <1>2, LastNamedType, LenProperties DEF Named, Paths
  <2>2. Base(p) = <<p[LastNamed(p)]>>
    BY <1>2 DEF Base
  <2>3. QED
    BY <2>1, <2>2, OneSegment
<1>3. CASE Named(p) = {} /\ p = NoText
  <2>1. Base(p) = <<".">>
    BY <1>3 DEF Base
  <2>2. QED
    BY <1>1, <2>1, OneSegment
<1>4. QED
  BY <1>2, <1>3 DEF Slashes

LEMMA TwoSegments ==
  ASSUME NEW S, NEW a \in S, NEW b \in S
  PROVE  /\ <<a, b>> \in Seq(S) /\ <<a, b>> # <<>>
         /\ Len(<<a, b>>) = 2 /\ <<a, b>>[1] = a /\ <<a, b>>[2] = b
OBVIOUS

LEMMA BaseOfSlashes ==
  ASSUME NEW p \in Paths, Slashes(p)
  PROVE  /\ Base(p) \in Paths
         /\ Len(Base(p)) = 2 /\ Base(p)[1] = "" /\ Base(p)[2] = ""
<1>1. Base(p) = <<"", "">>
  BY DEF Base, Slashes
<1>2. "" \in Segments
  BY FormAssumption
<1>3. /\ <<"", "">> \in Seq(Segments) /\ <<"", "">> # <<>>
      /\ Len(<<"", "">>) = 2 /\ <<"", "">>[1] = "" /\ <<"", "">>[2] = ""
  BY <1>2, TwoSegments
<1>4. QED
  BY <1>1, <1>3 DEF Paths

LEMMA BaseType == ASSUME NEW p \in Paths PROVE Base(p) \in Paths
BY BaseOfName, BaseOfSlashes

(* The segments of a key: those of the path, then those of the name.       *)
LEMMA KeySegments ==
  ASSUME NEW p \in Paths, NEW b \in Paths
  PROVE  /\ p \o b \in Paths
         /\ Len(p) \in Nat \ {0} /\ DOMAIN p = 1 .. Len(p)
         /\ Len(p \o b) = Len(p) + Len(b)
         /\ \A i \in 1 .. Len(p) : (p \o b)[i] = p[i]
         /\ \A i \in 1 .. Len(b) : (p \o b)[Len(p) + i] = b[i]
<1>1. p \in Seq(Segments) /\ b \in Seq(Segments)
  BY DEF Paths
<1>2. /\ Len(p) \in Nat \ {0} /\ Len(b) \in Nat \ {0}
      /\ DOMAIN p = 1 .. Len(p)
  BY <1>1, EmptySeq, LenProperties DEF Paths
<1>3. /\ p \o b \in Seq(Segments)
      /\ Len(p \o b) = Len(p) + Len(b)
      /\ \A i \in 1 .. Len(p) + Len(b) :
           (p \o b)[i] = IF i <= Len(p) THEN p[i] ELSE b[i - Len(p)]
  BY <1>1, ConcatProperties
<1>4. p \o b \in Paths
  BY <1>2, <1>3 DEF Paths
<1>5. ASSUME NEW i \in 1 .. Len(p)
      PROVE  (p \o b)[i] = p[i]
  BY <1>2, <1>3
<1>6. ASSUME NEW i \in 1 .. Len(b)
      PROVE  (p \o b)[Len(p) + i] = b[i]
  <2>1. /\ Len(p) + i \in 1 .. Len(p) + Len(b)
        /\ ~ (Len(p) + i <= Len(p))
        /\ (Len(p) + i) - Len(p) = i
    BY <1>2
  <2>2. QED
    BY <1>3, <2>1
<1>7. QED
  BY <1>2, <1>3, <1>4, <1>5, <1>6

LEMMA NameSegments ==
  ASSUME NEW p \in Paths
  PROVE  /\ Len(p) \in Nat \ {0} /\ DOMAIN p = 1 .. Len(p)
         /\ Len(p \o Base(p)) = Len(p) + (IF Slashes(p) THEN 2 ELSE 1)
         /\ \A i \in 1 .. Len(p) : (p \o Base(p))[i] = p[i]
         /\ Slashes(p) => (p \o Base(p))[Len(p) + 1] = ""
<1>1. PICK b : b = Base(p)
  OBVIOUS
<1>2. b \in Paths /\ Len(b) = (IF Slashes(p) THEN 2 ELSE 1)
  BY <1>1, BaseOfName, BaseOfSlashes
<1>3. Slashes(p) => b[1] = ""
  BY <1>1, BaseOfSlashes
<1>4. 1 \in 1 .. Len(b)
  BY <1>2
<1>5. /\ Len(p) \in Nat \ {0} /\ DOMAIN p = 1 .. Len(p)
      /\ Len(p \o b) = Len(p) + Len(b)
      /\ \A i \in 1 .. Len(p) : (p \o b)[i] = p[i]
      /\ (p \o b)[Len(p) + 1] = b[1]
  BY <1>2, <1>4, KeySegments
<1>6. QED
  BY <1>1, <1>2, <1>3, <1>5

(* A path is not confused with a longer one of which it is a part: only    *)
(* slashes have a name of two segments, and then all of the key is slashes.*)
LEMMA KeyInjective ==
  ASSUME NEW p \in Paths, NEW q \in Paths, p \o Base(p) = q \o Base(q)
  PROVE  p = q
<1>1. ASSUME NEW r \in Paths, NEW s \in Paths, r \o Base(r) = s \o Base(s),
             Len(r) = Len(s)
      PROVE  r = s
  <2>1. \A i \in 1 .. Len(r) : r[i] = s[i]
    BY <1>1, NameSegments
  <2>2. r \in Seq(Segments) /\ s \in Seq(Segments)
    BY DEF Paths
  <2>3. QED
    BY <1>1, <2>1, <2>2, SeqEqual
<1>2. ASSUME NEW r \in Paths, NEW s \in Paths, r \o Base(r) = s \o Base(s),
             ~ Slashes(r), Slashes(s)
      PROVE  FALSE
  <2>1. /\ Len(r) \in Nat \ {0} /\ Len(s) \in Nat \ {0}
        /\ Len(r) = Len(s) + 1
    <3>1. PICK n : n = Len(r \o Base(r))
      OBVIOUS
    <3>2. n = Len(s \o Base(s))
      BY <1>2, <3>1
    <3>3. Len(r) \in Nat \ {0} /\ n = Len(r) + 1
      BY <1>2, <3>1, NameSegments
    <3>4. Len(s) \in Nat \ {0} /\ n = Len(s) + 2
      BY <1>2, <3>2, NameSegments
    <3>5. QED
      BY <3>3, <3>4
  <2>8. Len(r) # 1
    BY <2>1
  <2>2. \A i \in 1 .. Len(s) : s[i] = ""
    BY <1>2, NameSegments DEF Named, Slashes
  <2>3. ASSUME NEW i \in 1 .. Len(r)
        PROVE  r[i] = ""
    <3>1. r[i] = (s \o Base(s))[i]
      BY <1>2, NameSegments
    <3>2. CASE i <= Len(s)
      <4>1. i \in 1 .. Len(s)
        BY <2>1, <3>2
      <4>2. QED
        BY <2>2, <3>1, <4>1, NameSegments
    <3>3. CASE ~ (i <= Len(s))
      <4>1. i = Len(s) + 1
        BY <2>1, <3>3
      <4>2. QED
        BY <1>2, <3>1, <4>1, NameSegments
    <3>4. QED
      BY <3>2, <3>3
  <2>4. Named(r) = {}
    BY <2>3, NameSegments DEF Named
  <2>5. r = NoText
    BY <1>2, <2>4 DEF Slashes
  <2>6. Len(r) = 1
    BY <2>5 DEF NoText
  <2>7. QED
    BY <2>6, <2>8
<1>3. CASE Slashes(p) <=> Slashes(q)
  <2>1. PICK n : n = Len(p \o Base(p)) /\ n = Len(q \o Base(q))
    OBVIOUS
  <2>2. /\ Len(p) \in Nat
        /\ n = Len(p) + (IF Slashes(p) THEN 2 ELSE 1)
    BY <2>1, NameSegments
  <2>3. /\ Len(q) \in Nat
        /\ n = Len(q) + (IF Slashes(q) THEN 2 ELSE 1)
    BY <2>1, NameSegments
  <2>4. Len(p) = Len(q)
    BY <1>3, <2>2, <2>3
  <2>5. QED
    BY <1>1, <2>4
<1>4. QED
  BY <1>2, <1>3

-----------------------------------------------------------------------------
(* The integers.                                                           *)

LEMMA ModSmall ==
  ASSUME NEW n \in Nat, NEW k \in Nat, n < k PROVE n % k = n
OBVIOUS

LEMMA ModRange ==
  ASSUME NEW n \in Int, NEW k \in Nat \ {0} PROVE n % k \in 0 .. k - 1
OBVIOUS

LEMMA Widths ==
  /\ MaxSize \in Nat /\ MaxInt32 \in Nat /\ MaxInt \in Nat /\ MaxRequests \in Nat
  /\ 0 < MaxInt32 /\ MaxInt32 <= MaxInt /\ MaxSize <= MaxInt
BY FormAssumption

LEMMA UnsignedSmall ==
  ASSUME NEW n \in Nat, n <= MaxSize PROVE Unsigned(n) = n
<1>1. 2 * (MaxInt + 1) \in Nat /\ n < 2 * (MaxInt + 1)
  BY Widths
<1>2. QED
  BY <1>1, ModSmall DEF Unsigned

LEMMA UnsignedType == ASSUME NEW n \in Int PROVE Unsigned(n) \in Nat
<1>1. PICK k : k = 2 * (MaxInt + 1)
  OBVIOUS
<1>2. k \in Nat \ {0}
  BY <1>1, Widths
<1>3. n % k \in Nat
  BY <1>2, ModRange
<1>4. QED
  BY <1>1, <1>3 DEF Unsigned

LEMMA Int32Type ==
  ASSUME NEW n \in Int PROVE Int32(n) \in -MaxInt32 - 1 .. MaxInt32
<1> DEFINE k == 2 * (MaxInt32 + 1)
<1>1. k \in Nat \ {0} /\ n + MaxInt32 + 1 \in Int /\ MaxInt32 \in Nat
  BY Widths
<1>2. (n + MaxInt32 + 1) % k \in 0 .. k - 1
  <2> HIDE DEF k
  <2> QED
    BY <1>1, ModRange
<1>3. QED
  BY <1>1, <1>2 DEF Int32

(* A number that an int32 can hold is the number that is used.             *)
LEMMA Int32Exact ==
  ASSUME NEW n \in Int, -MaxInt32 - 1 <= n, n <= MaxInt32 PROVE Int32(n) = n
<1> DEFINE k == 2 * (MaxInt32 + 1)
<1>1. k \in Nat /\ n + MaxInt32 + 1 \in Nat /\ n + MaxInt32 + 1 < k /\ MaxInt32 \in Nat
  BY Widths
<1>2. (n + MaxInt32 + 1) % k = n + MaxInt32 + 1
  <2> HIDE DEF k
  <2> QED
    BY <1>1, ModSmall
<1>3. QED
  BY <1>1, <1>2 DEF Int32

-----------------------------------------------------------------------------
(* What becomes of a description.                                          *)

LEMMA CallType ==
  ASSUME NEW c \in Calls
  PROVE  c.metadata \in Metadata /\ c.token \in Texts
BY FormAssumption

(* Decoding undoes the SDK's encoding: no field is lost or swapped.        *)
LEMMA DecodedOfForm ==
  ASSUME NEW m \in Metadata PROVE Decoded(FormOf(m)) = m
<1> DEFINE f == FormOf(m)
           i == [datasetId |-> Or(f.datasetId, ""), edition |-> Or(f.edition, ""),
                 version |-> Or(f.version, "")]
<1>1. m.item \in Items
  BY DEF Metadata
<1>2. /\ Or(f.datasetId, "") = m.item.datasetId
      /\ Or(f.edition, "") = m.item.edition
      /\ Or(f.version, "") = m.item.version
  BY <1>1, OrFilled DEF FormOf, Items
<1>3. i = m.item
  BY <1>1, <1>2 DEF Items
<1>4. /\ Or(f.path, NoText) = m.path /\ Or(f.title, "") = m.title
      /\ Or(f.size, 0) = m.size /\ Or(f.licence, "") = m.licence
      /\ f.isPublishable = m.isPublishable /\ f.collectionId = m.collectionId
      /\ f.bundleId = m.bundleId
  BY OrSome DEF FormOf
<1>5. Decoded(f) =
        [path |-> m.path, isPublishable |-> m.isPublishable,
         collectionId |-> m.collectionId, bundleId |-> m.bundleId,
         title |-> m.title, size |-> m.size, licence |-> m.licence, item |-> m.item]
  <2> HIDE DEF f
  <2> QED
    BY <1>3, <1>4 DEF Decoded
<1>6. QED
  BY <1>5 DEF Metadata

LEMMA ContentItemDescribed ==
  ASSUME NEW item \in Items
  PROVE  ContentItem(item) = {i \in {item} : \E id \in DOMAIN i : i[id] # ""}
<1> DEFINE nothing == [datasetId |-> "", edition |-> "", version |-> ""]
<1>1. DOMAIN item = {"datasetId", "edition", "version"}
  BY DEF Items
<1>2. item = nothing <=>
        item.datasetId = "" /\ item.edition = "" /\ item.version = ""
  <2>1. item = [datasetId |-> item.datasetId, edition |-> item.edition,
                version |-> item.version]
    BY DEF Items
  <2>2. item.datasetId = "" /\ item.edition = "" /\ item.version = "" => item = nothing
    BY <2>1
  <2>3. nothing.datasetId = "" /\ nothing.edition = "" /\ nothing.version = ""
    OBVIOUS
  <2> HIDE DEF nothing
  <2>4. QED
    BY <2>2, <2>3
<1>3. (\E id \in DOMAIN item : item[id] # "") <=>
        ~ (item.datasetId = "" /\ item.edition = "" /\ item.version = "")
  BY <1>1
<1>4. QED
  BY <1>2, <1>3 DEF ContentItem

LEMMA TokenOfCall ==
  ASSUME NEW token \in Texts
  PROVE  Token(HeaderOf(token)) = IF token # "" THEN token ELSE ServiceToken
<1>1. CASE token = ""
  BY <1>1 DEF HeaderOf, Token
<1>2. CASE token # ""
  <2>1. HeaderOf(token) = {[bearer |-> TRUE, token |-> token]}
    BY <1>2 DEF HeaderOf
  <2>2. Or(HeaderOf(token), {}) = [bearer |-> TRUE, token |-> token]
    BY <2>1, OrSome
  <2>3. HeaderOf(token) # {}
    BY <2>1
  <2>4. Token(HeaderOf(token)) = Or(HeaderOf(token), {}).token
    BY <2>3 DEF Token
  <2>5. [bearer |-> TRUE, token |-> token].token = token
    OBVIOUS
  <2>6. Token(HeaderOf(token)) = token
    BY <2>2, <2>4, <2>5
  <2>7. QED
    BY <1>2, <2>6
<1>3. QED
  BY <1>1, <1>2

LEMMA PublishableDescribed ==
  ASSUME NEW o \in Optional(BOOLEAN), o # {}
  PROVE  Or(o, FALSE) = (o = {TRUE})
<1>1. PICK b \in BOOLEAN : o = {b}
  BY OptionalCases
<1>2. Or(o, FALSE) = b
  BY <1>1, OrSome
<1>3. CASE b = TRUE
  BY <1>1, <1>2, <1>3
<1>4. CASE b = FALSE
  BY <1>1, <1>2, <1>4
<1>5. QED
  BY <1>3, <1>4

(* What is registered for a call: its description, under its key.          *)
RecordFor(c) ==
  LET d == Described(c) IN
  [path |-> CallKey(c), isPublishable |-> d.isPublishable,
   collectionId |-> d.collectionId, bundleId |-> d.bundleId, title |-> d.title,
   size |-> d.size, licence |-> d.licence, item |-> d.item, token |-> d.token]

LEMMA KeyIsInside ==
  ASSUME NEW p \in Paths, NEW b \in Paths
  PROVE  Inside(p \o b, p)
<1>1. p \in Seq(Segments) /\ b \in Seq(Segments) /\ p \o b \in Seq(Segments)
  BY KeySegments DEF Paths
<1>2. /\ Len(p) \in Nat \ {0} /\ Len(b) \in Nat \ {0}
      /\ Len(p \o b) = Len(p) + Len(b)
      /\ \A i \in 1 .. Len(p) : (p \o b)[i] = p[i]
  BY KeySegments
<1>3. /\ SubSeq(p \o b, 1, Len(p)) \in Seq(Segments)
      /\ Len(SubSeq(p \o b, 1, Len(p))) = Len(p)
      /\ \A i \in 1 .. Len(p) : SubSeq(p \o b, 1, Len(p))[i] = (p \o b)[i]
  BY <1>1, <1>2, SubSeqProperties
<1>4. SubSeq(p \o b, 1, Len(p)) = p
  BY <1>1, <1>2, <1>3, SeqEqual
<1>5. QED
  BY <1>2, <1>4 DEF Inside

LEMMA RecordIsDescribed ==
  ASSUME NEW c \in Calls
  PROVE  /\ \A field \in DOMAIN Described(c) : RecordFor(c)[field] = Described(c)[field]
         /\ RecordFor(c).path = CallKey(c)
         /\ Inside(RecordFor(c).path, c.metadata.path)
<1>1. c.metadata.path \in Paths
  BY CallType DEF Metadata
<1>2. CallKey(c) = c.metadata.path \o Base(c.metadata.path)
  BY DEF CallKey, Key
<1>3. RecordFor(c).path = CallKey(c)
  BY DEF RecordFor
<1>4. DOMAIN Described(c) = {"isPublishable", "collectionId", "bundleId", "title",
                             "size", "licence", "item", "token"}
  BY DEF Described
<1>5. ASSUME NEW field \in DOMAIN Described(c)
      PROVE  RecordFor(c)[field] = Described(c)[field]
  BY <1>4, <1>5 DEF RecordFor
<1>6. QED
  BY <1>1, <1>2, <1>3, <1>5, BaseType, KeyIsInside

(* The record of a request that the SDK makes is the caller's description. *)
LEMMA RecordOfCall ==
  ASSUME NEW c \in Calls, NEW q,
         q.form = FormOf(c.metadata), q.header = HeaderOf(c.token),
         0 < c.metadata.size, c.metadata.size <= MaxSize,
         c.metadata.isPublishable # {}
  PROVE  Record(q) = RecordFor(c)
<1> DEFINE m == c.metadata
<1>1. m \in Metadata /\ c.token \in Texts
  BY CallType
<1>2. Decoded(q.form) = m
  BY <1>1, DecodedOfForm
<1>3. Or(q.form.filename, NoText) = Base(m.path)
  <2>1. q.form.filename = {Base(m.path)}
    BY DEF FormOf
  <2>2. QED
    BY <2>1, OrSome
<1>4. Or(m.isPublishable, FALSE) = (m.isPublishable = {TRUE})
  BY <1>1, PublishableDescribed DEF Metadata
<1>5. Unsigned(m.size) = m.size
  <2>1. m.size \in Nat
    BY <1>1 DEF Metadata
  <2>2. QED
    BY <2>1, UnsignedSmall
<1>6. ContentItem(m.item) = {i \in {m.item} : \E id \in DOMAIN i : i[id] # ""}
  BY <1>1, ContentItemDescribed DEF Metadata
<1>7. Token(q.header) = IF c.token # "" THEN c.token ELSE ServiceToken
  BY <1>1, TokenOfCall
<1>8. QED
  BY <1>2, <1>3, <1>4, <1>5, <1>6, <1>7 DEF Record, RecordFor, Described, CallKey, Key

-----------------------------------------------------------------------------
(* Types.                                                                  *)

LEMMA PathsType == NoText \in Paths
<1>1. "" \in Segments
  BY FormAssumption
<1>2. QED
  BY <1>1, OneSegment DEF NoText

LEMMA FormType == ASSUME NEW m \in Metadata PROVE FormOf(m) \in Form
<1>1. /\ m.path \in Paths /\ m.isPublishable \in Optional(BOOLEAN)
      /\ m.collectionId \in Optional(Texts) /\ m.bundleId \in Optional(Texts)
      /\ m.title \in Texts /\ m.size \in Int /\ m.licence \in Texts
      /\ m.item.datasetId \in Texts /\ m.item.edition \in Texts
      /\ m.item.version \in Texts
  BY DEF Metadata, Items
<1>2. {m.path} \in Optional(Paths) /\ {Base(m.path)} \in Optional(Paths)
  BY <1>1, BaseType, OptionalSome
<1>3. /\ {m.title} \in Optional(Texts) /\ {m.licence} \in Optional(Texts)
      /\ {m.size} \in Optional(Int) /\ {1} \in Optional(Int)
  BY <1>1, OptionalSome
<1>4. /\ Filled(m.item.datasetId) \in Optional(Texts)
      /\ Filled(m.item.edition) \in Optional(Texts)
      /\ Filled(m.item.version) \in Optional(Texts)
  BY <1>1, FilledType
<1>5. QED
  BY <1>1, <1>2, <1>3, <1>4 DEF FormOf, Form

LEMMA HeaderType == ASSUME NEW t \in Texts PROVE HeaderOf(t) \in Optional(Headers)
<1>1. CASE t = ""
  BY <1>1, OptionalNone DEF HeaderOf
<1>2. CASE t # ""
  <2>1. [bearer |-> TRUE, token |-> t] \in Headers
    BY <1>2 DEF Headers
  <2>2. QED
    BY <1>2, <2>1, OptionalSome DEF HeaderOf
<1>3. QED
  BY <1>1, <1>2

LEMMA TokenType ==
  ASSUME NEW o \in Optional(Headers) PROVE Token(o) \in Texts \cup {ServiceToken}
<1>1. CASE o = {}
  BY <1>1 DEF Token
<1>2. CASE o # {}
  <2>1. PICK header \in Headers : o = {header}
    BY <1>2, OptionalCases
  <2>2. Token(o) = header.token
    BY <1>2, <2>1, OrSome DEF Token
  <2>3. QED
    BY <2>1, <2>2 DEF Headers
<1>3. QED
  BY <1>1, <1>2

LEMMA RecordFields ==
  ASSUME NEW path \in Paths, NEW publishable \in BOOLEAN,
         NEW collection \in Optional(Texts), NEW bundle \in Optional(Texts),
         NEW title \in Texts, NEW size \in Nat, NEW licence \in Texts,
         NEW item \in Optional(Items), NEW token \in Texts \cup {ServiceToken}
  PROVE  [path |-> path, isPublishable |-> publishable, collectionId |-> collection,
          bundleId |-> bundle, title |-> title, size |-> size, licence |-> licence,
          item |-> item, token |-> token] \in RecordType
BY DEF RecordType

LEMMA RecordIsTyped ==
  ASSUME NEW q \in Request
  PROVE  Record(q) \in RecordType
<1> DEFINE f == q.form
           m == Decoded(f)
<1>1. f \in Form /\ q.header \in Optional(Headers)
  BY DEF Request
<1>2. /\ f.path \in Optional(Paths) /\ f.filename \in Optional(Paths)
      /\ f.isPublishable \in Optional(BOOLEAN)
      /\ f.collectionId \in Optional(Texts) /\ f.bundleId \in Optional(Texts)
      /\ f.title \in Optional(Texts) /\ f.size \in Optional(Int)
      /\ f.licence \in Optional(Texts) /\ f.datasetId \in Optional(Texts)
      /\ f.edition \in Optional(Texts) /\ f.version \in Optional(Texts)
  BY <1>1 DEF Form
<1>3. /\ Or(f.path, NoText) \in Paths /\ Or(f.filename, NoText) \in Paths
      /\ Or(f.isPublishable, FALSE) \in BOOLEAN
  BY <1>2, PathsType, OrType
<1>4. Or(f.size, 0) \in Int
  <2>1. 0 \in Int
    OBVIOUS
  <2>2. QED
    BY <1>2, <2>1, OrType
<1>5. /\ Or(f.title, "") \in Texts /\ Or(f.licence, "") \in Texts
      /\ Or(f.datasetId, "") \in Texts /\ Or(f.edition, "") \in Texts
      /\ Or(f.version, "") \in Texts
  <2>1. "" \in Texts
    BY DEF Texts
  <2>2. QED
    BY <1>2, <2>1, OrType
<1>6. Key(m, Or(f.filename, NoText)) \in Paths
  <2>1. m.path = Or(f.path, NoText)
    BY DEF Decoded
  <2>2. QED
    BY <1>3, <2>1, KeySegments DEF Key
<1>7. Unsigned(m.size) \in Nat
  <2>1. m.size = Or(f.size, 0)
    BY DEF Decoded
  <2>2. QED
    BY <1>4, <2>1, UnsignedType
<1>8. ContentItem(m.item) \in Optional(Items)
  <2>1. m.item \in Items
    BY <1>5 DEF Decoded, Items
  <2>2. QED
    BY <2>1, OptionalSome, OptionalNone DEF ContentItem
<1>9. Token(q.header) \in Texts \cup {ServiceToken}
  BY <1>1, TokenType
<1>10. /\ m.isPublishable = f.isPublishable /\ m.collectionId = f.collectionId
       /\ m.bundleId = f.bundleId /\ m.title = Or(f.title, "")
       /\ m.licence = Or(f.licence, "")
  BY DEF Decoded
<1>11. /\ Or(m.isPublishable, FALSE) \in BOOLEAN
       /\ m.collectionId \in Optional(Texts) /\ m.bundleId \in Optional(Texts)
       /\ m.title \in Texts /\ m.licence \in Texts
  BY <1>2, <1>3, <1>5, <1>10
<1>12. [path |-> Key(m, Or(f.filename, NoText)),
        isPublishable |-> Or(m.isPublishable, FALSE),
        collectionId |-> m.collectionId, bundleId |-> m.bundleId,
        title |-> m.title, size |-> Unsigned(m.size), licence |-> m.licence,
        item |-> ContentItem(m.item), token |-> Token(q.header)] \in RecordType
  <2> HIDE DEF m
  <2> QED
    BY <1>6, <1>7, <1>8, <1>9, <1>11, RecordFields
<1>13. QED
  BY <1>12 DEF Record

(* The part that a request stores, if the checks let it through.           *)
LEMMA PartOfRequest ==
  ASSUME NEW f \in Form, ~ Stops(f)
  PROVE  /\ Or(f.chunk, 0) \in Int
         /\ ChunkNumber(f) \in -MaxInt32 - 1 .. MaxInt32
         /\ ChunkNumber(f) = Or(f.chunk, 0)
<1>1. f.chunk \in Optional(Int) /\ 0 \in Int
  BY DEF Form
<1>2. Or(f.chunk, 0) \in Int
  BY <1>1, OrType
<1>3. Fits(f.chunk, MaxInt32)
  BY DEF Stops, Accepted, ResumableDecodes
<1>4. -MaxInt32 - 1 <= Or(f.chunk, 0) /\ Or(f.chunk, 0) <= MaxInt32
  <2>1. CASE f.chunk = {}
    <3>1. Or(f.chunk, 0) = 0
      BY <2>1, OrNone
    <3>2. QED
      BY <3>1, Widths
  <2>2. CASE f.chunk # {}
    <3>1. PICK n \in Int : f.chunk = {n}
      BY <1>1, <2>2, OptionalCases
    <3>2. Or(f.chunk, 0) = n
      BY <3>1, OrSome
    <3>3. QED
      BY <1>3, <3>1, <3>2 DEF Fits
  <2>3. QED
    BY <2>1, <2>2
<1>5. QED
  BY <1>2, <1>4, Int32Type, Int32Exact DEF ChunkNumber

(* What is not accepted is refused for a reason of the checks.             *)
LEMMA RefusalIsNamed ==
  ASSUME NEW f, Stops(f)
  PROVE  Refusal(f) \notin {"nil dereference", "DuplicateFile"}
<1>1. ~ Accepted(f)
  BY DEF Stops, Accepted, Valid, Decoded
<1>2. CASE ~ MetadataDecodes(f)
  BY <1>1, <1>2 DEF Refusal
<1>3. CASE MetadataDecodes(f) /\ ~ ResumableDecodes(f)
  BY <1>1, <1>3 DEF Refusal
<1>4. CASE MetadataDecodes(f) /\ ResumableDecodes(f) /\ ~ Valid(Decoded(f))
  BY <1>1, <1>4 DEF Refusal
<1>5. CASE MetadataDecodes(f) /\ ResumableDecodes(f) /\ Valid(Decoded(f))
  BY <1>1, <1>5 DEF Refusal
<1>6. QED
  BY <1>2, <1>3, <1>4, <1>5

-----------------------------------------------------------------------------
(* The invariant.                                                          *)

LEMMA NextMade ==
  ASSUME NEW n \in 0 .. MaxRequests, n < MaxRequests
  PROVE  n + 1 \in 0 .. MaxRequests
BY Widths

LEMMA ServedType == ASSUME Inv, NEW q \in request PROVE q \in Request
BY OptionalCases DEF Inv, TypeOK

LEMMA InvInit == Init => Inv
<1> SUFFICES ASSUME Init PROVE Inv
  OBVIOUS
<1>1. request = {} /\ from = {} /\ part = {} /\ files = {} /\ answer = "none" /\ made = 0
  BY DEF Init
<1>2. TypeOK
  BY <1>1, OptionalNone, Widths DEF TypeOK
<1>3. SentAsCalled /\ KeysOfCalls /\ RegisteredAsDescribed /\ PartIsTheOneAsked
  BY <1>1 DEF SentAsCalled, KeysOfCalls, RegisteredAsDescribed, PartIsTheOneAsked
<1>4. PathsDoNotCollide /\ NothingNilIsDereferenced
  BY <1>1 DEF PathsDoNotCollide, NothingNilIsDereferenced
<1>5. QED
  BY <1>2, <1>3, <1>4 DEF Inv

(* A new request: nothing is registered, nothing stored.                   *)
LEMMA MakeStep ==
  ASSUME Inv, NEW form \in Form, NEW header \in Optional(Headers),
         NEW by \in Optional(Calls), NEW end,
         CanMake, Make(form, header, by, end),
         end \notin {"nil dereference", "DuplicateFile"},
         end = "none" => \A c \in by :
           /\ form = FormOf(c.metadata) /\ header = HeaderOf(c.token)
           /\ 0 < c.metadata.size /\ c.metadata.size <= MaxSize
           /\ c.metadata.isPublishable # {}
  PROVE  Inv'
<1>1. /\ request' = IF end = "none" THEN {[form |-> form, header |-> header]} ELSE {}
      /\ from' = by /\ answer' = end /\ part' = {} /\ made' = made + 1
      /\ files' = files
  BY DEF Make
<1>2. TypeOK'
  <2>1. [form |-> form, header |-> header] \in Request
    BY DEF Request
  <2>2. request' \in Optional(Request)
    BY <1>1, <2>1, OptionalSome, OptionalNone
  <2>3. part' \in Optional([asked : Int, number : -MaxInt32 - 1 .. MaxInt32])
    BY <1>1, OptionalNone
  <2>4. made' \in 0 .. MaxRequests
    <3>1. made \in 0 .. MaxRequests /\ made < MaxRequests
      BY DEF Inv, TypeOK, CanMake
    <3>2. QED
      BY <1>1, <3>1, NextMade
  <2>5. files' \subseteq [record : RecordType, from : Optional(Calls)]
    BY <1>1 DEF Inv, TypeOK
  <2>6. QED
    BY <1>1, <2>2, <2>3, <2>4, <2>5 DEF TypeOK
<1>3. SentAsCalled'
  <2>1. CASE end = "none"
    <3>1. request' = {[form |-> form, header |-> header]} /\ from' = by
      BY <1>1, <2>1
    <3>2. QED
      BY <2>1, <3>1 DEF SentAsCalled
  <2>2. CASE end # "none"
    BY <1>1, <2>2 DEF SentAsCalled
  <2>3. QED
    BY <2>1, <2>2
<1>4. KeysOfCalls' /\ RegisteredAsDescribed'
  BY <1>1 DEF Inv, KeysOfCalls, RegisteredAsDescribed
<1>5. PathsDoNotCollide' /\ NothingNilIsDereferenced' /\ PartIsTheOneAsked'
  BY <1>1 DEF PathsDoNotCollide, NothingNilIsDereferenced, PartIsTheOneAsked
<1>6. QED
  BY <1>2, <1>3, <1>4, <1>5 DEF Inv

LEMMA CallStep == ASSUME Inv, NEW c \in Calls, Call(c) PROVE Inv'
<1> DEFINE m == c.metadata
           end == IF m.size > MaxSize THEN "ErrFileTooLarge"
                  ELSE IF m.size <= 0 THEN "nil"
                  ELSE IF m.isPublishable = {} THEN "panic" ELSE "none"
<1>1. CanMake /\ Make(FormOf(m), HeaderOf(c.token), {c}, end)
  BY DEF Call
<1>2. /\ FormOf(m) \in Form /\ HeaderOf(c.token) \in Optional(Headers)
      /\ {c} \in Optional(Calls)
  BY CallType, FormType, HeaderType, OptionalSome
<1>3. m.size \in Int
  BY CallType DEF Metadata
<1>4. end \notin {"nil dereference", "DuplicateFile"}
  OBVIOUS
<1>5. end = "none" =>
        0 < m.size /\ m.size <= MaxSize /\ m.isPublishable # {}
  BY <1>3, Widths
<1> HIDE DEF end
<1>6. QED
  BY <1>1, <1>2, <1>4, <1>5, MakeStep

LEMMA SubmitStep == ASSUME Inv, NEW s \in Submissions, Submit(s) PROVE Inv'
<1>1. s.form \in Form /\ s.header \in Optional(Headers) /\ {} \in Optional(Calls)
  BY FormAssumption, OptionalNone
<1>2. CanMake /\ Make(s.form, s.header, {}, "none")
  BY DEF Submit
<1>3. QED
  BY <1>1, <1>2, MakeStep

(* The end of a request, but for what it registers.                        *)
LEMMA FinishStep ==
  ASSUME Inv, NEW q \in request, NEW code, Finish(q, code),
         files' \subseteq [record : RecordType, from : Optional(Calls)],
         KeysOfCalls', RegisteredAsDescribed', PathsDoNotCollide', code # "nil dereference"
  PROVE  Inv'
<1>1. /\ request' = {} /\ answer' = code /\ from' = from /\ made' = made
      /\ part' = IF Stops(q.form) THEN {}
                 ELSE {[asked |-> Or(q.form.chunk, 0), number |-> ChunkNumber(q.form)]}
  BY DEF Finish
<1>2. q.form \in Form
  <2>1. q \in Request
    BY ServedType
  <2>2. QED
    BY <2>1 DEF Request
<1>3. /\ part' \in Optional([asked : Int, number : -MaxInt32 - 1 .. MaxInt32])
      /\ PartIsTheOneAsked'
  <2>1. CASE Stops(q.form)
    BY <1>1, <2>1, OptionalNone DEF PartIsTheOneAsked
  <2>2. CASE ~ Stops(q.form)
    <3>1. /\ Or(q.form.chunk, 0) \in Int
          /\ ChunkNumber(q.form) \in -MaxInt32 - 1 .. MaxInt32
          /\ ChunkNumber(q.form) = Or(q.form.chunk, 0)
      BY <1>2, <2>2, PartOfRequest
    <3>2. part' = {[asked |-> Or(q.form.chunk, 0), number |-> ChunkNumber(q.form)]}
      BY <1>1, <2>2
    <3>3. [asked |-> Or(q.form.chunk, 0), number |-> ChunkNumber(q.form)]
             \in [asked : Int, number : -MaxInt32 - 1 .. MaxInt32]
      BY <3>1
    <3>4. ASSUME NEW p \in part' PROVE p.number = p.asked
      <4>1. p = [asked |-> Or(q.form.chunk, 0), number |-> ChunkNumber(q.form)]
        BY <3>2
      <4>2. p.asked = Or(q.form.chunk, 0) /\ p.number = ChunkNumber(q.form)
        BY <4>1
      <4>3. QED
        BY <3>1, <4>2
    <3>5. QED
      BY <3>2, <3>3, <3>4, OptionalSome DEF PartIsTheOneAsked
  <2>3. QED
    BY <2>1, <2>2
<1>4. TypeOK'
  BY <1>1, <1>3, OptionalNone DEF Inv, TypeOK
<1>5. SentAsCalled' /\ NothingNilIsDereferenced'
  BY <1>1 DEF SentAsCalled, NothingNilIsDereferenced
<1>6. QED
  BY <1>3, <1>4, <1>5 DEF Inv

LEMMA RefuseStep == ASSUME Inv, NEW q \in request, Refuse(q) PROVE Inv'
<1>1. Finish(q, Refusal(q.form)) /\ files' = files
  BY DEF Refuse
<1>2. Refusal(q.form) \notin {"nil dereference", "DuplicateFile"}
  BY RefusalIsNamed DEF Refuse
<1>3. KeysOfCalls' /\ RegisteredAsDescribed'
  BY <1>1 DEF Inv, KeysOfCalls, RegisteredAsDescribed
<1>4. PathsDoNotCollide'
  BY <1>1, <1>2 DEF Finish, PathsDoNotCollide
<1>5. files' \subseteq [record : RecordType, from : Optional(Calls)]
  BY <1>1 DEF Inv, TypeOK
<1>6. QED
  BY <1>1, <1>2, <1>3, <1>4, <1>5, FinishStep

LEMMA StorePartStep == ASSUME Inv, NEW q \in request, StorePart(q) PROVE Inv'
<1>1. Finish(q, "OK") /\ files' = files
  BY DEF StorePart
<1>2. KeysOfCalls' /\ RegisteredAsDescribed' /\ PathsDoNotCollide'
  BY <1>1 DEF Inv, Finish, KeysOfCalls, RegisteredAsDescribed, PathsDoNotCollide
<1>3. files' \subseteq [record : RecordType, from : Optional(Calls)]
  BY <1>1 DEF Inv, TypeOK
<1>4. QED
  BY <1>1, <1>2, <1>3, FinishStep

(* The description survives, field by field, by RecordOfCall.              *)
LEMMA SentRecord ==
  ASSUME Inv, NEW q \in request, NEW c \in from
  PROVE  c \in Calls /\ Record(q) = RecordFor(c)
<1>1. c \in Calls
  BY OptionalCases DEF Inv, TypeOK
<1>2. QED
  BY <1>1, RecordOfCall DEF Inv, SentAsCalled

LEMMA RegisterStep == ASSUME Inv, NEW q \in request, Register(q) PROVE Inv'
<1>1. /\ Finish(q, "Created")
      /\ files' = files \cup {[record |-> Record(q), from |-> from]}
  BY DEF Register
<1>2. KeysOfCalls' /\ RegisteredAsDescribed'
  <2>1. SUFFICES ASSUME NEW e \in files', NEW c \in e.from
                 PROVE  /\ \A field \in DOMAIN Described(c) :
                             e.record[field] = Described(c)[field]
                        /\ e.record.path = CallKey(c)
                        /\ Inside(e.record.path, c.metadata.path)
    BY DEF KeysOfCalls, RegisteredAsDescribed
  <2>2. CASE e \in files
    BY <2>2 DEF Inv, KeysOfCalls, RegisteredAsDescribed
  <2>3. CASE e = [record |-> Record(q), from |-> from]
    <3>1. c \in Calls /\ e.record = RecordFor(c)
      BY <2>3, SentRecord
    <3>2. QED
      BY <3>1, RecordIsDescribed
  <2>4. QED
    BY <1>1, <2>2, <2>3
<1>3. PathsDoNotCollide'
  BY <1>1 DEF Finish, PathsDoNotCollide
<1>4. files' \subseteq [record : RecordType, from : Optional(Calls)]
  <2>1. q \in Request
    BY ServedType
  <2>2. Record(q) \in RecordType
    BY <2>1, RecordIsTyped
  <2>3. QED
    BY <1>1, <2>2 DEF Inv, TypeOK
<1>5. QED
  BY <1>1, <1>2, <1>3, <1>4, FinishStep

(* A conflict means that the two keys are one, so the paths are.           *)
LEMMA ConflictStep == ASSUME Inv, NEW q \in request, Conflict(q) PROVE Inv'
<1>1. /\ Finish(q, "DuplicateFile") /\ files' = files /\ Taken(Record(q).path)
  BY DEF Conflict
<1>2. KeysOfCalls' /\ RegisteredAsDescribed'
  BY <1>1 DEF Inv, KeysOfCalls, RegisteredAsDescribed
<1>3. PathsDoNotCollide'
  <2>1. PICK e \in files : e.record.path = Record(q).path
    BY <1>1 DEF Taken
  <2>2. ASSUME NEW c \in from
        PROVE  c \in Calls /\ Record(q).path = CallKey(c)
    BY SentRecord, RecordIsDescribed
  <2>3. ASSUME NEW c \in from, NEW f \in files, f.record.path = CallKey(c),
               NEW d \in f.from
        PROVE  d.metadata.path = c.metadata.path
    <3>1. d \in Calls /\ CallKey(d) = CallKey(c)
      BY <2>3, OptionalCases DEF Inv, TypeOK, KeysOfCalls
    <3>2. c.metadata.path \in Paths /\ d.metadata.path \in Paths
      BY <2>2, <3>1, CallType DEF Metadata
    <3>3. d.metadata.path \o Base(d.metadata.path) = c.metadata.path \o Base(c.metadata.path)
      BY <3>1 DEF CallKey, Key
    <3>4. QED
      BY <3>2, <3>3, KeyInjective
  <2>4. QED
    BY <1>1, <2>1, <2>2, <2>3 DEF Finish, PathsDoNotCollide
<1>4. files' \subseteq [record : RecordType, from : Optional(Calls)]
  BY <1>1 DEF Inv, TypeOK
<1>5. QED
  BY <1>1, <1>2, <1>3, <1>4, FinishStep

LEMMA InvStep == Inv /\ [Next]_vars => Inv'
<1> SUFFICES ASSUME Inv, [Next]_vars PROVE Inv'
  OBVIOUS
<1>1. ASSUME NEW c \in Calls, Call(c) PROVE Inv'
  BY <1>1, CallStep
<1>2. ASSUME NEW s \in Submissions, Submit(s) PROVE Inv'
  BY <1>2, SubmitStep
<1>3. ASSUME NEW q \in request, Refuse(q) PROVE Inv'
  BY <1>3, RefuseStep
<1>4. ASSUME NEW q \in request, StorePart(q) PROVE Inv'
  BY <1>4, StorePartStep
<1>5. ASSUME NEW q \in request, Register(q) PROVE Inv'
  BY <1>5, RegisterStep
<1>6. ASSUME NEW q \in request, Conflict(q) PROVE Inv'
  BY <1>6, ConflictStep
<1>7. CASE UNCHANGED vars
  BY <1>7 DEF vars, Inv, TypeOK, SentAsCalled, KeysOfCalls, RegisteredAsDescribed,
              PathsDoNotCollide, NothingNilIsDereferenced, PartIsTheOneAsked
<1>8. QED
  BY <1>1, <1>2, <1>3, <1>4, <1>5, <1>6, <1>7 DEF Next

(* Inv is an invariant of every execution.                                 *)
THEOREM InvCorrect == Spec => []Inv
<1>1. QED
  BY InvInit, InvStep, PTL DEF Spec

(* What CreateV1UploadHandler is sent, registers and stores keeps its type.*)
THEOREM TypeCorrect == Spec => []TypeOK
<1>1. Inv => TypeOK
  BY DEF Inv
<1>2. QED
  BY <1>1, InvCorrect, PTL

(* Whatever a caller of the SDK describes, writeMetadataFormFields and the *)
(* handler's decoding give to the Files API as it was said.                *)
THEOREM RegisteredAsDescribedCorrect == Spec => []RegisteredAsDescribed
<1>1. Inv => RegisteredAsDescribed
  BY DEF Inv
<1>2. QED
  BY <1>1, InvCorrect, PTL

(* The keys Path/Base(Path) of different paths are different, so that no   *)
(* call is refused for the sake of another path's file.                    *)
THEOREM PathsDoNotCollideCorrect == Spec => []PathsDoNotCollide
<1>1. Inv => PathsDoNotCollide
  BY DEF Inv
<1>2. QED
  BY <1>1, InvCorrect, PTL

(* Validation leaves getStoreMetadata no nil pointer to dereference.       *)
THEOREM NothingNilCorrect == Spec => []NothingNilIsDereferenced
<1>1. Inv => NothingNilIsDereferenced
  BY DEF Inv
<1>2. QED
  BY <1>1, InvCorrect, PTL

(* The part number that S3 is given is the one of the form, for every      *)
(* width of the integers.                                                  *)
THEOREM PartIsTheOneAskedCorrect == Spec => []PartIsTheOneAsked
<1>1. Inv => PartIsTheOneAsked
  BY DEF Inv
<1>2. QED
  BY <1>1, InvCorrect, PTL

=============================================================================
