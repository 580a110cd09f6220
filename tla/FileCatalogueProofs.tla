------------------------ MODULE FileCatalogueProofs ------------------------
(***************************************************************************)
(* Proofs about FileCatalogue, for every set of paths, uploads and objects.*)
(* The modules that implement the catalogue inherit what is proved here.   *)
(***************************************************************************)
EXTENDS FileCatalogue, TLAPS

CatalogueInv == TypeOK /\ EntriesAreBacked

(* A step of the catalogue, and what it leaves alone.                      *)
LEMMA PathSteps ==
  ASSUME TypeOK, [Next]_<<catalogue, stored>>, NEW p \in Paths
  PROVE  \/ /\ catalogue'[p] = catalogue[p]
            /\ stored[p] \subseteq stored'[p]
         \/ /\ stored'[p] = stored[p]
            /\ catalogue[p].state = "NONE" /\ stored[p] # {}
            /\ \E u \in Uploads :
                 catalogue'[p] = [state |-> "CREATED", by |-> u, etag |-> Blank]
         \/ /\ stored'[p] = stored[p]
            /\ catalogue[p].state = "CREATED"
            /\ \E obj \in stored[p] :
                 catalogue'[p] = [state |-> "UPLOADED", by |-> catalogue[p].by,
                                  etag |-> obj]
<1> USE DEF TypeOK
<1>1. CASE UNCHANGED <<catalogue, stored>>
  BY <1>1
<1>2. ASSUME NEW q \in Paths, Store(q)
      PROVE  catalogue'[p] = catalogue[p] /\ stored[p] \subseteq stored'[p]
  BY <1>2 DEF Store
<1>3. ASSUME NEW q \in Paths, Enter(q)
      PROVE  /\ stored'[p] = stored[p]
             /\ \/ catalogue'[p] = catalogue[p]
                \/ /\ catalogue[p].state = "NONE" /\ stored[p] # {}
                   /\ \E u \in Uploads : catalogue'[p] =
                        [state |-> "CREATED", by |-> u, etag |-> Blank]
  BY <1>3 DEF Enter
<1>4. ASSUME NEW q \in Paths, Complete(q)
      PROVE  /\ stored'[p] = stored[p]
             /\ \/ catalogue'[p] = catalogue[p]
                \/ /\ catalogue[p].state = "CREATED"
                   /\ \E obj \in stored[p] : catalogue'[p] =
                        [state |-> "UPLOADED", by |-> catalogue[p].by, etag |-> obj]
  BY <1>4 DEF Complete
<1>5. QED
  BY <1>1, <1>2, <1>3, <1>4 DEF Next

LEMMA TypeStep ==
  ASSUME TypeOK, EntriesAreBacked, [Next]_<<catalogue, stored>>
  PROVE  TypeOK'
<1> USE DEF TypeOK
<1>1. CASE UNCHANGED <<catalogue, stored>>
  BY <1>1
<1>2. ASSUME NEW q \in Paths, Store(q) PROVE TypeOK'
  BY <1>2 DEF Store
<1>3. ASSUME NEW q \in Paths, Enter(q) PROVE TypeOK'
  BY <1>3 DEF Enter
<1>4. ASSUME NEW q \in Paths, Complete(q) PROVE TypeOK'
  BY <1>4 DEF Complete
<1>5. QED
  BY <1>1, <1>2, <1>3, <1>4 DEF Next

LEMMA InvStep ==
  ASSUME CatalogueInv, [Next]_<<catalogue, stored>>
  PROVE  CatalogueInv'
<1>1. TypeOK'
  BY TypeStep DEF CatalogueInv
<1>2. EntriesAreBacked'
  <2> SUFFICES ASSUME NEW p \in Paths
               PROVE  /\ catalogue'[p].state # "NONE" =>
                           stored'[p] # {} /\ catalogue'[p].by \in Uploads
                      /\ catalogue'[p].state = "UPLOADED" =>
                           catalogue'[p].etag \in stored'[p]
    BY DEF EntriesAreBacked
  <2>1. /\ catalogue[p].state # "NONE" =>
             stored[p] # {} /\ catalogue[p].by \in Uploads
        /\ catalogue[p].state = "UPLOADED" => catalogue[p].etag \in stored[p]
    BY DEF CatalogueInv, EntriesAreBacked
  <2>2. TypeOK
    BY DEF CatalogueInv
  <2>3. CASE catalogue'[p] = catalogue[p] /\ stored[p] \subseteq stored'[p]
    BY <2>1, <2>3
  <2>4. ASSUME stored[p] # {}, stored'[p] = stored[p], NEW u \in Uploads,
               catalogue'[p] = [state |-> "CREATED", by |-> u, etag |-> Blank]
        PROVE  /\ stored'[p] # {} /\ catalogue'[p].by \in Uploads
               /\ catalogue'[p].state # "UPLOADED"
    BY <2>4
  <2>5. ASSUME catalogue[p].state = "CREATED", stored'[p] = stored[p],
               NEW obj \in stored[p],
               catalogue'[p] = [state |-> "UPLOADED", by |-> catalogue[p].by,
                                etag |-> obj]
        PROVE  /\ stored'[p] # {} /\ catalogue'[p].by \in Uploads
               /\ catalogue'[p].etag \in stored'[p]
    BY <2>1, <2>5
  <2>6. QED
    BY <2>2, <2>3, <2>4, <2>5, PathSteps
<1>3. QED
  BY <1>1, <1>2 DEF CatalogueInv

LEMMA InitInv == Init => CatalogueInv
BY DEF Init, CatalogueInv, TypeOK, EntriesAreBacked

LEMMA TakesNothingBack ==
  ASSUME TypeOK, [Next]_<<catalogue, stored>>, NEW p \in Paths
  PROVE  /\ stored[p] \subseteq stored'[p]
         /\ catalogue[p].state # "NONE" =>
              /\ catalogue'[p].state # "NONE"
              /\ catalogue'[p].by = catalogue[p].by
         /\ catalogue[p].state = "UPLOADED" => catalogue'[p] = catalogue[p]
<1>1. ASSUME NEW u, catalogue'[p] = [state |-> "CREATED", by |-> u, etag |-> Blank]
      PROVE  catalogue'[p].state = "CREATED"
  BY <1>1
<1>2. ASSUME NEW obj,
             catalogue'[p] = [state |-> "UPLOADED", by |-> catalogue[p].by, etag |-> obj]
      PROVE  catalogue'[p].state = "UPLOADED" /\ catalogue'[p].by = catalogue[p].by
  BY <1>2
<1>3. QED
  BY <1>1, <1>2, PathSteps

(* The catalogue keeps its types and lists nothing that is not stored.     *)
THEOREM CatalogueInvCorrect == Spec => []CatalogueInv
BY InitInv, InvStep, PTL DEF Spec

(* Entries and objects stay, and a completed entry never changes.          *)
THEOREM NothingIsTakenBackCorrect == Spec => NothingIsTakenBack
<1>1. CatalogueInv /\ [Next]_<<catalogue, stored>> =>
        [\A p \in Paths :
           /\ stored[p] \subseteq stored'[p]
           /\ catalogue[p].state # "NONE" =>
                /\ catalogue'[p].state # "NONE"
                /\ catalogue'[p].by = catalogue[p].by
           /\ catalogue[p].state = "UPLOADED" => catalogue'[p] = catalogue[p]
        ]_<<catalogue, stored>>
  BY TakesNothingBack DEF CatalogueInv
<1>2. QED
  BY <1>1, CatalogueInvCorrect, PTL DEF Spec, NothingIsTakenBack

=============================================================================
