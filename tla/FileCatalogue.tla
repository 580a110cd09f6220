---------------------------- MODULE FileCatalogue ----------------------------
(***************************************************************************)
(* What /upload-new promises about files, with nothing of how: a catalogue *)
(* of paths beside a store of objects.  A path is entered once, by one     *)
(* upload, after an object was stored for it; the entry is completed once, *)
(* with the digest of an object that was stored for it; nothing is ever    *)
(* taken back.  FilesStore implements it.                                  *)
(***************************************************************************)
CONSTANTS
  Paths,
  Uploads,
  Objects,        (* contents; an object's digest stands for the object   *)
  Blank,          (* the content that is none                             *)
  NoPart

VARIABLES
  catalogue,      (* the Files API's record of each path                  *)
  stored          (* the objects stored so far for each path              *)

Init ==
  /\ catalogue = [p \in Paths |-> [state |-> "NONE", by |-> NoPart,
                                   etag |-> Blank]]
  /\ stored = [p \in Paths |-> {}]

Store(p) ==
  /\ \E obj \in Objects \ {Blank} :
       stored' = [stored EXCEPT ![p] = @ \cup {obj}]
  /\ UNCHANGED catalogue

Enter(p) ==
  /\ catalogue[p].state = "NONE"
  /\ stored[p] # {}
  /\ \E u \in Uploads :
       catalogue' = [catalogue EXCEPT ![p] =
                       [state |-> "CREATED", by |-> u, etag |-> Blank]]
  /\ UNCHANGED stored

Complete(p) ==
  /\ catalogue[p].state = "CREATED"
  /\ \E obj \in stored[p] :
       catalogue' = [catalogue EXCEPT ![p] =
                       [state |-> "UPLOADED", by |-> catalogue[p].by, etag |-> obj]]
  /\ UNCHANGED stored

Next == \E p \in Paths : Store(p) \/ Enter(p) \/ Complete(p)

Spec == Init /\ [][Next]_<<catalogue, stored>>

-----------------------------------------------------------------------------
(* What whoever implements the catalogue inherits.                         *)

TypeOK ==
  /\ catalogue \in [Paths -> [state : {"NONE", "CREATED", "UPLOADED"},
                             by : Uploads \cup {NoPart},
                             etag : Objects \cup {Blank}]]
  /\ stored \in [Paths -> SUBSET (Objects \ {Blank})]

(* A path is listed only once there is something to list: the entry names  *)
(* the upload that made it and, once completed, an object stored for it.   *)
EntriesAreBacked ==
  \A p \in Paths :
    /\ catalogue[p].state # "NONE" =>
         stored[p] # {} /\ catalogue[p].by \in Uploads
    /\ catalogue[p].state = "UPLOADED" => catalogue[p].etag \in stored[p]

(* Nothing is taken back: an entry stays and stays with its upload, also   *)
(* when others complete objects at its path; once it is completed nobody   *)
(* changes it any more; and what was stored remains recorded as stored.    *)
NothingIsTakenBack ==
  [][\A p \in Paths :
       /\ stored[p] \subseteq stored'[p]
       /\ catalogue[p].state # "NONE" =>
            /\ catalogue'[p].state # "NONE"
            /\ catalogue'[p].by = catalogue[p].by
       /\ catalogue[p].state = "UPLOADED" => catalogue'[p] = catalogue[p]
    ]_<<catalogue, stored>>

=============================================================================
