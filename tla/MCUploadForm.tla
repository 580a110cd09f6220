---------------------------- MODULE MCUploadForm ----------------------------
(* An instance of UploadForm for TLC: descriptions that differ from a      *)
(* plain one in each field, small integers.                                *)
EXTENDS UploadForm

Plain ==
  [path |-> <<"a", "b">>, isPublishable |-> {TRUE}, collectionId |-> {},
   bundleId |-> {}, title |-> "", size |-> 1, licence |-> "text",
   item |-> [datasetId |-> "", edition |-> "", version |-> ""]]

(* Paths whose keys share segments; slashes at both ends; none but slashes;*)
(* the empty path; one that the validator refuses.                         *)
SomePaths == {<<"a">>, <<"a", "a">>, <<"a", "b">>, <<"a", "b", "">>, <<"", "a">>,
              <<"b">>, <<"", "">>, <<"", "", "">>, NoText, <<"a", "?">>}

(* One field of the plain description changed, or all three ids.           *)
Metadatas ==
  {[Plain EXCEPT !.path = p] : p \in SomePaths}
  \cup {[Plain EXCEPT !.isPublishable = o] : o \in {{}, {FALSE}}}
  \cup {[Plain EXCEPT !.collectionId = o, !.bundleId = p] :
          o \in {{}, {""}, {"text"}}, p \in {{}, {"text"}}}
  \cup {[Plain EXCEPT !.title = "text"], [Plain EXCEPT !.licence = ""]}
  \cup {[Plain EXCEPT !.size = n] : n \in {-1, 0, 2, 3}}
  \cup {[Plain EXCEPT !.item = i] : i \in Items}

SdkCalls == {[metadata |-> m, token |-> t] : m \in Metadatas, t \in {"", "text"}}

(* Other clients leave fields out, send numbers that do not fit, or a      *)
(* token without its prefix.                                               *)
PlainForm == FormOf(Plain)

Forms ==
  {PlainForm, [PlainForm EXCEPT !.path = {}], [PlainForm EXCEPT !.isPublishable = {}],
   [PlainForm EXCEPT !.file = FALSE], [PlainForm EXCEPT !.licence = {}],
   [PlainForm EXCEPT !.filename = {}], [PlainForm EXCEPT !.title = {}]}
  \cup {[PlainForm EXCEPT !.size = o] : o \in {{}, {-1}, {7}, {8}}}
  \cup {[PlainForm EXCEPT !.chunk = o] : o \in {{}, {3}, {4}, {5}, {8}, {-4}, {-5}}}
  \cup {[PlainForm EXCEPT !.total = o] : o \in {{}, {2}, {8}}}

SomeForms == {[form |-> f, header |-> h] : f \in Forms,
              h \in {{}, {[bearer |-> FALSE, token |-> "text"]}}}

AllSegments == {"", ".", "a", "b", "?"}
AllowedSegments == {"", ".", "a", "b"}

=============================================================================
