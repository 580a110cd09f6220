----------------------------- MODULE MCUploader -----------------------------
(* Instances of Uploader for TLC.                                          *)
EXTENDS Uploader, TLC

CONSTANTS u1, u2, u3, i1, i2

(* An upload, another one of the same file, and one of another file.       *)
MixedIdentifiers == (u1 :> i1) @@ (u2 :> i1) @@ (u3 :> i2)
MixedTotals == (u1 :> 2) @@ (u2 :> 2) @@ (u3 :> 1)
MixedClienteles == {{u1, u2}, {u1, u3}}

=============================================================================
