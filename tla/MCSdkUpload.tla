---------------------------- MODULE MCSdkUpload ----------------------------
(* Instances of SdkUpload for TLC: chunks of two bytes.                    *)
EXTENDS SdkUpload, TLC

CONSTANTS h1, h2, u1, u2, u3, p1, p2

(* Two uploads of one path, a third too large for any.                     *)
SharedPath == (u1 :> p1) @@ (u2 :> p1) @@ (u3 :> p2)
OnePath == u1 :> p1

(* A chunk and a half; just one chunk, declared of a file that falls short *)
(* of it; one more byte than two chunks hold.                              *)
Sizes == (u1 :> 3) @@ (u2 :> 2) @@ (u3 :> 5)
Contents == (u1 :> 3) @@ (u2 :> 1) @@ (u3 :> 5)

(* Only the first upload is called again.                                  *)
Calls == (u1 :> 2) @@ (u2 :> 1) @@ (u3 :> 1)

OneSize == u1 :> 3
TwoCalls == u1 :> 2

Symmetry == Permutations(Handlers)

=============================================================================
