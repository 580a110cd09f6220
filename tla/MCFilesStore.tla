--------------------------- MODULE MCFilesStore ---------------------------
(* Instances of FilesStore for TLC: uploads with their paths and sizes.    *)
EXTENDS FilesStore, TLC

CONSTANTS h1, h2, r1, u1, u2, p1

(* Two uploads of one path, the first in two chunks, the second in one.    *)
RacePathOf == (u1 :> p1) @@ (u2 :> p1)
RaceTotals == (u1 :> 2) @@ (u2 :> 1)

(* Chunks numbered from 1 to the total, and one beyond it: 2 of 1.         *)
RaceNumbers  == (u1 :> {1, 2}) @@ (u2 :> {1})
WrongNumbers == (u1 :> {1, 2}) @@ (u2 :> {2})

(* Two uploads of one path, two chunks each.                               *)
MixTotals  == (u1 :> 2) @@ (u2 :> 2)
MixNumbers == (u1 :> {1, 2}) @@ (u2 :> {1, 2})

(* Two uploads of one path, one chunk each.                                *)
SingleTotals  == (u1 :> 1) @@ (u2 :> 1)
SingleNumbers == (u1 :> {1}) @@ (u2 :> {1})

Symmetry == Permutations(Handlers)

=============================================================================
