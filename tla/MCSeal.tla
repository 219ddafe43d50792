------------------------------- MODULE MCSeal -------------------------------
(***************************************************************************)
(* Small instances of Seal, and of the promise it keeps.                   *)
(***************************************************************************)
EXTENDS SealPromise, TLC

CONSTANTS a, b, t, x, y, hx, hy, ht

MCHashId == {hx, hy, ht, CutHash}
MCHash   == (x :> hx) @@ (y :> hy) @@ (Torn :> ht)

(* Files with ordinary names are interchangeable, and so are x and y with   *)
(* their digests.                                                           *)
SwapContent == (x :> y) @@ (y :> x) @@ (hx :> hy) @@ (hy :> hx)
Symmetry == {i @@ j : i \in Permutations(Path \ Skipped),
                      j \in {SwapContent, [c \in DOMAIN SwapContent |-> c]}}
=============================================================================
