------------------------------ MODULE MCIVault -------------------------------
(***************************************************************************)
(* Two processes over a target with two files.                             *)
(***************************************************************************)
EXTENDS IVault, TLC

CONSTANTS f, g, x, y, hx, hy, ht, sx, sy, st, r1, r2

MCHashId == {hx, hy, ht, CutHash}
MCHash   == (x :> hx) @@ (y :> hy) @@ (Torn :> ht)
MCSizeOf == (x :> sx) @@ (y :> sy) @@ (Torn :> st)

(* x and y, with their digests and sizes, are interchangeable, and so are   *)
(* the paths and the processes.                                             *)
SwapContent == (x :> y) @@ (y :> x) @@ (hx :> hy) @@ (hy :> hx) @@ (sx :> sy) @@ (sy :> sx)
Symmetry == {i @@ j @@ k : i \in Permutations(Path), j \in Permutations(Proc),
                           k \in {SwapContent, [c \in DOMAIN SwapContent |-> c]}}
=============================================================================
