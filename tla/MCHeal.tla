------------------------------- MODULE MCHeal -------------------------------
(***************************************************************************)
(* A tree with a file a, a directory d and a file g in it.                 *)
(***************************************************************************)
EXTENDS Heal, TLC

CONSTANTS a, d, g, x, y, hx, hy, ht

MCPath   == {a, d, g}
MCAbove  == (a :> {}) @@ (d :> {}) @@ (g :> {d})
MCHashId == {hx, hy, ht, CutHash}
MCHash   == (x :> hx) @@ (y :> hy) @@ (Torn :> ht)

Files      == {x, NoFile}
(* Outside stands a tree of the same shape; a file in the place of the     *)
(* directory there is left to MCWatch.                                     *)
MCOutsides == {(a :> y) @@ (d :> Dir) @@ (g :> y)}

AnyNode    == {x, y, NoFile, Dir, Link}
=============================================================================
