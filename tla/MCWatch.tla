------------------------------- MODULE MCWatch -------------------------------
(***************************************************************************)
(* The tree of MCHeal under watch.                                         *)
(***************************************************************************)
EXTENDS Watch, TLC

CONSTANTS a, d, g, x, y, hx, hy, ht

MCPath   == {a, d, g}
MCAbove  == (a :> {}) @@ (d :> {}) @@ (g :> {d})
MCHashId == {hx, hy, ht, CutHash}
MCHash   == (x :> hx) @@ (y :> hy) @@ (Torn :> ht)

(* Outside stands a tree of the same shape, or a file where the target has  *)
(* the directory.                                                           *)
MCOutsides == {(a :> y) @@ (d :> Dir) @@ (g :> y), (a :> y) @@ (d :> y) @@ (g :> NoFile)}

AnyNode    == {x, NoFile, Dir, Link}
=============================================================================
