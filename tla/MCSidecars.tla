----------------------------- MODULE MCSidecars -----------------------------
(***************************************************************************)
(* One or two files in the directory, two contents, one tag.               *)
(***************************************************************************)
EXTENDS Sidecars, TLC

CONSTANTS a, b, x, y, hx, hy, hp, g

MCHash   == (x :> hx) @@ (y :> hy) @@ (Partial :> hp)
Buttons  == {<<"scan", "bind", "scan">>, <<"file">>}
Shell    == {<<"scan">>, <<"bind">>, <<"file">>}
ByHand   == {<<"file">>}
Typed    == {<<"file">>, <<"scan">>}
Symmetry == Permutations(Asset)
=============================================================================
