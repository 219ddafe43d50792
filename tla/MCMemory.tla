------------------------------- MODULE MCMemory -------------------------------
(***************************************************************************)
(* Two fields suffice to lose one while the other is written, two writers  *)
(* and two files to come between the files of a folder.                    *)
(***************************************************************************)
EXTENDS MemoryPromise, TLC

CONSTANTS w1, w2, f1, f2, k1, k2, tags, note, x, y

OwnKeys  == (f1 :> k1) @@ (f2 :> k2)
Folders  == {{f1, f2}}
Offers   == {<<tags, x>>, <<note, y>>}
MCBefore == (tags :> {}) @@ (note :> {tags})
XIsNote  == [v \in Value \union {Default} |-> IF v = x THEN {note} ELSE {}]
Mirror   == (f1 :> f2) @@ (f2 :> f1) @@ (k1 :> k2) @@ (k2 :> k1)
Symmetry == {p @@ q : p \in Permutations(Writer), q \in {Mirror, [f \in {f1} |-> f1]}}
=============================================================================
