------------------------------- MODULE MCTexts -------------------------------
(***************************************************************************)
(* Nesting, numbers and strings have alphabets of their own; texts of up to *)
(* five characters pass the end of a buffer of ten.                         *)
(***************************************************************************)
EXTENDS Texts

Single(C) == {<<c>> : c \in C}
Nesting   == Single({"{", "}", "[", "]", ",", ":", "@", " "}) \union {<<Quote, Quote>>}
Numbers   == Single({"0", "1", "-", ".", "e", "+"})
InStrings == Single({Quote, Slash, "a", "u", "\n", " "})
Given     == Single({Quote, Slash, "a", "N", "|", " ", "\n", "\f"})
InNames   == Single({"a", "7", " ", "\t", "\n", "\r"})

Saved(start, pieces, more) == [use |-> "saved", start |-> start, pieces |-> pieces, more |-> more]

Cases ==
    {Saved(<<>>, Nesting, 5), Saved(<<"[", "0">>, Nesting, 5), Saved(<<"[", "[">>, Nesting, 5),
     Saved(<<"{", Quote, Quote>>, Nesting, 5), Saved(<<"{", Quote, Quote, ":", "0">>, Nesting, 6),
     Saved(<<>>, Numbers, 6), Saved(<<Quote>>, InStrings, 6)}
    \union {[use |-> k, start |-> <<>>, pieces |-> Given, more |-> 5] : k \in Field}
    \union {[use |-> "name", start |-> <<>>, pieces |-> InNames, more |-> 5]}
=============================================================================
