---------------------------- MODULE ManifestText ----------------------------
(***************************************************************************)
(* manifest.tsv, character by character: the rows a seal prints and what a  *)
(* later command reads back, also when the file was cut short.  "F" stands  *)
(* for the kind FILE, "K" for the heading kind, digits for numbers.         *)
(***************************************************************************)
EXTENDS Naturals, Sequences, FiniteSets

Heading == <<"K", "\t", "r", "\n">>
Number  == <<"7">>
Digest  == <<"h", "i">>

(* The row the seal prints for a path. *)
Printed(path) == <<"F", "\t">> \o path \o <<"\t">> \o Number \o <<"\t">> \o Number
                     \o <<"\t">> \o Number \o <<"\t">> \o Digest \o <<"\n">>

(* The first place from p on where a character of C stands, or none of C     *)
(* does; or one behind the end.                                             *)
Until(s, p, C) == CHOOSE q \in p .. Len(s) + 1 : /\ q = Len(s) + 1 \/ s[q] \in C
                                                 /\ \A r \in p .. q - 1 : s[r] \notin C
Past(s, p, C)  == CHOOSE q \in p .. Len(s) + 1 : /\ q = Len(s) + 1 \/ s[q] \notin C
                                                 /\ \A r \in p .. q - 1 : s[r] \in C

(* strtok: delimiters before a token are skipped, however many. *)
Token(s, p, delims) ==
    LET start == Past(s, p, delims)
        end   == Until(s, start, delims) IN
    [text |-> SubSeq(s, start, end - 1), next |-> IF end > Len(s) THEN end ELSE end + 1]

Tokens(line) ==
    LET tok[i \in 1 .. 6] ==
            Token(line, IF i = 1 THEN 1 ELSE tok[i - 1].next,
                  IF i = 6 THEN {"\t", "\r", "\n"} ELSE {"\t"}) IN
    [i \in 1 .. 6 |-> tok[i].text]

(* atoll: the digits a token begins with; "0" if there are none. *)
Atoll(t) == LET end == Past(t, 1, {"7"}) IN
            IF end = 1 THEN <<"0">> ELSE SubSeq(t, 1, end - 1)

RowOf(t)   == [path |-> t[2], size |-> Atoll(t[3]), inode |-> Atoll(t[4]),
               mtime |-> Atoll(t[5]), hash |-> t[6]]

(* Defect: a row without a digest is a row. *)
IncompletePath(t) == t[1] = <<>> \/ t[2] = <<>>

Incomplete(t) == \E i \in 1 .. 6 : t[i] = <<>>

(* The rows from place p on and whether all could be read; fgets returns a   *)
(* line with its newline.                                                   *)
RECURSIVE RowsFrom(_, _)
RowsFrom(s, p) ==
    LET end  == Until(s, p, {"\n"})
        line == SubSeq(s, p, IF end > Len(s) THEN Len(s) ELSE end)
        t    == Tokens(line)
        rest == RowsFrom(s, end + 1) IN
    IF p > Len(s) THEN [ok |-> TRUE, rows |-> <<>>]
    ELSE IF p = 1 /\ Len(line) > 1 /\ SubSeq(line, 1, 2) = <<"K", "\t">> THEN rest
    ELSE IF Incomplete(t) THEN [ok |-> FALSE, rows |-> <<>>]
    ELSE IF t[1] # <<"F">> THEN rest
    ELSE [rest EXCEPT !.rows = <<RowOf(t)>> \o @]

(* ivault_manifest_load *)
ManifestLoad(s) == RowsFrom(s, 1)

=============================================================================
