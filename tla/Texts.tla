-------------------------------- MODULE Texts --------------------------------
(***************************************************************************)
(* JsonText and ManifestText on every text of a bounded length.  A state is *)
(* one input: a text the user saved with `edit`, gave to an annotation, or  *)
(* chose for a file's name; a step makes it longer by a piece.              *)
(***************************************************************************)
EXTENDS JsonText

M == INSTANCE ManifestText

CONSTANT
    Case        \* what a text is for, how it starts, the pieces it is made of
                \* and how many: [use, start, pieces, more]

ASSUME TextsAssumption == Size \in Nat \ {0}

VARIABLES text, case, length

vars == <<text, case, length>>

Init == /\ case \in Case
        /\ text = case.start
        /\ length = 0

Next == /\ length < case.more
        /\ \E piece \in case.pieces : text' = text \o piece
        /\ length' = length + 1
        /\ UNCHANGED case

Spec == Init /\ [][Next]_vars

-----------------------------------------------------------------------------
(* What an annotation makes of a document. *)

Field     == {"T", "N", "S", "C"}      \* tags, note, summary, custom
Before(k) == CASE k = "T" -> {} [] k = "N" -> {"T"} [] k = "S" -> {"T", "N"}
               [] k = "C" -> {"T", "N", "S"}

Defaults == [k \in Field |-> CASE k = "T" -> <<"[", "]">> [] k = "C" -> <<"{", "}">>
                               [] OTHER -> <<Quote, Quote>>]
Earlier  == [Defaults EXCEPT !["T"] = ValuesArray(<<"a">>), !["S"] = Quoted(<<"a">>)]

SizeOf(k) == IF k = "C" THEN 2 * Size ELSE Size
Name      == <<"f">>                    \* the member that `custom` sets

Value(k) == CASE k = "T" -> ValuesArray(text)
              [] k = "C" -> CustomObject(Name, text)
              [] OTHER -> Quoted(text)
Annotated(k) == [Earlier EXCEPT ![k] = Cut(Value(k), SizeOf(k))]

(* Nothing was cut off. *)
Fits(k) == /\ Len(Value(k)) < SizeOf(k)
           /\ k = "C" => Len(ValuesArray(text)) < Size

(* What the user said. *)
Said(k) == CASE k = "T" -> Words(text)
             [] k = "C" -> <<Name>> \o Words(text)
             [] OTHER -> <<text>>

Written == case.use \in Field

-----------------------------------------------------------------------------
(* A document saved by hand counts as JSON exactly if it is JSON, but for    *)
(* \v and \f as white space and for anything after a backslash in a string   *)
(* (parse_value).                                                            *)
JsonTold == case.use = "saved" => (Parses(text) <=> IsJson(text))

(* push takes a document an annotation wrote exactly if no value was longer  *)
(* than its buffer: one that was cut is refused, never indexed as something  *)
(* else.  What is taken says what the user said, and the next annotation     *)
(* finds every field as it was, unless an earlier value spells its quoted    *)
(* name: then that field is empty (update_memory_file, extract_json_field).  *)
WrittenTold ==
    Written =>
        LET k == case.use  doc == Annotated(k)  buf == Document(doc) IN
        /\ ValidDoc(buf) <=> Fits(k)
        /\ ValidDoc(buf) =>
            /\ Strings(doc[k]) = Said(k)
            /\ \A f \in Field :
                 LET hidden == \E g \in Before(f) : <<f>> \in {Strings(doc[g])[i] :
                                                        i \in DOMAIN Strings(doc[g])} IN
                 Extract(buf, f, SizeOf(f), Defaults[f]) =
                     IF hidden THEN Defaults[f] ELSE doc[f]

(* The row push makes of a document is JSON, is one line unless the user     *)
(* saved a newline behind a backslash, and says what the document says       *)
(* (write_compact_jsonl).                                                    *)
RowTold ==
    LET doc == IF Written THEN Document(Annotated(case.use)) ELSE text
        row == Row(doc) IN
    case.use # "name" /\ Parses(doc) =>
        /\ Parses(row) /\ Strings(row) = Strings(doc)
        /\ (\E i \in DOMAIN row : row[i] = "\n") =>
           \E i \in DOMAIN doc : doc[i] = Slash /\ At(doc, i + 1) = "\n"

(* However many bytes of a manifest reached the disk, it loads as the rows   *)
(* that are complete, and perhaps one more whose digest is short, or not at  *)
(* all: no row is ever read for a path that was not sealed, if no path holds *)
(* a tab or a newline (seal_file, ivault_manifest_load).                     *)
ManifestTold ==
    case.use = "name" /\ text # <<>> /\ {text[i] : i \in DOMAIN text} \cap {"\t", "\n"} = {} =>
        LET names == <<text, <<"a">>>>
            bytes == M!Heading \o M!Printed(names[1]) \o M!Printed(names[2])
            row(i, hash) == [path |-> names[i], size |-> M!Number, inode |-> M!Number,
                             mtime |-> M!Number, hash |-> hash]
            rows(n) == [i \in 1 .. n |-> row(i, M!Digest)] IN
        /\ M!ManifestLoad(bytes) = [ok |-> TRUE, rows |-> rows(2)]
        /\ \A end \in 0 .. Len(bytes) :
             LET loaded == M!ManifestLoad(SubSeq(bytes, 1, end)) IN
             loaded.ok =>
                \/ loaded.rows \in {rows(n) : n \in 0 .. 2}
                \/ \E n \in 0 .. 1 : loaded.rows = Append(rows(n), row(n + 1, <<Head(M!Digest)>>))

(* Two statements the code does not keep (README, section 3).               *)

(* README: "Bad JSON is rejected. Not hidden."  RFC 8259 has no newline in a *)
(* string and few characters behind a backslash.                             *)
BadJsonRejected ==
    Parses(text) => ~\E i \in DOMAIN text : text[i] = Slash /\ At(text, i + 1) \in {"a", "\n"}

(* Any name a file can have is sealed under that name.                       *)
AnyNameSealed ==
    case.use = "name" /\ text # <<>> =>
        LET loaded == M!ManifestLoad(M!Heading \o M!Printed(text)) IN
        loaded.ok => loaded.rows[1].path = text
=============================================================================
