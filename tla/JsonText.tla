------------------------------ MODULE JsonText ------------------------------
(***************************************************************************)
(* The JSON that the memory of ivault reads and writes, character by       *)
(* character: this is where a document the user wrote is told from one that *)
(* is refused.  A text is a sequence of one-character strings.  "0" and "1" *)
(* stand for a zero and another digit, "@" for true, false and null, "\f"   *)
(* for a control character without an escape of its own, and the name of a  *)
(* field is one letter.                                                     *)
(*                                                                         *)
(* The first half is the program's parser and printer; the second is the    *)
(* grammar of JSON, against which Texts checks it.                          *)
(***************************************************************************)
EXTENDS Naturals, Sequences, FiniteSets

LOCAL INSTANCE SequencesExt

CONSTANT Size       \* bytes of a value's buffer: 4096; twice as many for `custom`

Quote == "\""
Slash == "\\"
White == {" ", "\t", "\n", "\r", "\f"}      \* isspace
Ctrl  == {"\t", "\n", "\r", "\f"}           \* below 0x20
Digit == {"0", "1"}

(* The character at p; "" is the NUL that ends a text. *)
At(s, p) == IF p \in 1 .. Len(s) THEN s[p] ELSE ""

(* The first place from p on where no character of C stands. *)
Past(s, p, C) == CHOOSE q \in p .. Len(s) + 1 :
                    At(s, q) \notin C /\ \A r \in p .. q - 1 : s[r] \in C
Skip(s, p) == Past(s, p, White)

-----------------------------------------------------------------------------
(* The parser.  Each operator returns the place behind what it parsed, or 0. *)

RECURSIVE Close(_, _)
Close(s, p) ==
    CASE At(s, p) = Slash -> IF At(s, p + 1) = "" THEN 0 ELSE Close(s, p + 2)
      [] At(s, p) = Quote -> p + 1
      [] At(s, p) \in Ctrl \union {""} -> 0
      [] OTHER -> Close(s, p + 1)

StringEnd(s, p) == LET q == Skip(s, p) IN IF At(s, q) = Quote THEN Close(s, q + 1) ELSE 0

(* Defect: no digit will do. *)
DigitsAny(s, p) == Past(s, p, Digit)

(* Digits from p on, at least one. *)
DigitsEnd(s, p) == IF At(s, p) \in Digit THEN Past(s, p, Digit) ELSE 0

NumberEnd(s, p) ==
    LET int  == IF At(s, p) = "-" THEN p + 1 ELSE p
        frac == IF At(s, int) = "0" THEN int + 1 ELSE DigitsEnd(s, int)
        exp  == IF At(s, frac) = "." THEN DigitsEnd(s, frac + 1) ELSE frac
        sign == IF At(s, exp + 1) \in {"+", "-"} THEN exp + 2 ELSE exp + 1 IN
    IF At(s, exp) = "e" THEN DigitsEnd(s, sign) ELSE exp

RECURSIVE ValueEnd(_, _), ItemsEnd(_, _, _)

(* The members of an object (keyed) or the elements of an array. *)
ItemsEnd(s, p, keyed) ==
    LET colon == Skip(s, StringEnd(s, p))
        value == IF ~keyed THEN ValueEnd(s, p)
                 ELSE IF StringEnd(s, p) = 0 \/ At(s, colon) # ":" THEN 0
                 ELSE ValueEnd(s, colon + 1)
        next  == Skip(s, value) IN
    CASE value = 0 -> 0
      [] value # 0 /\ At(s, next) = "," -> ItemsEnd(s, next + 1, keyed)
      [] value # 0 /\ At(s, next) = (IF keyed THEN "}" ELSE "]") -> next + 1
      [] OTHER -> 0

BracketEnd(s, p, keyed) ==
    LET q == Skip(s, p + 1) IN
    IF At(s, q) = (IF keyed THEN "}" ELSE "]") THEN q + 1 ELSE ItemsEnd(s, q, keyed)

ValueEnd(s, p) ==
    LET q == Skip(s, p) IN
    CASE At(s, q) = Quote -> StringEnd(s, q)
      [] At(s, q) = "{" -> BracketEnd(s, q, TRUE)
      [] At(s, q) = "[" -> BracketEnd(s, q, FALSE)
      [] At(s, q) \in Digit \union {"-"} -> NumberEnd(s, q)
      [] At(s, q) = "@" -> q + 1
      [] OTHER -> 0

Parses(s) == LET p == ValueEnd(s, 1) IN p # 0 /\ Skip(s, p) = Len(s) + 1

(* strstr(s, "\"k\"") *)
Places(s, k) == {i \in 1 .. Len(s) - 2 : SubSeq(s, i, i + 2) = <<Quote, k, Quote>>}

(* is_valid_json_doc: the required names may stand anywhere. *)
Required == {"V", "P", "T"}
ValidDoc(s) == /\ At(s, Skip(s, 1)) = "{" /\ Parses(s)
               /\ \A k \in Required : Places(s, k) # {}

Cut(s, size) == SubSeq(s, 1, IF Len(s) < size THEN Len(s) ELSE size - 1)

(* extract_json_field, or the default if there is none. *)
Extract(s, k, size, default) ==
    LET i     == CHOOSE i \in Places(s, k) : \A j \in Places(s, k) : i <= j
        colon == Skip(s, i + 3)
        start == Skip(s, colon + 1)
        end   == ValueEnd(s, start) IN
    IF Places(s, k) = {} \/ At(s, colon) # ":" \/ end = 0 THEN default
    ELSE Cut(SubSeq(s, start, end - 1), size)

-----------------------------------------------------------------------------
(* The printer. *)

(* Defect: a backslash is copied. *)
EscapeQuote(c) == IF c = Quote THEN <<Slash, c>> ELSE <<c>>

Escape(c) == CASE c \in {Quote, Slash} -> <<Slash, c>>
               [] c = "\n" -> <<Slash, "n">>
               [] c = "\r" -> <<Slash, "r">>
               [] c = "\t" -> <<Slash, "t">>
               [] c = "\f" -> <<Slash, "u", "0", "0", "0", "c">>
               [] OTHER -> <<c>>

Escaped(t) == FlattenSeq([i \in DOMAIN t |-> Escape(t[i])])
Quoted(t)  == <<Quote>> \o Escaped(t) \o <<Quote>>

(* The values a list names: parts between bars, trimmed, without the empty. *)
RECURSIVE Words(_)
Words(t) ==
    LET bar   == Past(t, 1, {t[i] : i \in DOMAIN t} \ {"|"})
        first == SubSeq(t, 1, bar - 1)
        left  == Skip(first, 1)
        ends  == {i \in left .. Len(first) : first[i] \notin White}
        word  == IF ends = {} THEN <<>>
                 ELSE SubSeq(first, left, CHOOSE i \in ends : \A j \in ends : j <= i) IN
    (IF word = <<>> THEN <<>> ELSE <<word>>)
        \o (IF bar > Len(t) THEN <<>> ELSE Words(SubSeq(t, bar + 1, Len(t))))

ValuesArray(t) ==
    LET w == Words(t) IN
    <<"[">> \o FlattenSeq([i \in DOMAIN w |-> (IF i = 1 THEN <<>> ELSE <<",", " ">>) \o Quoted(w[i])])
            \o <<"]">>

CustomObject(name, t) == <<"{">> \o Quoted(name) \o <<":", " ">> \o Cut(ValuesArray(t), Size)
                                 \o <<"}">>

(* write_doc_atomic: the lines of a document. *)
Line(k, value)  == <<" ", Quote, k, Quote, ":", " ">> \o value
Document(d) == <<"{", "\n">> \o Line("V", <<"1">>) \o <<",", "\n">>
                 \o Line("P", Quoted(<<"p">>)) \o <<",", "\n">>
                 \o Line("T", d["T"]) \o <<",", "\n">>
                 \o Line("N", d["N"]) \o <<",", "\n">>
                 \o Line("S", d["S"]) \o <<",", "\n">>
                 \o Line("C", d["C"]) \o <<"\n", "}", "\n">>

(* write_compact_jsonl without its final newline, from place p on; `where`   *)
(* is where the character before p left it.                                 *)
RECURSIVE RowFrom(_, _, _)
RowFrom(s, p, where) ==
    LET c == At(s, p)
        next == CASE where = "escape" -> "string"
                  [] where = "string" /\ c = Slash -> "escape"
                  [] where = "string" /\ c # Quote -> "string"
                  [] where = "out" /\ c = Quote -> "string"
                  [] OTHER -> "out" IN
    IF c = "" THEN <<>>
    ELSE (IF where = "out" /\ c \in White THEN <<>> ELSE <<c>>) \o RowFrom(s, p + 1, next)

(* Defect: white space is dropped wherever it stands. *)
RowBlind(s) == SelectSeq(s, LAMBDA c : c \notin White)

Row(s) == RowFrom(s, 1, "out")

-----------------------------------------------------------------------------
(* The grammar of JSON (RFC 8259), by what the parts of a text are, but with *)
(* the program's white space and with any character after a backslash.      *)

Rest(s, i) == SubSeq(s, i, Len(s))

Trim(s) == LET inner == {i \in DOMAIN s : s[i] \notin White} IN
           IF inner = {} THEN <<>>
           ELSE SubSeq(s, CHOOSE i \in inner : \A j \in inner : i <= j,
                          CHOOSE i \in inner : \A j \in inner : j <= i)

(* What may stand between two quotes. *)
RECURSIVE IsChars(_)
IsChars(s) == \/ s = <<>>
              \/ s[1] \notin Ctrl \union {Quote, Slash} /\ IsChars(Tail(s))
              \/ s[1] = Slash /\ Len(s) > 1 /\ IsChars(Rest(s, 3))

Between(s, a, b) == Len(s) > 1 /\ s[1] = a /\ s[Len(s)] = b
Inner(s) == SubSeq(s, 2, Len(s) - 1)

IsString(s) == Between(s, Quote, Quote) /\ IsChars(Inner(s))

IsDigits(s) == s # <<>> /\ \A i \in DOMAIN s : s[i] \in Digit
IsInt(s)    == IsDigits(s) /\ (s[1] = "0" => Len(s) = 1)
IsExp(s)    == IsDigits(s) \/ (Len(s) > 1 /\ s[1] \in {"+", "-"} /\ IsDigits(Tail(s)))
IsFrac(s)   == IsInt(s) \/ \E i \in DOMAIN s :
                   s[i] = "." /\ IsInt(SubSeq(s, 1, i - 1)) /\ IsDigits(Rest(s, i + 1))
IsReal(s)   == IsFrac(s) \/ \E i \in DOMAIN s :
                   s[i] = "e" /\ IsFrac(SubSeq(s, 1, i - 1)) /\ IsExp(Rest(s, i + 1))
IsNumber(s) == IsReal(s) \/ (Len(s) > 1 /\ s[1] = "-" /\ IsReal(Tail(s)))

RECURSIVE IsJson(_), IsItems(_, _)

IsItem(s, keyed) ==
    IF ~keyed THEN IsJson(s)
    ELSE \E i \in DOMAIN s : /\ s[i] = ":" /\ IsString(Trim(SubSeq(s, 1, i - 1)))
                             /\ IsJson(Rest(s, i + 1))

IsItems(s, keyed) ==
    \/ IsItem(s, keyed)
    \/ \E i \in DOMAIN s : s[i] = "," /\ IsItem(SubSeq(s, 1, i - 1), keyed)
                                      /\ IsItems(Rest(s, i + 1), keyed)

IsJson(text) ==
    LET s == Trim(text) IN
    \/ s = <<"@">> \/ IsString(s) \/ IsNumber(s)
    \/ Between(s, "[", "]") /\ (Trim(Inner(s)) = <<>> \/ IsItems(Inner(s), FALSE))
    \/ Between(s, "{", "}") /\ (Trim(Inner(s)) = <<>> \/ IsItems(Inner(s), TRUE))

(* What a string says. *)
RECURSIVE Unescaped(_)
Unescaped(s) ==
    CASE s = <<>> -> <<>>
      [] s # <<>> /\ s[1] # Slash -> <<s[1]>> \o Unescaped(Tail(s))
      [] OTHER -> CASE s[2] = "n" -> <<"\n">> \o Unescaped(Rest(s, 3))
                    [] s[2] = "r" -> <<"\r">> \o Unescaped(Rest(s, 3))
                    [] s[2] = "t" -> <<"\t">> \o Unescaped(Rest(s, 3))
                    [] s[2] = "u" -> <<"\f">> \o Unescaped(Rest(s, 7))
                    [] OTHER      -> <<s[2]>> \o Unescaped(Rest(s, 3))

(* What the strings of a JSON text say, in their order. *)
RECURSIVE Strings(_)
Strings(s) ==
    LET i == Past(s, 1, {s[j] : j \in DOMAIN s} \ {Quote}) IN
    IF i > Len(s) THEN <<>>
    ELSE LET j == CHOOSE j \in i + 1 .. Len(s) :
                     s[j] = Quote /\ IsChars(SubSeq(s, i + 1, j - 1)) IN
         <<Unescaped(SubSeq(s, i + 1, j - 1))>> \o Strings(Rest(s, j + 1))

=============================================================================
