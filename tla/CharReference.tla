--------------------------- MODULE CharReference ---------------------------
(***************************************************************************)
(* Character references of xml and html: escape() and unescape() of their  *)
(* char_reference.cpp, and for html the scanner of names, whose tables     *)
(* html/src/entities_scanner_generator makes from the list of entities.    *)
(* What a reference stands for is abstract, but for the five of xml; the   *)
(* codepoints of numbers are in Unicode.                                   *)
(***************************************************************************)
EXTENDS Integers, SequencesExt

CONSTANTS
    Names,      \* bound: names that entities can have
    MaxNames,   \* bound: entities of a list
    MaxPieces   \* bound: pieces of a text

VARIABLES
    dialect,  \* "xml" or "html"
    entities, \* the list of entities, without their "&"
    scanner,  \* the tables made from it
    beyond,   \* whether what lies outside the tables passes for what is looked up
    text,     \* the text
    count     \* pieces so far

vars == <<dialect, entities, scanner, beyond, text, count>>

\* Characters in the order of their codes; a byte from 0x80 on is a negative char.
Order == <<"nul", " ", "\"", "#", "&", "'", "1", ";", "<", ">", "a", "b", "x">>
Code == [ch \in ToSet(Order) \union {"high"} |-> IF ch = "high" THEN -1 ELSE SelectInSeq(Order, LAMBDA c : c = ch) - 1]
InputRange == Len(Order)

At(t, p) == IF p <= Len(t) THEN t[p] ELSE "nul"

-----------------------------------------------------------------------------
(* The tool: a table of states, and its rows without their ends in one list *)

NoRow == [code \in 0..(InputRange - 1) |-> 0]
Start == 1

\* generate_uncompressed_scanner() for the rest of a pattern; state s is row s + 1.
RECURSIVE Add(_, _, _, _)
Add(rows, pattern, state, index) ==
    LET code == Code[pattern[1]] entry == rows[state + 1][code]
    IN IF Len(pattern) = 1 THEN [rows EXCEPT ![state + 1][code] = -index]
       ELSE IF entry # 0 THEN Add(rows, Tail(pattern), entry, index)
       ELSE Add(Append([rows EXCEPT ![state + 1][code] = Len(rows)], NoRow), Tail(pattern), Len(rows), index)

Uncompressed(names) ==
    FoldLeftDomain(LAMBDA rows, k : Add(rows, <<"&">> \o names[k], Start, k), <<NoRow, NoRow>>, names)

\* generate_compressed_scanner() for one state.  A row of zeros has no entries.
Used(row) == {code \in 0..(InputRange - 1) : row[code] # 0}
Leftmost(row) == CHOOSE l \in Used(row) : \A code \in Used(row) : l <= code
Rightmost(row) == CHOOSE r \in Used(row) : \A code \in Used(row) : code <= r

\* Faulty variants of the definitions below, used to test the properties.
CompressDropsLast(tables, row) ==
    LET l == IF Used(row) = {} THEN InputRange ELSE Leftmost(row)
        r == IF Used(row) = {} THEN InputRange - 1 ELSE Rightmost(row)
        n == IF r > l THEN r - l ELSE r - l + 1
    IN [shifts |-> Append(tables.shifts, Len(tables.compressed) - l),
        checks |-> tables.checks \o [k \in 1..n |-> Len(tables.shifts)],
        compressed |-> tables.compressed \o [k \in 1..n |-> row[l + k - 1]]]

\* The definitions themselves.

Compress(tables, row) ==
    LET l == IF Used(row) = {} THEN InputRange ELSE Leftmost(row)
        r == IF Used(row) = {} THEN InputRange - 1 ELSE Rightmost(row)
        n == r - l + 1
    IN [shifts |-> Append(tables.shifts, Len(tables.compressed) - l),
        checks |-> tables.checks \o [k \in 1..n |-> Len(tables.shifts)],
        compressed |-> tables.compressed \o [k \in 1..n |-> row[l + k - 1]]]

NoTables == [shifts |-> <<>>, checks |-> <<>>, compressed |-> <<>>]
Tables(names) == FoldLeft(Compress, NoTables, Uncompressed(names))

-----------------------------------------------------------------------------
(* unescape(): a list of what each character or reference stands for *)

\* How many of the characters from p on are digits.
RECURSIVE DigitsAt(_, _, _)
DigitsAt(t, p, digits) == IF At(t, p) \in digits THEN 1 + DigitsAt(t, p + 1, digits) ELSE 0

Copied(t, p, next) == [out |-> [k \in 1..(next - p) |-> <<t[p + k - 1]>>], next |-> next]
Stands(for, next) == [out |-> <<for>>, next |-> next]

\* A number needs no digit at all.
NumberAt(t, p) ==
    LET hex == At(t, p + 2) = "x"
        from == IF hex THEN p + 3 ELSE p + 2
        end == from + DigitsAt(t, from, IF hex THEN {"1", "a", "b"} ELSE {"1"})
    IN IF At(t, end) = ";" THEN Stands(<<"number">> \o SubSeq(t, p + 2, end - 1), end + 1)
       ELSE Copied(t, p, end)

\* xml: one of the five.
Predefined == [lt |-> "<", gt |-> ">", amp |-> "&", apos |-> "'", quot |-> "\""]
\* Letters do not matter in xml: the names are characters of their own here.
XmlNameAt(t, p) ==
    IF At(t, p + 1) \in DOMAIN Predefined /\ At(t, p + 2) = ";"
    THEN Stands(<<Predefined[t[p + 1]]>>, p + 3) ELSE Copied(t, p, p + 1)

\* html: the scanner goes on from q in a state; a lookup outside the tables reads
\* whatever is there.
RECURSIVE Scan(_, _, _, _)
Scan(tables, t, q, state) ==
    LET index == tables.shifts[state + 1] + Code[At(t, q)]
    IN CASE state <= 0 \/ At(t, q) = "nul" -> [state |-> state, next |-> q]
         [] index \notin 0..(Len(tables.checks) - 1) -> [state |-> IF beyond THEN -1 ELSE 0, next |-> q]
         [] OTHER -> IF tables.checks[index + 1] = state
                     THEN Scan(tables, t, q + 1, tables.compressed[index + 1])
                     ELSE [state |-> 0, next |-> q]

HtmlNameAt(t, p) ==
    LET scanned == Scan(scanner, t, p, Start)
    IN IF scanned.state < 0 THEN Stands(<<"&">> \o entities[-scanned.state], scanned.next)
       ELSE Copied(t, p, scanned.next)

RECURSIVE UnescapeFrom(_, _)
UnescapeFrom(t, p) ==
    LET read == CASE t[p] # "&" -> Copied(t, p, p + 1)
                  [] t[p] = "&" /\ At(t, p + 1) = "#" -> NumberAt(t, p)
                  [] OTHER -> IF dialect = "xml" THEN XmlNameAt(t, p) ELSE HtmlNameAt(t, p)
    IN IF At(t, p) = "nul" THEN <<>> ELSE read.out \o UnescapeFrom(t, read.next)
Unescape(t) == UnescapeFrom(t, 1)

\* escape() of xml; that of html changes nothing.
NameOf(ch) == CHOOSE name \in DOMAIN Predefined : Predefined[name] = ch
Escape(t) ==
    IF dialect = "html" THEN t
    ELSE FlattenSeq([k \in 1..Len(t) |->
             IF \E name \in DOMAIN Predefined : Predefined[name] = t[k] THEN <<"&", NameOf(t[k]), ";">> ELSE <<t[k]>>])

-----------------------------------------------------------------------------
(* Lists of entities and texts *)

Lists == {list \in UNION {[1..n -> Names] : n \in 1..MaxNames} : IsInjective(list)}

Pieces ==
    {<<ch>> : ch \in {"&", ";", "#", "1", "a", "nul"}}
    \union (IF dialect = "html" THEN {<<"&">> \o entities[k] : k \in 1..Len(entities)} \union {<<"b">>, <<" ">>, <<"high">>}
            ELSE {<<"&", name, ";">> : name \in {"lt", "amp"}} \union {<<"amp">>, <<"x">>, <<"<">>, <<"'">>})

Init ==
    /\ text = <<>> /\ count = 0
    /\ \/ dialect = "xml" /\ entities = <<>> /\ scanner = NoTables /\ beyond = FALSE
       \/ dialect = "html" /\ beyond \in BOOLEAN
          /\ entities \in Lists /\ scanner = Tables(entities)

Grow ==
    /\ count < MaxPieces
    /\ "nul" \notin ToSet(text)
    /\ \E piece \in Pieces : text' = text \o piece
    /\ count' = count + 1
    /\ UNCHANGED <<dialect, entities, scanner, beyond>>

Next == Grow
Spec == Init /\ [][Next]_vars

-----------------------------------------------------------------------------
(* Properties *)

\* The references that there are, from p to q.
IsDigits(t, p, q, digits) == \A k \in p..q : t[k] \in digits
IsNumber(t, p, q) ==
    /\ q >= p + 2 /\ t[p] = "&" /\ t[p + 1] = "#" /\ t[q] = ";"
    /\ \/ IsDigits(t, p + 2, q - 1, {"1"})
       \/ t[p + 2] = "x" /\ IsDigits(t, p + 3, q - 1, {"1", "a", "b"})
IsName(t, p, q) ==
    IF dialect = "xml" THEN q = p + 2 /\ t[p] = "&" /\ t[p + 1] \in DOMAIN Predefined /\ t[q] = ";"
    ELSE \E k \in 1..Len(entities) : SubSeq(t, p, q) = <<"&">> \o entities[k]
Meaning(t, p, q) ==
    IF IsNumber(t, p, q) THEN <<"number">> \o SubSeq(t, p + 2, q - 1)
    ELSE IF dialect = "xml" THEN <<Predefined[t[p + 1]]>> ELSE SubSeq(t, p, q)

\* Every reference of the text up to its first NUL is replaced by what it stands for, and
\* nothing else changes, whatever the list of entities.  A lookup leaves the tables only after
\* an ampersand that begins no reference: then it is so if nothing there passes for an entry.
ReplacesReferences ==
    LET t == IF Contains(text, "nul") THEN SubSeq(text, 1, SelectInSeq(text, LAMBDA c : c = "nul") - 1) ELSE text
        refs == {pq \in (1..Len(t)) \X (1..Len(t)) : pq[1] < pq[2] /\ (IsNumber(t, pq[1], pq[2]) \/ IsName(t, pq[1], pq[2]))}
        at(k) == IF \E pq \in refs : pq[1] = k
                 THEN LET pq == CHOOSE pq \in refs : pq[1] = k IN <<Meaning(t, pq[1], pq[2])>>
                 ELSE IF \E pq \in refs : pq[1] < k /\ k <= pq[2] THEN <<>> ELSE <<<<t[k]>>>>
        whole == \A k \in 1..Len(t) : t[k] = "&" => \E pq \in refs : pq[1] = k
    IN ~ beyond \/ whole => Unescape(text) = FlattenSeq([k \in 1..Len(t) |-> at(k)])

\* What xml escapes has none of the characters that it must not have, and is the text again
\* when it is unescaped.
EscapesText ==
    dialect = "xml" /\ ~ Contains(text, "nul") =>
        /\ ToSet(Escape(text)) \intersect {"<", ">", "'", "\""} = {}
        /\ Unescape(Escape(text)) = [k \in 1..Len(text) |-> <<text[k]>>]

Refers == ReplacesReferences /\ EscapesText
=============================================================================
