-------------------------------- MODULE Json --------------------------------
(***************************************************************************)
(* core/src/json.cpp: a value is read from a text and written to one.  A   *)
(* text is a sequence of characters.  The conversions of numbers by        *)
(* strtoll, strtold and operator<< are the library's: the value of a       *)
(* number is the characters it is made of.  An object has its members in   *)
(* the order in which they first come, where std::map sorts them.          *)
(***************************************************************************)
EXTENDS Integers, SequencesExt

CONSTANTS
    BufSize,    \* sizeof(buf) in tokenise(), 128
    MaxPieces   \* bound: pieces of a text

VARIABLES
    text,   \* the text
    read,   \* what is read from it
    pieces, \* what the text grows by
    count,  \* pieces so far
    written \* history: the value that the text was written from, or none

vars == <<text, read, pieces, count, written>>

End == "end"
Space == {" "}
Digit == {"0", "1"}
Delimiter == {End, ",", "]", "}"} \union Space
Structural == {",", ":", "[", "]", "{", "}"}

\* A value; `text' has the characters that a literal or a number was read from, and
\* those of a string.
Value(type, chars, items) == [type |-> type, text |-> chars, items |-> items]
None == Value("none", <<>>, <<>>)

At(t, p) == IF p <= Len(t) THEN t[p] ELSE End
Token(kind, value, next) == [kind |-> kind, value |-> value, next |-> next]
Throws(next) == Token("throws", None, next)
\* A character was stored behind buf: the behaviour is undefined from here on.
Overrun(next) == Token("overrun", None, next)
Failed == {"throws", "overrun"}
\* What follows, unless there was an exception.
After(token, Follow(_)) == IF token.kind \in Failed THEN token ELSE Follow(token)

RECURSIVE Whitespace(_, _)
Whitespace(t, p) == IF At(t, p) \in Space THEN Whitespace(t, p + 1) ELSE p

-----------------------------------------------------------------------------
(* tokenise() *)

\* What an escape is replaced by; "\f" and "\u" are not known.
Escaped == [ch \in {"\"", "\\", "/", "b", "n", "r", "t"} |->
               CASE ch = "b" -> "BS" [] ch = "n" -> "FF" [] ch = "r" -> "HT" [] OTHER -> ch]

\* The characters are collected in buf, which is emptied when there are more in it than
\* it has room for: after one was stored behind it.
RECURSIVE String(_, _, _)
String(t, p, chars) ==
    LET ch == At(t, p)
        escaped == At(t, p + 1)
        store(char, next) ==
            IF Len(chars) = BufSize THEN Overrun(p) ELSE String(t, next, Append(chars, char))
    IN CASE ch = End -> Throws(p)
         [] ch = "\"" -> Token("value", Value("string", chars, <<>>), p + 1)
         [] ch = "\\" -> IF escaped \in DOMAIN Escaped
                         THEN store(Escaped[escaped], p + 2) ELSE Throws(p + 1)
         [] OTHER -> store(ch, p + 1)

\* A number that began at `first', of which p is the next character; from `start' on
\* there is the beginning of a literal that was given up, which is lost.
RECURSIVE Number(_, _, _, _, _)
Number(t, start, first, p, component) ==
    LET ch == At(t, p)
    IN CASE p - first >= BufSize -> Throws(p)
         [] ch \in Digit -> Number(t, start, first, p + 1, component)
         [] ch = "." /\ component = "integer" -> Number(t, start, first, p + 1, "fraction")
         [] ch = "e" /\ component # "exponent" -> Number(t, start, first, p + 1, "exponent")
         [] ch \in {"-", "+"} /\ component = "exponent" -> Number(t, start, first, p + 1, component)
         [] ch \in Delimiter ->
                Token("value", Value(IF component = "integer" THEN "integer" ELSE "decimal",
                                     SubSeq(t, start, p - 1), <<>>), p)
         [] OTHER -> Throws(p)

Literals == <<[type |-> "null", text |-> <<"n", "u", "l", "l">>],
              [type |-> "false", text |-> <<"f", "a", "l", "s", "e">>],
              [type |-> "true", text |-> <<"t", "r", "u", "e">>]>>

\* How many characters of a literal there are at p.
Matched(t, p, chars) ==
    CHOOSE m \in 0..Len(chars) :
        /\ \A k \in 1..m : At(t, p + k - 1) = chars[k]
        /\ m < Len(chars) => At(t, p + m) # chars[m + 1]

\* A literal or a number: the character that `p' is after is the last that was read,
\* and what the literals after the first are looked for with: the first that fails leaves
\* the character it failed at.
RECURSIVE Scalar(_, _, _, _)
Scalar(t, start, p, k) ==
    LET ch == At(t, p - 1)
        chars == Literals[k].text
        m == Matched(t, p - 1, chars)
    IN IF k > Len(Literals)
       THEN IF ch \in Digit \union {"-"} THEN Number(t, start, p - 1, p, "integer") ELSE Throws(p)
       ELSE IF ch # chars[1] THEN Scalar(t, start, p, k + 1)
       ELSE IF m < Len(chars) THEN Scalar(t, start, p + m, k + 1)
       ELSE IF At(t, p + m - 1) \in Delimiter
            THEN Token("value", Value(Literals[k].type, SubSeq(t, start, p + m - 2), <<>>), p + m - 1)
            ELSE Scalar(t, start, p + m - 1, k + 1)

Tokenise(t, from) ==
    LET p == Whitespace(t, from) ch == At(t, p)
    IN CASE ch = End -> Token(End, None, p)
         [] ch \in Structural -> Token(ch, None, p + 1)
         [] ch = "\"" -> String(t, p + 1, <<>>)
         [] OTHER -> Scalar(t, p, p + 1, 1)

\* lookahead(), of which only the commas and brackets are told apart.
Lookahead(t, p) == At(t, Whitespace(t, p))

-----------------------------------------------------------------------------
(* operator>> *)

\* obj[key] = value.
Put(members, key, value) ==
    LET there == {i \in 1..Len(members) : members[i].key = key}
    IN IF there = {} THEN Append(members, [key |-> key, value |-> value])
       ELSE [i \in 1..Len(members) |-> IF i \in there THEN [key |-> key, value |-> value] ELSE members[i]]

\* Faulty variants of the definitions below, used to test the properties.
AfterCommaLenient(t, p, items) ==
    IF items = <<>> \/ Lookahead(t, p) # "," THEN Token("go on", None, p)
    ELSE Tokenise(t, p)

\* The definitions themselves.

\* The comma before an element that is not the first.
AfterComma(t, p, items) ==
    IF items = <<>> THEN Token("go on", None, p)
    ELSE IF Lookahead(t, p) # "," THEN Throws(Whitespace(t, p))
    ELSE Tokenise(t, p)

\* A key and its colon.
Key(t, p) ==
    LET colon(key) ==
            After(Tokenise(t, key.next),
                  LAMBDA token : IF token.kind = ":" THEN [key EXCEPT !.next = token.next] ELSE Throws(token.next))
    IN After(Tokenise(t, p),
             LAMBDA key : IF key.value.type = "string" THEN colon(key) ELSE Throws(key.next))

RECURSIVE ReadValue(_, _), Elements(_, _, _), Members(_, _, _)
Elements(t, p, items) ==
    IF Lookahead(t, p) = "]" THEN Token("value", Value("array", <<>>, items), Whitespace(t, p) + 1)
    ELSE After(AfterComma(t, p, items), LAMBDA comma :
         After(ReadValue(t, comma.next), LAMBDA element :
         Elements(t, element.next, Append(items, element.value))))

Members(t, p, items) ==
    IF Lookahead(t, p) = "}" THEN Token("value", Value("object", <<>>, items), Whitespace(t, p) + 1)
    ELSE After(AfterComma(t, p, items), LAMBDA comma :
         After(Key(t, comma.next), LAMBDA key :
         After(ReadValue(t, key.next), LAMBDA member :
         Members(t, member.next, Put(items, key.value.text, member.value)))))

ReadValue(t, p) ==
    LET token == Tokenise(t, p)
    IN CASE token.kind \in {"value"} \union Failed -> token
         [] token.kind = "[" -> Elements(t, token.next, <<>>)
         [] token.kind = "{" -> Members(t, token.next, <<>>)
         [] OTHER -> Throws(token.next)

-----------------------------------------------------------------------------
(* operator<<, with a gap before each token: the code leaves none *)

Quoted(chars, gap) == gap \o <<"\"">> \o chars \o <<"\"">>
Separated(list, gap) ==
    FlattenSeq([i \in 1..Len(list) |-> IF i = 1 THEN list[i] ELSE gap \o <<",">> \o list[i]])

RECURSIVE WriteValue(_, _)
WriteValue(v, gap) ==
    LET item(i) ==
            IF v.type = "array" THEN WriteValue(v.items[i], gap)
            ELSE Quoted(v.items[i].key, gap) \o gap \o <<":">> \o WriteValue(v.items[i].value, gap)
        items == Separated([i \in 1..Len(v.items) |-> item(i)], gap)
    IN CASE v.type = "string" -> Quoted(v.text, gap)
         [] v.type = "array" -> gap \o <<"[">> \o items \o gap \o <<"]">>
         [] v.type = "object" -> gap \o <<"{">> \o items \o gap \o <<"}">>
         [] v.type \in {"integer", "decimal"} -> gap \o v.text
         [] OTHER -> gap \o Literals[CHOOSE k \in 1..Len(Literals) : Literals[k].type = v.type].text

-----------------------------------------------------------------------------
(* Texts *)

Scalars == {Value(l.type, l.text, <<>>) : l \in ToSet(Literals)}
    \union {Value("integer", <<"1">>, <<>>), Value("decimal", <<"-", "1", ".", "0">>, <<>>)}
    \union {Value("string", s, <<>>) :
                s \in {<<>>, <<"k">>, <<" ", "1">>} \union {[i \in 1..n |-> "k"] : n \in BufSize..BufSize + 1}}
Arrays(items, more) ==
    {Value("array", <<>>, list) : list \in {<<>>} \union {<<v>> : v \in items} \union {<<v, w>> : v \in items, w \in more}}
Objects(items, more) ==
    LET member(k, v) == [key |-> <<k>>, value |-> v]
    IN {Value("object", <<>>, list) :
            list \in {<<>>} \union {<<member("k", v)>> : v \in items}
                     \union {<<member("k", v), member("l", w)>> : v \in items, w \in more}}
Flat == Scalars \union Arrays(Scalars, Scalars) \union Objects(Scalars, Scalars)
Few == {Value("integer", <<"1">>, <<>>), Value("array", <<>>, <<>>)}
Values == Flat \union Arrays(Flat, Few) \union Objects(Flat, Few)

\* Pieces that texts grow by: literals, numbers, strings, and structures.
Growth == {
    {<<"n">>, <<"u", "l", "l">>, <<"f">>, <<"a", "l", "s", "e">>, <<"t">>, <<"r", "u", "e">>, <<"1">>, <<" ">>, <<",">>},
    {<<"-">>, <<"0">>, <<"1">>, <<".">>, <<"e">>, <<"+">>, <<"]">>, <<"n">>},
    {<<"\"">>, <<"\\">>, <<"/">>, <<"n">>, <<"t", "t", "t">>, <<"b">>, <<"f">>},
    {<<"[">>, <<"]">>, <<"{">>, <<"}">>, <<",">>, <<"\"", "k", "\"", ":">>, <<"1">>, <<" ">>}}

Init ==
    /\ count = 0
    /\ \/ pieces \in Growth /\ text = <<>> /\ written = None
       \/ pieces = {} /\ \E v \in Values, gap \in {<<>>, <<" ">>} :
             written = v /\ text = WriteValue(v, gap)
    /\ read = ReadValue(text, 1)

\* A text grows until it is refused, or the value it begins with has ended.
Grow ==
    /\ count < MaxPieces
    /\ read.next > Len(text)
    /\ \E piece \in pieces : text' = text \o piece
    /\ read' = ReadValue(text', 1)
    /\ count' = count + 1
    /\ UNCHANGED <<pieces, written>>

Next == Grow
Spec == Init /\ [][Next]_vars

-----------------------------------------------------------------------------
(* Properties *)

\* The scalars in a value.
RECURSIVE Leaves(_)
Leaves(v) ==
    IF v.type \in {"array", "object"}
    THEN UNION {Leaves(IF v.type = "array" THEN v.items[i] ELSE v.items[i].value) : i \in 1..Len(v.items)}
    ELSE {v}
RECURSIVE MemberCount(_)
MemberCount(v) ==
    CASE v.type = "array" -> FoldLeft(LAMBDA n, item : n + MemberCount(item), 0, v.items)
      [] v.type = "object" -> FoldLeft(LAMBDA n, item : n + 1 + MemberCount(item.value), 0, v.items)
      [] OTHER -> 0

\* The number of RFC 8259.
AllDigits(s) == s # <<>> /\ ToSet(s) \subseteq Digit
Whole(s) == AllDigits(s) /\ (s[1] = "0" => Len(s) = 1)
Unsigned(s, signs) == IF s # <<>> /\ s[1] \in signs THEN Tail(s) ELSE s
Before(s, ch) == IF Contains(s, ch) THEN SubSeq(s, 1, SelectInSeq(s, LAMBDA c : c = ch) - 1) ELSE s
Beyond(s, ch) == SubSeq(s, SelectInSeq(s, LAMBDA c : c = ch) + 1, Len(s))
IsNumber(s) ==
    LET mantissa == Before(s, "e")
    IN /\ Whole(Unsigned(Before(mantissa, "."), {"-"}))
       /\ Contains(mantissa, ".") => AllDigits(Beyond(mantissa, "."))
       /\ Contains(s, "e") => AllDigits(Unsigned(Beyond(s, "e"), {"-", "+"}))

\* A literal that begins with a part of another, and a number that is none of RFC 8259,
\* are accepted.
Muddled(v) == \E leaf \in Leaves(v), k \in 1..Len(Literals) : leaf.type = Literals[k].type /\ leaf.text # Literals[k].text
Loose(v) == \E leaf \in Leaves(v) : leaf.type \in {"integer", "decimal"} /\ ~ IsNumber(leaf.text)

\* The escapes that are replaced as RFC 8259 says.
Escapes == {"\"", "\\", "/", "b"}
RECURSIVE Unescaped(_)
Unescaped(s) ==
    IF s = <<>> THEN <<>>
    ELSE IF s[1] = "\\" THEN <<IF s[2] = "b" THEN "BS" ELSE s[2]>> \o Unescaped(SubSeq(s, 3, Len(s)))
    ELSE <<s[1]>> \o Unescaped(Tail(s))
RECURSIVE KnownEscapes(_)
KnownEscapes(s) ==
    IF s = <<>> THEN TRUE
    ELSE IF s[1] = "\\" THEN s[2] \in Escapes /\ KnownEscapes(SubSeq(s, 3, Len(s)))
    ELSE KnownEscapes(Tail(s))

\* What is read is what the text says: without its white space it is the text that the
\* value is written as, so that nothing but JSON is read and nothing is lost; unless a
\* literal is muddled, a number is loose, or a key comes twice.  A string is its characters
\* with the escapes replaced, for those that are known.  Nothing is said of a text with a
\* string that overruns the buffer, which takes more characters than BufSize.
ReadsText ==
    LET taken == SubSeq(text, 1, read.next - 1)
        body == SelectSeq(taken, LAMBDA ch : ch \notin Space)
    IN /\ written = None /\ read.kind = "value" /\ ~ Muddled(read.value) /\ ~ Loose(read.value) =>
          IF Contains(taken, "\\")
          THEN KnownEscapes(SubSeq(taken, 2, Len(taken) - 1)) =>
                  read.value.text = Unescaped(SubSeq(taken, 2, Len(taken) - 1))
          ELSE body = WriteValue(read.value, <<>>)
               \/ Cardinality({i \in 1..Len(body) : body[i] = ":"}) > MemberCount(read.value)
       /\ written = None /\ read.kind = "overrun" => Len(Unescaped(Tail(taken))) = BufSize

\* What is written is read again, with and without white space; or a string in it was
\* longer than the buffer.
Fits(v) == \A leaf \in Leaves(v) : leaf.type = "string" => Len(leaf.text) <= BufSize
ReadsWritten ==
    written # None =>
        IF Fits(written) THEN read.kind = "value" /\ read.value = written /\ read.next = Len(text) + 1
        ELSE read.kind = "overrun"

Parses == ReadsText /\ ReadsWritten
=============================================================================
