-------------------------------- MODULE Uri --------------------------------
(***************************************************************************)
(* core/src/uri.cpp: a URI is read from a text, made normal, compared and  *)
(* written.  A text is a sequence of characters; a byte that is none of    *)
(* those that Hex names is "byte".  lexically_normal() is the library's.   *)
(***************************************************************************)
EXTENDS Integers, SequencesExt

CONSTANTS
    Ports,      \* normalised_ports: what it says of each scheme it knows
    PortBits,   \* bits of a port, 16 in the code
    MaxPieces   \* bound: pieces of a text

VARIABLES
    text,   \* the text
    uri,    \* what is read from it
    pieces, \* what it grows by
    count   \* pieces so far

vars == <<text, uri, pieces, count>>

DigitOrder == <<"0", "1", "2", "3", "4", "5", "6", "7", "8", "9">>
Digit == [ch \in {"0", "1", "2", "3", "4", "5", "6", "7", "8", "9"} |-> CHOOSE n \in 0..9 : DigitOrder[n + 1] = ch]
LowerCase == [A |-> "a", D |-> "d", F |-> "f", H |-> "h"]
Alpha == {"a", "d", "f", "h"} \union DOMAIN LowerCase
HexDigit == DOMAIN Digit \union {"a", "d", "f", "A", "D", "F"}

\* table[]
Unreserved == Alpha \union DOMAIN Digit \union {"-", ".", "_"}
SubDelims == {"!", "&", "+", "=", ","}
SchemeChars == Alpha \union DOMAIN Digit \union {"+", "-", "."}
AuthorityChars == Unreserved \union {"@", ":"}
PathChars == Unreserved \union SubDelims \union {"%", "/", ":", "@"}
QueryChars == PathChars \union {"?"}

Hex == [ch \in {" ", "#", "%", "&", "+", "/", ":", "=", "?", "@", "a", "A"} |->
           CASE ch = " " -> <<"2", "0">> [] ch = "#" -> <<"2", "3">> [] ch = "%" -> <<"2", "5">>
             [] ch = "&" -> <<"2", "6">> [] ch = "+" -> <<"2", "B">> [] ch = "/" -> <<"2", "F">>
             [] ch = ":" -> <<"3", "A">> [] ch = "=" -> <<"3", "D">> [] ch = "?" -> <<"3", "F">>
             [] ch = "@" -> <<"4", "0">> [] ch = "a" -> <<"6", "1">> [] OTHER -> <<"4", "1">>]

At(t, p) == IF p <= Len(t) THEN t[p] ELSE "end"
\* The first place from p on that has none of some characters.
Span(t, p, chars) == CHOOSE q \in p..(Len(t) + 1) : At(t, q) \notin chars /\ \A k \in p..(q - 1) : t[k] \in chars
\* The place of a character, or the one after the end.
Find(t, p, ch) == CHOOSE q \in p..(Len(t) + 1) : (q <= Len(t) => t[q] = ch) /\ \A k \in p..(q - 1) : t[k] # ch
Occurs(t, ch) == Cardinality({k \in 1..Len(t) : t[k] = ch})

Lower(t) == [k \in 1..Len(t) |-> IF t[k] \in DOMAIN LowerCase THEN LowerCase[t[k]] ELSE t[k]]
Upper(ch) == IF \E up \in DOMAIN LowerCase : LowerCase[up] = ch THEN CHOOSE up \in DOMAIN LowerCase : LowerCase[up] = ch ELSE ch

-----------------------------------------------------------------------------
(* decode(), encode() *)

RECURSIVE DecodeFrom(_, _)
DecodeFrom(t, p) ==
    LET pair == <<Upper(t[p + 1]), Upper(t[p + 2])>>
    IN IF p > Len(t) THEN <<>>
       ELSE IF t[p] # "%" \/ At(t, p + 1) \notin HexDigit \/ At(t, p + 2) \notin HexDigit
       THEN <<t[p]>> \o DecodeFrom(t, p + 1)
       ELSE <<IF \E ch \in DOMAIN Hex : Hex[ch] = pair THEN CHOOSE ch \in DOMAIN Hex : Hex[ch] = pair ELSE "byte">>
            \o DecodeFrom(t, p + 3)
Decode(t) == DecodeFrom(t, 1)

Encode(t) ==
    FlattenSeq([k \in 1..Len(t) |->
        IF t[k] \in Unreserved THEN <<t[k]>>
        ELSE IF t[k] \in DOMAIN Hex THEN <<"%">> \o Hex[t[k]] ELSE <<"%", "byte">>])

-----------------------------------------------------------------------------
(* Paths *)

Split(t, ch) ==
    FoldLeft(LAMBDA parts, c : IF c = ch THEN Append(parts, <<>>) ELSE [parts EXCEPT ![Len(parts)] = Append(@, c)],
             <<<<>>>>, t)

Dot == <<".">>
DotDot == <<".", ".">>

\* std::filesystem::path::lexically_normal().
LexicallyNormal(t) ==
    LET rooted == t[1] = "/"
        parts == Split(t, "/")
        step(names, part) ==
            CASE part = Dot \/ part = <<>> -> names
              [] part = DotDot /\ names # <<>> /\ Last(names) # DotDot -> Front(names)
              [] part = DotDot /\ names = <<>> /\ rooted -> names
              [] OTHER -> Append(names, part)
        names == FoldLeft(step, <<>>, parts)
        separated == FlattenSeq([k \in 1..Len(names) |-> IF k = 1 THEN names[k] ELSE <<"/">> \o names[k]])
        ends == IF names # <<>> /\ Last(names) # DotDot /\ Last(parts) \in {<<>>, Dot, DotDot} THEN <<"/">> ELSE <<>>
    IN IF t = <<>> THEN <<>>
       ELSE IF rooted THEN <<"/">> \o separated \o ends
       ELSE IF names = <<>> THEN Dot ELSE separated \o ends

-----------------------------------------------------------------------------
(* A URI, and what makes it normal *)

Empty == [ok |-> TRUE, scheme |-> <<>>, user |-> <<>>, host |-> <<>>, port |-> 0,
          path |-> <<>>, query |-> <<>>, params |-> <<>>, fragment |-> <<>>]
Malformed == [Empty EXCEPT !.ok = FALSE]

Absolute(u) == u.scheme # <<>>

Normalise(u) ==
    [u EXCEPT !.path = IF Absolute(u) /\ (@ = <<>> \/ @[1] # "/") THEN <<"/">> \o @ ELSE @,
              !.port = IF @ = 0 /\ u.scheme \in DOMAIN Ports THEN Ports[u.scheme] ELSE @]

Equal(u, v) == Normalise(u) = Normalise(v)

-----------------------------------------------------------------------------
(* operator>> *)

Port(t) == FoldLeft(LAMBDA port, ch : (10 * port + Digit[ch]) % 2^PortBits, 0, t)

\* What is between "//" and the path.
Authority(u, t) ==
    LET userEnd == Find(t, 1, "@")
        user == IF userEnd <= Len(t) THEN SubSeq(t, 1, userEnd - 1) ELSE <<>>
        rest == IF userEnd <= Len(t) THEN SubSeq(t, userEnd + 1, Len(t)) ELSE t
        hostEnd == Find(rest, 1, ":")
        port == SubSeq(rest, hostEnd + 1, Len(rest))
    IN IF Occurs(t, "@") > 1 \/ Occurs(rest, ":") > 1 \/ ~ ToSet(port) \subseteq DOMAIN Digit THEN Malformed
       ELSE [u EXCEPT !.user = Decode(user), !.host = Lower(Decode(SubSeq(rest, 1, hostEnd - 1))), !.port = Port(port)]

\* Faulty variants of the definitions below, used to test the properties.
ParamsKeepSeparator(t, start) ==
    LET equals == Find(t, start, "=") end == Find(t, equals + 1, "&")
    IN IF equals > Len(t) THEN <<>>
       ELSE <<<<Decode(Decode(SubSeq(t, start, equals - 1))), Decode(Decode(SubSeq(t, equals, end - 1)))>>>>

\* The definitions themselves.

\* The parameters from `start' on.  A key goes on over a "&"; after the last value it is
\* searched from the beginning of that value, and everything is decoded twice.
RECURSIVE Params(_, _)
Params(t, start) ==
    LET equals == Find(t, start, "=")
        end == Find(t, equals + 1, "&")
        key == SubSeq(t, start, equals - 1)
        value == SubSeq(t, equals + 1, end - 1)
    IN IF equals > Len(t) THEN <<>>
       ELSE <<<<Decode(Decode(key)), Decode(Decode(value))>>>>
            \o Params(t, IF end <= Len(t) THEN end + 1 ELSE equals + 1)

\* What is not taken is left unread.
ReadQuery(u, t, p) ==
    LET end == IF At(t, p) = "?" THEN Span(t, p + 1, QueryChars) ELSE p
        query == SubSeq(t, p + 1, end - 1)
        fragmentEnd == IF At(t, end) = "#" THEN Span(t, end + 1, QueryChars) ELSE end
    IN Normalise([u EXCEPT !.query = Decode(query), !.params = Params(query, 1),
                           !.fragment = Decode(SubSeq(t, end + 1, fragmentEnd - 1))])

Read(t) ==
    LET schemeEnd == Span(t, 1, SchemeChars)
        schemed == At(t, schemeEnd) = ":"
        scheme == IF schemed THEN Lower(Decode(SubSeq(t, 1, schemeEnd - 1))) ELSE <<>>
        start == IF schemed THEN schemeEnd + 1 ELSE schemeEnd
        slashes == (schemed \/ start = 1) /\ At(t, start) = "/" /\ At(t, start + 1) = "/"
        end == IF slashes THEN Span(t, start + 2, AuthorityChars) ELSE start
        u == [Empty EXCEPT !.scheme = scheme]
        there == IF slashes THEN Authority(u, SubSeq(t, start + 2, end - 1)) ELSE u
        pathEnd == Span(t, end, PathChars)
        path == (IF schemed \/ slashes THEN <<>> ELSE SubSeq(t, 1, start - 1)) \o SubSeq(t, end, pathEnd - 1)
    IN IF there.ok THEN ReadQuery([there EXCEPT !.path = LexicallyNormal(Decode(path))], t, pathEnd) ELSE Malformed

-----------------------------------------------------------------------------
(* operator<< *)

\* A number of a port has at most two digits here.
Written(port) ==
    IF port < 10 THEN <<DigitOrder[port + 1]>>
    ELSE <<DigitOrder[(port \div 10) + 1], DigitOrder[(port % 10) + 1]>>

Write(value) ==
    LET u == Normalise(value)
        authority ==
            <<"/", "/">> \o (IF u.user = <<>> THEN <<>> ELSE Encode(u.user) \o <<"@">>) \o Encode(u.host)
            \o (IF u.scheme \in DOMAIN Ports /\ u.port \notin {0, Ports[u.scheme]} THEN <<":">> \o Written(u.port) ELSE <<>>)
        params == FlattenSeq([k \in 1..Len(u.params) |->
                      (IF k = 1 THEN <<"?">> ELSE <<"&">>) \o Encode(u.params[k][1]) \o <<"=">> \o Encode(u.params[k][2])])
    IN (IF Absolute(u) THEN u.scheme \o <<":">> \o (IF u.host = <<>> THEN <<>> ELSE authority) ELSE <<>>)
       \o u.path
       \o (IF u.params # <<>> THEN params ELSE IF u.query = <<>> THEN <<>> ELSE <<"?">> \o u.query)
       \o (IF u.fragment = <<>> THEN <<>> ELSE <<"#">> \o Encode(u.fragment))

-----------------------------------------------------------------------------
(* Texts grow from a beginning *)

Percent == <<"%", "2", "5">>
Growth == {
    [from |-> <<>>, by |-> {<<ch>> : ch \in {"a", "A", ":", "/", "?", "#", ".", "@"}}],
    [from |-> <<"h", ":", "/", "/">>, by |-> {<<"a">>, <<"A">>, <<":">>, <<"@">>, <<"1">>, <<"2", "0">>, <<"/">>, <<"%">>}],
    [from |-> <<"h", ":">>, by |-> {<<"a">>, <<"/">>, <<".">>, Percent, <<"%">>, <<"2", "F">>, <<" ">>, <<"?">>}],
    [from |-> <<"a", "?">>, by |-> {<<"a">>, <<"=">>, <<"&">>, Percent, <<"3", "D">>, <<"#">>, <<"2", "6">>}]}

Init ==
    /\ count = 0
    /\ \E grow \in Growth : text = grow.from /\ pieces = grow.by
    /\ uri = Read(text)

Grow ==
    /\ count < MaxPieces
    /\ \E piece \in pieces : text' = text \o piece
    /\ uri' = Read(text')
    /\ count' = count + 1
    /\ UNCHANGED pieces

Next == Grow
Spec == Init /\ [][Next]_vars

-----------------------------------------------------------------------------
(* Properties *)

\* The parts of the expression of RFC 3986, appendix B.
First(t, p, chars) == CHOOSE q \in p..(Len(t) + 1) : (q <= Len(t) => t[q] \in chars) /\ \A k \in p..(q - 1) : t[k] \notin chars
Parts(t) ==
    LET colon == First(t, 1, {":", "/", "?", "#"})
        schemed == colon > 1 /\ At(t, colon) = ":"
        start == IF schemed THEN colon + 1 ELSE 1
        slashes == At(t, start) = "/" /\ At(t, start + 1) = "/"
        path == IF slashes THEN First(t, start + 2, {"/", "?", "#"}) ELSE start
        query == First(t, path, {"?", "#"})
        fragment == First(t, query, {"#"})
    IN [scheme |-> IF schemed THEN SubSeq(t, 1, colon - 1) ELSE <<>>,
        authority |-> IF slashes THEN SubSeq(t, start + 2, path - 1) ELSE <<>>,
        path |-> SubSeq(t, path, query - 1),
        query |-> SubSeq(t, query + 1, fragment - 1),
        fragment |-> SubSeq(t, fragment + 1, Len(t))]
Clean(t) ==
    LET parts == Parts(t)
    IN /\ At(t, 1) # ":"
       /\ ToSet(parts.scheme) \subseteq SchemeChars /\ ToSet(parts.authority) \subseteq AuthorityChars
       /\ ToSet(parts.path) \subseteq PathChars /\ ToSet(parts.query \o parts.fragment) \subseteq QueryChars

\* Each part of a text is found and decoded once, with the case, the path and the port made
\* normal, and what is no URI is refused; unless a part has a character that is not read there,
\* or the text begins with a colon.
ReadsParts ==
    LET u == uri
        parts == Parts(text)
        path == LexicallyNormal(Decode(parts.path))
        sides == Split(parts.authority, "@")
        names == Split(Last(sides), ":")
        port == IF Len(names) = 2 THEN Port(names[2]) ELSE 0
        proper == Len(sides) <= 2 /\ Len(names) <= 2 /\ (Len(names) = 2 => ToSet(names[2]) \subseteq DOMAIN Digit)
    IN Clean(text) =>
          /\ u.ok <=> proper
          /\ u.ok =>
                /\ u.scheme = Lower(parts.scheme)
                /\ u.user = (IF Len(sides) = 2 THEN Decode(sides[1]) ELSE <<>>) /\ u.host = Lower(Decode(names[1]))
                /\ u.port = IF port = 0 /\ u.scheme \in DOMAIN Ports THEN Ports[u.scheme] ELSE port
                /\ u.path = IF u.scheme # <<>> /\ (path = <<>> \/ path[1] # "/") THEN <<"/">> \o path ELSE path
                /\ u.query = Decode(parts.query) /\ u.fragment = Decode(parts.fragment)

\* The parameters are the pairs of the query, unless one has no "=" or the last has two, or
\* decoding twice makes a difference.
Pair(part) == LET k == Find(part, 1, "=") IN <<Decode(SubSeq(part, 1, k - 1)), Decode(SubSeq(part, k + 1, Len(part)))>>
ReadsParams ==
    LET u == uri query == Parts(text).query parts == Split(query, "&")
    IN u.ok /\ Clean(text) /\ query # <<>> /\ Decode(Decode(query)) = Decode(query)
          /\ (\A k \in 1..Len(parts) : Contains(parts[k], "=")) /\ Occurs(Last(parts), "=") = 1 =>
             u.params = [k \in 1..Len(parts) |-> Pair(parts[k])]

\* What is written is read as an equal URI, unless a part is written without the encoding it
\* needs, or in one that is not read there; or the authority is not written.
Plain(t, chars) == ToSet(t) \subseteq chars /\ Decode(t) = t
Faithful(u) ==
    /\ \/ Absolute(u) /\ u.host # <<>>
       \/ u.user \o u.host = <<>> /\ u.port = Normalise([u EXCEPT !.port = 0]).port
    /\ Plain(u.user, Unreserved)
    /\ u.scheme \notin DOMAIN Ports => u.port = 0
    /\ Plain(u.path, PathChars) /\ LexicallyNormal(u.path) = u.path
    /\ Absolute(u) \/ At(u.path, Span(u.path, 1, SchemeChars)) # ":"
    /\ Plain(u.query, QueryChars)
    /\ u.params # <<>> => \A part \in ToSet(Split(u.query, "&")) : Occurs(part, "=") = 1
    /\ "byte" \notin ToSet(u.fragment)
ReadsBack ==
    uri.ok /\ Faithful(uri) => Equal(Read(Write(uri)), uri)

Locates == ReadsParts /\ ReadsParams /\ ReadsBack
=============================================================================
