------------------------------ MODULE HttpHead ------------------------------
(***************************************************************************)
(* protocols/http/src/{tokenise,field,message}.cpp: the head of a message, *)
(* from its first line to the empty one, is written and read.  A text is a *)
(* sequence of words and of the characters that separate them; a word is   *)
(* made of characters that tokenise() takes in any token, so that words    *)
(* next to each other are one token.  The body is in HttpFraming, and what *)
(* makes up a URI in Uri.                                                  *)
(***************************************************************************)
EXTENDS Integers, Sequences, SequencesExt, FiniteSetsExt

CONSTANTS
    Uris,       \* bound: URIs of requests, decoded
    Values,     \* bound: values of fields without a meaning
    Noise,      \* bound: what a text is garbled with
    MaxChanges  \* bound: changes of a text

VARIABLES
    message,    \* history: the message that was written
    zone,       \* the local time has a summer time
    text,       \* the text
    changes,    \* changes of it so far
    whole,      \* history: it was not cut
    read        \* what is read from it

vars == <<message, zone, text, changes, whole, read>>

Digits == <<"0", "1", "2", "3", "4", "5", "6", "7", "8", "9">>
Digit == [ch \in ToSet(Digits) |-> CHOOSE n \in 0..9 : Digits[n + 1] = ch]

\* Points of time; in summer each is an hour after the one before.
Summer == <<"summer", "summer1", "summer2", "summer3">>
Times == ToSet(Summer) \union {"winter"}

\* Codings and field names are compared without their case.
Lower == [Close |-> "close", Chunked |-> "chunked", connection |-> "Connection"]
Fold(word) == IF word \in DOMAIN Lower THEN Lower[word] ELSE word

Separators == {" ", "HT", ":", ",", "CR", "LF", "high"}

At(t, p) == IF p <= Len(t) THEN t[p] ELSE "end"
\* The first place from p on that has none of some characters.
Skip(t, p, chars) == CHOOSE q \in p..(Len(t) + 4) : At(t, q) \notin chars /\ \A k \in p..(q - 1) : t[k] \in chars

-----------------------------------------------------------------------------
(* tokenise.cpp: a reader is at a place of the text, or has thrown *)

include_none == {}
include_colon == {":"}
include_all == {" ", ":", ","}

Thrown == [ok |-> FALSE]

\* Faulty variants of the definitions below, used to test the properties.
StopEats(t, p, extra) ==
    1 + CHOOSE q \in p..(Len(t) + 4) :
        /\ At(t, q) \in (Separators \ extra) \union {"end"}
        /\ \A k \in p..(q - 1) : t[k] \notin Separators \ extra

\* The definitions themselves.

\* Where a token ends: the character after it is put back.  Nothing is read behind the end.
Stop(t, p, extra) ==
    CHOOSE q \in p..(Len(t) + 4) :
        /\ At(t, q) \in (Separators \ extra) \union {"end"}
        /\ \A k \in p..(q - 1) : t[k] \notin Separators \ extra

Token(t, p, extra) == SubSeq(t, p, Stop(t, p, extra) - 1)

Whitespace(t, p) == Skip(t, p, {" ", "HT"})

Expect(t, p, chars) == \A k \in DOMAIN chars : At(t, p + k - 1) = chars[k]
LineEnd == <<"CR", "LF">>

-----------------------------------------------------------------------------
(* field.cpp: what a token means; each value is a record [ok, value] *)

Value(v) == [ok |-> TRUE, value |-> v]

\* A number is the digits it is written with.
RECURSIVE Decimal(_)
Decimal(n) == IF n < 10 THEN <<Digits[n + 1]>> ELSE Append(Decimal(n \div 10), Digits[(n % 10) + 1])

\* std::stoi(): a sign and the digits at the beginning.
Stoi(t) ==
    LET signed == At(t, 1) = "-"
        from == IF signed THEN 2 ELSE 1
        end == CHOOSE q \in from..(Len(t) + 1) :
                   At(t, q) \notin DOMAIN Digit /\ \A k \in from..(q - 1) : t[k] \in DOMAIN Digit
        number == FoldLeft(LAMBDA n, ch : 10 * n + Digit[ch], 0, SubSeq(t, from, end - 1))
    IN IF end = from THEN Thrown ELSE Value(IF signed THEN - number ELSE number)

InRange(v, low, high) == IF v.ok /\ v.value \in low..high THEN v ELSE Thrown

Version(t) == IF t \in {<<"HTTP/1.0">>, <<"HTTP/1.1">>} THEN Value(t) ELSE Thrown

\* A known name and the same name as an extension are one method.
Method(t) == Value(t)

SchemeEnd(uri) == Skip(uri, 1, ToSet(uri) \ {":", "/", "%20", " ", "h://h/"})

\* "h://h/" stands for a scheme and a host, "|" for what no URI has, which ends it.  Words may
\* be a scheme of their own before a colon.
Located(there, path) ==
    LET decoded == [k \in DOMAIN path |-> IF path[k] = "%20" THEN " " ELSE path[k]]
    IN Value([there |-> there, path |-> IF there /\ At(path, 1) # "/" THEN <<"/">> \o decoded ELSE decoded])
Split(uri, p) ==
    Located(At(uri, p) = "h://h/" \/ (p > 1 /\ At(uri, p) = ":"),
            SubSeq(uri, IF At(uri, p) \in {":", "h://h/"} THEN p + 1 ELSE 1, Len(uri)))
Uri(t) ==
    LET split(uri) == Split(uri, SchemeEnd(uri))
    IN split(SubSeq(t, 1, Skip(t, 1, ToSet(t) \ {"|"}) - 1))

\* The scheme is taken away, and with it what is before the path; the path is not encoded.
UriText(uri) == uri.path

StatusCode(t) == InRange(Stoi(t), 100, 999)
ReasonPhrase(t) == Value(t)

Connection(t) == IF Len(t) = 1 /\ Fold(t[1]) \in {"close", "keep-alive"} THEN Value(<<Fold(t[1])>>) ELSE Thrown
ContentLength(t) == LET n == InRange(Stoi(t), 0, 10^6) IN IF n.ok THEN Value(Decimal(n.value)) ELSE Thrown
Coding(t) == IF Len(t) = 1 /\ Fold(t[1]) \in {"chunked", "gzip"} THEN Value(<<Fold(t[1])>>) ELSE Thrown

\* strptime() takes any number of spaces for one, and leaves what follows.  mktime() is told that
\* there is no summer time, and the offset that is added has it.
Date(t) ==
    LET day == Expect(t, 1, <<"day", ",">>)
        q == Whitespace(t, 3)
        time == At(t, q)
    IN IF ~ day \/ time \notin Times THEN Thrown
       ELSE IF zone /\ time # "winter"
       THEN Value(<<Summer[1 + CHOOSE k \in DOMAIN Summer : Summer[k] = time]>>)
       ELSE Value(<<time>>)
DateText(time) == <<"day", ",", " ", time>>

Host(t) == Value(t)

-----------------------------------------------------------------------------
(* message.cpp: operator<< *)

ValueText(f) ==
    IF f.key = "Date" THEN DateText(f.value[1]) ELSE f.value

FieldText(f) == f.name \o <<":", " ">> \o ValueText(f) \o LineEnd

Write(m) ==
    (IF m.type = "request" THEN m.method \o <<" ">> \o UriText(m.uri) \o <<" ">> \o m.version
     ELSE m.version \o <<" ">> \o Decimal(m.status) \o <<" ">> \o m.reason)
    \o LineEnd \o FlattenSeq([k \in DOMAIN m.fields |-> FieldText(m.fields[k])]) \o LineEnd

-----------------------------------------------------------------------------
(* message.cpp: operator>> *)

Known == {"Connection", "Content-Length", "Date", "Host", "Transfer-Encoding"}

\* The codings of a list, with whatever skip_csv() takes between them, to the end of the line.
RECURSIVE Codings(_, _, _)
Codings(t, p, list) ==
    LET from == Skip(t, p, {" ", "HT", ","})
        end == Stop(t, from, include_none)
        coding == Coding(SubSeq(t, from, end - 1))
    IN IF At(t, from) = "CR" THEN [ok |-> TRUE, value |-> list, end |-> from]
       ELSE IF coding.ok THEN Codings(t, end, list \o coding.value) ELSE Thrown

\* What the reader of a field makes of what begins at p, and where it stops.
Parsed(key, token) ==
    CASE key = "Connection" -> Connection(token)
      [] key = "Content-Length" -> ContentLength(token)
      [] key = "Date" -> Date(token)
      [] OTHER -> Host(token)
Ended(value, end) == IF value.ok THEN [ok |-> TRUE, value |-> value.value, end |-> end] ELSE Thrown
Meaning(key, t, p) ==
    LET extra == IF key = "Content-Length" THEN include_none ELSE include_all
    IN IF key = "Transfer-Encoding" THEN Codings(t, p, <<>>)
       ELSE Ended(Parsed(key, Token(t, p, extra)), Stop(t, p, extra))

KeyOf(name) == IF Len(name) = 1 /\ Fold(name[1]) \in Known THEN Fold(name[1]) ELSE "other"
Entry(key, name, value) ==
    [key |-> key, name |-> IF key = "other" THEN name ELSE <<key>>, value |-> value]

\* The fields of the head from p on, and where it ends: the one that is read now, with its
\* name and its value, is followed by others.
RECURSIVE ReadFields(_, _, _)
ReadFields(t, p, fields) ==
    LET more(name, value) ==
            IF ~ value.ok \/ ~ Expect(t, value.end, LineEnd) THEN Thrown
            ELSE ReadFields(t, value.end + 2, Append(fields, Entry(KeyOf(name), name, value.value)))
        field(colon, name) ==
            IF At(t, colon) # ":" THEN Thrown
            ELSE more(name, Meaning(KeyOf(name), t, Whitespace(t, colon + 1)))
    IN IF At(t, p) # "CR" THEN field(Stop(t, p, include_none), Token(t, p, include_none))
       ELSE IF Expect(t, p, LineEnd) THEN [ok |-> TRUE, fields |-> fields, end |-> p + 2] ELSE Thrown

\* The parts of the first line.
Extras(type) ==
    IF type = "request" THEN <<include_none, include_colon, include_none>>
    ELSE <<include_none, include_none, include_all>>
Places(t, extras) ==
    FoldLeft(LAMBDA places, extra : Append(places, Stop(t, Last(places), extra) + 1), <<1>>, extras)
FirstLine(type, token) ==
    IF type = "request" THEN <<Method(token[1]), Uri(token[2]), Version(token[3])>>
    ELSE <<Version(token[1]), StatusCode(token[2]), ReasonPhrase(token[3])>>

HeadRead(type, first, rest) ==
    IF (\E k \in 1..3 : ~ first[k].ok) \/ ~ rest.ok THEN Thrown
    ELSE IF type = "request"
    THEN [ok |-> TRUE, type |-> type, method |-> first[1].value, uri |-> first[2].value,
          version |-> first[3].value, fields |-> rest.fields, end |-> rest.end]
    ELSE [ok |-> TRUE, type |-> type, version |-> first[1].value, status |-> first[2].value,
          reason |-> first[3].value, fields |-> rest.fields, end |-> rest.end]

ReadHead(type, t) ==
    LET after(p) ==
            IF At(t, p[2] - 1) = " " /\ At(t, p[3] - 1) = " " /\ Expect(t, p[4] - 1, LineEnd)
            THEN HeadRead(type, FirstLine(type, [k \in 1..3 |-> Token(t, p[k], Extras(type)[k])]),
                          ReadFields(t, p[4] + 1, <<>>))
            ELSE Thrown
    IN after(Places(t, Extras(type)))

-----------------------------------------------------------------------------
(* A message is written, and its text changed on the way *)

Field(key, value) == [key |-> key, name |-> <<key>>, value |-> value]
Fields ==
    {Field("Connection", <<"keep-alive">>), Field("Content-Length", <<"1", "0">>),
     Field("Transfer-Encoding", <<"chunked">>)}
    \union {Field("Date", <<time>>) : time \in {"winter", "summer"}}
    \union {[key |-> "other", name |-> <<"x">>, value |-> value] : value \in Values}
FieldLists ==
    {<<>>} \union {<<f>> : f \in Fields}
    \union {<<Field("Host", <<"x">>), Field("Connection", <<"close">>)>>}

Requests ==
    {[ok |-> TRUE, type |-> "request", method |-> <<"GET">>, uri |-> [there |-> FALSE, path |-> uri],
      version |-> <<"HTTP/1.1">>, fields |-> fields] : uri \in Uris, fields \in FieldLists}
Responses ==
    {[ok |-> TRUE, type |-> "response", version |-> <<"HTTP/1.0">>, status |-> 404,
      reason |-> reason, fields |-> fields] :
        reason \in {<<>>, <<"x", " ", "x">>}, fields \in FieldLists}

Init ==
    /\ message \in Requests \union Responses
    /\ zone \in BOOLEAN
    /\ text = Write(message)
    /\ changes = 0
    /\ whole = TRUE
    /\ read = ReadHead(message.type, text)

Change(t) ==
    /\ changes < MaxChanges
    /\ changes' = changes + 1
    /\ text' = t
    /\ read' = ReadHead(message.type, t)
    /\ UNCHANGED <<message, zone>>

\* A symbol is lost, replaced or put in.
Garble ==
    /\ \E k \in 1..Len(text), next \in {0, 1}, by \in {<<>>} \union {<<ch>> : ch \in Noise} :
          Change(SubSeq(text, 1, k - 1) \o by \o SubSeq(text, k + next, Len(text)))
    /\ UNCHANGED whole

Cut ==
    /\ \E k \in 0..(Len(text) - 1) : Change(SubSeq(text, 1, k))
    /\ whole' = FALSE

Next == Garble \/ Cut
Spec == Init /\ [][Next]_vars

-----------------------------------------------------------------------------
(* Properties *)

\* The head that was read, without the place where it ended.
HeadOf(r) == [part \in DOMAIN r \ {"end"} |-> r[part]]

SameHead(r, s) == r.ok /\ HeadOf(r) = HeadOf(s)

\* What a head keeps through writing and reading: no space or comma in the path of its URI, no
\* host there, nor what looks like a scheme, no time of a summer where there is a summer time,
\* and in a value nothing that tokenise() does not take, nor a space before it.
Steady(m) ==
    /\ m.type = "request" =>
          /\ ~ m.uri.there /\ At(m.uri.path, SchemeEnd(m.uri.path)) # ":"
          /\ {" ", ",", "|"} \intersect ToSet(m.uri.path) = {}
    /\ \A k \in DOMAIN m.fields : LET f == m.fields[k] IN
          /\ f.key = "Date" /\ zone => f.value = <<"winter">>
          /\ f.key = "other" =>
                {"HT", "CR", "LF", "high"} \intersect ToSet(f.value) = {} /\ At(f.value, 1) # " "

\* A head is read as it was written; one that is cut anywhere is refused; the head ends with the
\* first empty line, whatever is in it; and a head that is accepted, even from a text that was
\* garbled, is written as one that is read the same; with the exceptions of Steady.
ReadsHeads ==
    /\ changes = 0 /\ Steady(message) => read.ok /\ HeadOf(read) = message
    /\ changes = 1 /\ ~ whole => ~ read.ok
    /\ read.ok =>
          \A k \in 1..(Len(text) - 3) : SubSeq(text, k, k + 3) = LineEnd \o LineEnd =>
              read.end <= k + 4
    /\ read.ok => SubSeq(text, read.end - 4, read.end - 1) = LineEnd \o LineEnd
    /\ read.ok /\ Steady(read) => SameHead(ReadHead(read.type, Write(read)), read)
=============================================================================
