------------------------------ MODULE TlsHello ------------------------------
(***************************************************************************)
(* protocols/tls/src/extension.cpp and message.cpp: extensions, the client *)
(* hello that carries them, and its two readers.  Every length on the wire *)
(* is computed from size() before anything is written, so a size() that    *)
(* disagrees with write() makes a message that no reader accepts.          *)
(*                                                                         *)
(* A class of extensions is described by a layout:                         *)
(*   type, reads   the type it writes, and the one its read() asserts      *)
(*   base, each    size() is base, plus each for every item, plus the      *)
(*                 bytes of the items' variable fields                     *)
(*   list, rlist   bytes of the list's length as written, as read; 0: none *)
(*   counted       that length is taken from the items, not from size()    *)
(*   fields        fields of an item: <<"int", width>>,                    *)
(*                 <<"bytes", width of the length>>, <<"rest", 0>>: what   *)
(*                 is left of the extension                                *)
(*   exact         the length of the body that read() asserts, or -1       *)
(*   writes        FALSE if write() throws: not supported yet              *)
(***************************************************************************)
EXTENDS Integers, SequencesExt, FiniteSetsExt

CONSTANT MaxExtensions  \* bound: extensions of a hello

VARIABLES
    extensions, \* client_hello::_extensions
    session,    \* size of client_hello::_legacy_session_id
    wire,       \* the bytes written
    pos,        \* where the reader is
    found,      \* what the reader has found
    stage       \* "build", "parse", "walk", "read", and the ends

vars == <<extensions, session, wire, pos, found, stage>>

-----------------------------------------------------------------------------
(* The classes of extension.cpp *)

\* A list of items behind a length of two bytes; a body of n bytes; and such.
List(t, each, fields) ==
    [type |-> t, reads |-> t, base |-> 6, each |-> each, list |-> 2, rlist |-> 2,
     counted |-> FALSE, fields |-> fields, exact |-> -1, writes |-> TRUE]
Short(t, each, fields) ==
    [List(t, each, fields) EXCEPT !.base = 5, !.list = 1, !.rlist = 1, !.counted = TRUE]
Single(t, base, fields) ==
    [List(t, 0, fields) EXCEPT !.base = base, !.list = 0, !.rlist = 0]
Unwritten(t, base) == [Single(t, base, <<<<"rest", 0>>>>) EXCEPT !.writes = FALSE]

server_name == List(0, 1, <<<<"int", 1>>, <<"bytes", 2>>>>)
max_fragment_length == [Single(1, 5, <<<<"int", 1>>>>) EXCEPT !.exact = 1]
status_request == Unwritten(5, 9)
supported_groups == List(10, 2, <<<<"int", 2>>>>)
signature_algorithms == List(13, 2, <<<<"int", 2>>>>)
heartbeat == [Single(13, 5, <<<<"int", 1>>>>) EXCEPT !.reads = 15, !.exact = 1]
application_layer_protocol_negotiation == List(16, 1, <<<<"bytes", 1>>>>)
client_certificate_type ==
    [Short(19, 1, <<<<"int", 1>>>>) EXCEPT !.base = 4, !.counted = FALSE]
server_certificate_type ==
    [Short(20, 1, <<<<"int", 1>>>>) EXCEPT !.base = 4, !.counted = FALSE, !.reads = 19]
padding == Single(21, 4, <<<<"rest", 0>>>>)

(* Faulty variants of the definitions below, used to test the properties *)

\* Counts the two length fields of an offering once.
pre_shared_keyShort == List(41, 6, <<<<"bytes", 2>>, <<"int", 4>>, <<"bytes", 2>>>>)

(* The definitions themselves *)

pre_shared_key == List(41, 8, <<<<"bytes", 2>>, <<"int", 4>>, <<"bytes", 2>>>>)
early_data == Single(42, 4, <<<<"rest", 0>>>>)
client_supported_versions == Short(43, 2, <<<<"int", 2>>>>)
server_supported_versions == Single(43, 6, <<<<"int", 2>>>>)
cookie == [List(44, 0, <<<<"rest", 0>>>>) EXCEPT !.rlist = 1]
psk_key_exchange_modes == Short(45, 1, <<<<"int", 1>>>>)
certificate_authorities == Unwritten(47, 6)
oid_filters == Unwritten(48, 4)
post_handshake_auth == [Single(49, 4, <<>>) EXCEPT !.exact = 0]
signature_algorithms_cert == List(50, 2, <<<<"int", 2>>>>)
client_key_share == List(51, 4, <<<<"int", 2>>, <<"bytes", 2>>>>)
server_key_share == Single(51, 8, <<<<"int", 2>>, <<"bytes", 2>>>>)

\* The classes registered for a client hello, and the others.
ClientClass ==
    {server_name, max_fragment_length, status_request, supported_groups,
     signature_algorithms, heartbeat, application_layer_protocol_negotiation,
     client_certificate_type, server_certificate_type, padding, pre_shared_key,
     early_data, client_supported_versions, cookie, psk_key_exchange_modes,
     certificate_authorities, post_handshake_auth, signature_algorithms_cert,
     client_key_share}
OtherClass == {server_supported_versions, oid_filters, server_key_share}

\* Values: no item, one, or two unlike ones; a single value is one item.
Value(f, i) ==
    CASE f[1] = "int" -> 256 ^ (f[2] - 1) + i
      [] OTHER -> [j \in 1..i |-> i]
Item(c, i) == [k \in DOMAIN c.fields |-> Value(c.fields[k], i)]
Counts(c) == IF c.list = 0 \/ c.fields = <<<<"rest", 0>>>> THEN {1} ELSE 0..2
Extension ==
    UNION {{[class |-> c, items |-> [i \in 1..n |-> Item(c, i)]] : n \in Counts(c)} :
              c \in ClientClass \union OtherClass}

-----------------------------------------------------------------------------
(* Writing *)

\* endian::convert to big: a number in w bytes.
Bytes(n, w) == [i \in 1..w |-> (n \div 256 ^ (w - i)) % 256]
Number(s) == FoldLeft(LAMBDA n, b : 256 * n + b, 0, s)
Sum(s) == FoldLeft(LAMBDA a, b : a + b, 0, s)

Variable(c, item) ==
    Sum([k \in DOMAIN item |-> IF c.fields[k][1] = "int" THEN 0 ELSE Len(item[k])])

\* size() of an extension.
Size(e) ==
    e.class.base + Sum([i \in DOMAIN e.items |-> e.class.each + Variable(e.class, e.items[i])])

WriteField(f, v) ==
    CASE f[1] = "int" -> Bytes(v, f[2])
      [] f[1] = "bytes" -> Bytes(Len(v), f[2]) \o v
      [] OTHER -> v
WriteItem(c, item) == FlattenSeq([k \in DOMAIN item |-> WriteField(c.fields[k], item[k])])

Write(e) ==
    LET c == e.class
        items == FlattenSeq([i \in DOMAIN e.items |-> WriteItem(c, e.items[i])])
        length == IF c.counted THEN Len(items) ELSE Size(e) - 4 - c.list
    IN Bytes(c.type, 2) \o Bytes(Size(e) - 4, 2) \o Bytes(length, c.list) \o items

Sizes == Sum([i \in DOMAIN extensions |-> Size(extensions[i])])
Written(s) == FlattenSeq([i \in DOMAIN s |-> Write(s[i])])

\* The version, the random, the session and the suites and methods of the
\* constructor; sizes of the record and handshake headers.
RecordHeader == 5
HandshakeHeader == 4
Fixed == Bytes(771, 2) \o [i \in 1..32 |-> 7] \o Bytes(session, 1) \o
         [i \in 1..session |-> 8] \o Bytes(6, 2) \o [i \in 1..6 |-> 9] \o
         Bytes(1, 1) \o Bytes(0, 1)
HelloSize == RecordHeader + HandshakeHeader + Len(Fixed) + 2 + Sizes

WriteHello ==
    Bytes(22, 1) \o Bytes(769, 2) \o Bytes(HelloSize - RecordHeader, 2) \o
    Bytes(1, 1) \o Bytes(HelloSize - RecordHeader - HandshakeHeader, 3) \o
    Fixed \o Bytes(Sizes, 2) \o Written(extensions)

-----------------------------------------------------------------------------
(* Reading *)

Failed == [ok |-> FALSE, value |-> <<>>, pos |-> 0]
Got(v, p) == [ok |-> TRUE, value |-> v, pos |-> p]
Cut(s, p, n) == SubSeq(s, p, p + n - 1)

\* A read past the end sets failbit, which throws.
ReadBytes(s, p, n) == IF p + n - 1 > Len(s) THEN Failed ELSE Got(Cut(s, p, n), p + n)
ReadInt(s, p, w) ==
    LET r == ReadBytes(s, p, w) IN IF r.ok THEN Got(Number(r.value), r.pos) ELSE r

ReadField(s, p, f, rest) ==
    CASE f[1] = "int" -> ReadInt(s, p, f[2])
      [] f[1] = "bytes" ->
            LET n == ReadInt(s, p, f[2]) IN
            IF n.ok THEN ReadBytes(s, n.pos, n.value) ELSE n
      [] OTHER -> ReadBytes(s, p, rest)

ReadItem(s, p, c, rest) ==
    FoldLeft(LAMBDA r, f :
                LET v == ReadField(s, r.pos, f, rest) IN
                IF r.ok /\ v.ok THEN Got(Append(r.value, v.value), v.pos) ELSE Failed,
             Got(<<>>, p), c.fields)

\* Items as long as the stream is not at the end of the list.
RECURSIVE ReadItems(_, _, _, _, _)
ReadItems(s, r, c, end, rest) ==
    IF ~ r.ok \/ r.pos >= end THEN r
    ELSE LET v == ReadItem(s, r.pos, c, rest) IN
         ReadItems(s, IF v.ok THEN Got(Append(r.value, v.value), v.pos) ELSE Failed,
                   c, end, rest)

\* read() of an extension of class c: the asserts, the length of the list, the items.
Read(s, p, c) ==
    LET type == ReadInt(s, p, 2)
        length == ReadInt(s, p + 2, 2)
        list == ReadInt(s, p + 4, c.rlist)
        one == ReadItem(s, p + 4, c, length.value)
    IN  IF ~ (type.ok /\ length.ok) THEN Failed
        ELSE IF type.value # c.reads \/ c.exact \notin {-1, length.value} THEN Failed
        ELSE IF c.rlist = 0
             THEN IF one.ok THEN Got(<<one.value>>, one.pos) ELSE one
        ELSE IF ~ list.ok THEN list
        ELSE IF list.value # length.value - c.rlist THEN Failed
        ELSE ReadItems(s, Got(<<>>, list.pos), c, list.pos + list.value, list.value)

-----------------------------------------------------------------------------
(* A hello is built and written; then it is parsed, or dissected, or its     *)
(* extensions are read one after the other by objects of their classes.      *)

Init ==
    /\ extensions = <<>> /\ session = 0
    /\ wire = <<>> /\ pos = 1 /\ found = <<>>
    /\ stage = "build"

\* extensions() of the hello: any classes for the readers one by one.
Add(e) ==
    /\ stage = "build"
    /\ Len(extensions) < MaxExtensions
    /\ extensions' = Append(extensions, e)
    /\ UNCHANGED <<session, wire, pos, found, stage>>

SetSession ==
    /\ stage = "build" /\ session = 0
    /\ session' = 32
    /\ UNCHANGED <<extensions, wire, pos, found, stage>>

Writable == \A i \in DOMAIN extensions : extensions[i].class.writes

\* The hello goes through a buffer: if an extension throws nothing is written.
WriteMessage ==
    /\ stage = "build"
    /\ \A i \in DOMAIN extensions : extensions[i].class \in ClientClass
    /\ IF Writable
       THEN wire' = WriteHello /\ stage' \in {"parse", "walk"}
       ELSE wire' = wire /\ stage' = "unwritten"
    /\ UNCHANGED <<extensions, session, pos, found>>

WriteExtensions ==
    /\ stage = "build" /\ session = 0
    /\ Writable
    /\ wire' = Written(extensions)
    /\ stage' = "read"
    /\ UNCHANGED <<extensions, session, pos, found>>

\* Where the extensions begin, by the lengths in the message at p.
Begin(p) ==
    LET id == p + HandshakeHeader + 34
        suites == id + 1 + wire[id]
        methods == suites + 2 + Number(Cut(wire, suites, 2))
    IN methods + 1 + wire[methods]

Headers(p) ==
    /\ Number(Cut(wire, p + 1, 3)) = Len(wire) + 1 - (p + HandshakeHeader)
    /\ Number(Cut(wire, Begin(p), 2)) = Len(wire) + 1 - (Begin(p) + 2)

\* The constructor from a buffer_view, up to the extensions.
ParseHeaders ==
    /\ stage = "parse" /\ pos = 1
    /\ IF Headers(1 + RecordHeader)
       THEN pos' = Begin(1 + RecordHeader) + 2 /\ UNCHANGED stage
       ELSE stage' = "invalid" /\ UNCHANGED pos
    /\ UNCHANGED <<extensions, session, wire, found>>

\* dissect: the record's length as well.
WalkHeaders ==
    /\ stage = "walk" /\ pos = 1
    /\ IF /\ Number(Cut(wire, 4, 2)) = Len(wire) - RecordHeader
          /\ Headers(1 + RecordHeader)
       THEN pos' = Begin(1 + RecordHeader) + 2 /\ UNCHANGED stage
       ELSE stage' = "invalid" /\ UNCHANGED pos
    /\ UNCHANGED <<extensions, session, wire, found>>

\* The extension at pos; the parser leaves out the types that nothing is
\* registered for, and server names, whose constructor throws.
Registered == {c.reads : c \in ClientClass}
NextExtension ==
    /\ stage \in {"parse", "walk"} /\ pos > 1
    /\ IF pos > Len(wire) THEN stage' = "done" /\ UNCHANGED <<pos, found>>
       ELSE LET type == Number(Cut(wire, pos, 2)) IN
            /\ pos' = pos + 4 + Number(Cut(wire, pos + 2, 2))
            /\ found' = IF stage = "parse" /\ type \notin Registered \ {0}
                        THEN found ELSE Append(found, type)
            /\ UNCHANGED stage
    /\ UNCHANGED <<extensions, session, wire>>

ReadNext ==
    /\ stage = "read"
    /\ IF Len(found) = Len(extensions) THEN stage' = "ended" /\ UNCHANGED <<pos, found>>
       ELSE LET r == Read(wire, pos, extensions[Len(found) + 1].class) IN
            IF r.ok THEN pos' = r.pos /\ found' = Append(found, r.value) /\ UNCHANGED stage
            ELSE stage' = "thrown" /\ UNCHANGED <<pos, found>>
    /\ UNCHANGED <<extensions, session, wire>>

Next ==
    \/ \E e \in Extension : Add(e)
    \/ SetSession \/ WriteMessage \/ WriteExtensions
    \/ ParseHeaders \/ WalkHeaders \/ NextExtension \/ ReadNext

Spec == Init /\ [][Next]_vars

-----------------------------------------------------------------------------
(* Properties *)

Has(classes) == \E i \in DOMAIN extensions : extensions[i].class \in classes

\* Classes whose size() is less than what they write, if they have items.
Undersized == {server_name, client_certificate_type, server_certificate_type}

\* Classes whose read() does not accept what they write.
Unread == {heartbeat, cookie}

\* A hello whose classes have sizes that are right is accepted by the parser and
\* by dissect, which find each extension where it is, whatever stands before it;
\* the extensions read one by one are the ones written, and reading stops where
\* writing did; and a reader refuses nothing else.
ReadBack ==
    /\ stage = "invalid" => Has(Undersized)
    /\ stage = "thrown" => Has(Undersized \union Unread)
    /\ stage \in {"done", "ended"} /\ ~ Has(Undersized \union Unread) => pos = Len(wire) + 1
    /\ stage = "done" /\ ~ Has(Undersized) =>
          found = [i \in DOMAIN extensions |-> extensions[i].class.type]
    /\ stage = "ended" /\ ~ Has(Undersized \union Unread) =>
          found = [i \in DOMAIN extensions |-> extensions[i].items]
=============================================================================
