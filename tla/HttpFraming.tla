----------------------------- MODULE HttpFraming -----------------------------
(***************************************************************************)
(* protocols/http/src/{message,chunk,remediator}.cpp: where a message ends *)
(* on a connection that carries several.  A message on the wire is a head, *)
(* with the fields that say how long the body is, and the body: characters *)
(* or chunks, each with its size before it and a line end behind it.       *)
(***************************************************************************)
EXTENDS Integers, SequencesExt

CONSTANTS
    MaxMessages,    \* bound: messages of a connection
    MaxBody         \* bound: characters of a body, and of a chunk

VARIABLES
    sent,   \* history: the messages sent
    line,   \* tokens on the wire
    ended,  \* nothing more comes: the connection has ended, or a read gave up
    stage,  \* "head", "chunk", "length", "rest", "thrown"
    need,   \* Content-Length of the message that is read
    body,   \* what was read of its body
    got     \* history: the bodies of the messages read

vars == <<sent, line, ended, stage, need, body, got>>

\* What a program makes: the type, the version, whether it gave the length, and
\* the sizes of its chunks, or of the body as one part if it is not chunked.
Program ==
    [type : {"request", "response"}, http10 : BOOLEAN, length : BOOLEAN,
     chunked : BOOLEAN, parts : {<<n>> : n \in 0..MaxBody} \union {<<1, n>> : n \in 1..MaxBody}]
Legal == {m \in Program : /\ ~ m.chunked => Len(m.parts) = 1
                          /\ m.chunked => 0 \notin ToSet(m.parts) /\ ~ m.length /\ ~ m.http10}

Token(k, n) == [kind |-> k, n |-> n]
Characters(i, n) == [k \in 1..n |-> Token("data", i)]

\* operator<< of a chunk; the last one is empty.
Chunk(i, n) == <<Token("size", n)>> \o Characters(i, n) \o <<Token("end", 0)>>

\* The body as it is sent; it is the i-th message.
Coded(i, m) ==
    IF m.chunked
    THEN FlattenSeq([k \in DOMAIN m.parts |-> Chunk(i, m.parts[k])]) \o Chunk(i, 0)
    ELSE Characters(i, m.parts[1])

\* http_11_remediator: a response of HTTP/1.1 always has a Content-Length.
Remediated(m) == m.length \/ (m.type = "response" /\ ~ m.http10)

\* operator<< of a message: the field that decides, and the body.
Heading(i, m) ==
    Token(CASE m.chunked -> "chunked"
            [] ~ m.chunked /\ Remediated(m) -> "length"
            [] OTHER -> m.type,
          Len(Coded(i, m)))
Heads == {"chunked", "length", "request", "response"}

\* operator>> has read the body b; rest is left on the wire.
Finish(b, rest) ==
    /\ got' = Append(got, b)
    /\ body' = <<>> /\ stage' = "head" /\ line' = rest

-----------------------------------------------------------------------------
(* Faulty variants of definitions below, used to test the properties *)

\* Forgets the line end of the last chunk.
ReadChunkShort ==
    /\ stage = "chunk" /\ line # <<>>
    /\ LET n == line[1].n IN
       /\ Len(line) > n + 1
       /\ IF n = 0 THEN Finish(body, Tail(line))
          ELSE /\ body' = body \o SubSeq(line, 2, n + 1)
               /\ line' = SubSeq(line, n + 3, Len(line))
               /\ UNCHANGED <<stage, got>>
    /\ UNCHANGED <<sent, ended, need>>

-----------------------------------------------------------------------------
(* The sender *)

Init ==
    /\ sent = <<>> /\ line = <<>> /\ ended = FALSE
    /\ stage = "head" /\ need = 0 /\ body = <<>> /\ got = <<>>

Send(m) ==
    /\ ~ ended /\ Len(sent) < MaxMessages
    /\ LET i == Len(sent) + 1 IN line' = line \o <<Heading(i, m)>> \o Coded(i, m)
    /\ sent' = Append(sent, m)
    /\ UNCHANGED <<ended, stage, need, body, got>>

\* What is not there yet, from some point on, does not come in time.
End ==
    /\ ~ ended
    /\ ended' = TRUE
    /\ \E k \in 0..Len(line) : line' = SubSeq(line, 1, k)
    /\ UNCHANGED <<sent, stage, need, body, got>>

-----------------------------------------------------------------------------
(* The reader: operator>> of a message *)

Throw == stage' = "thrown" /\ UNCHANGED <<line, body, got>>

\* A start line and fields, or the message is malformed; then the body by the
\* fields, or none for a request.
ReadHead ==
    /\ stage = "head"
    /\ line # <<>>
    /\ IF line[1].kind \notin Heads THEN Throw
       ELSE IF line[1].kind = "request" THEN Finish(<<>>, Tail(line))
       ELSE /\ stage' = IF line[1].kind = "chunked" THEN "chunk"
                        ELSE IF line[1].kind = "length" THEN "length" ELSE "rest"
            /\ line' = Tail(line)
            /\ UNCHANGED <<body, got>>
    /\ need' = IF line[1].kind = "length" THEN line[1].n ELSE 0
    /\ UNCHANGED <<sent, ended>>

\* operator>> of a chunk: a size, so many characters, a line end.
ReadChunk ==
    /\ stage = "chunk" /\ line # <<>>
    /\ LET n == line[1].n IN
       /\ Len(line) > n + 1
       /\ IF line[1].kind # "size" \/ line[n + 2].kind # "end" THEN Throw
          ELSE IF n = 0 THEN Finish(body, SubSeq(line, 3, Len(line)))
          ELSE /\ body' = body \o SubSeq(line, 2, n + 1)
               /\ line' = SubSeq(line, n + 3, Len(line))
               /\ UNCHANGED <<stage, got>>
    /\ UNCHANGED <<sent, ended, need>>

ReadLength ==
    /\ stage = "length" /\ Len(line) >= need
    /\ Finish(SubSeq(line, 1, need), SubSeq(line, need + 1, Len(line)))
    /\ UNCHANGED <<sent, ended, need>>

\* A response without either: all there is.
ReadRest ==
    /\ stage = "rest" /\ ended
    /\ Finish(line, <<>>)
    /\ UNCHANGED <<sent, ended, need>>

\* The end in the middle of a message.
Cut ==
    /\ ended
    /\ \/ stage = "chunk" /\ (line # <<>> => Len(line) <= line[1].n + 1)
       \/ stage = "length" /\ Len(line) < need
    /\ Throw
    /\ UNCHANGED <<sent, ended, need>>

Next ==
    \/ \E m \in Legal : Send(m)
    \/ End \/ ReadHead \/ ReadChunk \/ ReadLength \/ ReadRest \/ Cut

Spec == Init /\ [][Next]_vars

-----------------------------------------------------------------------------
(* Properties *)

\* A message whose end the reader can know: chunked, or with a length, or a
\* request without a body.
Framed(m) == m.chunked \/ Remediated(m) \/ (m.type = "request" /\ m.parts = <<0>>)

Total(m) == FoldLeft(LAMBDA a, b : a + b, 0, m.parts)

\* As long as every message could be framed, the reader's messages are the
\* sender's, one for one and with their own bodies whole, however they follow
\* each other; a message that was cut by the end is never taken for a whole
\* one, and nothing is thrown for any other reason.
KeepsBoundaries ==
    (\A i \in DOMAIN sent : Framed(sent[i])) =>
        /\ Len(got) <= Len(sent)
        /\ \A i \in DOMAIN got : got[i] = Characters(i, Total(sent[i]))
        /\ stage = "thrown" => ended
=============================================================================
