---------------------------- MODULE CipherStream ----------------------------
(***************************************************************************)
(* crypto/src/block_cipher.cpp and padding.cpp: the modes over a block     *)
(* cipher, block_cipher::encrypt() and decrypt() of a whole text, and      *)
(* block_cipher_streambuf, which cuts a stream into blocks.  A block has   *)
(* BlockSize bytes of 0..3 under a cipher that is some bijection; the      *)
(* state of a mode is a record, one in the object that encrypts and one in *)
(* the object that decrypts, with the same keying material.                *)
(***************************************************************************)
EXTENDS Integers, SequencesExt, Bitwise

CONSTANTS
    BlockSize,      \* basic_algorithm::block_size()
    MaxLength,      \* bound: bytes of a text
    MaxTexts        \* bound: texts for the same two objects

VARIABLES
    mode,       \* "none" until an object is made: "ecb", "cbc", "cfb", "ctr", "gcm"
    padding,    \* "none", "pkcs7"
    enc,        \* state of the mode that encrypts
    dec,        \* state of the mode that decrypts
    text,       \* history: the plain text
    put,        \* put area of the stream buffer
    good,       \* the ostream has not failed
    chain,      \* the bytes in the chained stream buffer, or the cipher text
    taken,      \* history: what was decrypted
    stage,      \* "write", "read", "done", "closed", "thrown"
    texts,      \* texts so far
    past        \* history: "streamed", "pulled"; "flushed" blocks, "short" writes

vars == <<mode, padding, enc, dec, text, put, good, chain, taken, stage, texts, past>>

Modes == {"ecb", "cbc", "cfb", "ctr", "gcm"}
Padded == {"ecb", "cbc"}    \* the modes that pad
Plain == {1, 2}             \* bytes of the texts, which may look like padding

-----------------------------------------------------------------------------
(* The cipher and the padding *)

\* Zeros follow the bytes of a buffer that is shorter than a block.
At(b, i) == IF i <= Len(b) THEN b[i] ELSE 0
Full(b) == [i \in 1..BlockSize |-> At(b, i)]

Forward(b) ==
    LET y[i \in 0..BlockSize] ==
          IF i = 0 THEN 0 ELSE (At(b, (i % BlockSize) + 1) + i + y[i - 1]) % 4
    IN [i \in 1..BlockSize |-> y[i]]
Backward(b) ==
    LET x(i) == (8 + At(b, i) - (i % 4) - IF i > 1 THEN At(b, i - 1) ELSE 0) % 4
    IN [i \in 1..BlockSize |-> x(IF i = 1 THEN BlockSize ELSE i - 1)]

\* operator^ of buffers: as long as the left one, which is never the longer one.
XorWith(a, b) == [i \in DOMAIN a |-> a[i] ^^ b[i]]

\* operator++ of counter_t: big-endian.
Increment(c) ==
    LET carry(i) == \A j \in (i + 1)..BlockSize : c[j] = 3
    IN [i \in 1..BlockSize |-> IF carry(i) THEN (c[i] + 1) % 4 ELSE c[i]]

(* Faulty variants of the definitions below, used to test the properties *)

\* No block of padding behind a text that fills its last block.
PadShort(b) ==
    IF padding = "none" THEN b
    ELSE LET n == (BlockSize - (Len(b) % BlockSize)) % BlockSize IN b \o [i \in 1..n |-> n]

(* The definitions themselves *)

Pad(b) ==
    IF padding = "none" THEN b
    ELSE LET n == BlockSize - (Len(b) % BlockSize) IN b \o [i \in 1..n |-> n]

\* <<>> or <<what is left>>: padding_error is thrown for a wrong padding.
Unpad(b) ==
    IF padding = "none" THEN <<b>>
    ELSE LET n == Last(b) IN
         IF n > BlockSize \/ \E i \in (Len(b) - n + 1)..Len(b) : b[i] # n THEN <<>>
         ELSE <<SubSeq(b, 1, Len(b) - n)>>

-----------------------------------------------------------------------------
(* basic_mode::encrypt() and decrypt() of one block, or what is left *)

\* The state of a new object.
Fresh ==
    [previous |-> Full(<<2>>), counter |-> [i \in 1..BlockSize |-> 3], padded |-> FALSE,
     hash |-> <<>>, length |-> 0, tag |-> <<>>]

Result(s, out) == [state |-> s, out |-> out, ok |-> TRUE]

\* gcm::authenticate(): the tag is of the blocks hashed and of their length.
Authenticate(s) == [s EXCEPT !.tag = <<s.hash, s.length>>]

\* The end of a block of gcm; c is the cipher text.
Hashed(s, c, final) ==
    LET t == [s EXCEPT !.counter = Increment(@), !.hash = Append(@, Full(c)),
                       !.length = @ + Len(c)]
    IN IF final THEN Authenticate(t) ELSE t

\* What ecb and cbc do with an empty block at the end, and the others.
PadFinal(s, in, final) ==
    IF ~ (final /\ Len(in) < BlockSize) THEN [state |-> s, in |-> in]
    ELSE IF s.padded THEN [state |-> s, in |-> <<>>]
    ELSE [state |-> [s EXCEPT !.padded = TRUE], in |-> Pad(in)]
NothingLeft(s, final) ==
    Result(IF mode = "gcm" /\ final /\ s.length = 0 THEN Authenticate(s) ELSE s, <<>>)

Encrypt(s, in, final) ==
    CASE mode \in Padded ->
            LET p == PadFinal(s, in, final)
                c == Forward(IF mode = "cbc" THEN XorWith(p.in, p.state.previous) ELSE p.in)
            IN IF p.in = <<>> THEN Result(p.state, <<>>)
               ELSE Result([p.state EXCEPT !.previous = c], c)
      [] mode \notin Padded /\ in = <<>> -> NothingLeft(s, final)
      [] mode = "cfb" /\ in # <<>> ->
            LET c == XorWith(in, Forward(s.previous)) IN Result([s EXCEPT !.previous = c], c)
      [] mode = "ctr" /\ in # <<>> ->
            Result([s EXCEPT !.counter = Increment(@)], XorWith(in, Forward(s.counter)))
      [] mode = "gcm" /\ in # <<>> ->
            LET c == XorWith(in, Forward(Increment(s.counter))) IN Result(Hashed(s, c, final), c)

Decrypt(s, in, final) ==
    CASE in = <<>> -> NothingLeft(s, final)
      [] mode \in Padded /\ in # <<>> ->
            LET b == Backward(in)
                p == IF mode = "cbc" THEN XorWith(b, s.previous) ELSE b
                u == IF final THEN Unpad(p) ELSE <<p>>
            IN IF u = <<>> THEN [Result(s, <<>>) EXCEPT !.ok = FALSE]
               ELSE Result([s EXCEPT !.previous = in], u[1])
      [] mode = "cfb" /\ in # <<>> ->
            Result([s EXCEPT !.previous = in], XorWith(in, Forward(s.previous)))
      [] mode = "ctr" /\ in # <<>> ->
            Result([s EXCEPT !.counter = Increment(@)], XorWith(in, Forward(s.counter)))
      [] mode = "gcm" /\ in # <<>> ->
            Result(Hashed(s, in, final), XorWith(in, Forward(Increment(s.counter))))

\* The loops of block_cipher::encrypt() and decrypt(): blocks till nothing comes out.
RECURSIVE EncryptAll(_, _), DecryptAll(_, _)
Block(in) == SubSeq(in, 1, IF Len(in) < BlockSize THEN Len(in) ELSE BlockSize)
Rest(in) == SubSeq(in, BlockSize + 1, Len(in))

EncryptAll(s, in) ==
    LET r == Encrypt(s, Block(in), Len(in) <= BlockSize) IN
    IF r.out = <<>> THEN r
    ELSE LET more == EncryptAll(r.state, Rest(in)) IN [more EXCEPT !.out = r.out \o @]
DecryptAll(s, in) ==
    LET r == Decrypt(s, Block(in), Len(in) <= BlockSize) IN
    IF r.out = <<>> \/ ~ r.ok THEN r
    ELSE LET more == DecryptAll(r.state, Rest(in)) IN [more EXCEPT !.out = r.out \o @]

-----------------------------------------------------------------------------
(* A text is encrypted, at once or through the stream, and then decrypted *)

Init ==
    /\ mode = "none" /\ padding = "none"
    /\ enc = Fresh /\ dec = Fresh
    /\ text = <<>> /\ put = <<>> /\ good = TRUE /\ chain = <<>> /\ taken = <<>>
    /\ stage = "write" /\ texts = 1 /\ past = {}

Make ==
    /\ mode = "none"
    /\ mode' \in Modes /\ padding' \in {"none", "pkcs7"}
    /\ UNCHANGED <<enc, dec, text, put, good, chain, taken, stage, texts, past>>

\* block_cipher::encrypt().
EncryptText ==
    /\ mode # "none" /\ stage = "write" /\ "streamed" \notin past
    /\ \E n \in 0..MaxLength, b \in Plain :
          LET t == [i \in 1..n |-> IF i % 2 = 0 THEN b ELSE 1]
              r == EncryptAll(enc, t)
          IN text' = t /\ enc' = r.state /\ chain' = r.out
    /\ stage' = "read"
    /\ UNCHANGED <<mode, padding, dec, put, good, taken, texts, past>>

\* sync(): the chain may take less than the block; what is not taken is dropped
\* unless that is all of it.
Sync(p, final) ==
    LET r == Encrypt(enc, p, final) IN
    /\ enc' = r.state
    /\ \E n \in 0..Len(r.out) :
          /\ chain' = chain \o SubSeq(r.out, 1, n)
          /\ IF n = 0 THEN good' = FALSE /\ put' = p ELSE put' = <<>> /\ UNCHANGED good
          /\ past' = past \union {"streamed"}
                       \union (IF n < Len(r.out) THEN {"short"} ELSE {})
                       \union (IF ~ final /\ p # <<>> /\ Len(p) < BlockSize
                               THEN {"flushed"} ELSE {})

\* Nothing is said of a stream after a block that was cut: it is not followed.
Streaming ==
    mode # "none" /\ stage = "write" /\ texts = 1 /\ past \subseteq {"streamed"}

\* sputc() while there is room in the put area, and overflow().
Put(c) ==
    /\ Streaming /\ good /\ Len(text) < MaxLength
    /\ text' = Append(text, c)
    /\ IF Len(put) < BlockSize - 1
       THEN /\ put' = Append(put, c) /\ past' = past \union {"streamed"}
            /\ UNCHANGED <<enc, chain, good>>
       ELSE Sync(Append(put, c), FALSE)
    /\ UNCHANGED <<mode, padding, dec, taken, stage, texts>>

Flush ==
    /\ Streaming /\ good
    /\ Sync(put, FALSE)
    /\ UNCHANGED <<mode, padding, dec, text, taken, stage, texts>>

Close ==
    /\ Streaming
    /\ Sync(put, TRUE)
    /\ stage' = "read"
    /\ UNCHANGED <<mode, padding, dec, text, taken, texts>>

\* block_cipher::decrypt().
DecryptText ==
    /\ stage = "read" /\ past \subseteq {"streamed"}
    /\ LET r == DecryptAll(dec, chain) IN
       /\ dec' = r.state
       /\ taken' = r.out
       /\ stage' = IF r.ok THEN "done" ELSE "thrown"
    /\ UNCHANGED <<mode, padding, enc, text, put, good, chain, texts, past>>

\* underflow(): a block, the last one if no character follows; nothing is left
\* of a block of padding, and that is the end.
Underflow ==
    /\ stage = "read" /\ texts = 1 /\ past \subseteq {"streamed", "pulled"}
    /\ IF chain = <<>> THEN stage' = "done" /\ UNCHANGED <<dec, taken, chain>>
       ELSE LET r == Decrypt(dec, Block(chain), Len(chain) <= BlockSize) IN
            /\ dec' = r.state
            /\ taken' = taken \o r.out
            /\ chain' = Rest(chain)
            /\ stage' = CASE ~ r.ok -> "thrown"
                          [] r.ok /\ r.out = <<>> -> "done"
                          [] OTHER -> stage
    /\ past' = past \union {"pulled"}
    /\ UNCHANGED <<mode, padding, enc, text, put, good, texts>>

\* close() of the stream buffer that was read: it encrypts what is in its put area.
CloseReader ==
    /\ stage = "done" /\ "pulled" \in past
    /\ LET r == Encrypt(dec, <<>>, TRUE) IN dec' = r.state /\ chain' = chain \o r.out
    /\ stage' = "closed"
    /\ UNCHANGED <<mode, padding, enc, text, put, good, taken, texts, past>>

\* The same objects for another text.
Again ==
    /\ stage = "done" /\ past = {} /\ texts < MaxTexts
    /\ stage' = "write" /\ texts' = texts + 1
    /\ text' = <<>> /\ chain' = <<>> /\ taken' = <<>>
    /\ UNCHANGED <<mode, padding, enc, dec, put, good, past>>

Next ==
    \/ Make \/ EncryptText \/ \E c \in Plain : Put(c)
    \/ Flush \/ Close \/ DecryptText \/ Underflow \/ CloseReader \/ Again

Spec == Init /\ [][Next]_vars

-----------------------------------------------------------------------------
(* Properties *)

Aligned == Len(text) % BlockSize = 0

\* The end of the text can be told: it fills its blocks or is padded, and the objects
\* that pad have not padded a text before.
Exact ==
    mode \in Padded => IF padding = "none" THEN Aligned ELSE texts = 1

\* The tag of the side that encrypts is there: a stream that ends with a block it
\* did not know to be the last has none.
Finished == "streamed" \in past => text = <<>> \/ ~ Aligned

\* What was encrypted is decrypted again, by either of the two ways whatever the
\* other one was, in every mode and for every length; where the end cannot be
\* told, other bytes follow the text; nothing is thrown.  The tags of both sides
\* agree in the end, and closing a stream that was read writes nothing, but for a
\* block of padding.  All that as long as the stream is not flushed within a
\* block and the chained buffer takes whole blocks.
RoundTrip ==
    past \subseteq {"streamed", "pulled"} =>
        /\ stage = "thrown" => ~ Exact
        /\ stage \in {"done", "closed"} =>
              /\ Exact => taken = text
              /\ ~ Exact /\ texts = 1 => IsPrefix(text, taken)
        /\ stage = "closed" => chain = <<>> \/ (mode \in Padded /\ padding = "pkcs7")
        /\ mode = "gcm" /\ stage = (IF "pulled" \in past THEN "closed" ELSE "done") =>
              dec.tag = IF Finished THEN enc.tag ELSE <<enc.hash, enc.length>>
=============================================================================
