------------------------------- MODULE Digest -------------------------------
(***************************************************************************)
(* crypto/src/sha.cpp, keccak.cpp, hmac.h and hash.cpp: a hash is updated  *)
(* with pieces of a message, directly or by the stream the message passes  *)
(* through, and closed.  The rounds that fold a block into the state are   *)
(* left abstract: the state is the sequence of the blocks folded into it.  *)
(* A byte is a set of marks, and operator^ of bytes is their symmetric     *)
(* difference, so that {} is zero.                                         *)
(***************************************************************************)
EXTENDS Integers, SequencesExt, FiniteSetsExt

CONSTANTS
    BlockSize,      \* block_sz, or the rate of keccak
    DigestSize,     \* digest_sz
    LowWord,        \* what a word of the length counts up to, in bits; more than
                    \* a piece of a message can have
    Bufsize,        \* hash_streambuf::_bufsize
    MaxMessage,     \* bound: bytes of a message
    MaxPiece,       \* bound: bytes of a piece of it
    MaxKey,         \* bound: bytes of a key
    MaxMessages     \* bound: messages of an object

VARIABLES
    kind,       \* "none", "sha_1" (and sha_2 of 32 bits), "sha_2" of 64 bits, "keccak"
    key,        \* <<>>: a hash; <<k>>: an HMAC with the key k, hashed if it was long
    given,      \* history: the length of the key
    hash,       \* the object: [S, M, sz, low, high, pad, hash]
    tag,        \* the HMAC's _tag
    message,    \* history: the bytes of the message
    put,        \* put area of the stream
    chain,      \* what has gone on to the chained stream buffer
    stage,      \* "open", "closed"
    messages,   \* messages so far
    past        \* history: "short" writes of the chained stream buffer

vars == <<kind, key, given, hash, tag, message, put, chain, stage, messages, past>>

Data(i) == {<<"data", i>>}
One == {<<"one", 0>>}           \* 0x80 of SHA
Suffix == {<<"suffix", 0>>}     \* delimited_suffix_t
Last80 == {<<"last", 0>>}       \* 0x80 of keccak
Length(w) == IF w = 0 THEN {} ELSE {<<"length", w>>}
Zeros(n) == [i \in 1..n |-> {}]
XorWith(a, b) == (a \ b) \union (b \ a)
At(s, i) == IF i <= Len(s) THEN s[i] ELSE {}

-----------------------------------------------------------------------------
(* A hash object *)

\* The constructors, and reset().
New ==
    [S |-> <<>>, M |-> Zeros(BlockSize), sz |-> 0, low |-> 0, high |-> 0,
     pad |-> "none", hash |-> <<>>]

\* computate(): keccak clears the block behind it, SHA does not.
Computate(k, h) ==
    [h EXCEPT !.S = Append(@, h.M), !.sz = 0,
              !.M = IF k = "keccak" THEN Zeros(BlockSize) ELSE @]

\* The loop of update().
RECURSIVE Fill(_, _, _)
Fill(k, h, b) ==
    IF b = <<>> THEN h
    ELSE LET copy == Min({BlockSize - h.sz, Len(b)})
             g == [h EXCEPT !.M = [i \in 1..BlockSize |->
                                     IF i > h.sz /\ i <= h.sz + copy THEN b[i - h.sz] ELSE @[i]],
                            !.sz = @ + copy]
         IN Fill(k, IF g.sz = BlockSize THEN Computate(k, g) ELSE g,
                 SubSeq(b, copy + 1, Len(b)))

\* update(): the length in bits has two words, with a carry.
Update(k, h, b) ==
    LET low == (h.low + 8 * Len(b)) % LowWord IN
    [Fill(k, h, b) EXCEPT !.low = low, !.high = IF low < h.low THEN @ + 1 ELSE @]

LengthSize(k) == IF k = "sha_2" THEN 2 ELSE 1

(* Faulty variants of the definitions below, used to test the properties *)

\* One byte too few left for the length.
PadBlockShort(k, h) ==
    LET g == IF h.pad = "none"
             THEN [h EXCEPT !.M[h.sz + 1] = One, !.sz = @ + 1, !.pad = "start"] ELSE h
        z == [g EXCEPT !.M = [i \in 1..BlockSize |-> IF i <= g.sz THEN @[i] ELSE {}],
                       !.sz = BlockSize]
    IN IF g.sz > BlockSize - LengthSize(k) + 1 THEN z
       ELSE [z EXCEPT !.pad = "length", !.M[BlockSize] = Length(h.low),
                      !.M[BlockSize - 1] = IF k = "sha_2" THEN Length(h.high) ELSE @]

(* The definitions themselves *)

\* pad(), which says in .pad whether the length is in the block.
PadBlock(k, h) ==
    LET g == IF h.pad = "none"
             THEN [h EXCEPT !.M[h.sz + 1] = One, !.sz = @ + 1, !.pad = "start"] ELSE h
        z == [g EXCEPT !.M = [i \in 1..BlockSize |-> IF i <= g.sz THEN @[i] ELSE {}],
                       !.sz = BlockSize]
    IN IF g.sz > BlockSize - LengthSize(k) THEN z
       ELSE [z EXCEPT !.pad = "length", !.M[BlockSize] = Length(h.low),
                      !.M[BlockSize - 1] = IF k = "sha_2" THEN Length(h.high) ELSE @]

\* The bytes of the digest: of the state, or of the state after more rounds.
Bytes(S, n) == [j \in 1..n |-> {<<"digest", <<S, j>>>>}]

\* close() of SHA: blocks till one is padded; finalise() cuts the state.
RECURSIVE PadAll(_, _)
PadAll(k, h) ==
    LET p == PadBlock(k, h)
        g == Computate(k, p)
    IN IF p.pad = "length" THEN g ELSE PadAll(k, g)
CloseSha(k, h) == LET g == PadAll(k, h) IN [g EXCEPT !.hash = Bytes(g.S, DigestSize)]

\* close() of keccak; finalise() takes up to a block at a time.
RECURSIVE Squeeze(_, _)
Squeeze(h, n) ==
    LET g == [h EXCEPT !.hash = @ \o Bytes(h.S, Min({BlockSize, n}))] IN
    IF n <= BlockSize THEN g ELSE Squeeze(Computate("keccak", g), n - BlockSize)
CloseKeccak(h) ==
    LET d == [h EXCEPT !.M[h.sz + 1] = XorWith(@, Suffix)]
        e == [d EXCEPT !.M[BlockSize] = XorWith(@, Last80)]
    IN Squeeze(Computate("keccak", e), DigestSize)

Closed(k, h) == IF k = "keccak" THEN CloseKeccak(h) ELSE CloseSha(k, h)

-----------------------------------------------------------------------------
(* HMAC over a hash *)

Pad36 == {<<"pad", 36>>}
Pad5c == {<<"pad", 92>>}
KeyBlock(k, pad) == [i \in 1..BlockSize |-> XorWith(At(k, i), pad)]

\* reset(): a key that is longer than a block is hashed; the inner block.
ResetKey(k) ==
    IF Len(k) > BlockSize THEN Closed(kind, Update(kind, New, k)).hash ELSE k
Inner(k) == Update(kind, New, KeyBlock(k, Pad36))

\* close(): the outer digest.
Outer(k, h) ==
    Closed(kind, Update(kind, Update(kind, New, KeyBlock(k, Pad5c)), Closed(kind, h).hash))

-----------------------------------------------------------------------------
(* A message is hashed *)

Init ==
    /\ kind = "none" /\ key = <<>> /\ given = 0
    /\ hash = New /\ tag = <<>>
    /\ message = <<>> /\ put = <<>> /\ chain = <<>>
    /\ stage = "open" /\ messages = 1 /\ past = {}

Key(n) == [i \in 1..n |-> {<<"key", i>>}]

Make ==
    /\ kind = "none"
    /\ kind' \in {"sha_1", "sha_2", "keccak"}
    /\ UNCHANGED <<key, given, hash, tag, message, put, chain, stage, messages, past>>

\* reset() of an HMAC, new or with a message before.
Reset ==
    /\ kind = "sha_1"
    /\ stage = "open" => hash = New /\ key = <<>> /\ put = <<>>
    /\ stage = "closed" => messages < MaxMessages
    /\ \E n \in 0..MaxKey :
          LET k == ResetKey(Key(n)) IN
          key' = <<k>> /\ given' = n /\ hash' = Inner(k)
    /\ tag' = <<>> /\ message' = <<>> /\ chain' = <<>>
    /\ stage' = "open" /\ messages' = IF stage = "closed" THEN messages + 1 ELSE messages
    /\ UNCHANGED <<kind, put, past>>

More(n) == [i \in 1..n |-> Data(Len(message) + i)]

\* update() of the next n bytes by the program.
UpdateDirect(n) ==
    /\ kind # "none" /\ stage = "open" /\ put = <<>> /\ chain = <<>>
    /\ Len(message) + n <= MaxMessage
    /\ hash' = Update(kind, hash, More(n))
    /\ message' = message \o More(n)
    /\ UNCHANGED <<kind, key, given, tag, put, chain, stage, messages, past>>

\* sync(): what is in the put area is hashed and then written.
Sync(p) ==
    /\ hash' = Update(kind, hash, p)
    /\ \E n \in 0..Len(p) :
          /\ chain' = chain \o SubSeq(p, 1, n)
          /\ IF n < Len(p) THEN put' = p /\ past' = past \union {"short"}
             ELSE put' = <<>> /\ UNCHANGED past

\* Nothing is said of a stream after a write that was cut: it is not followed.
Streaming ==
    /\ kind # "none" /\ stage = "open" /\ past = {}
    /\ Len(message) = Len(chain) + Len(put)

\* sputc(), and overflow().
Put ==
    /\ Streaming /\ Len(message) < MaxMessage
    /\ message' = message \o More(1)
    /\ IF Len(put) < Bufsize - 1
       THEN put' = put \o More(1) /\ UNCHANGED <<hash, chain, past>>
       ELSE Sync(put \o More(1))
    /\ UNCHANGED <<kind, key, given, tag, stage, messages>>

Flush ==
    /\ Streaming /\ put # <<>>
    /\ Sync(put)
    /\ UNCHANGED <<kind, key, given, tag, message, stage, messages>>

\* underflow(): what the chained buffer has, up to the size of the get area.
Underflow(n) ==
    /\ Streaming /\ put = <<>> /\ n <= Bufsize
    /\ Len(message) + n <= MaxMessage
    /\ hash' = Update(kind, hash, More(n))
    /\ message' = message \o More(n) /\ chain' = chain \o More(n)
    /\ UNCHANGED <<kind, key, given, tag, put, stage, messages, past>>

Finish(h) ==
    IF key = <<>> THEN hash' = Closed(kind, h) /\ UNCHANGED tag
    ELSE LET g == Outer(key[1], h) IN hash' = g /\ tag' = g.hash

\* close() of the hash or the HMAC, or of its stream with what is in the put area.
Close ==
    /\ kind # "none" /\ stage = "open" /\ past = {}
    /\ Finish(Update(kind, hash, put))
    /\ chain' = chain \o put /\ put' = <<>>
    /\ stage' = "closed"
    /\ UNCHANGED <<kind, key, given, message, messages, past>>

Next ==
    \/ Make \/ Reset
    \/ \E n \in 1..MaxPiece : UpdateDirect(n) \/ Underflow(n)
    \/ Put \/ Flush \/ Close

Spec == Init /\ [][Next]_vars

-----------------------------------------------------------------------------
(* Properties *)

\* What the standards say is hashed: the message, a bit, zeros and the length up
\* to the end of a block; or the message, the suffix and a bit at the end.
Blocks(b) ==
    [i \in 1..(Len(b) \div BlockSize) |-> SubSeq(b, (i - 1) * BlockSize + 1, i * BlockSize)]
Fitting(n) == CHOOSE z \in 0..(BlockSize - 1) : (n + z) % BlockSize = 0
ShaText(b) ==
    LET bits == 8 * Len(b)
        length == IF kind = "sha_2"
                  THEN <<Length(bits \div LowWord), Length(bits % LowWord)>>
                  ELSE <<Length(bits % LowWord)>>
    IN b \o <<One>> \o Zeros(Fitting(Len(b) + 1 + Len(length))) \o length
KeccakText(b) ==
    LET t == b \o <<Suffix>> \o Zeros(Fitting(Len(b) + 1)) IN
    [t EXCEPT ![Len(t)] = @ \union Last80]
HashOf(b) ==
    IF kind # "keccak" THEN Bytes(Blocks(ShaText(b)), DigestSize)
    ELSE LET S(k) == Blocks(KeccakText(b)) \o [i \in 1..k |-> Zeros(BlockSize)] IN
         [j \in 1..DigestSize |->
            {<<"digest", <<S((j - 1) \div BlockSize), ((j - 1) % BlockSize) + 1>>>>}]
MacOf(n, b) ==
    LET k == IF n > BlockSize THEN HashOf(Key(n)) ELSE Key(n) IN
    HashOf(KeyBlock(k, Pad5c) \o HashOf(KeyBlock(k, Pad36) \o b))

\* The digest is the one of the message, and the tag of an HMAC the one of the
\* message and the key, whatever the pieces were in which the message came, by
\* updates or through the stream, wherever its end falls in a block, and whatever
\* the HMAC was used for before; and the stream passes the message on.
DigestOfMessage ==
    stage = "closed" =>
        /\ key = <<>> => hash.hash = HashOf(message)
        /\ key # <<>> => tag = MacOf(given, message)
        /\ chain \in {<<>>, message}
=============================================================================
