---------------------------- MODULE MCAlgorithms ----------------------------
(***************************************************************************)
(* The parts of the libraries that one object goes through on its own, on  *)
(* small instances, each from its own initial states: a behaviour is one   *)
(* of a single part.  The streams have their own variables, which are at   *)
(* rest while another part takes its turn; the other parts share theirs,   *)
(* the first ones of which a part uses, while the rest stay "unused".      *)
(***************************************************************************)
EXTENDS StreamBuffer

CONSTANTS
    main, thread1,  \* threads of the log
    p1, p2, nowhere \* endpoints, and none

VARIABLES part, x1, x2, x3, x4, x5, x6, x7, x8, x9, x10, x11, x12

\* The key and the text of the examples in appendix C of FIPS 197.
Upto(n) == [i \in 1..n |-> i - 1]
Text == [i \in 1..16 |-> 17 * (i - 1)]

Datagrams == INSTANCE Udp WITH
    Peers <- {p1, p2}, None <- nowhere, MaxSize <- 1, MaxPut <- 2, MaxDatagrams <- 2,
    queue <- x1, count <- x2, area <- x3, from <- x4, good <- x5, dest <- x6, put <- x7,
    sent <- x8, stage <- x9, past <- x10

Framing == INSTANCE HttpFraming WITH
    MaxMessages <- 2, MaxBody <- 2,
    sent <- x1, line <- x2, ended <- x3, stage <- x4, need <- x5, body <- x6, got <- x7

Heading == INSTANCE HttpHead WITH
    Uris <- {<<"/", "x">>, <<"/", " ", "x">>, <<"/", ",">>, <<"/", ":", "x">>},
    Values <- {<<"x", " ", ",", "x">>, <<>>, <<"x", "HT">>},
    Noise <- {" ", "HT", ":", ",", "CR", "LF", "x", "1", "-", "%20", "|", "Close", "connection", "h://h/"},
    MaxChanges <- 1,
    message <- x1, zone <- x2, text <- x3, changes <- x4, whole <- x5, read <- x6

Hello == INSTANCE TlsHello WITH
    MaxExtensions <- 2,
    extensions <- x1, session <- x2, wire <- x3, pos <- x4, found <- x5, stage <- x6

Logging == INSTANCE Log WITH
    Threads <- {main, thread1}, Main <- main, Severities <- {1, 2}, ErrorLevel <- 2, Kept <- 1,
    MaxMessages <- 2, MaxChanges <- 1,
    settings <- x1, known <- x2, renewed <- x3, log <- x4, step <- x5, lines <- x6,
    said <- x7, changes <- x8

Cipher == INSTANCE CipherStream WITH
    BlockSize <- 3, MaxLength <- 7, MaxTexts <- 2,
    mode <- x1, padding <- x2, enc <- x3, dec <- x4, text <- x5, put <- x6, good <- x7,
    chain <- x8, taken <- x9, stage <- x10, texts <- x11, past <- x12

Hash == INSTANCE Digest WITH
    BlockSize <- 4, DigestSize <- 5, LowWord <- 48, Bufsize <- 3, MaxMessage <- 9,
    MaxPiece <- 5, MaxKey <- 6, MaxMessages <- 2,
    kind <- x1, key <- x2, given <- x3, hash <- x4, tag <- x5, message <- x6, put <- x7,
    chain <- x8, stage <- x9, messages <- x10, past <- x11

Derivation == INSTANCE Hkdf WITH
    HashSize <- 2, TagSizes <- {0, 1}, CountBits <- 2, MaxKeys <- 2, Sizes <- {0, 3, 6, 7},
    Salts <- {<<>>, <<<<"salt", 0>>>>}, Infos <- {<<>>, <<<<"info", 0>>>>},
    keying <- x1, mac <- x2, prk <- x3, call <- x4, T <- x5, count <- x6, key <- x7, stage <- x8,
    keys <- x9

Rounds == INSTANCE Aes WITH
    Samples <- {
        [key |-> Upto(16), text |-> Text, cipher |-> <<105, 196, 224, 216, 106, 123, 4, 48,
                                                       216, 205, 183, 128, 112, 180, 197, 90>>],
        [key |-> Upto(24), text |-> Text, cipher |-> <<221, 169, 124, 164, 134, 76, 223, 224,
                                                       110, 175, 112, 160, 236, 13, 113, 145>>],
        [key |-> Upto(32), text |-> Text, cipher |-> <<142, 162, 183, 202, 81, 103, 69, 191,
                                                       234, 252, 73, 144, 75, 73, 96, 137>>]},
    sample <- x1, words <- x2, block <- x3, round <- x4, stage <- x5

Abc == <<97, 98, 99>>
As(n) == [i \in 1..n |-> 97]

\* One block, and two.
Schedule == INSTANCE Sha WITH
    Samples <- {
        [kind |-> "SHA-1", message |-> Abc,
         digest |-> <<\ha999, \h3e36, \h4706, \h816a, \hba3e, \h2571, \h7850, \hc26c, \h9cd0, \hd89d>>],
        [kind |-> "SHA-224", message |-> Abc,
         digest |-> <<\h2309, \h7d22, \h3405, \hd822, \h8642, \ha477, \hbda2, \h55b3, \h2aad, \hbce4,
            \hbda0, \hb3f7, \he36c, \h9da7>>],
        [kind |-> "SHA-256", message |-> As(64),
         digest |-> <<\hffe0, \h54fe, \h7ae0, \hcb6d, \hc65c, \h3af9, \hb61d, \h5209, \hf439, \h851d,
            \hb43d, \h0ba5, \h9973, \h37df, \h1546, \h68eb>>],
        [kind |-> "SHA-384", message |-> Abc,
         digest |-> <<\hcb00, \h753f, \h45a3, \h5e8b, \hb5a0, \h3d69, \h9ac6, \h5007, \h272c, \h32ab,
            \h0ede, \hd163, \h1a8b, \h605a, \h43ff, \h5bed, \h8086, \h072b, \ha1e7, \hcc23,
            \h58ba, \heca1, \h34c8, \h25a7>>],
        [kind |-> "SHA-512", message |-> As(112),
         digest |-> <<\hc01d, \h080e, \hfd49, \h2776, \ha1c4, \h3bd2, \h3dd9, \h9d0a, \h2e62, \h6d48,
            \h1e16, \h782e, \h75d5, \h4c25, \h03b5, \hdc32, \hbd05, \hf0f1, \hba33, \he568,
            \hb88f, \hd2d9, \h7092, \h9b71, \h9ecb, \hb152, \hf58f, \h130a, \h407c, \h8830,
            \h604b, \h70ca>>],
        [kind |-> "SHA-512/224", message |-> Abc,
         digest |-> <<\h4634, \h270f, \h707b, \h6a54, \hdaae, \h7530, \h4608, \h42e2, \h0e37, \hed26,
            \h5cee, \he9a4, \h3e89, \h24aa>>],
        [kind |-> "SHA-512/256", message |-> Abc,
         digest |-> <<\h5304, \h8e26, \h8194, \h1ef9, \h9b2e, \h29b7, \h6b4c, \h7dab, \he4c2, \hd0c6,
            \h34fc, \h6d46, \he0e2, \hf131, \h07e7, \haf23>>]},
    sample <- x1, left <- x2, hash <- x3, schedule <- x4, work <- x5, round <- x6

\* SHA3-256; SHA3-512 of a full block; SHAKE-128 with one byte of padding, squeezed twice.
Sponge == INSTANCE Keccak WITH
    Samples <- {
        [capacity |-> 64, suffix |-> 6, message |-> Abc,
         digest |-> <<58, 152, 93, 167, 79, 226, 37, 178, 4, 92, 23, 45, 107, 211, 144, 189, 133, 95, 8,
            110, 62, 157, 82, 91, 70, 191, 226, 69, 17, 67, 21, 50>>],
        [capacity |-> 128, suffix |-> 6, message |-> As(72),
         digest |-> <<168, 174, 114, 42, 120, 225, 12, 187, 196, 19, 136, 108, 2, 235, 91, 54, 154, 3,
            246, 86, 0, 132, 175, 245, 102, 189, 89, 123, 183, 173, 140, 28, 205, 134, 232, 18,
            150, 133, 35, 89, 191, 47, 173, 219, 81, 83, 192, 167, 68, 87, 34, 152, 120, 117,
            231, 66, 135, 173, 172, 33, 173, 235, 233, 82>>],
        [capacity |-> 32, suffix |-> 31, message |-> As(167),
         digest |-> <<79, 92, 108, 83, 174, 129, 144, 168, 255, 138, 85, 178, 18, 93, 40, 112, 48, 82,
            209, 2, 120, 87, 9, 96, 194, 6, 106, 144, 93, 145, 108, 52, 92, 212, 77, 138, 54,
            115, 96, 192, 160, 61, 161, 123, 168, 200, 128, 26, 251, 123, 122, 4, 123, 14, 46,
            168, 111, 200, 31, 118, 232, 98, 55, 32, 225, 104, 195, 77, 96, 178, 135, 145, 80,
            32, 161, 101, 19, 63, 205, 230, 142, 81, 254, 14, 19, 228, 208, 3, 105, 101, 169,
            100, 151, 151, 206, 254, 162, 205, 118, 231, 254, 222, 217, 30, 102, 152, 227, 174,
            136, 32, 229, 104, 28, 216, 195, 206, 206, 45, 235, 241, 94, 100, 176, 31, 152, 228,
            147, 162, 185, 26, 118, 126, 29, 120, 255, 219, 108, 105, 69, 165, 221, 40, 111, 29,
            119, 188, 81, 205, 228, 123, 231, 124, 31, 36, 181, 139, 131, 255, 223, 226, 114,
            196, 173, 187, 107, 174, 62, 87, 218, 202, 144, 220, 45, 147, 253, 156>>]},
    sample <- x1, left <- x2, lanes <- x3, round <- x4, stage <- x5, out <- x6

\* An initialization vector of 12 bytes, of 20, and one whose first counter ends with 32 ones.
Wrapping == <<98, 74, 206, 127, 247, 51, 90, 22, 184, 112, 125, 109, 90, 186, 25, 193>>

Galois == INSTANCE Gcm WITH
    Samples <- {[iv |-> Upto(12), aad |-> <<>>, text |-> <<>>],
                [iv |-> Upto(12), aad |-> As(5), text |-> As(33)],
                [iv |-> As(20), aad |-> Upto(16), text |-> Upto(32)],
                [iv |-> Wrapping, aad |-> As(17), text |-> As(18)]},
    sample <- x1, left <- x2, Y <- x3, X <- x4, len <- x5, out <- x6, tag <- x7, stage <- x8,
    wrapped <- x9

Shared == INSTANCE X25519 WITH
    LimbBits <- 5, Limbs <- 4, A24 <- <<25, 9, 1, 0>>,
    Keys <- {<<0, 0, 0, 0>>, <<31, 31, 31, 31>>, <<9, 17, 3, 22>>, <<26, 5, 30, 8>>,
             <<15, 0, 16, 1>>},
    private <- x1, results <- x2, bit <- x3, reg <- x4, exact <- x5

Integer == INSTANCE Bigint WITH
    IntSize <- 4, Operands <- {0, 1, -5, 7, 200, 255, -300, 4097}, Shifts <- {1, 7, 8, 11},
    Exponents <- {-1, 0, 2, 3}, MaxValue <- 70000, MaxBase <- 41, MaxSteps <- 2,
    reg <- x1, exact <- x2, sound <- x3, steps <- x4

Bytes == INSTANCE Buffer WITH
    ByteBits <- 2, Boundary <- 3, Growth <- 2, MaxSize <- 5, MaxSteps <- 3,
    data <- x1, sz <- x2, exact <- x3, high <- x4, sound <- x5, area <- x6, taken <- x7,
    steps <- x8

Query == INSTANCE XmlQuery WITH
    Words <- {"a", "text"}, MaxPieces <- 5, MaxPath <- 3, MaxNodes <- 3,
    query <- x1, path <- x2

Objects == INSTANCE Json WITH
    BufSize <- 6, MaxPieces <- 6,
    text <- x1, read <- x2, pieces <- x3, count <- x4, written <- x5

Scope == INSTANCE Namespaces WITH
    PrefixNames <- {"p", "q"}, Uris <- {"u", "v"}, MaxDepth <- 3, MaxDefinitions <- 3,
    path <- x1, name <- x2

Points == INSTANCE Unicode WITH
    WordBits <- 28, Digits <- {0, 1, 13, 15}, MaxText <- 7,
    Others <- {0, 65, 55295, 57344, 119808},
    value <- x1, text <- x2

References == INSTANCE CharReference WITH
    Names <- {<<"a", ";">>, <<"a", "b", ";">>, <<"b", "a", ";">>, <<"a", "b", "x", ";">>},
    MaxNames <- 2, MaxPieces <- 3,
    dialect <- x1, entities <- x2, scanner <- x3, beyond <- x4, text <- x5, count <- x6

Location == INSTANCE Uri WITH
    Ports <- [s \in {<<"h">>} |-> 12], PortBits <- 4, MaxPieces <- 4,
    text <- x1, uri <- x2, pieces <- x3, count <- x4

-----------------------------------------------------------------------------
(* What a part leaves unused *)

after12 == <<part, vars>>
after11 == <<x12, after12>>
after10 == <<x11, after11>>
after9 == <<x10, after10>>
after8 == <<x9, after9>>
after7 == <<x8, after8>>
after6 == <<x7, after7>>
after5 == <<x6, after6>>
after4 == <<x5, after5>>
after2 == <<x3, x4, after4>>
others == <<x1, x2, x3, x4, x5, x6, x7, x8, x9, x10, x11, x12>>

Unused11 == x12 = "unused"
Unused10 == x11 = "unused" /\ Unused11
Unused9 == x10 = "unused" /\ Unused10
Unused8 == x9 = "unused" /\ Unused9
Unused7 == x8 = "unused" /\ Unused8
Unused6 == x7 = "unused" /\ Unused7
Unused5 == x6 = "unused" /\ Unused6
Unused4 == x5 = "unused" /\ Unused5
Unused2 == x3 = "unused" /\ x4 = "unused" /\ Unused4
Unused0 == x1 = "unused" /\ x2 = "unused" /\ Unused2

AloneInit ==
    /\ Init
    /\ \/ part = "streams" /\ Unused0
       \/ part = "datagrams" /\ Datagrams!Init /\ Unused10
       \/ part = "framing" /\ Framing!Init /\ Unused7
       \/ part = "heading" /\ Heading!Init /\ Unused6
       \/ part = "hello" /\ Hello!Init /\ Unused6
       \/ part = "log" /\ Logging!Init /\ Unused8
       \/ part = "cipher" /\ Cipher!Init
       \/ part = "hash" /\ Hash!Init /\ Unused11
       \/ part = "derivation" /\ Derivation!Init /\ Unused9
       \/ part = "rounds" /\ Rounds!Init /\ Unused5
       \/ part = "schedule" /\ Schedule!Init /\ Unused6
       \/ part = "sponge" /\ Sponge!Init /\ Unused6
       \/ part = "galois" /\ Galois!Init /\ Unused9
       \/ part = "shared" /\ Shared!Init /\ Unused5
       \/ part = "integer" /\ Integer!Init /\ Unused4
       \/ part = "bytes" /\ Bytes!Init /\ Unused8
       \/ part = "query" /\ Query!Init /\ Unused2
       \/ part = "scope" /\ Scope!Init /\ Unused2
       \/ part = "objects" /\ Objects!Init /\ Unused5
       \/ part = "points" /\ Points!Init /\ Unused2
       \/ part = "references" /\ References!Init /\ Unused6
       \/ part = "location" /\ Location!Init /\ Unused4

AloneNext ==
    \/ part = "streams" /\ Next /\ UNCHANGED <<part, others>>
    \/ part = "datagrams" /\ Datagrams!Next /\ UNCHANGED after10
    \/ part = "framing" /\ Framing!Next /\ UNCHANGED after7
    \/ part = "heading" /\ Heading!Next /\ UNCHANGED after6
    \/ part = "hello" /\ Hello!Next /\ UNCHANGED after6
    \/ part = "log" /\ Logging!Next /\ UNCHANGED after8
    \/ part = "cipher" /\ Cipher!Next /\ UNCHANGED after12
    \/ part = "hash" /\ Hash!Next /\ UNCHANGED after11
    \/ part = "derivation" /\ Derivation!Next /\ UNCHANGED after9
    \/ part = "rounds" /\ Rounds!Next /\ UNCHANGED after5
    \/ part = "schedule" /\ Schedule!Next /\ UNCHANGED after6
    \/ part = "sponge" /\ Sponge!Next /\ UNCHANGED after6
    \/ part = "galois" /\ Galois!Next /\ UNCHANGED after9
    \/ part = "shared" /\ Shared!Next /\ UNCHANGED after5
    \/ part = "integer" /\ Integer!Next /\ UNCHANGED after4
    \/ part = "bytes" /\ Bytes!Next /\ UNCHANGED after8
    \/ part = "query" /\ Query!Next /\ UNCHANGED after2
    \/ part = "scope" /\ Scope!Next /\ UNCHANGED after2
    \/ part = "objects" /\ Objects!Next /\ UNCHANGED after5
    \/ part = "points" /\ Points!Next /\ UNCHANGED after2
    \/ part = "references" /\ References!Next /\ UNCHANGED after6
    \/ part = "location" /\ Location!Next /\ UNCHANGED after4

AloneSpec == AloneInit /\ [][AloneNext]_<<part, others, vars>>

-----------------------------------------------------------------------------
(* Properties *)

\* What is given to a message of HTTP or its head, a hello of TLS or a log comes out at the
\* other end whole, once and in order, and a reply to a datagram at its sender, but for the
\* cases that each part names: see RepliesToSender, KeepsBoundaries, ReadsHeads, ReadBack
\* and Logged.
Delivers ==
    /\ part = "datagrams" => Datagrams!RepliesToSender
    /\ part = "framing" => Framing!KeepsBoundaries
    /\ part = "heading" => Heading!ReadsHeads
    /\ part = "hello" => Hello!ReadBack
    /\ part = "log" => Logging!Logged

\* However a text is cut into pieces and flushed, decrypting gives it back or throws,
\* a digest is that of the whole message and a derived key that of the standard; the rounds of
\* AES follow the standard and are undone by their inverses; those of SHA-1, SHA-2 and SHA-3
\* give the standard's digests; Galois counter mode gives the standard's text and tag while
\* its counter stays within 32 bits; and two parties find the same key: see RoundTrip,
\* DigestOfMessage, KeysExpand, BlockBack, DigestsAgree, SpongeAgrees, CountsAndTags and
\* KeysAgree.
\* A big integer is the integer of the operations done on it, a buffer holds the bytes that
\* were put into it, and a text is read as what it says and written as what it was read from:
\* queries and namespaces of XML, JSON, codepoints, character references and URIs; unless an
\* operation met with what it is known to get wrong: see Exact, HoldsBytes, Selects, Scopes,
\* Parses, Transforms, Refers and Locates.
Computes ==
    /\ part = "cipher" => Cipher!RoundTrip
    /\ part = "hash" => Hash!DigestOfMessage
    /\ part = "derivation" => Derivation!KeysExpand
    /\ part = "rounds" => Rounds!BlockBack
    /\ part = "schedule" => Schedule!DigestsAgree
    /\ part = "sponge" => Sponge!SpongeAgrees
    /\ part = "galois" => Galois!CountsAndTags
    /\ part = "shared" => Shared!KeysAgree
    /\ part = "integer" => Integer!Exact
    /\ part = "bytes" => Bytes!HoldsBytes
    /\ part = "query" => Query!Selects
    /\ part = "scope" => Scope!Scopes
    /\ part = "objects" => Objects!Parses
    /\ part = "points" => Points!Transforms
    /\ part = "references" => References!Refers
    /\ part = "location" => Location!Locates
=============================================================================
