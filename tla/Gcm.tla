-------------------------------- MODULE Gcm --------------------------------
(***************************************************************************)
(* crypto/src/block_cipher.cpp, class gcm: the counter, the hash and the   *)
(* tag of Galois counter mode on blocks of 128 bits, block by block.  A    *)
(* block is the set of its bits that are one, bit 0 being the highest of   *)
(* the first byte; a text is a sequence of bytes.  The streams around it   *)
(* and the padding of other modes are in CipherStream, the cipher in Aes.  *)
(***************************************************************************)
EXTENDS Integers, SequencesExt, FiniteSetsExt

CONSTANTS
    Samples     \* [iv, aad, text]

VARIABLES
    sample,     \* keying material and, as history, the text that is encrypted
    left,       \* the text not yet processed
    Y,          \* _Y, the counter
    X,          \* _X, the hash
    len,        \* _len_C
    out,        \* the blocks that came out, each with its length
    tag,        \* _tag
    stage,      \* "encrypt", "decrypt", "done"
    wrapped     \* history: the counter went past 32 bits

vars == <<sample, left, Y, X, len, out, tag, stage, wrapped>>

All == 0..127
Xor2(x, y) == (x \ y) \cup (y \ x)

Bits(bytes) ==
    UNION {{8 * i - 1 - b : b \in {b \in 0..7 : (bytes[i] \div 2^b) % 2 = 1}} : i \in DOMAIN bytes}
Bytes(x, n) ==
    [i \in 1..n |-> FoldLeft(LAMBDA v, b : 2 * v + (IF 8 * (i - 1) + b \in x THEN 1 ELSE 0), 0,
                             [b \in 1..8 |-> b - 1])]
\* A text in blocks, the last of which may be short.
Blocks(t) ==
    [k \in 1..(Len(t) + 15) \div 16 |->
        SubSeq(t, 16 * k - 15, IF 16 * k < Len(t) THEN 16 * k ELSE Len(t))]

\* The number of bits in n bytes, as the half of a block that ends before bit end.
LengthBits(n, end) == {end - 1 - b : b \in {b \in 0..30 : ((8 * n) \div 2^b) % 2 = 1}}

-----------------------------------------------------------------------------
(* The operations *)

\* An invertible function of a block, in place of the cipher.
Forward(x) == Xor2({(i + 37) % 128 : i \in x}, {1, 5, 6, 40, 77, 100, 126, 127})

\* mult(): v is shifted 128 times and reduced by what is shifted out.
Shifted(v) == Xor2({i + 1 : i \in v \ {127}}, IF 127 \in v THEN {0, 1, 2, 7} ELSE {})
RECURSIVE Shifts(_)
Shifts(s) == IF Len(s) = 128 THEN s ELSE Shifts(Append(s, Shifted(Last(s))))
SumOf(p, y) == {b \in All : Cardinality({i \in y : b \in p[i + 1]}) % 2 = 1}
Mult(x, y) == SumOf(Shifts(<<x>>), y)

H == Forward({})

\* ghash() of one text, from a hash.
Ghash(x, t) == FoldLeft(LAMBDA h, b : Mult(Xor2(h, Bits(b)), H), x, Blocks(t))

\* counter_t::operator++ carries through eight bytes, the last bit being 127.
Plus1(x, low) ==
    LET zeros == low \ x
        k == Max(zeros)
    IN IF zeros = {} THEN x \ low ELSE (x \ {i \in low : i > k}) \cup {k}
Increment(x) == Plus1(x, 64..127)

\* The first counter.
Y0 ==
    IF Len(sample.iv) = 12 THEN Bits(sample.iv) \cup {127}
    ELSE Mult(Xor2(Ghash({}, sample.iv), LengthBits(Len(sample.iv), 128)), H)

-----------------------------------------------------------------------------

\* What the constructor leaves.
Made ==
    /\ Y' = Y0
    /\ X' = Ghash({}, sample.aad)
    /\ len' = 0

Init ==
    /\ sample \in Samples
    /\ left = Blocks(sample.text)
    /\ Y = Y0 /\ X = Ghash({}, sample.aad) /\ len = 0
    /\ out = <<>> /\ tag = {}
    /\ stage = "encrypt"
    /\ wrapped = FALSE

\* authenticate()
Tag(x, n) ==
    LET lengths == LengthBits(Len(sample.aad), 64) \cup LengthBits(n, 128)
    IN Xor2(Mult(Xor2(x, lengths), H), Forward(Y0))

\* Faulty variants of the definitions below, used to test the properties.
BlockUnauthenticated ==
    /\ left # <<>> /\ stage # "done"
    /\ LET text == Head(left)
           y == Increment(Y)
           result == Xor2(Bits(text), Forward(y)) \cap 0..(8 * Len(text) - 1)
       IN /\ out' = Append(out, Bytes(result, Len(text)))
          /\ Y' = y
          /\ X' = Mult(Xor2(X, result), H)
          /\ len' = len + Len(text)
          /\ left' = Tail(left)
          /\ tag' = IF Len(left) = 1 THEN Tag(X', len') ELSE tag
    /\ wrapped' = (wrapped \/ 96..127 \subseteq Y)
    /\ UNCHANGED <<sample, stage>>

\* A block is encrypted or decrypted; the hash is of the encrypted one, and the last block,
\* which the caller marks as final, gives the tag.
Block ==
    /\ left # <<>> /\ stage # "done"
    /\ LET text == Head(left)
           y == Increment(Y)
           result == Xor2(Bits(text), Forward(y)) \cap 0..(8 * Len(text) - 1)
       IN /\ out' = Append(out, Bytes(result, Len(text)))
          /\ Y' = y
          /\ X' = Mult(Xor2(X, IF stage = "encrypt" THEN result ELSE Bits(text)), H)
          /\ len' = len + Len(text)
          /\ left' = Tail(left)
          /\ tag' = IF Len(left) = 1 THEN Tag(X', len') ELSE tag
    /\ wrapped' = (wrapped \/ 96..127 \subseteq Y)
    /\ UNCHANGED <<sample, stage>>

\* Nothing to encrypt or decrypt at all.
Empty ==
    /\ left = <<>> /\ out = <<>> /\ tag = {} /\ stage # "done"
    /\ tag' = Tag(X, 0)
    /\ UNCHANGED <<sample, left, Y, X, len, out, stage, wrapped>>

\* Another object decrypts what came out.
Turn ==
    /\ left = <<>> /\ tag # {} /\ stage # "done"
    /\ IF stage = "encrypt"
       THEN Made /\ left' = out /\ out' = <<>> /\ tag' = {} /\ stage' = "decrypt"
       ELSE stage' = "done" /\ UNCHANGED <<left, Y, X, len, out, tag>>
    /\ UNCHANGED <<sample, wrapped>>

Next == Block \/ Empty \/ Turn

Spec == Init /\ [][Next]_vars

-----------------------------------------------------------------------------
(* Properties *)

\* A polynomial whose terms above the highest of a block are replaced by what they are modulo
\* the one of the field, 1 + x + x^2 + x^7 + x^128; twice, as the first may leave some.
Reduced(p) ==
    {k \in 0..254 : Cardinality({e \in {0, 1, 2, 7} : k - e + 128 \in p /\ k >= e}
                               \cup {c \in {3} : k < 128 /\ k \in p}) % 2 = 1}

\* The product of two polynomials, whose lowest term is bit 0, modulo the one of the field.
Product(x, y) ==
    LET raw == {k \in 0..254 : Cardinality({i \in x : k - i \in y}) % 2 = 1}
    IN Reduced(Reduced(raw))

\* GHASH, the counters and the tag of NIST SP 800-38D, of an encrypted text.
GhashOf(blocks) == FoldLeft(LAMBDA h, b : Product(Xor2(h, b), H), {}, blocks)
BitBlocks(t) == [k \in DOMAIN Blocks(t) |-> Bits(Blocks(t)[k])]
J0 == IF Len(sample.iv) = 12 THEN Bits(sample.iv) \cup {127}
      ELSE GhashOf(Append(BitBlocks(sample.iv), LengthBits(Len(sample.iv), 128)))
Counter[k \in 0..Len(Blocks(sample.text))] ==
    IF k = 0 THEN J0 ELSE Plus1(Counter[k - 1], 96..127)
CipherText ==
    [k \in DOMAIN Blocks(sample.text) |->
        LET text == Blocks(sample.text)[k]
        IN Bytes(Xor2(Bits(text), Forward(Counter[k])), Len(text))]
StandardTag ==
    LET c == [k \in DOMAIN CipherText |-> Bits(CipherText[k])]
        lengths == LengthBits(Len(sample.aad), 64) \cup LengthBits(Len(sample.text), 128)
    IN Xor2(GhashOf(BitBlocks(sample.aad) \o c \o <<lengths>>), Forward(J0))

\* block_cipher.h: Galois counter mode.  The encrypted text and the tag are those of the
\* standard, and decrypting gives the text and the same tag; where the counter goes past 32
\* bits, only the text comes back, as the carry goes on where the standard's does not.
CountsAndTags ==
    left = <<>> /\ tag # {} =>
        /\ stage = "encrypt" /\ ~ wrapped => out = CipherText
        /\ stage # "encrypt" => out = Blocks(sample.text)
        /\ ~ wrapped => tag = StandardTag
=============================================================================
