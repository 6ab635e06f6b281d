------------------------------ MODULE Unicode ------------------------------
(***************************************************************************)
(* core/src/utf.cpp, and the two other places that write UTF-8: the        *)
(* numeric references of xml and html (char_reference.cpp) and the tool    *)
(* that converts the table of entities (entities_scanner_generator.cpp).   *)
(* A digit of a text is its value, any other character is NoDigit.         *)
(***************************************************************************)
EXTENDS Integers, SequencesExt

CONSTANTS
    WordBits,   \* bits of uint32_t; at most 30 for the integers of TLC
    Digits,     \* bound: digits of a text
    MaxText,    \* bound: characters of a text after "U+"
    Others      \* bound: codepoints that come next to each other in an entity

VARIABLES
    value,  \* a number
    text    \* what follows "U+" in a text

vars == <<value, text>>

NoDigit == 16
Surrogates == \hD800..\hDFFF
MaxScalar == \h10FFFF
Scalar(v) == v <= MaxScalar /\ v \notin Surrogates

\* (v >> low) & (2^n - 1)
Field(v, low, n) == (v \div 2^low) % 2^n

\* What a list of digits stands for.
Number(digits) == FoldLeft(LAMBDA n, digit : 16 * n + digit, 0, digits)

Throws == <<-1>>

-----------------------------------------------------------------------------
(* codepoint *)

FromNumber(v) == IF Scalar(v) THEN v ELSE 0

\* The constructor from a string lets surrogates pass.
FromString(digits) ==
    IF Len(digits) \in 4..6 /\ NoDigit \notin ToSet(digits) /\ Number(digits) <= MaxScalar
    THEN Number(digits) ELSE 0

\* operator>>, after "U+": the end of the stream makes it fail although the value is there.
RECURSIVE Taken(_, _)
Taken(chars, digits) ==
    LET n == Len(digits)
    IN CASE n = 6 \/ n = Len(chars) -> digits
         [] chars[n + 1] = NoDigit -> digits
         [] n = 5 /\ Field(Number(digits), 12, 8) # \h10 -> digits
         [] OTHER -> Taken(chars, Append(digits, chars[n + 1]))
Extract(chars) ==
    LET digits == Taken(chars, <<>>) n == Len(digits)
    IN [cp |-> IF n >= 4 THEN FromNumber(Number(digits)) ELSE 0,
        taken |-> n,
        fails |-> n < 4 \/ (n < 6 /\ n = Len(chars))]

\* operator<<, without its "U+".
Nibbles(v) == CHOOSE n \in 1..7 : v < 16^n /\ (n > 1 => v >= 16^(n - 1))
Insert(cp) ==
    LET width == IF cp < 2^16 THEN 4 ELSE 5
        n == IF Nibbles(cp) > width THEN Nibbles(cp) ELSE width
    IN <<>> \o [k \in 1..n |-> Field(cp, 4 * (n - k), 4)]

-----------------------------------------------------------------------------
(* utf8, utf16, utf32; each converts back to the codepoint 0 *)

Trail(v, low) == 128 + Field(v, low, 6)

Utf8(cp) ==
    CASE cp < 2^7 -> <<cp>>
      [] cp \in 2^7..(2^11 - 1) -> <<\hC0 + Field(cp, 6, 5), Trail(cp, 0)>>
      [] cp \in 2^11..(2^16 - 1) -> <<\hE0 + Field(cp, 12, 4), Trail(cp, 6), Trail(cp, 0)>>
      [] cp \in 2^16..(2^21 - 1) ->
            <<\hF0 + Field(cp, 18, 3), Trail(cp, 12), Trail(cp, 6), Trail(cp, 0)>>
      [] OTHER -> <<0>>

Utf16(cp) ==
    CASE cp < 2^16 -> <<cp>>
      [] cp \in 2^16..(2^21 - 1) ->
            LET u == cp - 2^16 IN <<\hD800 + Field(u, 10, 10), \hDC00 + Field(u, 0, 10)>>
      [] OTHER -> <<0>>

Utf32(cp) == IF cp < 2^21 THEN cp ELSE 0

-----------------------------------------------------------------------------
(* char_reference: a number of the word, which wraps round *)

InsertCodepoint(v) ==
    CASE v < 2^7 -> <<v>>
      [] v \in 2^7..(2^11 - 1) -> <<\hC0 + Field(v, 6, 5), Trail(v, 0)>>
      [] v \in 2^11..(2^16 - 1) -> <<\hE0 + Field(v, 12, 4), Trail(v, 6), Trail(v, 0)>>
      [] v >= 2^16 /\ Field(v, 20, 3) = 0 /\ Field(v, 24, WordBits - 24) = 0 ->
            <<\hF0 + Field(v, 18, 2), Trail(v, 12), Trail(v, 6), Trail(v, 0)>>
      [] OTHER -> Throws

Reference(digits, base) == FoldLeft(LAMBDA n, digit : (base * n + digit) % 2^WordBits, 0, digits)

-----------------------------------------------------------------------------
(* The tool: an entity is one or more UTF-16 units *)

\* Faulty variants of the definitions below, used to test the properties.
ConvertShortTail(high, low) ==
    IF low \notin \hDC00..\hDFFF THEN Utf8(low)
    ELSE LET h == IF Field(high, 6, 1) = 0 THEN Field(high, 0, 10) + 64 ELSE Field(high, 0, 10)
             l == Field(low, 0, 9)
         IN <<\hF0 + h \div 256, 128 + Field(h, 2, 6), 128 + Field(h, 0, 2) * 16 + l \div 64, Trail(l, 0)>>

\* The definitions themselves.

\* convert() sets the bit of 0x40 in the high surrogate where it should add it.
Convert(high, low) ==
    IF low \notin \hDC00..\hDFFF THEN Utf8(low)
    ELSE LET h == IF Field(high, 6, 1) = 0 THEN Field(high, 0, 10) + 64 ELSE Field(high, 0, 10)
             l == Field(low, 0, 10)
         IN <<\hF0 + h \div 256, 128 + Field(h, 2, 6), 128 + Field(h, 0, 2) * 16 + l \div 64, Trail(l, 0)>>

\* generate_utf8_codepoints(): a unit that is not the last is a high one from 0xD800 on.
RECURSIVE Generate(_, _)
Generate(units, high) ==
    IF Len(units) = 1 THEN Convert(high, units[1])
    ELSE IF units[1] >= \hD800 THEN Generate(Tail(units), units[1])
    ELSE Convert(0, units[1]) \o Generate(Tail(units), high)

-----------------------------------------------------------------------------
(* Numbers around each power of two and the ends of the ranges, and texts *)

Edges == {\hD7FF, \hD800, \hDBFF, \hDC00, \hDFFF, \hE000, \hFFFF, \h10FFFF, \h1D504, \h2F800}
    \union {2^k : k \in 0..(WordBits - 1)}
Values == {v \in {edge + d : edge \in Edges, d \in {-1, 0, 1}} : v >= 0 /\ v < 2^WordBits}
    \union {k * 2^16 + \h1234 : k \in 1..16}

Init == value \in Values /\ text = <<>>

\* A text grows up to its first character that is no digit.
Grow ==
    /\ value = 0 /\ Len(text) < MaxText /\ NoDigit \notin ToSet(text)
    /\ \E ch \in Digits \union {NoDigit} : text' = Append(text, ch)
    /\ UNCHANGED value

Next == Grow
Spec == Init /\ [][Next]_vars

-----------------------------------------------------------------------------
(* Properties *)

\* A sequence of bytes is the codepoint v in the form that RFC 3629 allows for it.
IsUtf8(bytes, v) ==
    LET n == Len(bytes)
        first == CASE n = 1 -> 0 [] n = 2 -> \hC0 [] n = 3 -> \hE0 [] OTHER -> \hF0
        least == CASE n = 1 -> 0 [] n = 2 -> 2^7 [] n = 3 -> 2^11 [] OTHER -> 2^16
    IN /\ n \in 1..4 /\ v >= least
       /\ \A k \in 2..n : bytes[k] \in 128..191
       /\ FoldLeft(LAMBDA sum, byte : 64 * sum + (byte - 128), bytes[1] - first, Tail(bytes)) = v

\* The units of UTF-16 of RFC 2781.
IsUtf16(units, v) ==
    \/ v < 2^16 /\ units = <<v>>
    \/ v >= 2^16 /\ Len(units) = 2 /\ units[1] \in \hD800..\hDBFF /\ units[2] \in \hDC00..\hDFFF
       /\ (units[1] - \hD800) * 1024 + (units[2] - \hDC00) + 2^16 = v

\* Every encoding of a codepoint is that of its RFC, whoever writes it, and a reference to a
\* number that is none throws.  A reference throws for all of plane 16, takes numbers with bit
\* 23 and surrogates, and those that wrap round; the tool gets every second plane wrong, and
\* loses a unit from 0xD800 on before another and a pair before anything.
Encodes ==
    /\ Scalar(value) =>
          /\ IsUtf8(Utf8(value), value) /\ IsUtf16(Utf16(value), value) /\ Utf32(value) = value
          /\ InsertCodepoint(value) = IF value < 2^20 THEN Utf8(value) ELSE Throws
          /\ value < 2^16 \/ Field(value, 16, 5) % 2 = 1 => Generate(Utf16(value), 0) = Utf8(value)
          /\ value \in 1..(\hD800 - 1) =>
                \A other \in Others :
                    Generate(Utf16(value) \o Utf16(other), 0) = Utf8(value) \o Utf8(other)
    /\ ~ Scalar(value) /\ value \notin Surrogates /\ Field(value, 23, 1) = 0 => InsertCodepoint(value) = Throws
    /\ FromNumber(value) \in {value, 0} /\ (FromNumber(value) = value <=> Scalar(value))

\* What is written is read again by both readers.  In any text the stream takes the longest
\* number of four or five digits, or one of six digits in plane 16; it agrees with the string
\* of what it took but for surrogates, and with a reference to it.
ReadsCodepoints ==
    LET read == Extract(text)
        digits == SubSeq(text, 1, read.taken)
    IN /\ Scalar(value) =>
             LET written == Insert(value) again == Extract(Append(written, NoDigit))
             IN again.cp = value /\ ~ again.fails /\ FromString(written) = value
       /\ read.taken >= 4 =>
             /\ read.cp = IF Scalar(Number(digits)) THEN FromString(digits) ELSE 0
             /\ Reference(digits, 16) = Number(digits)
             /\ \A n \in (read.taken + 1)..6 :
                    n <= Len(text) => text[n] = NoDigit \/ (n = 6 /\ Number(SubSeq(text, 1, 6)) \notin 2^20..MaxScalar)

Transforms == Encodes /\ ReadsCodepoints
=============================================================================
