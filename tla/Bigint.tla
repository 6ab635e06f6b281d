------------------------------- MODULE Bigint -------------------------------
(***************************************************************************)
(* core/src/bigint.cpp: a signed integer of any size, as a sign and an     *)
(* array of bytes, the most significant first.  A register goes through a  *)
(* chain of operations beside the integer it should hold.                  *)
(*                                                                         *)
(* Two reads leave the arrays.  Comparing two equal values goes on to the  *)
(* byte after both: the comparison can end with any of its results, and    *)
(* `tie' is the one it ends with.  An addition may read the byte before an *)
(* array, which the GNU allocator keeps zero.                              *)
(***************************************************************************)
EXTENDS Integers, SequencesExt

CONSTANTS
    IntSize,    \* sizeof(int)
    Operands,   \* bound: the integers that are given to the operations
    Shifts,     \* bound: numbers of bits that are shifted
    Exponents,  \* bound: exponents
    MaxValue,   \* bound: the size of the integers that are reached
    MaxBase,    \* bound: the size of what is raised to a power
    MaxSteps    \* bound: operations on a register

VARIABLES
    reg,    \* the bigint
    exact,  \* history: the integer it should hold
    sound,  \* history: no operation met with operands it gets wrong
    steps   \* operations so far

vars == <<reg, exact, sound, steps>>

Big(bytes, neg) == [bytes |-> bytes, neg |-> neg]
\* An array; the concatenation makes TLC work its elements out once.
Array(n, B(_)) == <<>> \o [i \in 1..n |-> B(i)]
Zeros(n) == Array(n, LAMBDA i : 0)
Abs(n) == IF n < 0 THEN -n ELSE n
Ties == {"less", "equal", "greater"}

\* The i-th byte from the least significant; zero outside the array.
Byte(v, i) == IF i \in 0..(Len(v.bytes) - 1) THEN v.bytes[Len(v.bytes) - i] ELSE 0
Magnitude(v) == FoldLeft(LAMBDA n, b : 256 * n + b, 0, v.bytes)
ValueOf(v) == IF v.neg THEN -Magnitude(v) ELSE Magnitude(v)

-----------------------------------------------------------------------------
(* Sizes *)

ByteBits(b) == CHOOSE n \in 0..8 : b < 2^n /\ \A k \in 0..(n - 1) : b >= 2^k

\* bits(): zero has one bit.
Bits(v) ==
    LET set == {i \in 0..(Len(v.bytes) - 1) : Byte(v, i) # 0}
        top == CHOOSE i \in set : \A j \in set : j <= i
    IN IF set = {} THEN 1 ELSE 8 * top + ByteBits(Byte(v, top))

Required(v) == (Bits(v) - 1) \div 8 + 1

\* resize(): nothing happens when the value needs more.
Resize(v, n) ==
    IF Required(v) > n THEN v
    ELSE Big(Array(n, LAMBDA i : Byte(v, n - i)), v.neg)

Compact(v) == Resize(v, Required(v))

FromInt(n) ==
    Big(Array(IntSize, LAMBDA i : IF i > IntSize - 3 THEN (Abs(n) \div 256^(IntSize - i)) % 256 ELSE 0), n < 0)

-----------------------------------------------------------------------------
(* Comparison *)

\* The loop over the bytes of two values with as many bits.
CompareBytes(a, b, tie) ==
    LET other == {i \in 0..(Required(a) - 1) : Byte(a, i) # Byte(b, i)}
        top == CHOOSE i \in other : \A j \in other : j <= i
    IN IF other = {} THEN tie
       ELSE IF Byte(a, top) > Byte(b, top) THEN "greater" ELSE "less"

\* abs_cmp().
AbsCmp(a, b, tie) ==
    IF Bits(a) # Bits(b) THEN IF Bits(a) > Bits(b) THEN "greater" ELSE "less"
    ELSE CompareBytes(a, b, tie)

Reversed(order) == CASE order = "less" -> "greater" [] order = "greater" -> "less" [] OTHER -> order

\* operator<=>: zeros of different signs are different.
Compare(a, b, tie) ==
    IF a.neg # b.neg THEN IF b.neg THEN "greater" ELSE "less"
    ELSE IF a.neg THEN Reversed(AbsCmp(a, b, tie)) ELSE AbsCmp(a, b, tie)

-----------------------------------------------------------------------------
(* Addition and subtraction *)

\* The larger of two by operator<, which is not the longer if both are negative.
Larger(a, b, tie) == IF Compare(a, b, tie) = "less" THEN b ELSE a
Smaller(a, b, tie) == IF Compare(a, b, tie) = "less" THEN a ELSE b

\* Faulty variants of the definitions below, used to test the properties.
ShiftRightDrops(v, pos) ==
    Big(Array(Len(v.bytes), LAMBDA i : Byte(v, Len(v.bytes) - i + pos \div 8) \div 2^(pos % 8)), v.neg)

CarryingShort(augend, addend) ==
    LET n == Required(augend)
        carry[i \in 0..n] ==
            IF i = 0 THEN 0
            ELSE (Byte(augend, i - 1) + Byte(addend, i - 1) + carry[i - 1]) \div 256
    IN Big(Array(n, LAMBDA i : (Byte(augend, n - i) + Byte(addend, n - i) + carry[n - i]) % 256), FALSE)

\* The definitions themselves.

\* ripple_adder(): as many bytes as the larger needs, and one bit.
Carrying(augend, addend) ==
    LET n == Bits(augend) \div 8 + 1
        carry[i \in 0..n] ==
            IF i = 0 THEN 0
            ELSE (Byte(augend, i - 1) + Byte(addend, i - 1) + carry[i - 1]) \div 256
    IN Big(Array(n, LAMBDA i : (Byte(augend, n - i) + Byte(addend, n - i) + carry[n - i]) % 256), FALSE)
RippleAdder(a, b, tie) == Carrying(Larger(a, b, tie), Smaller(a, b, tie))

\* ripple_subtractor(): as many bytes as the minuend has.
RippleSubtractor(a, b) ==
    LET n == Len(a.bytes)
        borrow[i \in 0..n] ==
            IF i = 0 THEN 0
            ELSE IF Byte(a, i - 1) < Byte(b, i - 1) + borrow[i - 1] THEN 1 ELSE 0
    IN Big(Array(n, LAMBDA i : (256 + Byte(a, n - i) - Byte(b, n - i) - borrow[n - i]) % 256), FALSE)

Signed(v, neg) == [v EXCEPT !.neg = neg]

Add(a, b, tie) ==
    LET order == AbsCmp(a, b, tie)
    IN IF a.neg = b.neg THEN Signed(RippleAdder(a, b, tie), a.neg)
       ELSE CASE order = "greater" -> Signed(RippleSubtractor(a, b), a.neg)
              [] order = "less" -> Signed(RippleSubtractor(b, a), b.neg)
              [] OTHER -> Big(<<0>>, FALSE)

Subtract(a, b, tie) ==
    IF a.neg # b.neg THEN Signed(RippleAdder(b, a, tie), a.neg)
    ELSE IF a.neg
         THEN IF AbsCmp(a, b, tie) = "greater" THEN Signed(RippleSubtractor(a, b), TRUE)
              ELSE RippleSubtractor(b, a)
         ELSE IF Compare(a, b, tie) # "less" THEN RippleSubtractor(a, b)
              ELSE Signed(RippleSubtractor(b, a), TRUE)

-----------------------------------------------------------------------------
(* Shifts *)

\* shift_left() grows the value where it has to.
ShiftLeft(v, pos) ==
    LET need == (Bits(v) + pos - 1) \div 8 + 1
        n == IF need > Len(v.bytes) THEN need ELSE Len(v.bytes)
        from(i) == n - i - pos \div 8
    IN Big(Array(n, LAMBDA i : (Byte(v, from(i)) * 2^(pos % 8) + Byte(v, from(i) - 1) \div 2^(8 - (pos % 8))) % 256), v.neg)

\* shift_right() keeps the size.
ShiftRight(v, pos) ==
    LET n == Len(v.bytes)
        from(i) == n - i + pos \div 8
    IN Big(Array(n, LAMBDA i : (Byte(v, from(i)) \div 2^(pos % 8) + Byte(v, from(i) + 1) * 2^(8 - (pos % 8))) % 256), v.neg)

-----------------------------------------------------------------------------
(* Multiplication and powers *)

BitOf(v, i) == (Byte(v, i \div 8) \div 2^(i % 8)) % 2

\* long_multiply(): one addition per bit of the smaller.
LongMultiply(a, b, tie) ==
    LET multiplicant == Larger(a, b, tie)
        multiplier == Smaller(a, b, tie)
        size == (Bits(multiplicant) * 2 - 1) \div 8 + 1
        Next1(acc, i) ==
            [result |-> IF BitOf(multiplier, i) = 1 THEN Add(acc.result, acc.partial, tie) ELSE acc.result,
             partial |-> ShiftLeft(acc.partial, 1)]
    IN FoldLeft(Next1, [result |-> Big(Zeros(size), FALSE), partial |-> Resize(multiplicant, size)],
                [i \in 1..(8 * Len(multiplier.bytes)) |-> i - 1]).result

Multiply(a, b, tie) == Signed(LongMultiply(a, b, tie), a.neg # b.neg)

\* exp(): a square for every bit of the exponent.
Power(base, exponent, tie) ==
    LET Square(acc, i) ==
            [result |-> IF BitOf(exponent, i) = 1 THEN Multiply(acc.result, acc.squared, tie) ELSE acc.result,
             squared |-> Multiply(acc.squared, acc.squared, tie)]
    IN IF exponent.neg THEN FromInt(0)
       ELSE Signed(FoldLeft(Square, [result |-> FromInt(1), squared |-> Signed(base, FALSE)],
                            [i \in 1..Bits(exponent) |-> i - 1]).result,
                   base.neg /\ BitOf(exponent, 0) = 1)

-----------------------------------------------------------------------------
(* Division *)

\* The byte of the dividend, from the least significant, that the first part of it
\* ends with.  A divisor whose bits fill its bytes takes a byte too many.
LastOfFirst(a, b) == Required(a) - 1 - Bits(b) \div 8

\* What the division starts with: the byte too many lands before the remainder, and
\* past the end of the dividend there is `beyond'.
FirstRemainder(a, b, beyond) ==
    LET source(i) == IF i < 0 THEN beyond ELSE Byte(a, i)
        n == Required(b)
    IN ShiftRight(Big(Array(n, LAMBDA i : source(LastOfFirst(a, b) + n - i)), FALSE),
                  (Bits(a) - Bits(b)) % 8)

\* The bits of the dividend that are brought down.
Remaining(a, b, beyond) ==
    LET shift == (Bits(a) - Bits(b)) % 8
        last == LastOfFirst(a, b)
    IN IF last < 0 THEN [i \in 1..shift |-> (beyond \div 2^(shift - i)) % 2]
       ELSE [i \in 1..(8 * last + shift) |-> BitOf(a, (8 * last) + shift - i)]

\* The loop of long_divide_modulo(): a bit of the quotient, then the next bit of the
\* dividend.
Low(v, bit) == [v EXCEPT !.bytes[Len(v.bytes)] = (@ - (@ % 2)) + bit]
RECURSIVE DivideOn(_, _, _, _, _)
DivideOn(q, r, b, bits, tie) ==
    LET fits == Compare(r, b, tie) # "less"
        quotient == IF fits THEN Low(q, 1) ELSE q
        left == IF fits THEN Subtract(r, b, tie) ELSE r
    IN IF bits = <<>> THEN <<quotient, left>>
       ELSE DivideOn(ShiftLeft(quotient, 1),
                     IF Head(bits) = 1 THEN Low(ShiftLeft(left, 1), 1) ELSE ShiftLeft(left, 1),
                     b, Tail(bits), tie)

LongDivide(a, b, beyond, tie) ==
    DivideOn(Big(Zeros(Required(a)), FALSE), FirstRemainder(a, b, beyond), b,
             Remaining(a, b, beyond), tie)

\* divide_modulo(): <<>> if the divisor is zero.  The remainder is never negative.
DivideModulo(lhs, rhs, beyond, tie) ==
    LET a == Signed(lhs, FALSE)
        b == Signed(rhs, FALSE)
        Parts(d) == <<Signed(d[1], lhs.neg # rhs.neg), Signed(d[2], FALSE)>>
    IN IF Compare(b, FromInt(0), tie) = "equal" THEN <<>>
       ELSE IF AbsCmp(b, a, tie) = "greater" THEN Parts(<<FromInt(0), a>>)
       ELSE Parts(LongDivide(a, b, beyond, tie))

-----------------------------------------------------------------------------
(* Decimal digits *)

\* Every half of the first n bytes.
Halves(bytes, n, Half(_)) ==
    Array(Len(bytes), LAMBDA i :
        IF i > n THEN bytes[i] ELSE (16 * Half(bytes[i] \div 16)) + Half(bytes[i] % 16))

\* The constructor from a string: the digits, four bits each, are halved into the
\* bytes that follow them.
FromDigits(digits, neg) ==
    LET bcd == Len(digits)
        size == bcd + 1 + (IF neg THEN 1 ELSE 0)
        binary == (bcd + 1) \div 2
        digit(i) == IF i \in 1..bcd THEN digits[i] ELSE 0
        packed == Big(Array(size, LAMBDA i : 16 * digit(2 * i - 1) + digit(2 * i)), neg)
        Halve(v, i) ==
            [ShiftRight(v, 1) EXCEPT
                !.bytes = Halves(@, binary, LAMBDA h : IF h >= 8 THEN h - 3 ELSE h)]
        done == FoldLeft(Halve, IF bcd % 2 = 1 THEN ShiftRight(packed, 4) ELSE packed,
                         [i \in 1..(4 * bcd) |-> i])
    IN Compact(ShiftRight(done, (size - binary) * 8 - (4 * bcd)))

\* operator<<: the bits, the last of which is the lowest of the value, are doubled into
\* the digits before the bytes of the value; the digits without the zeros before them.
RECURSIVE DoubleOn(_, _, _)
DoubleOn(w, size, bits) ==
    IF bits = 0 THEN w.bytes
    ELSE DoubleOn([ShiftLeft(w, 1) EXCEPT
                      !.bytes = IF bits = 1 THEN @
                                ELSE Halves(@, Len(@) - size,
                                            LAMBDA h : IF h > 4 THEN h + 3 ELSE h)],
                  size, bits - 1)
Doubled(c) ==
    LET bits == Bits(c)
        wide == Resize(c, (bits + 4 * (bits \div 3 + 1)) \div 8 + 1)
    IN DoubleOn(IF bits % 8 = 0 THEN wide ELSE ShiftLeft(wide, 8 - (bits % 8)),
                Len(c.bytes), bits)

Nibbles(bytes) ==
    [i \in 1..(2 * Len(bytes)) |->
        IF i % 2 = 1 THEN bytes[(i + 1) \div 2] \div 16 ELSE bytes[i \div 2] % 16]
Stripped(nibbles, neg) ==
    LET shown == {i \in DOMAIN nibbles : nibbles[i] # 0}
        first == CHOOSE i \in shown : \A j \in shown : i <= j
    IN IF shown = {} THEN [digits |-> <<0>>, neg |-> FALSE]
       ELSE [digits |-> SubSeq(nibbles, first, Len(nibbles)), neg |-> neg]

Before(bytes, n) == SubSeq(bytes, 1, Len(bytes) - n)
ToDigits(v) ==
    Stripped(Nibbles(Before(Doubled(Compact(v)), Len(Compact(v).bytes))), v.neg)

-----------------------------------------------------------------------------
(* Operations *)

Init ==
    /\ exact \in Operands
    /\ sound = TRUE
    /\ steps = 0
    /\ reg \in {FromInt(exact), Compact(FromInt(exact))}

\* A register gets a result, and the integer beside it the right one.
Result(v, n, right) ==
    /\ Abs(n) <= MaxValue
    /\ reg' = v
    /\ exact' = n
    /\ sound' = (sound /\ right)
    /\ steps' = steps + 1

\* The adder takes for the longer of two the one that is not less.
Room(a, b) == Bits(Larger(a, b, "equal")) \div 8 >= Bits(Smaller(a, b, "equal")) \div 8

Plus(n, tie) ==
    Result(Add(reg, FromInt(n), tie), exact + n,
           reg.neg = (n < 0) => Room(reg, FromInt(n)))

Minus(n, tie) ==
    Result(Subtract(reg, FromInt(n), tie), exact - n,
           reg.neg # (n < 0) => Room(reg, FromInt(n)))

\* The partial results of two negatives are added as negatives.
Times(n, tie) ==
    /\ n # 0 => Abs(exact) <= MaxValue \div Abs(n)
    /\ Result(Multiply(reg, FromInt(n), tie), exact * n, ~(reg.neg /\ n < 0))

\* A step of the division finds what is left equal to the divisor.
Meets(n) ==
    \E i \in 0..(Bits(reg) - 1) :
        2 * ((Abs(exact) \div 2^(i + 1)) % Abs(n)) + ((Abs(exact) \div 2^i) % 2) = Abs(n)

Divisible(n, tie) ==
    /\ Bits(FromInt(n)) % 8 # 0
    /\ tie = "less" => ~Meets(n)
    /\ tie = "greater" => Abs(exact) # Abs(n)

\* operator/= and operator%= throw if the divisor is zero.
Divided(d, k, n, right, tie) ==
    IF d = <<>> THEN Result(reg, exact, n = 0)
    ELSE IF n = 0 THEN Result(d[k], exact, FALSE)
    ELSE Result(d[k], right, Divisible(n, tie))

DivideBy(n, beyond, tie) ==
    LET q == Abs(exact) \div Abs(n)
    IN Divided(DivideModulo(reg, FromInt(n), beyond, tie), 1, n,
               IF (exact < 0) # (n < 0) THEN -q ELSE q, tie)

ModuloBy(n, beyond, tie) ==
    Divided(DivideModulo(reg, FromInt(n), beyond, tie), 2, n, Abs(exact) % Abs(n), tie)

Left(pos) ==
    /\ Abs(exact) <= MaxValue \div 2^pos
    /\ Result(ShiftLeft(reg, pos), exact * 2^pos, TRUE)

\* Shifting by more bytes than there are writes past the array.
Right(pos) ==
    /\ pos \div 8 <= Len(reg.bytes)
    /\ Result(ShiftRight(reg, pos),
              IF exact < 0 THEN -(Abs(exact) \div 2^pos) ELSE exact \div 2^pos, TRUE)

Raise(e, tie) ==
    /\ e >= 0 => Abs(exact) <= MaxBase
    /\ Result(Power(reg, FromInt(e), tie), CASE e < 0 -> 0 [] e = 0 -> 1 [] OTHER -> exact^e, TRUE)

Negate == Result(Signed(reg, ~reg.neg), -exact, TRUE)

\* The value is written to a stream, and another bigint made from what was written.
Reread ==
    LET w == ToDigits(reg)
    IN Result(FromDigits(w.digits, w.neg), exact, TRUE)

\* A register that went wrong is not followed further.
Next ==
    /\ steps < MaxSteps
    /\ sound
    /\ \/ \E n \in Operands, tie \in Ties :
            \/ Plus(n, tie)
            \/ Minus(n, tie)
            \/ Times(n, tie)
            \/ \E beyond \in {0, 255} : DivideBy(n, beyond, tie) \/ ModuloBy(n, beyond, tie)
       \/ \E pos \in Shifts : Left(pos) \/ Right(pos)
       \/ \E e \in Exponents, tie \in Ties : Raise(e, tie)
       \/ Negate
       \/ Reread

Spec == Init /\ [][Next]_vars

-----------------------------------------------------------------------------
(* Properties *)

\* The chain of operations has left the integer it should, it is written with its
\* digits, and it compares with every other integer as it should, whatever is in the
\* memory around the bytes; unless the chain had two operands that the code gets
\* wrong: a sum for which it takes the shorter for the longer, a product of two
\* negatives, a divisor that fills its bytes, an equality that memory decides.
Exact ==
    LET w == ToDigits(reg)
    IN sound =>
        /\ ValueOf(reg) = exact
        /\ w.neg = (exact < 0)
        /\ FoldLeft(LAMBDA k, d : 10 * k + d, 0, w.digits) = Abs(exact)
        /\ w.digits[1] = 0 => exact = 0
        /\ \A n \in Operands \ {exact}, tie \in Ties :
            Compare(reg, FromInt(n), tie) = IF exact < n THEN "less" ELSE "greater"
=============================================================================
