------------------------------- MODULE X25519 -------------------------------
(***************************************************************************)
(* crypto/src/x25519.cpp: two parties with a private key each make their   *)
(* public keys and, from the other's, the shared key.  An element of the   *)
(* field is an array of limbs that may be negative or too large between    *)
(* the operations; the prime is 2^(Limbs * LimbBits - 1) - 19, of the form *)
(* of the code's with 16 limbs of 16 bits.  Beside the limbs the same      *)
(* ladder is climbed with numbers of the field.                            *)
(***************************************************************************)
EXTENDS Integers, SequencesExt

CONSTANTS
    LimbBits,       \* 16 in the code
    Limbs,          \* 16 in the code
    A24,            \* s121665, the constant of the curve, as limbs
    Keys            \* private keys, as limbs

VARIABLES
    private,    \* the private key of each party
    results,    \* the public keys and the shared keys made so far, as buffers
    bit,        \* the next bit of the scalar, below zero steps of the division
    reg,        \* a, b, c, d of mult()
    exact       \* history: the numbers that they stand for

vars == <<private, results, bit, reg, exact>>

Base == 2^LimbBits
TopBit == Limbs * LimbBits - 1
P == 2^TopBit - 19
Index == 1..Limbs
Element == [Index -> Int]
Constant(n) == [i \in Index |-> IF i = 1 THEN n ELSE 0]

-----------------------------------------------------------------------------
(* Numbers of the field *)

Number(e) == FoldLeft(LAMBDA v, x : (v * Base) + x, 0, Reverse(e))
Value(e) == Number(e) % P
Times(x, y) == ((((x * (y \div 1024)) % P) * 1024) + x * (y % 1024)) % P
-----------------------------------------------------------------------------
(* Elements *)

\* carry(): what goes out at the top comes in at the bottom, 2^(TopBit + 1) being 38.
Carry(e) ==
    LET pass == FoldLeft(LAMBDA s, x :
                    [limbs |-> Append(s.limbs, (x + s.carry) % Base),
                     carry |-> (x + s.carry) \div Base],
                    [limbs |-> <<>>, carry |-> 0], e)
    IN [pass.limbs EXCEPT ![1] = @ + 38 * pass.carry]

Plus(e, f) == [i \in Index |-> e[i] + f[i]]
Minus(e, f) == [i \in Index |-> e[i] - f[i]]
Product(e, f) ==
    LET term(k) == FoldLeft(LAMBDA v, i : v + IF (k - i) \in 0..(Limbs - 1)
                                               THEN e[i + 1] * f[k - i + 1] ELSE 0,
                            0, [i \in Index |-> i - 1])
        product == [k \in Index |-> term(k - 1) + 38 * (IF k < Limbs THEN term(k - 1 + Limbs) ELSE 0)]
    IN Carry(Carry(product))

\* The prime, in limbs.
PrimeLimb(i) ==
    CASE i = 1 -> Base - 19 [] i = Limbs -> Base \div 2 - 1 [] OTHER -> Base - 1

\* A subtraction of the prime that is undone when it borrows at the top.
Reduced(t) ==
    LET less == FoldLeft(LAMBDA s, i :
                    LET m == t[i] - PrimeLimb(i) - s.borrow IN
                    [limbs |-> Append(s.limbs, IF i = Limbs THEN m ELSE m % Base),
                     borrow |-> (m \div Base) % 2],
                    [limbs |-> <<>>, borrow |-> 0], [i \in Index |-> i])
    IN IF less.borrow = 1 THEN t ELSE less.limbs

\* operator buffer(): the limbs of the number below the prime.
Pack(e) ==
    LET t == Reduced(Reduced(Carry(Carry(Carry(e)))))
    IN [i \in Index |-> t[i] % Base]

\* field_element(buffer): the bit at the top is dropped.
Unpack(buffer) == [buffer EXCEPT ![Limbs] = @ % (Base \div 2)]

-----------------------------------------------------------------------------
(* Keys *)

\* The base point and the parties' turns: two public keys, then two shared ones.
Party == IF Len(results) % 2 = 0 THEN 1 ELSE 2
Point == Unpack(IF Len(results) < 2 THEN Constant(9) ELSE results[3 - Party])

Clamped(s) ==
    [i \in Index |->
        LET low == IF i = 1 THEN s[i] - (s[i] % 8) ELSE s[i]
        IN IF i = Limbs THEN (low % (Base \div 4)) + Base \div 4 ELSE low]

Bit == LET s == Clamped(Unpack(private[Party]))
       IN (s[bit \div LimbBits + 1] \div 2^(bit % LimbBits)) % 2

Start == [a |-> Constant(1), b |-> Point, c |-> Constant(0), d |-> Constant(1)]
Swapped(r) == IF Bit = 1 THEN [a |-> r.b, b |-> r.a, c |-> r.d, d |-> r.c] ELSE r

Idle == [a |-> Constant(0), b |-> Constant(0), c |-> Constant(0), d |-> Constant(0)]
Numbers(r) == [x \in DOMAIN r |-> Value(r[x])]

Init ==
    /\ private \in [1..2 -> Keys]
    /\ results = <<>>
    /\ bit = TopBit
    /\ reg = Idle
    /\ exact = Numbers(Idle)

\* mult() begins.
Begin ==
    /\ bit = TopBit /\ Len(results) < 4
    /\ bit' = TopBit - 1
    /\ reg' = Start
    /\ exact' = Numbers(Start)
    /\ UNCHANGED <<private, results>>

\* One bit of the scalar.
Climb ==
    LET r == Swapped(reg)
        sum == Plus(r.a, r.c)
        diff == Minus(r.a, r.c)
        dd == Product(sum, sum)
        ff == Product(diff, diff)
        cross == Product(Plus(r.b, r.d), diff)
        other == Product(Minus(r.b, r.d), sum)
        e == Plus(cross, other)
        low == Minus(cross, other)
        h == Minus(dd, ff)
        x == exact
        s == Swapped([a |-> x.a, b |-> x.b, c |-> x.c, d |-> x.d])
        up == Times((s.a + s.c) % P, (s.a + s.c) % P)
        down == Times((s.a - s.c) % P, (s.a - s.c) % P)
        l == Times((s.b + s.d) % P, (s.a - s.c) % P)
        m == Times((s.b - s.d) % P, (s.a + s.c) % P)
    IN
    /\ bit \in 0..(TopBit - 1)
    /\ reg' = Swapped([a |-> Product(dd, ff), b |-> Product(e, e),
                       c |-> Product(h, Plus(Product(h, A24), dd)),
                       d |-> Product(Product(low, low), Point)])
    /\ exact' = Swapped([a |-> Times(up, down), b |-> Times((l + m) % P, (l + m) % P),
                         c |-> Times((up - down) % P,
                                     (Times((up - down) % P, Value(A24)) + up) % P),
                         d |-> Times(Times((l - m) % P, (l - m) % P), Value(Point))])
    /\ bit' = bit - 1
    /\ UNCHANGED <<private, results>>

\* inverse() of c, in place of b: the exponent is P - 2, all of whose bits are set
\* but two and four.
Invert ==
    LET i == TopBit - 1 + bit
        r == IF bit = -1 THEN reg.c ELSE reg.b
        s == Product(r, r)
    IN
    /\ bit \in (1 - TopBit)..(-1)
    /\ reg' = [reg EXCEPT !.b = IF i \in {2, 4} THEN s ELSE Product(s, reg.c)]
    /\ bit' = bit - 1
    /\ UNCHANGED <<private, results, exact>>

\* The key is a / c.
Finish ==
    /\ bit = -TopBit
    /\ results' = Append(results, Pack(Product(reg.a, reg.b)))
    /\ bit' = TopBit
    /\ reg' = Idle
    /\ UNCHANGED <<private, exact>>

Next == Begin \/ Climb \/ Invert \/ Finish

Spec == Init /\ [][Next]_vars
-----------------------------------------------------------------------------
(* Properties *)

\* The comments of x25519.cpp: however limbs overflow and become negative, they
\* stand for the numbers of the field; a key is packed as the one number below
\* the prime, the quotient that mult() is to find (zero when there is none); and
\* both parties find the same shared key.
KeysAgree ==
    /\ bit \in -1..(TopBit - 1) => Numbers(reg) = exact
    /\ bit = TopBit /\ results # <<>> =>
          LET key == results[Len(results)] IN
          /\ \A i \in Index : key[i] \in 0..(Base - 1)
          /\ Number(key) < P
          /\ IF exact.c = 0 THEN Number(key) = 0 ELSE Times(Number(key), exact.c) = exact.a
    /\ Len(results) = 4 => results[3] = results[4]
=============================================================================
