------------------------------- MODULE Keccak -------------------------------
(***************************************************************************)
(* crypto/src/keccak.cpp with the SHA-3 of sha.cpp and shake.cpp: a whole  *)
(* message is absorbed block by block, permuted round by round, and its    *)
(* digest is squeezed out.  A lane is the set of its bits that are one,    *)
(* lanes[y][x] as in the code; the bytes of the state are those of a       *)
(* little-endian machine.                                                  *)
(***************************************************************************)
EXTENDS Integers, SequencesExt

CONSTANTS
    Samples     \* [capacity, suffix, message, digest], sizes in bytes

VARIABLES
    sample,     \* the parameters and, as history, the message and its digest
    left,       \* bytes not yet absorbed
    lanes,      \* _S
    round,      \* r, or -1 outside computate()
    stage,      \* "update", "close", "squeeze"
    out         \* the digest so far

vars == <<sample, left, lanes, round, stage, out>>

Index == 0..4
Rate == 200 - sample.capacity
Xor2(x, y) == (x \ y) \cup (y \ x)
Rotl(x, n) == {(i + n) % 64 : i \in x}

\* keccak_rc: the bits that are one.
rc == <<
    {0}, {1, 7, 15}, {1, 3, 7, 15, 63}, {15, 31, 63}, {0, 1, 3, 7, 15}, {0, 31},
    {0, 7, 15, 31, 63}, {0, 3, 15, 63}, {1, 3, 7}, {3, 7}, {0, 3, 15, 31}, {1, 3, 31},
    {0, 1, 3, 7, 15, 31}, {0, 1, 3, 7, 63}, {0, 3, 7, 15, 63}, {0, 1, 15, 63}, {1, 15, 63},
    {7, 63}, {1, 3, 15}, {1, 3, 31, 63}, {0, 7, 15, 31, 63}, {7, 15, 63}, {0, 31},
    {3, 15, 31, 63} >>

-----------------------------------------------------------------------------
(* Blocks and bytes *)

\* The state with a block of bytes in its first lanes.
Mixed(s, block) ==
    [y \in Index |-> [x \in Index |->
        LET first == 8 * (5 * y + x)
            bits == {8 * i + b : i \in 0..7, b \in 0..7}
            ones == {k \in bits : LET i == first + (k \div 8) + 1 IN
                                  i <= Len(block) /\ (block[i] \div 2^(k % 8)) % 2 = 1}
        IN Xor2(s[y][x], ones)]]

\* Byte i of the state.
Byte(s, i) ==
    LET lane == s[i \div 40][(i \div 8) % 5]
    IN FoldLeft(LAMBDA v, b : 2 * v + (IF 8 * (i % 8) + 8 - b \in lane THEN 1 ELSE 0), 0,
                [b \in 1..8 |-> b])

\* close(): the last block, in a buffer that is zero behind it.
Closed(block) ==
    LET n == Len(block)
    IN [i \in 1..Rate |->
           (IF i <= n THEN block[i] ELSE IF i = n + 1 THEN sample.suffix ELSE 0)
           + (IF i = Rate THEN 128 ELSE 0)]

-----------------------------------------------------------------------------
(* The permutation *)

Theta(s) ==
    LET C == [x \in Index |-> FoldLeft(LAMBDA v, y : Xor2(v, s[y][x]), {}, <<0, 1, 2, 3, 4>>)]
        D == [x \in Index |-> Xor2(C[(x + 4) % 5], Rotl(C[(x + 1) % 5], 1))]
    IN [y \in Index |-> [x \in Index |-> Xor2(s[y][x], D[x])]]

\* The walk of rho and pi over the lanes, from (1, 0).
Walk[t \in 0..24] ==
    IF t = 0 THEN [x |-> 1, y |-> 0]
    ELSE LET p == Walk[t - 1] IN [x |-> p.y, y |-> (2 * p.x + 3 * p.y) % 5]

\* Each lane of the walk is rotated further than the one before.
Rho(s) ==
    LET offset(x, y) ==
            {((t + 1) * (t + 2)) \div 2 : t \in {t \in 0..23 : Walk[t] = [x |-> x, y |-> y]}}
    IN [y \in Index |-> [x \in Index |->
           IF offset(x, y) = {} THEN s[y][x]
           ELSE Rotl(s[y][x], (CHOOSE n \in offset(x, y) : TRUE) % 64)]]

\* Each lane of the walk takes the place of the next.
Pi(s) ==
    LET before(x, y) == {Walk[t] : t \in {t \in 0..23 : Walk[t + 1] = [x |-> x, y |-> y]}}
    IN [y \in Index |-> [x \in Index |->
           IF before(x, y) = {} THEN s[y][x]
           ELSE LET p == CHOOSE p \in before(x, y) : TRUE IN s[p.y][p.x]]]

Chi(s) ==
    [y \in Index |-> [x \in Index |->
        Xor2(s[y][x], s[y][(x + 2) % 5] \ s[y][(x + 1) % 5])]]

Iota(s, r) == [s EXCEPT ![0][0] = Xor2(@, rc[r + 1])]

-----------------------------------------------------------------------------

Init ==
    /\ sample \in Samples
    /\ left = sample.message
    /\ lanes = [y \in Index |-> [x \in Index |-> {}]]
    /\ round = -1
    /\ stage = "update"
    /\ out = <<>>

\* update(): a full block is computated at once.
Update ==
    /\ stage = "update" /\ round = -1 /\ Len(left) >= Rate
    /\ lanes' = Mixed(lanes, SubSeq(left, 1, Rate))
    /\ left' = SubSeq(left, Rate + 1, Len(left))
    /\ round' = 0
    /\ UNCHANGED <<sample, stage, out>>

Close ==
    /\ stage = "update" /\ round = -1 /\ Len(left) < Rate
    /\ lanes' = Mixed(lanes, Closed(left))
    /\ left' = <<>>
    /\ round' = 0
    /\ stage' = "close"
    /\ UNCHANGED <<sample, out>>

\* A round of computate().
Round ==
    /\ round \in 0..23
    /\ lanes' = Iota(Chi(Pi(Rho(Theta(lanes)))), round)
    /\ round' = IF round = 23 THEN -1 ELSE round + 1
    /\ UNCHANGED <<sample, left, stage, out>>

\* Faulty variants of the definitions below, used to test the properties.
SqueezeAgain ==
    /\ stage \in {"close", "squeeze"} /\ round = -1 /\ Len(out) < Len(sample.digest)
    /\ LET size == IF Len(sample.digest) - Len(out) < Rate THEN Len(sample.digest) - Len(out) ELSE Rate
       IN out' = out \o [i \in 1..size |-> Byte(lanes, i - 1)]
    /\ stage' = "squeeze"
    /\ UNCHANGED <<sample, left, lanes, round>>

\* The definitions themselves.

\* finalise(): a part of the digest, and the permutation of an empty block when more is wanted.
Squeeze ==
    /\ stage \in {"close", "squeeze"} /\ round = -1 /\ Len(out) < Len(sample.digest)
    /\ LET rest == Len(sample.digest) - Len(out)
           size == IF rest < Rate THEN rest ELSE Rate
       IN /\ out' = out \o [i \in 1..size |-> Byte(lanes, i - 1)]
          /\ round' = IF size < rest THEN 0 ELSE -1
    /\ stage' = "squeeze"
    /\ UNCHANGED <<sample, left, lanes>>

Next == Update \/ Close \/ Round \/ Squeeze

Spec == Init /\ [][Next]_vars

-----------------------------------------------------------------------------
(* Properties *)

\* The constants of FIPS 202 come from a shift register of eight bits.
Register[t \in 0..167] ==
    IF t = 0 THEN {0}
    ELSE LET r == {i + 1 : i \in Register[t - 1]}
         IN IF 8 \in r THEN Xor2(r \ {8}, {0, 4, 5, 6}) ELSE r
Iotas(r) == {2^j - 1 : j \in {j \in 0..5 : 0 \in Register[j + 7 * r]}}
                \cup (IF 0 \in Register[6 + 7 * r] THEN {63} ELSE {})

\* FIPS 202, which keccak.cpp implements: the walk of pi is the permutation of the standard;
\* the constants are those of its register; a digest is that of its examples, also when the
\* message fills a block, the padding has one byte left, or more is squeezed than a block.
SpongeAgrees ==
    /\ round \in 0..23 =>
          /\ \A x, y \in Index : Pi(lanes)[y][x] = lanes[x][(x + 3 * y) % 5]
          /\ rc[round + 1] = Iotas(round)
    /\ IsPrefix(out, sample.digest)
=============================================================================
