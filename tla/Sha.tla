-------------------------------- MODULE Sha --------------------------------
(***************************************************************************)
(* crypto/src/sha.cpp, SHA-1 and SHA-2: a whole message is hashed, round   *)
(* by round.  A word is the set of its bits that are one; tables hold the  *)
(* words in pieces of 16 bits, the highest first.                          *)
(***************************************************************************)
EXTENDS Integers, SequencesExt

CONSTANTS
    Samples     \* [kind, message, digest]: bytes, and pieces of 16 bits

VARIABLES
    sample,     \* the algorithm and, as history, its message and digest
    left,       \* blocks not yet hashed
    hash,       \* _H
    schedule,   \* W[0] to W[15]
    work,       \* a, b, c, ...
    round       \* t, or -1 between two blocks

vars == <<sample, left, hash, schedule, work, round>>

Width == IF sample.kind \in {"SHA-1", "SHA-224", "SHA-256"} THEN 32 ELSE 64
Rounds == IF sample.kind \in {"SHA-224", "SHA-256"} THEN 64 ELSE 80
DigestBits ==
    CASE sample.kind = "SHA-1" -> 160
      [] sample.kind \in {"SHA-224", "SHA-512/224"} -> 224
      [] sample.kind \in {"SHA-256", "SHA-512/256"} -> 256
      [] sample.kind = "SHA-384" -> 384
      [] sample.kind = "SHA-512" -> 512

-----------------------------------------------------------------------------
(* Words *)

\* The word that is written in digits of n bits, and its i-th digit.
Word(d, n) ==
    UNION {{n * (Len(d) - i) + b : b \in {b \in 0..n-1 : (d[i] \div 2^b) % 2 = 1}} : i \in DOMAIN d}
Digit(x, i, n) ==
    FoldLeft(LAMBDA v, b : 2 * v + (IF Width - n * i + n - b \in x THEN 1 ELSE 0), 0,
             [b \in 1..n |-> b])
Words(d, n) ==
    LET size == Width \div n
    IN [i \in 1..Len(d) \div size |-> Word(SubSeq(d, size * (i - 1) + 1, size * i), n)]

Not(x) == (0..Width-1) \ x
Xor2(x, y) == (x \ y) \cup (y \ x)
Xor3(x, y, z) == Xor2(x, Xor2(y, z))
Rotr(x, n) == {(i + Width - n) % Width : i \in x}
Rotl(x, n) == {(i + n) % Width : i \in x}
Shr(x, n) == {i - n : i \in {i \in x : i >= n}}

\* A bit carries when some lower bit makes a carry that no bit between them stops.
Plus(x, y) ==
    LET makes == x \cap y
        passes == x \cup y
        carry == {i \in 1..Width-1 : \E j \in makes : j < i /\ j+1..i-1 \subseteq passes}
    IN Xor3(x, y, carry)
Total(s) == FoldLeft(Plus, {}, s)

-----------------------------------------------------------------------------
(* Constants.  Those of 32 bits are the upper halves of those of 64, but   *)
(* SHA-224 starts from the lower halves of SHA-384.                        *)

Sha1Iv == <<
    \h6745, \h2301, \hefcd, \hab89, \h98ba, \hdcfe, \h1032, \h5476, \hc3d2, \he1f0 >>

Sha1K == <<
    \h5a82, \h7999, \h6ed9, \heba1, \h8f1b, \hbcdc, \hca62, \hc1d6 >>

Sha384Iv == <<
    \hcbbb, \h9d5d, \hc105, \h9ed8, \h629a, \h292a, \h367c, \hd507, \h9159, \h015a, \h3070,
    \hdd17, \h152f, \hecd8, \hf70e, \h5939, \h6733, \h2667, \hffc0, \h0b31, \h8eb4, \h4a87,
    \h6858, \h1511, \hdb0c, \h2e0d, \h64f9, \h8fa7, \h47b5, \h481d, \hbefa, \h4fa4 >>

Sha512Iv == <<
    \h6a09, \he667, \hf3bc, \hc908, \hbb67, \hae85, \h84ca, \ha73b, \h3c6e, \hf372, \hfe94,
    \hf82b, \ha54f, \hf53a, \h5f1d, \h36f1, \h510e, \h527f, \hade6, \h82d1, \h9b05, \h688c,
    \h2b3e, \h6c1f, \h1f83, \hd9ab, \hfb41, \hbd6b, \h5be0, \hcd19, \h137e, \h2179 >>

Sha512_224Iv == <<
    \h8c3d, \h37c8, \h1954, \h4da2, \h73e1, \h9966, \h89dc, \hd4d6, \h1dfa, \hb7ae, \h32ff,
    \h9c82, \h679d, \hd514, \h582f, \h9fcf, \h0f6d, \h2b69, \h7bd4, \h4da8, \h77e3, \h6f73,
    \h04c4, \h8942, \h3f9d, \h85a8, \h6a1d, \h36c8, \h1112, \he6ad, \h91d6, \h92a1 >>

Sha512_256Iv == <<
    \h2231, \h2194, \hfc2b, \hf72c, \h9f55, \h5fa3, \hc84c, \h64c2, \h2393, \hb86b, \h6f53,
    \hb151, \h9638, \h7719, \h5940, \heabd, \h9628, \h3ee2, \ha88e, \hffe3, \hbe5e, \h1e25,
    \h5386, \h3992, \h2b01, \h99fc, \h2c85, \hb8aa, \h0eb7, \h2ddc, \h81c5, \h2ca2 >>

K == <<
    \h428a, \h2f98, \hd728, \hae22, \h7137, \h4491, \h23ef, \h65cd, \hb5c0, \hfbcf, \hec4d,
    \h3b2f, \he9b5, \hdba5, \h8189, \hdbbc, \h3956, \hc25b, \hf348, \hb538, \h59f1, \h11f1,
    \hb605, \hd019, \h923f, \h82a4, \haf19, \h4f9b, \hab1c, \h5ed5, \hda6d, \h8118, \hd807,
    \haa98, \ha303, \h0242, \h1283, \h5b01, \h4570, \h6fbe, \h2431, \h85be, \h4ee4, \hb28c,
    \h550c, \h7dc3, \hd5ff, \hb4e2, \h72be, \h5d74, \hf27b, \h896f, \h80de, \hb1fe, \h3b16,
    \h96b1, \h9bdc, \h06a7, \h25c7, \h1235, \hc19b, \hf174, \hcf69, \h2694, \he49b, \h69c1,
    \h9ef1, \h4ad2, \hefbe, \h4786, \h384f, \h25e3, \h0fc1, \h9dc6, \h8b8c, \hd5b5, \h240c,
    \ha1cc, \h77ac, \h9c65, \h2de9, \h2c6f, \h592b, \h0275, \h4a74, \h84aa, \h6ea6, \he483,
    \h5cb0, \ha9dc, \hbd41, \hfbd4, \h76f9, \h88da, \h8311, \h53b5, \h983e, \h5152, \hee66,
    \hdfab, \ha831, \hc66d, \h2db4, \h3210, \hb003, \h27c8, \h98fb, \h213f, \hbf59, \h7fc7,
    \hbeef, \h0ee4, \hc6e0, \h0bf3, \h3da8, \h8fc2, \hd5a7, \h9147, \h930a, \ha725, \h06ca,
    \h6351, \he003, \h826f, \h1429, \h2967, \h0a0e, \h6e70, \h27b7, \h0a85, \h46d2, \h2ffc,
    \h2e1b, \h2138, \h5c26, \hc926, \h4d2c, \h6dfc, \h5ac4, \h2aed, \h5338, \h0d13, \h9d95,
    \hb3df, \h650a, \h7354, \h8baf, \h63de, \h766a, \h0abb, \h3c77, \hb2a8, \h81c2, \hc92e,
    \h47ed, \haee6, \h9272, \h2c85, \h1482, \h353b, \ha2bf, \he8a1, \h4cf1, \h0364, \ha81a,
    \h664b, \hbc42, \h3001, \hc24b, \h8b70, \hd0f8, \h9791, \hc76c, \h51a3, \h0654, \hbe30,
    \hd192, \he819, \hd6ef, \h5218, \hd699, \h0624, \h5565, \ha910, \hf40e, \h3585, \h5771,
    \h202a, \h106a, \ha070, \h32bb, \hd1b8, \h19a4, \hc116, \hb8d2, \hd0c8, \h1e37, \h6c08,
    \h5141, \hab53, \h2748, \h774c, \hdf8e, \heb99, \h34b0, \hbcb5, \he19b, \h48a8, \h391c,
    \h0cb3, \hc5c9, \h5a63, \h4ed8, \haa4a, \he341, \h8acb, \h5b9c, \hca4f, \h7763, \he373,
    \h682e, \h6ff3, \hd6b2, \hb8a3, \h748f, \h82ee, \h5def, \hb2fc, \h78a5, \h636f, \h4317,
    \h2f60, \h84c8, \h7814, \ha1f0, \hab72, \h8cc7, \h0208, \h1a64, \h39ec, \h90be, \hfffa,
    \h2363, \h1e28, \ha450, \h6ceb, \hde82, \hbde9, \hbef9, \ha3f7, \hb2c6, \h7915, \hc671,
    \h78f2, \he372, \h532b, \hca27, \h3ece, \hea26, \h619c, \hd186, \hb8c7, \h21c0, \hc207,
    \heada, \h7dd6, \hcde0, \heb1e, \hf57d, \h4f7f, \hee6e, \hd178, \h06f0, \h67aa, \h7217,
    \h6fba, \h0a63, \h7dc5, \ha2c8, \h98a6, \h113f, \h9804, \hbef9, \h0dae, \h1b71, \h0b35,
    \h131c, \h471b, \h28db, \h77f5, \h2304, \h7d84, \h32ca, \hab7b, \h40c7, \h2493, \h3c9e,
    \hbe0a, \h15c9, \hbebc, \h431d, \h67c4, \h9c10, \h0d4c, \h4cc5, \hd4be, \hcb3e, \h42b6,
    \h597f, \h299c, \hfc65, \h7e2a, \h5fcb, \h6fab, \h3ad6, \hfaec, \h6c44, \h198c, \h4a47, \h5817 >>

\* Of each four pieces the first two, or the last two.
Upper(d) == [i \in 1..Len(d) \div 2 |-> d[2 * i - (IF i % 2 = 1 THEN 1 ELSE 2)]]
Lower(d) == [i \in 1..Len(d) \div 2 |-> d[2 * i + (IF i % 2 = 1 THEN 1 ELSE 0)]]

Iv ==
    CASE sample.kind = "SHA-1" -> Sha1Iv
      [] sample.kind = "SHA-224" -> Lower(Sha384Iv)
      [] sample.kind = "SHA-256" -> Upper(Sha512Iv)
      [] sample.kind = "SHA-384" -> Sha384Iv
      [] sample.kind = "SHA-512" -> Sha512Iv
      [] sample.kind = "SHA-512/224" -> Sha512_224Iv
      [] sample.kind = "SHA-512/256" -> Sha512_256Iv

\* K_t of a round.
Constant(t) ==
    IF sample.kind = "SHA-1" THEN Word(SubSeq(Sha1K, 2 * (t \div 20) + 1, 2 * (t \div 20) + 2), 16)
    ELSE Word(SubSeq(K, 4 * t + 1, 4 * t + Width \div 16), 16)

-----------------------------------------------------------------------------
(* The functions of a round *)

Ch(x, y, z) == Xor2(x \cap y, Not(x) \cap z)
Parity(x, y, z) == Xor3(x, y, z)
Maj(x, y, z) == Xor3(x \cap y, x \cap z, y \cap z)

sigma_0(x) == IF Width = 32 THEN Xor3(Rotr(x, 7), Rotr(x, 18), Shr(x, 3))
              ELSE Xor3(Rotr(x, 1), Rotr(x, 8), Shr(x, 7))
sigma_1(x) == IF Width = 32 THEN Xor3(Rotr(x, 17), Rotr(x, 19), Shr(x, 10))
              ELSE Xor3(Rotr(x, 19), Rotr(x, 61), Shr(x, 6))
Sigma_0(x) == IF Width = 32 THEN Xor3(Rotr(x, 2), Rotr(x, 13), Rotr(x, 22))
              ELSE Xor3(Rotr(x, 28), Rotr(x, 34), Rotr(x, 39))
Sigma_1(x) == IF Width = 32 THEN Xor3(Rotr(x, 6), Rotr(x, 11), Rotr(x, 25))
              ELSE Xor3(Rotr(x, 14), Rotr(x, 18), Rotr(x, 41))

\* W[t] from the sixteen words before it.
Scheduled(w) ==
    IF sample.kind = "SHA-1" THEN Rotl(Xor2(Xor2(w[14], w[9]), Xor2(w[3], w[1])), 1)
    ELSE Total(<<sigma_1(w[15]), w[10], sigma_0(w[2]), w[1]>>)

Round1(v, w) ==
    LET f(x, y, z) == CASE round <= 19 -> Ch(x, y, z)
                        [] round \in 40..59 -> Maj(x, y, z)
                        [] OTHER -> Parity(x, y, z)
    IN <<Total(<<Rotl(v[1], 5), f(v[2], v[3], v[4]), v[5], Constant(round), w>>),
         v[1], Rotl(v[2], 30), v[3], v[4]>>

Round2(v, w) ==
    LET t1 == Total(<<v[8], Sigma_1(v[5]), Ch(v[5], v[6], v[7]), Constant(round), w>>)
        t2 == Plus(Sigma_0(v[1]), Maj(v[1], v[2], v[3]))
    IN <<Plus(t1, t2), v[1], v[2], v[3], Plus(v[4], t1), v[5], v[6], v[7]>>

\* The message with its padding: a one, zeros, and its length in bits in two words.
Padded(m) ==
    LET block == 2 * Width
        size == (IF sample.kind = "SHA-1" THEN 8 ELSE Width \div 4)
        zeros == (block - ((Len(m) + 1 + size) % block)) % block
        length == [i \in 1..size |-> IF size - i > 3 THEN 0
                                     ELSE ((8 * Len(m)) \div 256^(size - i)) % 256]
    IN m \o <<128>> \o [i \in 1..zeros |-> 0] \o length

-----------------------------------------------------------------------------

Init ==
    /\ sample \in Samples
    /\ left = Words(Padded(sample.message), 8)
    /\ hash = Words(Iv, 16)
    /\ schedule = <<>> /\ work = <<>> /\ round = -1

\* computate(): the words of the next block,
Load ==
    /\ round = -1 /\ left # <<>>
    /\ schedule' = SubSeq(left, 1, 16)
    /\ left' = SubSeq(left, 17, Len(left))
    /\ work' = hash
    /\ round' = 0
    /\ UNCHANGED <<sample, hash>>

\* its rounds,
Round ==
    LET w == IF round <= 15 THEN schedule[round + 1] ELSE Scheduled(schedule)
    IN /\ round \in 0..Rounds-1
       /\ work' = IF sample.kind = "SHA-1" THEN Round1(work, w) ELSE Round2(work, w)
       /\ schedule' = IF round <= 15 THEN schedule ELSE Append(Tail(schedule), w)
       /\ round' = round + 1
       /\ UNCHANGED <<sample, left, hash>>

\* Faulty variants of the definitions below, used to test the properties.

AddWorkForgets ==
    /\ round = Rounds
    /\ hash' = work
    /\ round' = -1
    /\ UNCHANGED <<sample, left, schedule, work>>

\* and the sum with what the blocks before it gave.
AddWork ==
    /\ round = Rounds
    /\ hash' = [i \in DOMAIN hash |-> Plus(hash[i], work[i])]
    /\ round' = -1
    /\ UNCHANGED <<sample, left, schedule, work>>

Next == Load \/ Round \/ AddWork

Spec == Init /\ [][Next]_vars

-----------------------------------------------------------------------------
(* Properties *)

\* finalise(): the first bytes of the words.
DigestOf(h) ==
    LET size == Width \div 16
    IN [i \in 1..DigestBits \div 16 |->
           Digit(h[((i - 1) \div size) + 1], ((i - 1) % size) + 1, 16)]

\* FIPS 180-4, which sha.cpp implements.  The digests of the standard's examples come out,
\* of messages of one block and of more, whatever the width of the words.
DigestsAgree == round = -1 /\ left = <<>> => DigestOf(hash) = sample.digest
=============================================================================
