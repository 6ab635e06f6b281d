-------------------------------- MODULE Hkdf --------------------------------
(***************************************************************************)
(* crypto/src/hkdf.cpp, class hkdf: a key is extracted once and keys are   *)
(* expanded from it, as often and as long as asked, by one HMAC object     *)
(* that is set back between its uses.  The HMAC is abstract: its tag names *)
(* its key and what it was updated with; see Digest for its inside.        *)
(***************************************************************************)
EXTENDS Integers, SequencesExt, FiniteSetsExt

CONSTANTS
    HashSize,   \* hash_size() of the HMAC
    TagSizes,   \* tag sizes that the material of the HMAC may ask for, 0 for none
    CountBits,  \* bits of the counter, 8 in the code
    Salts, Infos, Sizes,    \* of the keying material and, the latter two, of a call
    MaxKeys     \* bound: calls of key()

VARIABLES
    keying,     \* [salt, info, size, tag_size]
    mac,        \* *_hmac: [key, data, tag]
    prk,        \* _prk
    call,       \* the effective [size, info] of the call of key() under way
    T, count, key,  \* its local variables
    stage,      \* "idle", "expand"
    keys        \* calls so far

vars == <<keying, mac, prk, call, T, count, key, stage, keys>>

-----------------------------------------------------------------------------
(* The HMAC *)

TagLength(tag_size) == IF tag_size > 0 /\ tag_size < HashSize THEN tag_size ELSE HashSize
Reset(k) == [key |-> k, data |-> <<>>, tag |-> <<>>]
Update(m, b) == [m EXCEPT !.data = @ \o b]
Close(m, tag_size) ==
    [m EXCEPT !.tag = [i \in 1..TagLength(tag_size) |-> <<"tag", m.key, m.data, i>>]]

-----------------------------------------------------------------------------
(* The operations *)

Ikm == <<<<"ikm", 0>>>>
NoSalt == [i \in 1..HashSize |-> <<"zero", 0>>]

\* The constructor extracts the key.
Init ==
    /\ keying \in [salt : Salts, info : Infos, size : Sizes, tag_size : TagSizes]
    /\ LET salt == IF keying.salt = <<>> THEN NoSalt ELSE keying.salt
       IN mac = Close(Update(Reset(salt), Ikm), keying.tag_size)
    /\ prk = mac.tag
    /\ call = [size |-> 0, info |-> <<>>]
    /\ T = <<>> /\ count = 0 /\ key = <<>>
    /\ stage = "idle" /\ keys = 0

\* Faulty variants of the definitions below, used to test the properties.
KeyKeepsBlock(size, info) ==
    /\ stage = "idle" /\ keys < MaxKeys
    /\ call' = [size |-> IF size = 0 THEN keying.size ELSE size,
                info |-> IF info = <<>> THEN keying.info ELSE info]
    /\ count' = 0 /\ key' = <<>>
    /\ stage' = "expand" /\ keys' = keys + 1
    /\ UNCHANGED <<keying, mac, prk, T>>

\* key() with its arguments, of which an empty one stands for that of the material.
Key(size, info) ==
    /\ stage = "idle" /\ keys < MaxKeys
    /\ call' = [size |-> IF size = 0 THEN keying.size ELSE size,
                info |-> IF info = <<>> THEN keying.info ELSE info]
    /\ T' = <<>> /\ count' = 0 /\ key' = <<>>
    /\ stage' = "expand" /\ keys' = keys + 1
    /\ UNCHANGED <<keying, mac, prk>>

\* One pass of the loop: the counter is one byte.
Block ==
    /\ stage = "expand" /\ Len(key) < call.size
    /\ count' = (count + 1) % 2^CountBits
    /\ LET updated == Update(Update(Update(Reset(prk), T), call.info), <<<<"count", count'>>>>)
       IN mac' = Close(updated, keying.tag_size)
    /\ T' = mac'.tag
    /\ key' = key \o mac'.tag
    /\ UNCHANGED <<keying, prk, call, stage, keys>>

\* The last block is cut.
Return ==
    /\ stage = "expand" /\ Len(key) >= call.size
    /\ key' = SubSeq(key, 1, call.size)
    /\ stage' = "idle"
    /\ UNCHANGED <<keying, mac, prk, call, T, count, keys>>

Next == (\E size \in Sizes, info \in Infos : Key(size, info)) \/ Block \/ Return

Spec == Init /\ [][Next]_vars

-----------------------------------------------------------------------------
(* Properties *)

Hash(k, data) == [i \in 1..HashSize |-> <<"tag", k, data, i>>]

\* T(0), T(1), ... of RFC 5869, of which a key is the beginning.
Blocks[n \in Nat] ==
    IF n = 0 THEN <<>>
    ELSE Hash(Hash(IF keying.salt = <<>> THEN NoSalt ELSE keying.salt, Ikm),
              Blocks[n - 1] \o call.info \o <<<<"count", n>>>>)
Material(blocks) == FoldLeft(LAMBDA s, n : s \o Blocks[n], <<>>, [n \in 1..blocks |-> n])

\* kdf.h:99: key() can be called repeatedly.  Each key has the length that was asked for and
\* is the one of RFC 5869, whatever keys were made before; unless it takes more blocks than
\* the counter counts, which the standard forbids and the code does not refuse, or the HMAC
\* was told to shorten its tags.
KeysExpand ==
    stage = "idle" /\ keys > 0 =>
        /\ Len(key) = call.size
        /\ keying.tag_size = 0 /\ call.size <= (2^CountBits - 1) * HashSize =>
               key = SubSeq(Material(2^CountBits - 1), 1, call.size)
=============================================================================
