------------------------------- MODULE Buffer -------------------------------
(***************************************************************************)
(* core/src/buffer.cpp and bufferstream.cpp: an array of bytes that grows, *)
(* beside the sequence of bytes it should be, and the stream buffer that   *)
(* reads and writes one.  A byte has ByteBits bits, and the array is       *)
(* extended to a multiple of Boundary.                                     *)
(***************************************************************************)
EXTENDS Integers, SequencesExt, Bitwise

CONSTANTS
    ByteBits,   \* bits of a byte
    Boundary,   \* 16 in holder::resize()
    Growth,     \* 64 in buffer_streambuf::overflow()
    MaxSize,    \* bound: bytes of a buffer
    MaxSteps    \* bound: operations on a buffer

VARIABLES
    data,   \* the array, of _capacity bytes
    sz,     \* _sz
    exact,  \* history: the bytes the buffer should hold
    high,   \* history: the largest size since the array was allocated
    sound,  \* history: no operation met with what the code gets wrong
    area,   \* <<>>: no stream; <<[gptr, egptr, pptr]>>: offsets of its pointers
    taken,  \* history: bytes the stream has been read for
    steps   \* operations so far

vars == <<data, sz, exact, high, sound, area, taken, steps>>

Bytes == 0..(2^ByteBits - 1)
Garbage == 2^ByteBits           \* what memory holds that was never written
Fill(n, b) == <<>> \o [i \in 1..n |-> b]
Content == SubSeq(data, 1, sz)

-----------------------------------------------------------------------------
(* The holder: an array and the size that is used of it *)

\* Faulty variants of the definitions below, used to test the properties.
EraseOne(h, pos, count) ==
    [data |-> SubSeq(h.data, 1, pos) \o SubSeq(h.data, pos + count + 1, h.sz)
                \o SubSeq(h.data, h.sz - count + 1, Len(h.data)),
     sz |-> h.sz - 1]

GrowTight(h, n) ==
    LET cap == n + (Boundary - (n % Boundary))
    IN IF n > Len(h.data)
       THEN [data |-> h.data \o Fill(cap - Len(h.data) - 1, 0) \o <<Garbage>>, sz |-> n]
       ELSE [h EXCEPT !.sz = n]

\* The definitions themselves.

\* resize(): a longer array is zero behind the old bytes, but for the last byte of
\* one that replaces another.
Grow(h, n) ==
    LET cap == n + (Boundary - (n % Boundary))
    IN IF n > h.sz /\ n + 1 > Len(h.data)
       THEN [data |-> IF h.data = <<>> THEN Fill(cap, 0)
                      ELSE SubSeq(h.data, 1, h.sz) \o Fill(cap - h.sz - 1, 0) \o <<Garbage>>,
             sz |-> n]
       ELSE [h EXCEPT !.sz = n]

Empty == [data |-> <<>>, sz |-> 0]

\* memcpy() into the array.
Copy(h, pos, bytes) ==
    [h EXCEPT !.data = SubSeq(@, 1, pos) \o bytes \o SubSeq(@, pos + Len(bytes) + 1, Len(@))]

\* The constructors from bytes.
Holding(bytes) == Copy(Grow(Empty, Len(bytes)), 0, bytes)

\* insert(), up to the bytes themselves: what is behind pos moves.
Room(h, pos, count) ==
    Copy(Grow(h, h.sz + count), pos + count, SubSeq(h.data, pos + 1, h.sz))

Insert(h, pos, bytes) == IF bytes = <<>> THEN h ELSE Copy(Room(h, pos, Len(bytes)), pos, bytes)

\* insert() of bytes of the buffer itself: it reads them where they were, in an array
\* that may be gone, after the move.
InsertOwn(h, pos, from, count) ==
    LET room == Room(h, pos, count)
        moved == Len(room.data) # Len(h.data)
    IN Copy(room, pos, IF moved THEN Fill(count, Garbage) ELSE SubSeq(room.data, from + 1, from + count))

Erase(h, pos, count) ==
    [data |-> SubSeq(h.data, 1, pos) \o SubSeq(h.data, pos + count + 1, h.sz)
                \o SubSeq(h.data, h.sz - count + 1, Len(h.data)),
     sz |-> h.sz - count]

-----------------------------------------------------------------------------
(* Bits *)

At(s, i) == IF i \in 1..Len(s) THEN s[i] ELSE 0

ShiftLeft(s, pos) ==
    LET bytes == pos \div ByteBits
        bits == pos % ByteBits
    IN <<>> \o [i \in 1..Len(s) |->
        IF pos >= Len(s) * ByteBits THEN 0
        ELSE (At(s, i + bytes) * 2^bits + At(s, i + bytes + 1) \div 2^(ByteBits - bits)) % 2^ByteBits]

ShiftRight(s, pos) ==
    LET bytes == pos \div ByteBits
        bits == pos % ByteBits
    IN <<>> \o [i \in 1..Len(s) |->
        IF pos >= Len(s) * ByteBits THEN 0
        ELSE (At(s, i - bytes) \div 2^bits + At(s, i - bytes - 1) * 2^(ByteBits - bits)) % 2^ByteBits]

\* operator^=: the right operand may be longer.
XorWith(s, t) == <<>> \o [i \in 1..Len(s) |-> s[i] ^^ t[i]]

-----------------------------------------------------------------------------
(* Hexadecimal text: two nibbles for a byte *)

Half == 2^(ByteBits \div 2)
ToHex(s) ==
    <<>> \o [i \in 1..(2 * Len(s)) |->
        IF i % 2 = 1 THEN s[(i + 1) \div 2] \div Half ELSE s[i \div 2] % Half]

\* operator>>: whole pairs of nibbles, up to the first that is none.
FromHex(text) ==
    LET Pair(k) == 2 * k <= Len(text) /\ text[2 * k - 1] \in 0..(Half - 1) /\ text[2 * k] \in 0..(Half - 1)
        pairs == CHOOSE n \in 0..(Len(text) \div 2) :
                    /\ \A k \in 1..n : Pair(k)
                    /\ ~Pair(n + 1)
    IN <<>> \o [k \in 1..pairs |-> text[2 * k - 1] * Half + text[2 * k]]

-----------------------------------------------------------------------------
(* Operations *)

Now == [data |-> data, sz |-> sz]

Init ==
    \E n \in 0..MaxSize, b \in {1, 2^ByteBits - 1} :
        /\ exact = Fill(n, b)
        /\ data = Holding(exact).data
        /\ sz = n
        /\ high = n
        /\ sound = TRUE
        /\ area = <<>>
        /\ taken = <<>>
        /\ steps = 0

\* The buffer gets a new holder, and the bytes it should hold.
Become(h, bytes, right) ==
    /\ Len(bytes) <= MaxSize
    /\ data' = h.data
    /\ sz' = h.sz
    /\ exact' = bytes
    /\ high' = IF Len(h.data) # Len(data) \/ h.sz > high THEN h.sz ELSE high
    /\ sound' = (sound /\ right)
    /\ steps' = steps + 1
    /\ UNCHANGED <<area, taken>>

Splice(s, pos, bytes) == SubSeq(s, 1, pos) \o bytes \o SubSeq(s, pos + 1, Len(s))

\* Growing within the array shows the bytes that were there before a shrinking.
Resize(n) ==
    Become(Grow(Now, n),
           IF n <= sz THEN SubSeq(exact, 1, n) ELSE exact \o Fill(n - sz, 0),
           (n > sz /\ n + 1 <= Len(data)) => high <= sz)

Clear == Become([data |-> data, sz |-> 0], <<>>, TRUE)
InsertBytes(pos, bytes) == Become(Insert(Now, pos, bytes), Splice(exact, pos, bytes), TRUE)

\* Its own bytes: they must be before pos, and the array must not be replaced.
InsertRange(pos, from, count) ==
    Become(InsertOwn(Now, pos, from, count), Splice(exact, pos, SubSeq(exact, from + 1, from + count)),
           from + count <= pos /\ sz + count + 1 <= Len(data))

EraseBytes(pos, count) ==
    Become(IF count = 0 THEN Now ELSE Erase(Now, pos, count),
           SubSeq(exact, 1, pos) \o SubSeq(exact, pos + count + 1, sz), TRUE)

\* operator=: a new array of the size of the other's.
Assign == Become(Holding(Content), exact, TRUE)

\* Bits of a sequence of bytes, the most significant first.
BitsOf(s) == <<>> \o [i \in 1..(Len(s) * ByteBits) |->
    (s[(i - 1) \div ByteBits + 1] \div 2^(ByteBits - 1 - ((i - 1) % ByteBits))) % 2]
FromBits(t) == <<>> \o [i \in 1..(Len(t) \div ByteBits) |->
    FoldLeft(LAMBDA n, b : 2 * n + b, 0, SubSeq(t, (i - 1) * ByteBits + 1, i * ByteBits))]

ShiftBy(pos) ==
    LET bits == BitsOf(exact)
        n == Len(bits)
        p == IF pos > n THEN n ELSE pos
    IN \/ Become(Copy(Now, 0, ShiftLeft(Content, pos)),
                 FromBits(SubSeq(bits, p + 1, n) \o Fill(p, 0)), TRUE)
       \/ Become(Copy(Now, 0, ShiftRight(Content, pos)),
                 FromBits(Fill(p, 0) \o SubSeq(bits, 1, n - p)), TRUE)

\* Twice the same operand.
XorTwice(t) ==
    /\ sz <= Len(t)
    /\ Become(Copy(Now, 0, XorWith(XorWith(Content, t), t)), exact, TRUE)

\* The buffer is written as text, and another is read from it and what follows.
Reread(tail) ==
    LET s == FromHex(ToHex(Content) \o tail)
    IN Become(Holding(s), exact, TRUE)

-----------------------------------------------------------------------------
(* buffer_streambuf *)

\* buf(b): the buffer is read from its start and written at its end.
Open ==
    /\ area = <<>>
    /\ area' = <<[gptr |-> 0, egptr |-> sz, pptr |-> sz]>>
    /\ data' = Holding(Content).data
    /\ steps' = 0
    /\ UNCHANGED <<sz, exact, high, sound, taken>>

\* sputc(): at the end of the put area overflow() extends the buffer, and with it
\* the get area.
Put(b) ==
    LET a == area[1]
        grown == IF a.pptr < sz THEN Now ELSE Grow(Now, sz + Growth)
    IN /\ steps < MaxSteps
       /\ data' = Copy(grown, a.pptr, <<b>>).data
       /\ sz' = grown.sz
       /\ area' = <<[a EXCEPT !.pptr = @ + 1, !.egptr = IF a.pptr < sz THEN @ ELSE grown.sz]>>
       /\ exact' = Append(exact, b)
       /\ steps' = steps + 1
       /\ UNCHANGED <<high, sound, taken>>

\* sbumpc(), within the get area; that goes beyond what was written.
Take ==
    LET a == area[1]
    IN /\ a.gptr < a.egptr
       /\ taken' = Append(taken, data[a.gptr + 1])
       /\ area' = <<[a EXCEPT !.gptr = @ + 1]>>
       /\ sound' = (a.gptr < a.pptr)
       /\ UNCHANGED <<data, sz, exact, high, steps>>

\* A buffer that went wrong is not followed further.
Next ==
    /\ sound
    /\ \/ /\ area = <<>>
          /\ steps < MaxSteps
          /\ \/ \E n \in 0..MaxSize : Resize(n)
             \/ Clear
             \/ \E pos \in 0..sz, n \in 0..2, b \in {1, 2^ByteBits - 1} : InsertBytes(pos, Fill(n, b))
             \/ \E pos, from \in 0..sz : \E count \in 1..(sz - from) : InsertRange(pos, from, count)
             \/ \E pos \in 0..sz : \E count \in 0..(sz - pos) : EraseBytes(pos, count)
             \/ Assign
             \/ \E pos \in {0, 1, ByteBits, ByteBits + 1, 3 * ByteBits} : ShiftBy(pos)
             \/ \E t \in {Fill(MaxSize, 1), Fill(2, 2)} : XorTwice(t)
             \/ \E tail \in {<<>>, <<0>>, <<Half>>} : Reread(tail)
       \/ Open
       \/ /\ area # <<>>
          /\ Put(1) \/ Take

Spec == Init /\ [][Next]_vars

-----------------------------------------------------------------------------
(* Properties *)

\* Whatever operations a buffer went through, it holds the bytes it should, inside
\* its array with one byte to spare: none left a byte out, let the memory behind the
\* bytes in or moved them too far; unless the buffer grew over bytes it had given up,
\* or was inserted into itself.  A stream gives back the bytes of its buffer and those
\* written since, in order, unless it is read for more than was written.
HoldsBytes ==
    /\ sz + 1 <= Len(data) \/ sz = 0
    /\ sound /\ area = <<>> => Content = exact
    /\ area # <<>> => SubSeq(data, 1, area[1].pptr) = exact
    /\ sound => IsPrefix(taken, exact)
=============================================================================
