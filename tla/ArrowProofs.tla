----------------------------- MODULE ArrowProofs -----------------------------
(***************************************************************************)
(* Proofs about ArrowBits, for buffers, positions and ranges of any size,  *)
(* and about ArrowLeafBuilder, for any sequence of calls.                  *)
(***************************************************************************)
EXTENDS ArrowLeafBuilder, SequenceTheorems, FiniteSetTheorems, TLAPS

Buffers == Seq(SUBSET Byte)

-----------------------------------------------------------------------------
\* A position is a byte and a bit in it.
LEMMA ByteAndBit ==
    ASSUME NEW i \in Nat
    PROVE  /\ i \div 8 \in Nat /\ i % 8 \in 0..7
           /\ i = 8 * (i \div 8) + (i % 8)
    OBVIOUS

\* The byte that position i is in.
LEMMA ByteOfBit ==
    ASSUME NEW m \in Nat, NEW i \in 0 .. 8 * m - 1
    PROVE  i \div 8 + 1 \in 1..m
    BY ByteAndBit

\* KeptBits at each byte: before the range, at its ends, inside, behind it.
LEMMA KeptCases ==
    ASSUME NEW start \in Nat, NEW end \in Nat, start < end, NEW b \in Nat
    PROVE  LET first == start \div 8
               last  == end \div 8
               kept  == KeptBits(b, start, end)
           IN  /\ b = first /\ first = last =>
                    kept = PrecedingBitmask(start % 8) \cup TrailingBitmask(end % 8)
               /\ b = first /\ first # last => kept = PrecedingBitmask(start % 8)
               /\ first < b /\ b < last => kept = {}
               /\ b = last /\ first # last =>
                    kept = IF end % 8 = 0 THEN Byte ELSE TrailingBitmask(end % 8)
               /\ b < first \/ b > last => kept = Byte
    <1> DEFINE first == start \div 8
               last  == end \div 8
               rest  == end % 8
    <1>1. first \in Nat /\ last \in Nat /\ first <= last /\ rest \in Nat
        BY ByteAndBit
    <1>2. b \in first + 1 .. last - 1 <=> first < b /\ b < last
        BY <1>1
    <1> DEFINE kept == KeptBits(b, start, end)
               pre  == PrecedingBitmask(start % 8)
               post == TrailingBitmask(rest)
    <1>3. kept = CASE b = first /\ first = last -> pre \cup post
                   [] b = first /\ first # last -> pre
                   [] b \in first + 1 .. last - 1 -> {}
                   [] b = last /\ first # last /\ rest # 0 -> post
                   [] OTHER -> Byte
        BY Zenon DEF KeptBits
    <1> HIDE DEF first, last, kept, pre, post, rest
    <1>4. CASE b = first /\ first = last
        <2>1. b \notin first + 1 .. last - 1 /\ ~(b < first) /\ ~(b > last)
              /\ ~(first < b)
            BY <1>1, <1>2, <1>4
        <2>2. kept = pre \cup post
            BY <1>3, <1>4, <2>1, Zenon
        <2> QED
            BY <1>4, <2>1, <2>2 DEF first, last, kept, pre, post, rest
    <1>5. CASE b = first /\ first # last
        <2>1. b \notin first + 1 .. last - 1 /\ ~(b < first) /\ ~(b > last)
              /\ ~(first < b)
            BY <1>1, <1>2, <1>5
        <2>2. kept = pre
            BY <1>3, <1>5, <2>1, Zenon
        <2> QED
            BY <1>5, <2>1, <2>2 DEF first, last, kept, pre, post, rest
    <1>6. CASE first < b /\ b < last
        <2>1. /\ b \in first + 1 .. last - 1 /\ ~(b < first) /\ ~(b > last)
              /\ b # first /\ b # last
            BY <1>1, <1>2, <1>6
        <2>2. kept = {}
            BY <1>3, <2>1, Zenon
        <2> QED
            BY <1>6, <2>1, <2>2 DEF first, last, kept, pre, post, rest
    <1>7. CASE b = last /\ first # last
        <2>1. /\ b \notin first + 1 .. last - 1 /\ ~(b < first) /\ ~(b > last)
              /\ b # first /\ ~(b < last)
            BY <1>1, <1>2, <1>7
        <2>2. kept = IF rest = 0 THEN Byte ELSE post
            BY <1>3, <1>7, <2>1, Zenon
        <2> QED
            BY <1>7, <2>1, <2>2 DEF first, last, kept, pre, post, rest
    <1>8. CASE b < first \/ b > last
        <2>1. /\ b \notin first + 1 .. last - 1
              /\ b # first /\ b # last /\ ~(first < b /\ b < last)
            BY <1>1, <1>2, <1>8
        <2>2. kept = Byte
            BY <1>3, <2>1, Zenon
        <2> QED
            BY <1>8, <2>1, <2>2 DEF first, last, kept, pre, post, rest
    <1>9. b = first \/ b = last \/ (first < b /\ b < last) \/ b < first \/ b > last
        BY <1>1
    <1> QED
        BY <1>4, <1>5, <1>6, <1>7, <1>8, <1>9

\* The masks keep exactly the bits outside the range.
LEMMA KeptAreOutside ==
    ASSUME NEW start \in Nat, NEW end \in Nat, start < end, NEW i \in Nat
    PROVE  i % 8 \in KeptBits(i \div 8, start, end) <=> i < start \/ i >= end
    <1> DEFINE first == start \div 8
               last  == end \div 8
               b     == i \div 8
               r     == i % 8
               sr    == start % 8
               er    == end % 8
               kept  == KeptBits(b, start, end)
    <1>1. /\ first \in Nat /\ sr \in 0..7 /\ start = 8 * first + sr
          /\ last \in Nat /\ er \in 0..7 /\ end = 8 * last + er
          /\ b \in Nat /\ r \in 0..7 /\ i = 8 * b + r
        BY ByteAndBit
    <1>2. /\ b = first /\ first = last => kept = 0 .. sr - 1 \cup er .. 7
          /\ b = first /\ first # last => kept = 0 .. sr - 1
          /\ first < b /\ b < last => kept = {}
          /\ b = last /\ first # last => kept = IF er = 0 THEN 0..7 ELSE er .. 7
          /\ b < first \/ b > last => kept = 0..7
        BY <1>1, KeptCases DEF PrecedingBitmask, TrailingBitmask, Byte
    <1> HIDE DEF first, last, b, r, sr, er, kept
    <1>3. first <= last
        BY <1>1
    <1>4. r \in kept <=> i < start \/ i >= end
        <2>1. CASE b = first /\ first = last
            BY <1>1, <1>2, <2>1
        <2>2. CASE b = first /\ first # last
            BY <1>1, <1>2, <1>3, <2>2
        <2>3. CASE first < b /\ b < last
            BY <1>1, <1>2, <2>3
        <2>4. CASE b = last /\ first # last
            BY <1>1, <1>2, <1>3, <2>4
        <2>5. CASE b < first \/ b > last
            BY <1>1, <1>2, <1>3, <2>5
        <2> QED
            BY <1>1, <1>3, <2>1, <2>2, <2>3, <2>4, <2>5
    <1> QED
        BY <1>4 DEF b, r, kept

\* In set the bits start .. start + length - 1 are on, or off, and the others are
\* those of bits.
IsSetTo(set, bits, start, length, on) ==
    /\ set \in Buffers /\ Len(set) = Len(bits)
    /\ \A i \in 0 .. 8 * Len(bits) - 1 :
        ArrowBitGet(set, i) = IF i \in start .. start + length - 1
                              THEN IF on THEN 1 ELSE 0
                              ELSE ArrowBitGet(bits, i)

\* Of the bits in a buffer ArrowBitsSetTo sets those of its range and no other,
\* wherever the range begins and ends within a byte.
LEMMA BitsSetInside ==
    ASSUME NEW bits \in Buffers, NEW start \in Nat, NEW length \in Nat,
           NEW on \in BOOLEAN
    PROVE  IsSetTo(ArrowBitsSetTo(bits, start, length, on), bits, start, length, on)
    <1> DEFINE set     == ArrowBitsSetTo(bits, start, length, on)
               end     == start + length
               fill    == IF on THEN Byte ELSE {}
               kept(k) == KeptBits(k - 1, start, end)
    <1>1. /\ Len(bits) \in Nat /\ DOMAIN bits = 1 .. Len(bits)
          /\ \A k \in 1 .. Len(bits) : bits[k] \in SUBSET Byte
        BY LenProperties DEF Buffers
    <1>2. CASE length = 0
        BY <1>2 DEF ArrowBitsSetTo, IsSetTo
    <1>3. CASE length # 0
        <2>1. set = [k \in DOMAIN bits |-> (bits[k] \cap kept(k)) \cup (fill \ kept(k))]
            BY <1>3 DEF ArrowBitsSetTo
        <2>2. fill \in SUBSET Byte
            OBVIOUS
        <2>3. start < end /\ end \in Nat
            BY <1>3
        <2> HIDE DEF set, fill, kept
        <2>4. /\ DOMAIN set = 1 .. Len(bits)
              /\ \A k \in 1 .. Len(bits) :
                    set[k] = (bits[k] \cap kept(k)) \cup (fill \ kept(k))
            BY <1>1, <2>1
        <2>5. \A k \in 1 .. Len(bits) : set[k] \in SUBSET Byte
            BY <1>1, <2>2, <2>4
        <2>6. set \in [1 .. Len(bits) -> SUBSET Byte]
            BY <1>1, <2>1, <2>4, <2>5
        <2>7. set \in Buffers /\ Len(set) = Len(bits)
            BY <1>1, <2>6, SeqDef, LenProperties DEF Buffers
        <2>8. ASSUME NEW i \in 0 .. 8 * Len(bits) - 1
              PROVE  ArrowBitGet(set, i) =
                        IF i \in start .. end - 1 THEN IF on THEN 1 ELSE 0
                        ELSE ArrowBitGet(bits, i)
            <3> DEFINE k == i \div 8 + 1
                       r == i % 8
            <3>1. k \in 1 .. Len(bits) /\ r \in Byte /\ k - 1 = i \div 8 /\ i \in Nat
                BY <1>1, ByteOfBit, ByteAndBit DEF Byte
            <3>2. r \in kept(k) <=> i < start \/ i >= end
                BY <2>3, <3>1, KeptAreOutside DEF kept
            <3>3. i \in start .. end - 1 <=> ~(i < start \/ i >= end)
                BY <2>3, <3>1
            <3>4. /\ ArrowBitGet(set, i) = IF r \in set[k] THEN 1 ELSE 0
                  /\ ArrowBitGet(bits, i) = IF r \in bits[k] THEN 1 ELSE 0
                BY DEF ArrowBitGet
            <3>5. r \in fill <=> on
                BY <3>1 DEF fill
            <3> HIDE DEF k, r, end
            <3>6. r \in set[k] <=> IF r \in kept(k) THEN r \in bits[k] ELSE on
                BY <2>4, <3>1, <3>5
            <3> QED
                BY <3>2, <3>3, <3>4, <3>6
        <2> QED
            BY <2>7, <2>8 DEF set, IsSetTo
    <1> QED
        BY <1>2, <1>3

\* A range of bits that lies in the buffer is set by ArrowBitsSetTo to the last
\* bit, and no other bit changes, wherever the range begins and ends within a
\* byte.
THEOREM BitsSetExactly ==
    ASSUME NEW bits \in Buffers, NEW start \in Nat, NEW length \in Nat,
           start + length <= 8 * Len(bits), NEW on \in BOOLEAN
    PROVE  LET set == ArrowBitsSetTo(bits, start, length, on)
           IN  /\ \A i \in start .. start + length - 1 :
                    ArrowBitGet(set, i) = IF on THEN 1 ELSE 0
               /\ \A i \in 0 .. 8 * Len(bits) - 1 : i \notin start .. start + length - 1 =>
                    ArrowBitGet(set, i) = ArrowBitGet(bits, i)
               /\ Len(set) = Len(bits)
    <1> DEFINE set == ArrowBitsSetTo(bits, start, length, on)
    <1>1. IsSetTo(set, bits, start, length, on)
        BY BitsSetInside
    <1> HIDE DEF set
    <1>2. Len(bits) \in Nat
        BY LenProperties DEF Buffers
    <1>3. \A i \in start .. start + length - 1 : i \in 0 .. 8 * Len(bits) - 1
        BY <1>2
    <1> QED
        BY <1>1, <1>3 DEF IsSetTo, set

-----------------------------------------------------------------------------
\* The fields of a node that a bitmap is made of.
BitmapOK(a) ==
    /\ {"length", "buf0", "size_bits", "junk"} \subseteq DOMAIN a
    /\ a.length \in Nat /\ a.size_bits \in Nat
    /\ a.buf0 \in Buffers /\ a.junk \in SUBSET Byte
    /\ Len(a.buf0) = BytesForBits(a.size_bits)

\* A node has no bitmap, or one bit for each of its elements.
InStep(a) == BitmapOK(a) /\ (a.buf0 # <<>> => a.size_bits = a.length)

\* What the reader makes of the bitmap, i being counted from 0.
IsNull(a, i) == a.buf0 # <<>> /\ ArrowBitGet(a.buf0, i) = 0

\* BytesForBits is the least number of bytes with room for the bits.
LEMMA BytesHoldBits ==
    ASSUME NEW bits \in Nat
    PROVE  /\ BytesForBits(bits) \in Nat
           /\ bits <= 8 * BytesForBits(bits)
           /\ 8 * BytesForBits(bits) < bits + 8
    BY ByteAndBit, bits + 7 \in Nat DEF BytesForBits

\* More bits need no fewer bytes.
LEMMA BytesGrow ==
    ASSUME NEW m \in Nat, NEW n \in Nat, m <= n
    PROVE  BytesForBits(m) <= BytesForBits(n)
    BY BytesHoldBits

\* Fresh bytes behind a buffer leave its bits where they are.
LEMMA FreshBytes ==
    ASSUME NEW bits \in Buffers, NEW need \in Nat, Len(bits) <= need,
           NEW byte \in SUBSET Byte
    PROVE  LET more == Resized(bits, need, byte)
           IN  /\ more \in Buffers /\ Len(more) = need
               /\ \A i \in 0 .. 8 * Len(bits) - 1 :
                    ArrowBitGet(more, i) = ArrowBitGet(bits, i)
    <1> DEFINE n     == need - Len(bits)
               fresh == [k \in 1..n |-> byte]
               more  == bits \o fresh
    <1>1. Len(bits) \in Nat
        BY LenProperties DEF Buffers
    <1>2. n \in Nat
        BY <1>1
    <1>3. fresh \in [1..n -> SUBSET Byte]
        OBVIOUS
    <1> HIDE DEF n, fresh
    <1>4. fresh \in Buffers /\ Len(fresh) = n
        BY <1>2, <1>3, SeqDef, LenProperties DEF Buffers
    <1>5. /\ more \in Buffers /\ Len(more) = Len(bits) + n
          /\ \A k \in 1 .. Len(bits) + n :
                more[k] = IF k <= Len(bits) THEN bits[k] ELSE fresh[k - Len(bits)]
        BY <1>4, ConcatProperties DEF Buffers
    <1>6. Len(bits) + n = need
        BY <1>1 DEF n
    <1>7. ASSUME NEW i \in 0 .. 8 * Len(bits) - 1
          PROVE  ArrowBitGet(more, i) = ArrowBitGet(bits, i)
        <2>1. i \div 8 + 1 \in 1 .. Len(bits)
            BY <1>1, ByteOfBit
        <2>2. more[i \div 8 + 1] = bits[i \div 8 + 1]
            BY <1>1, <1>2, <1>5, <2>1
        <2> QED
            BY <2>2 DEF ArrowBitGet
    <1> QED
        BY <1>5, <1>6, <1>7 DEF fresh, n, Resized

\* longer begins with the m bits of bits; n more are on, or off, as far as there
\* is a place for them.
Continues(longer, bits, m, n, on) ==
    /\ longer \in Buffers
    /\ \A i \in 0 .. m - 1 : ArrowBitGet(longer, i) = ArrowBitGet(bits, i)
    /\ \A i \in m .. m + n - 1 :
        i < 8 * Len(longer) => ArrowBitGet(longer, i) = IF on THEN 1 ELSE 0

\* A buffer of m bits is given fresh bytes, and n bits are set behind the m.
LEMMA GrownBuffer ==
    ASSUME NEW bits \in Buffers, NEW m \in Nat, NEW n \in Nat, NEW need \in Nat,
           NEW byte \in SUBSET Byte, NEW on \in BOOLEAN,
           Len(bits) = BytesForBits(m), BytesForBits(m) <= need
    PROVE  LET set == ArrowBitsSetTo(Resized(bits, need, byte), m, n, on)
           IN  Continues(set, bits, m, n, on) /\ Len(set) = need
    <1> DEFINE more == Resized(bits, need, byte)
               set  == ArrowBitsSetTo(more, m, n, on)
    <1>1. m <= 8 * Len(bits) /\ Len(bits) \in Nat /\ Len(bits) <= need
        BY BytesHoldBits
    <1>2. /\ more \in Buffers /\ Len(more) = need
          /\ \A i \in 0 .. 8 * Len(bits) - 1 :
                ArrowBitGet(more, i) = ArrowBitGet(bits, i)
        BY <1>1, FreshBytes
    <1> HIDE DEF more
    <1>3. /\ set \in Buffers /\ Len(set) = Len(more)
          /\ \A i \in 0 .. 8 * Len(more) - 1 :
                ArrowBitGet(set, i) = IF i \in m .. m + n - 1
                                      THEN IF on THEN 1 ELSE 0
                                      ELSE ArrowBitGet(more, i)
        <2>1. IsSetTo(set, more, m, n, on)
            BY <1>2, BitsSetInside
        <2> QED
            BY <2>1 DEF IsSetTo
    <1> HIDE DEF set
    <1>4. ASSUME NEW i \in 0 .. m - 1
          PROVE  ArrowBitGet(set, i) = ArrowBitGet(bits, i)
        <2>1. /\ i \in 0 .. 8 * need - 1 /\ i \in 0 .. 8 * Len(bits) - 1
              /\ i \notin m .. m + n - 1
            BY <1>1
        <2> QED
            BY <1>2, <1>3, <2>1
    <1>5. ASSUME NEW i \in m .. m + n - 1, i < 8 * need
          PROVE  ArrowBitGet(set, i) = IF on THEN 1 ELSE 0
        <2>1. i \in 0 .. 8 * need - 1
            BY <1>5
        <2> QED
            BY <1>2, <1>3, <2>1
    <1> QED
        BY <1>2, <1>3, <1>4, <1>5 DEF set, more, Continues

\* ArrowBitmapAppend adds n bits of the given value behind those there are,
\* whatever the fresh bytes held.
THEOREM BitmapAppendExactly ==
    ASSUME NEW a, BitmapOK(a), NEW on \in BOOLEAN, NEW n \in Nat
    PROVE  LET b == ArrowBitmapAppend(a, on, n)
           IN  /\ BitmapOK(b) /\ b.length = a.length
               /\ b.size_bits = a.size_bits + n
               /\ b.size_bits <= 8 * Len(b.buf0)
               /\ Continues(b.buf0, a.buf0, a.size_bits, n, on)
    <1> DEFINE b    == ArrowBitmapAppend(a, on, n)
               m    == a.size_bits
               bits == a.buf0
               size == m + n
               need == BytesForBits(size)
               set  == ArrowBitsSetTo(Resized(bits, need, a.junk), m, n, on)
    <1>1. b = [a EXCEPT !.buf0 = set, !.size_bits = size]
        BY DEF ArrowBitmapAppend
    <1>2. /\ m \in Nat /\ bits \in Buffers /\ a.junk \in SUBSET Byte
          /\ Len(bits) = BytesForBits(m)
        BY DEF BitmapOK
    <1>3. size \in Nat /\ m <= size
        BY <1>2
    <1> HIDE DEF b, m, bits, size
    <1>4. need \in Nat /\ BytesForBits(m) <= need /\ size <= 8 * need
        BY <1>2, <1>3, BytesHoldBits, BytesGrow
    <1> HIDE DEF need
    <1>5. Continues(set, bits, m, n, on) /\ Len(set) = need
        BY <1>2, <1>4, GrownBuffer
    <1> HIDE DEF set
    <1>6. /\ DOMAIN b = DOMAIN a /\ b.length = a.length /\ b.junk = a.junk
          /\ b.size_bits = size /\ b.buf0 = set
        BY <1>1 DEF BitmapOK
    <1>7. BitmapOK(b)
        BY <1>2, <1>3, <1>5, <1>6 DEF BitmapOK, Continues, need
    <1> QED
        BY <1>4, <1>5, <1>6, <1>7 DEF b, m, bits, size

\* n elements that are null or empty are recorded as that, and the elements
\* before them keep what they were, also when the bitmap appears only now, with
\* the first null of the array.
THEOREM NullsExactly ==
    ASSUME NEW a, InStep(a), NEW is_valid \in BOOLEAN, NEW n \in Nat \ {0}
    PROVE  LET b == FillValidity(a, n, is_valid)
           IN  /\ InStep([b EXCEPT !.length = @ + n])
               /\ \A i \in 0 .. a.length - 1 : IsNull(b, i) <=> IsNull(a, i)
               /\ \A i \in a.length .. a.length + n - 1 : IsNull(b, i) <=> ~is_valid
    <1> DEFINE b == FillValidity(a, n, is_valid)
               c == [b EXCEPT !.length = @ + n]
    <1>1. BitmapOK(a) /\ a.length \in Nat /\ n \in Nat /\ n > 0
        BY DEF InStep, BitmapOK
    <1>2. ASSUME NEW d, BitmapOK(d), d.length = a.length, d.size_bits = a.length + n,
                 d.size_bits <= 8 * Len(d.buf0), b = d, NEW on \in BOOLEAN, NEW bits,
                 Continues(d.buf0, bits, a.length, n, on)
          PROVE  /\ InStep(c) /\ d.buf0 # <<>>
                 /\ \A i \in 0 .. a.length - 1 :
                        ArrowBitGet(d.buf0, i) = ArrowBitGet(bits, i)
                 /\ \A i \in a.length .. a.length + n - 1 :
                        ArrowBitGet(d.buf0, i) = IF on THEN 1 ELSE 0
        <2>1. /\ DOMAIN c = DOMAIN d /\ c.length = a.length + n
              /\ c.buf0 = d.buf0 /\ c.size_bits = d.size_bits /\ c.junk = d.junk
            BY <1>2 DEF BitmapOK
        <2>2. InStep(c)
            BY <1>1, <1>2, <2>1 DEF InStep, BitmapOK
        <2>3. Len(d.buf0) \in Nat /\ a.length + n <= 8 * Len(d.buf0)
            BY <1>2, LenProperties DEF BitmapOK, Buffers
        <2>4. d.buf0 # <<>>
            BY <1>1, <2>3, EmptySeq
        <2>5. \A i \in a.length .. a.length + n - 1 : i < 8 * Len(d.buf0)
            BY <1>1, <2>3
        <2> QED
            BY <1>2, <2>2, <2>4, <2>5 DEF Continues
    <1>3. CASE a.buf0 # <<>>
        <2> DEFINE d == ArrowBitmapAppend(a, is_valid, n)
        <2>1. b = d
            BY <1>3, Zenon DEF FillValidity
        <2>2. a.size_bits = a.length
            BY <1>3 DEF InStep
        <2>3. /\ BitmapOK(d) /\ d.length = a.length /\ d.size_bits = a.size_bits + n
              /\ d.size_bits <= 8 * Len(d.buf0)
              /\ Continues(d.buf0, a.buf0, a.size_bits, n, is_valid)
            BY <1>1, BitmapAppendExactly
        <2> HIDE DEF d, b
        <2>4. /\ d.size_bits = a.length + n
              /\ Continues(d.buf0, a.buf0, a.length, n, is_valid)
            BY <2>2, <2>3
        <2>5. /\ InStep(c) /\ d.buf0 # <<>>
              /\ \A i \in 0 .. a.length - 1 :
                    ArrowBitGet(d.buf0, i) = ArrowBitGet(a.buf0, i)
              /\ \A i \in a.length .. a.length + n - 1 :
                    ArrowBitGet(d.buf0, i) = IF is_valid THEN 1 ELSE 0
            BY <1>2, <2>1, <2>3, <2>4
        <2> QED
            BY <1>3, <2>1, <2>5 DEF IsNull, b
    <1>4. CASE a.buf0 = <<>> /\ ~is_valid
        <2> DEFINE past == ArrowBitmapAppend(a, TRUE, a.length)
                   d    == ArrowBitmapAppend(past, FALSE, n)
        <2>1. b = d
            BY <1>4, Zenon DEF FillValidity
        <2>2. a.size_bits = 0
            <3> DEFINE m == a.size_bits
            <3>1. m \in Nat /\ BytesForBits(m) = 0
                BY <1>1, <1>4, EmptySeq DEF BitmapOK
            <3> HIDE DEF m
            <3>2. m = 0
                BY <3>1, BytesHoldBits
            <3> QED
                BY <3>2 DEF m
        <2>3. /\ BitmapOK(past) /\ past.length = a.length
              /\ past.size_bits = a.size_bits + a.length
              /\ past.size_bits <= 8 * Len(past.buf0)
              /\ Continues(past.buf0, a.buf0, a.size_bits, a.length, TRUE)
            BY <1>1, BitmapAppendExactly
        <2> HIDE DEF past
        <2>4. past.size_bits = a.length
            BY <1>1, <2>2, <2>3
        <2>5. \A i \in 0 .. a.length - 1 : ArrowBitGet(past.buf0, i) = 1
            <3>1. ASSUME NEW i \in 0 .. a.length - 1
                  PROVE  /\ i \in a.size_bits .. a.size_bits + a.length - 1
                         /\ i < 8 * Len(past.buf0)
                <4>1. Len(past.buf0) \in Nat
                    BY <2>3, LenProperties DEF BitmapOK, Buffers
                <4> QED
                    BY <1>1, <2>2, <2>3, <2>4, <4>1
            <3> QED
                BY <2>3, <3>1 DEF Continues
        <2>6. /\ BitmapOK(d) /\ d.length = past.length
              /\ d.size_bits = past.size_bits + n
              /\ d.size_bits <= 8 * Len(d.buf0)
              /\ Continues(d.buf0, past.buf0, past.size_bits, n, FALSE)
            BY <1>1, <2>3, BitmapAppendExactly
        <2> HIDE DEF d, b
        <2>7. /\ d.length = a.length /\ d.size_bits = a.length + n
              /\ Continues(d.buf0, past.buf0, a.length, n, FALSE)
            BY <2>3, <2>4, <2>6
        <2>8. /\ InStep(c) /\ d.buf0 # <<>>
              /\ \A i \in 0 .. a.length - 1 :
                    ArrowBitGet(d.buf0, i) = ArrowBitGet(past.buf0, i)
              /\ \A i \in a.length .. a.length + n - 1 :
                    ArrowBitGet(d.buf0, i) = IF FALSE THEN 1 ELSE 0
            BY <1>2, <2>1, <2>6, <2>7
        <2> QED
            BY <1>4, <2>1, <2>5, <2>8 DEF IsNull, b
    <1>5. CASE a.buf0 = <<>> /\ is_valid
        <2>1. b = a
            BY <1>5, Zenon DEF FillValidity
        <2> HIDE DEF b
        <2>2. /\ DOMAIN c = DOMAIN a /\ c.length = a.length + n
              /\ c.buf0 = a.buf0 /\ c.size_bits = a.size_bits /\ c.junk = a.junk
            BY <1>1, <2>1 DEF BitmapOK
        <2>3. InStep(c)
            BY <1>1, <1>5, <2>2 DEF InStep, BitmapOK
        <2> QED
            BY <1>5, <2>1, <2>3 DEF IsNull, b
    <1> QED
        BY <1>3, <1>4, <1>5

\* The data of a boolean array: every appended bit that has a place in the
\* buffer is there, with its value, and none before it changes.  One element
\* always has a place, and the memory for it.
THEOREM BooleansExactly ==
    ASSUME NEW a, {"length", "buf1", "capacity", "overrun"} \subseteq DOMAIN a,
           a.length \in Nat, a.capacity \in Nat, a.overrun \in BOOLEAN,
           a.buf1 \in Buffers, Len(a.buf1) = BytesForBits(a.length),
           NEW on \in BOOLEAN, NEW n \in Nat
    PROVE  LET b == AppendBits(a, on, n)
           IN  /\ Len(b.buf1) = BytesForBits(a.length + 1)
               /\ Continues(b.buf1, a.buf1, a.length, n, on)
               /\ a.length < 8 * Len(b.buf1)
               /\ n <= 1 => b.overrun = a.overrun
    <1> DEFINE b    == AppendBits(a, on, n)
               m    == a.length
               bits == a.buf1
               need == BytesForBits(m + 1)
               set  == ArrowBitsSetTo(Resized(bits, need, {}), m, n, on)
               cap  == GrownCapacity(a.capacity, need)
    <1>1. b = [a EXCEPT !.buf1 = set, !.capacity = cap,
                        !.overrun = @ \/ BytesForBits(m + n) > cap]
        BY DEF AppendBits
    <1>2. m \in Nat /\ bits \in Buffers /\ Len(bits) = BytesForBits(m)
        OBVIOUS
    <1> HIDE DEF b, m, bits
    <1>3. m + 1 \in Nat /\ m <= m + 1
        BY <1>2
    <1>4. need \in Nat /\ BytesForBits(m) <= need /\ m + 1 <= 8 * need
        BY <1>2, <1>3, BytesHoldBits, BytesGrow
    <1>5. n <= 1 => BytesForBits(m + n) \in Nat /\ BytesForBits(m + n) <= need
        <2>1. n <= 1 => m + n \in Nat /\ m + n <= m + 1
            BY <1>2
        <2> QED
            BY <1>3, <2>1, BytesHoldBits, BytesGrow
    <1> HIDE DEF need
    <1>6. cap \in Nat /\ need <= cap
        BY <1>4 DEF GrownCapacity
    <1>7. Continues(set, bits, m, n, on) /\ Len(set) = need
        BY <1>2, <1>4, GrownBuffer
    <1> HIDE DEF set, cap
    <1>8. /\ b.buf1 = set
          /\ b.overrun = (a.overrun \/ BytesForBits(m + n) > cap)
        BY <1>1
    <1>9. m < 8 * need
        BY <1>2, <1>4
    <1>10. n <= 1 => ~(BytesForBits(m + n) > cap)
        BY <1>4, <1>5, <1>6
    <1>11. n <= 1 => b.overrun = a.overrun
        BY <1>8, <1>10
    <1> QED
        BY <1>7, <1>8, <1>9, <1>11 DEF b, m, bits, need

-----------------------------------------------------------------------------
(* Sequences that grow at their end.                                       *)

\* m is l with n more elements e behind it.
Extends(m, l, n, e) ==
    /\ Len(m) = Len(l) + n
    /\ \A i \in 1 .. Len(l) : m[i] = l[i]
    /\ \A i \in Len(l) + 1 .. Len(l) + n : m[i] = e

\* m is l with something behind it.
BeginsWith(m, l) ==
    /\ Len(l) <= Len(m)
    /\ \A i \in 1 .. Len(l) : m[i] = l[i]

\* n copies of e behind a sequence.
LEMMA ManyMore ==
    ASSUME NEW S, NEW l \in Seq(S), NEW e \in S, NEW n \in Nat
    PROVE  LET m == l \o [k \in 1..n |-> e]
           IN  m \in Seq(S) /\ Extends(m, l, n, e)
    <1> DEFINE t == [k \in 1..n |-> e]
    <1>1. t \in [1..n -> S] /\ \A k \in 1..n : t[k] = e
        OBVIOUS
    <1> HIDE DEF t
    <1>2. t \in Seq(S) /\ Len(t) = n
        BY <1>1, SeqDef, LenProperties
    <1>3. /\ l \o t \in Seq(S) /\ Len(l \o t) = Len(l) + Len(t) /\ Len(l) \in Nat
          /\ \A i \in 1 .. Len(l) + Len(t) :
                (l \o t)[i] = IF i <= Len(l) THEN l[i] ELSE t[i - Len(l)]
        BY <1>2, ConcatProperties, LenProperties
    <1> DEFINE m == l \o t
    <1> HIDE DEF m
    <1>4. m \in Seq(S) /\ Len(m) = Len(l) + n /\ Len(l) \in Nat
        BY <1>2, <1>3 DEF m
    <1>5. \A i \in 1 .. Len(l) + n :
                m[i] = IF i <= Len(l) THEN l[i] ELSE t[i - Len(l)]
        BY <1>2, <1>3 DEF m
    <1>6. \A i \in 1 .. Len(l) : m[i] = l[i]
        BY <1>4, <1>5
    <1>7. \A i \in Len(l) + 1 .. Len(l) + n : m[i] = e
        <2> TAKE i \in Len(l) + 1 .. Len(l) + n
        <2>1. i \in 1 .. Len(l) + n /\ ~(i <= Len(l)) /\ i - Len(l) \in 1..n
            BY <1>4
        <2> QED
            BY <1>1, <1>5, <2>1
    <1> QED
        BY <1>4, <1>6, <1>7 DEF Extends, m, t

\* One more element.
LEMMA OneMore ==
    ASSUME NEW S, NEW l \in Seq(S), NEW e \in S
    PROVE  /\ Append(l, e) \in Seq(S) /\ Extends(Append(l, e), l, 1, e)
           /\ l \o <<e>> = Append(l, e)
    <1> DEFINE m == Append(l, e)
    <1>1. /\ m \in Seq(S) /\ Len(m) = Len(l) + 1 /\ Len(l) \in Nat
          /\ \A i \in 1 .. Len(l) : m[i] = l[i]
          /\ m[Len(l) + 1] = e
        BY AppendProperties, LenProperties
    <1>2. l \o <<e>> = m
        BY AppendIsConcat
    <1> HIDE DEF m
    <1>3. \A i \in Len(l) + 1 .. Len(l) + 1 : m[i] = e
        BY <1>1
    <1> QED
        BY <1>1, <1>2, <1>3 DEF Extends, m

\* A concatenation begins with its first part.
LEMMA ConcatBegins ==
    ASSUME NEW S, NEW s \in Seq(S), NEW t \in Seq(S)
    PROVE  /\ s \o t \in Seq(S) /\ BeginsWith(s \o t, s)
           /\ Len(s \o t) = Len(s) + Len(t)
           /\ SubSeq(s \o t, Len(s) + 1, Len(s) + Len(t)) = t
    <1> DEFINE m == s \o t
               a == Len(s)
               b == Len(t)
    <1>1. /\ m \in Seq(S) /\ Len(m) = a + b /\ a \in Nat /\ b \in Nat
          /\ \A i \in 1 .. a + b : m[i] = IF i <= a THEN s[i] ELSE t[i - a]
        BY ConcatProperties, LenProperties
    <1> HIDE DEF m, a, b
    <1>2. a <= Len(m) /\ \A i \in 1 .. a : m[i] = s[i]
        BY <1>1
    <1>3. \A i \in a + 1 .. a + b : m[i] \in S
        BY <1>1, ElementOfSeq
    <1> DEFINE u == SubSeq(m, a + 1, a + b)
    <1>4. /\ u \in Seq(S) /\ Len(u) = (IF a + 1 <= a + b THEN a + b - (a + 1) + 1 ELSE 0)
          /\ \A i \in 1 .. a + b - (a + 1) + 1 : u[i] = m[a + 1 + i - 1]
        BY <1>1, <1>3, SubSeqProperties
    <1> HIDE DEF u
    <1>5. Len(u) = b
        BY <1>1, <1>4
    <1>6. ASSUME NEW i \in 1..b
          PROVE  u[i] = t[i]
        <2>1. i \in 1 .. a + b - (a + 1) + 1 /\ a + 1 + i - 1 = a + i
              /\ a + i \in 1 .. a + b /\ ~(a + i <= a) /\ (a + i) - a = i
            BY <1>1
        <2> QED
            BY <1>1, <1>4, <2>1
    <1>7. u = t
        BY <1>4, <1>5, <1>6, SeqEqual DEF b
    <1> QED
        BY <1>1, <1>2, <1>7 DEF BeginsWith, m, a, b, u

\* What was a part of a sequence stays one when the sequence grows.
LEMMA PartStays ==
    ASSUME NEW S, NEW s \in Seq(S), NEW m \in Seq(S), BeginsWith(m, s),
           NEW x \in Nat, NEW y \in Nat, y <= Len(s)
    PROVE  SubSeq(m, x + 1, y) = SubSeq(s, x + 1, y)
    <1> DEFINE p == SubSeq(s, x + 1, y)
               q == SubSeq(m, x + 1, y)
    <1>1. /\ Len(s) \in Nat /\ Len(m) \in Nat /\ Len(s) <= Len(m)
          /\ \A i \in 1 .. Len(s) : m[i] = s[i]
        BY LenProperties DEF BeginsWith
    <1>2. \A i \in x + 1 .. y : s[i] \in S /\ m[i] = s[i]
        <2> TAKE i \in x + 1 .. y
        <2>1. i \in 1 .. Len(s)
            BY <1>1
        <2> QED
            BY <1>1, <2>1, ElementOfSeq
    <1>3. /\ p \in Seq(S) /\ Len(p) = IF x + 1 <= y THEN y - (x + 1) + 1 ELSE 0
          /\ \A i \in 1 .. y - (x + 1) + 1 : p[i] = s[x + 1 + i - 1]
        BY <1>2, SubSeqProperties
    <1>4. /\ q \in Seq(S) /\ Len(q) = IF x + 1 <= y THEN y - (x + 1) + 1 ELSE 0
          /\ \A i \in 1 .. y - (x + 1) + 1 : q[i] = m[x + 1 + i - 1]
        BY <1>2, SubSeqProperties
    <1> HIDE DEF p, q
    <1>5. ASSUME NEW i \in 1 .. Len(p)
          PROVE  q[i] = p[i]
        <2>1. i \in 1 .. y - (x + 1) + 1 /\ x + 1 + i - 1 \in x + 1 .. y
            BY <1>3
        <2> QED
            BY <1>2, <1>3, <1>4, <2>1
    <1>6. q = p
        BY <1>3, <1>4, <1>5, SeqEqual
    <1> QED
        BY <1>6 DEF p, q

-----------------------------------------------------------------------------
(* What the buffers of each kind of leaf hold when the array was told to   *)
(* hold the elements l.                                                    *)

Values == Int \cup Seq(Nat)
Told == Seq(Values)

PlainTypes == IntegerTypes \cup FloatTypes \cup DecimalTypes \cup IntervalTypes

\* Numbers: an entry for each element.
Plain(buf1, l) ==
    /\ buf1 \in Seq(Int) /\ Len(buf1) = Len(l)
    /\ \A i \in 1 .. Len(l) : l[i] # Null => l[i] = <<buf1[i]>>

\* Booleans: a bit for each element; the bits that have no place are false.
Bools(buf1, l) ==
    /\ buf1 \in Buffers /\ Len(buf1) <= BytesForBits(Len(l))
    /\ \A i \in 1 .. Len(l) : l[i] # Null =>
          l[i] = <<IF i - 1 < 8 * Len(buf1) THEN ArrowBitGet(buf1, i - 1) ELSE 0>>

\* Strings and binaries: an offset for each element and one more.
Texts(type, buf1, buf2, l) ==
    /\ buf1 \in Seq(Nat) /\ buf2 \in Seq(Nat)
    /\ Len(buf1) = Len(l) + 1 /\ buf1[Len(l) + 1] = Len(buf2)
    /\ \A i \in 1 .. Len(l) : buf1[i] <= buf1[i + 1]
    /\ \A i \in 1 .. Len(l) + 1 : buf1[i] <= Len(buf2)
    /\ type \in Offsets32 => Len(buf2) <= Int32Max
    /\ \A i \in 1 .. Len(l) : l[i] # Null =>
          l[i] = <<SubSeq(buf2, buf1[i] + 1, buf1[i + 1])>>

\* Binaries of w bytes.
Fixed(w, buf1, l) ==
    /\ w \in Nat \ {0} /\ buf1 \in Seq(Nat) /\ Len(buf1) = w * Len(l)
    /\ \A i \in 1 .. Len(l) : l[i] # Null =>
          l[i] = <<SubSeq(buf1, (i - 1) * w + 1, i * w)>>

\* Views: the bytes are in the entry, or in the variadic buffer it names.
Entries == [size : Nat, data : Seq(Nat), index : Nat, offset : Nat]
Views(buf1, variadic, l) ==
    /\ buf1 \in Seq(Entries) /\ Len(buf1) = Len(l) /\ variadic \in Seq(Seq(Nat))
    /\ \A i \in 1 .. Len(l) : buf1[i].size > InlineSize =>
          /\ buf1[i].index \in 1 .. Len(variadic)
          /\ buf1[i].offset + buf1[i].size <= Len(variadic[buf1[i].index])
    /\ \A i \in 1 .. Len(l) : l[i] # Null =>
          l[i] = <<IF buf1[i].size <= InlineSize THEN buf1[i].data
                   ELSE SubSeq(variadic[buf1[i].index], buf1[i].offset + 1,
                               buf1[i].offset + buf1[i].size)>>

\* Numbers go on.
LEMMA PlainGoesOn ==
    ASSUME NEW buf1, NEW l \in Seq(Told), Plain(buf1, l), NEW n \in Nat,
           NEW b1 \in Seq(Int), NEW z, Extends(b1, buf1, n, z),
           NEW m \in Seq(Told), NEW e, Extends(m, l, n, e), e = Null \/ e = <<z>>
    PROVE  Plain(b1, m)
    <1>1. Len(l) \in Nat /\ Len(buf1) = Len(l) /\ Len(b1) = Len(l) + n
          /\ Len(m) = Len(l) + n
        BY LenProperties DEF Plain, Extends
    <1>2. ASSUME NEW i \in 1 .. Len(m), m[i] # Null
          PROVE  m[i] = <<b1[i]>>
        <2>1. CASE i <= Len(l)
            <3>1. i \in 1 .. Len(l) /\ i \in 1 .. Len(buf1)
                BY <1>1, <2>1
            <3>2. m[i] = l[i] /\ b1[i] = buf1[i]
                BY <3>1 DEF Extends
            <3> QED
                BY <1>2, <3>1, <3>2 DEF Plain
        <2>2. CASE ~(i <= Len(l))
            <3>1. i \in Len(l) + 1 .. Len(l) + n /\ i \in Len(buf1) + 1 .. Len(buf1) + n
                BY <1>1, <2>2
            <3>2. m[i] = e /\ b1[i] = z
                BY <3>1 DEF Extends
            <3> QED
                BY <1>2, <3>2
        <2> QED
            BY <2>1, <2>2
    <1> QED
        BY <1>1, <1>2 DEF Plain

\* Empty strings go on: their offsets are all the last one.
LEMMA TextsGoOnEmpty ==
    ASSUME NEW type, NEW buf1, NEW buf2, NEW l \in Seq(Told),
           Texts(type, buf1, buf2, l), NEW n \in Nat,
           NEW b1 \in Seq(Nat), Extends(b1, buf1, n, buf1[Len(l) + 1]),
           NEW m \in Seq(Told), NEW e, Extends(m, l, n, e), e = Null \/ e = <<<<>>>>
    PROVE  Texts(type, b1, buf2, m)
    <1> DEFINE k == Len(l)
               last == Len(buf2)
    <1>1. /\ k \in Nat /\ last \in Nat /\ Len(buf1) = k + 1 /\ buf1[k + 1] = last
          /\ Len(m) = k + n /\ Len(b1) = k + 1 + n
        BY LenProperties DEF Texts, Extends
    <1>2. \A i \in 1 .. k + 1 : b1[i] = buf1[i]
        BY <1>1 DEF Extends
    <1>3. \A i \in k + 1 .. k + 1 + n : b1[i] = last
        <2> TAKE i \in k + 1 .. k + 1 + n
        <2>1. CASE i = k + 1
            <3>1. k + 1 \in 1 .. k + 1
                BY <1>1
            <3>2. b1[k + 1] = buf1[k + 1]
                BY <1>2, <3>1, Zenon
            <3> QED
                BY <1>1, <2>1, <3>2, Zenon
        <2>2. CASE i # k + 1
            <3>1. i \in Len(buf1) + 1 .. Len(buf1) + n
                BY <1>1, <2>2
            <3> QED
                BY <1>1, <3>1 DEF Extends
        <2> QED
            BY <2>1, <2>2
    <1>4. /\ \A i \in 1 .. k : m[i] = l[i]
          /\ \A i \in k + 1 .. k + n : m[i] = e
        BY DEF Extends
    <1>5. /\ \A i \in 1 .. k : buf1[i] <= buf1[i + 1]
          /\ \A i \in 1 .. k + 1 : buf1[i] <= last
          /\ \A i \in 1 .. k : l[i] # Null =>
                l[i] = <<SubSeq(buf2, buf1[i] + 1, buf1[i + 1])>>
          /\ buf1 \in Seq(Nat) /\ buf2 \in Seq(Nat)
          /\ type \in Offsets32 => last <= Int32Max
        BY DEF Texts
    <1> HIDE DEF k, last
    <1>6. SubSeq(buf2, last + 1, last) = <<>>
        BY <1>1, SubSeqEmpty
    <1>7. ASSUME NEW i \in 1 .. k + n
          PROVE  /\ b1[i] <= b1[i + 1]
                 /\ m[i] # Null => m[i] = <<SubSeq(buf2, b1[i] + 1, b1[i + 1])>>
        <2>1. CASE i <= k
            <3>1. i \in 1..k /\ i \in 1 .. k + 1 /\ i + 1 \in 1 .. k + 1
                BY <1>1, <2>1
            <3> QED
                BY <1>2, <1>4, <1>5, <3>1
        <2>2. CASE ~(i <= k)
            <3>1. /\ i \in k + 1 .. k + n /\ i \in k + 1 .. k + 1 + n
                  /\ i + 1 \in k + 1 .. k + 1 + n
                BY <1>1, <2>2
            <3>2. b1[i] = last /\ b1[i + 1] = last /\ m[i] = e
                BY <1>3, <1>4, <3>1
            <3>3. b1[i] <= b1[i + 1]
                BY <1>1, <3>2
            <3>4. m[i] # Null => m[i] = <<SubSeq(buf2, b1[i] + 1, b1[i + 1])>>
                BY <1>6, <3>2, Zenon
            <3> QED
                BY <3>3, <3>4
        <2> QED
            BY <2>1, <2>2
    <1>8. ASSUME NEW i \in 1 .. k + n + 1
          PROVE  b1[i] <= last
        <2>1. CASE i <= k + 1
            BY <1>1, <1>2, <1>5, <2>1
        <2>2. CASE ~(i <= k + 1)
            <3>1. i \in k + 1 .. k + 1 + n
                BY <1>1, <2>2
            <3>2. b1[i] = last
                BY <1>3, <3>1, Zenon
            <3> QED
                BY <1>1, <3>2
        <2> QED
            BY <2>1, <2>2
    <1>9. b1[k + n + 1] = last /\ Len(b1) = k + n + 1
        BY <1>1, <1>3
    <1> QED
        BY <1>1, <1>5, <1>7, <1>8, <1>9 DEF Texts, last

\* A string is appended: its bytes behind the others, its end as an offset.
LEMMA TextsGoOn ==
    ASSUME NEW type, NEW buf1, NEW buf2, NEW l \in Seq(Told),
           Texts(type, buf1, buf2, l), NEW s \in Seq(Nat),
           NEW b1 \in Seq(Nat), Extends(b1, buf1, 1, buf1[Len(l) + 1] + Len(s)),
           type \in Offsets32 => buf1[Len(l) + 1] + Len(s) <= Int32Max,
           NEW m \in Seq(Told), Extends(m, l, 1, <<s>>)
    PROVE  Texts(type, b1, buf2 \o s, m)
    <1> DEFINE k == Len(l)
               last == Len(buf2)
               size == Len(s)
               b2 == buf2 \o s
    <1>1. /\ k \in Nat /\ last \in Nat /\ Len(buf1) = k + 1 /\ buf1[k + 1] = last
          /\ Len(m) = k + 1 /\ Len(b1) = k + 2 /\ size \in Nat
        BY LenProperties DEF Texts, Extends
    <1>2. \A i \in 1 .. k + 1 : b1[i] = buf1[i]
        BY <1>1 DEF Extends
    <1>3. b1[k + 2] = last + size
        <2>1. k + 2 \in Len(buf1) + 1 .. Len(buf1) + 1
            BY <1>1
        <2> QED
            BY <1>1, <2>1 DEF Extends
    <1>4. /\ \A i \in 1 .. k : m[i] = l[i]
          /\ m[k + 1] = <<s>>
        BY <1>1 DEF Extends
    <1>5. /\ \A i \in 1 .. k : buf1[i] <= buf1[i + 1]
          /\ \A i \in 1 .. k + 1 : buf1[i] <= last
          /\ \A i \in 1 .. k : l[i] # Null =>
                l[i] = <<SubSeq(buf2, buf1[i] + 1, buf1[i + 1])>>
          /\ buf1 \in Seq(Nat) /\ buf2 \in Seq(Nat)
        BY DEF Texts
    <1>6. /\ b2 \in Seq(Nat) /\ BeginsWith(b2, buf2) /\ Len(b2) = last + size
          /\ SubSeq(b2, last + 1, last + size) = s
        BY <1>5, ConcatBegins
    <1>7. type \in Offsets32 => last + size <= Int32Max
        BY <1>1
    <1> HIDE DEF k, last, size, b2
    <1>8. ASSUME NEW i \in 1 .. k
          PROVE  SubSeq(b2, buf1[i] + 1, buf1[i + 1]) = SubSeq(buf2, buf1[i] + 1, buf1[i + 1])
        <2>1. i \in 1 .. Len(buf1) /\ i + 1 \in 1 .. Len(buf1) /\ i + 1 \in 1 .. k + 1
            BY <1>1
        <2>2. buf1[i] \in Nat /\ buf1[i + 1] \in Nat /\ buf1[i + 1] <= Len(buf2)
            BY <1>5, <2>1, ElementOfSeq DEF last
        <2> DEFINE x == buf1[i]
                   y == buf1[i + 1]
        <2> HIDE DEF x, y
        <2>3. x \in Nat /\ y \in Nat /\ y <= Len(buf2)
            BY <2>2 DEF x, y
        <2>4. b2 \in Seq(Nat) /\ buf2 \in Seq(Nat) /\ BeginsWith(b2, buf2)
            BY <1>5, <1>6
        <2>5. SubSeq(b2, x + 1, y) = SubSeq(buf2, x + 1, y)
            BY <2>3, <2>4, PartStays, Zenon
        <2> QED
            BY <2>5 DEF x, y
    <1>9. ASSUME NEW i \in 1 .. k + 1
          PROVE  /\ b1[i] <= b1[i + 1]
                 /\ m[i] # Null => m[i] = <<SubSeq(b2, b1[i] + 1, b1[i + 1])>>
        <2>1. CASE i <= k
            <3>1. i \in 1..k /\ i \in 1 .. k + 1 /\ i + 1 \in 1 .. k + 1
                BY <1>1, <2>1
            <3> QED
                BY <1>2, <1>4, <1>5, <1>8, <3>1
        <2>2. CASE i = k + 1
            <3>1. i + 1 = k + 2 /\ i \in 1 .. k + 1
                BY <1>1, <2>2
            <3>2. b1[i] = last /\ b1[i + 1] = last + size /\ m[i] = <<s>>
                BY <1>1, <1>2, <1>3, <1>4, <2>2, <3>1
            <3> QED
                BY <1>1, <1>6, <3>2
        <2>3. i <= k \/ i = k + 1
            BY <1>1
        <2> QED
            BY <2>1, <2>2, <2>3
    <1>10. ASSUME NEW i \in 1 .. k + 2
           PROVE  b1[i] <= last + size
        <2>1. CASE i <= k + 1
            <3>1. i \in 1 .. k + 1 /\ i \in 1 .. Len(buf1)
                BY <1>1, <2>1
            <3>2. buf1[i] \in Nat /\ buf1[i] <= last /\ b1[i] = buf1[i]
                BY <1>2, <1>5, <3>1, ElementOfSeq
            <3> DEFINE x == buf1[i]
            <3> HIDE DEF x
            <3>3. x \in Nat /\ x <= last /\ b1[i] = x
                BY <3>2 DEF x
            <3>4. x <= last + size
                BY <1>1, <3>3
            <3> QED
                BY <3>3, <3>4
        <2>2. CASE ~(i <= k + 1)
            BY <1>1, <1>3, <2>2
        <2> QED
            BY <2>1, <2>2
    <1>11. Len(m) + 1 = k + 2 /\ Len(m) = k + 1
        BY <1>1
    <1> QED
        BY <1>1, <1>3, <1>6, <1>7, <1>9, <1>10, <1>11 DEF Texts, b2

\* Slots of w bytes: the i-th ends where the next begins, and the first k fill
\* exactly w * k bytes.
LEMMA Slots ==
    ASSUME NEW w \in Nat, NEW k \in Nat, NEW i \in Nat \ {0}
    PROVE  /\ (i - 1) * w \in Nat /\ i * w \in Nat /\ w * k \in Nat
           /\ i * w = (i - 1) * w + w
           /\ i <= k => i * w <= w * k
           /\ i > k => w * k <= (i - 1) * w
           /\ i = k + 1 => (i - 1) * w = w * k
    <1>1. /\ (i - 1) * w \in Nat /\ i * w \in Nat /\ w * k \in Nat
          /\ i * w = (i - 1) * w + w
        OBVIOUS
    <1>2. ASSUME i <= k
          PROVE  i * w <= w * k
        <2>1. (k - i) * w \in Nat
            BY <1>2
        <2>2. (k - i) * w = w * k - i * w
            OBVIOUS
        <2> QED
            BY <1>1, <2>1, <2>2
    <1>3. ASSUME i > k
          PROVE  w * k <= (i - 1) * w
        <2>1. (i - 1 - k) * w \in Nat
            BY <1>3
        <2>2. (i - 1 - k) * w = (i - 1) * w - w * k
            OBVIOUS
        <2> QED
            BY <1>1, <2>1, <2>2
    <1>4. i = k + 1 => (i - 1) * w = w * k
        OBVIOUS
    <1> QED
        BY <1>1, <1>2, <1>3, <1>4

\* Binaries of a fixed size go on.
LEMMA FixedGoesOn ==
    ASSUME NEW w, NEW buf1, NEW l \in Seq(Told), Fixed(w, buf1, l), NEW n \in Nat,
           NEW b1 \in Seq(Nat), BeginsWith(b1, buf1), Len(b1) = w * (Len(l) + n),
           NEW m \in Seq(Told), NEW e, Extends(m, l, n, e),
           \/ e = Null
           \/ \A i \in Len(l) + 1 .. Len(l) + n :
                e = <<SubSeq(b1, (i - 1) * w + 1, i * w)>>
    PROVE  Fixed(w, b1, m)
    <1> DEFINE k == Len(l)
    <1>1. /\ k \in Nat /\ w \in Nat /\ w \in Nat \ {0} /\ Len(m) = k + n
          /\ buf1 \in Seq(Nat) /\ Len(buf1) = w * k
        BY LenProperties DEF Fixed, Extends
    <1>2. /\ \A i \in 1 .. k : m[i] = l[i]
          /\ \A i \in k + 1 .. k + n : m[i] = e
          /\ \A i \in 1 .. k : l[i] # Null =>
                l[i] = <<SubSeq(buf1, (i - 1) * w + 1, i * w)>>
        BY DEF Extends, Fixed
    <1>3. \/ e = Null
          \/ \A i \in k + 1 .. k + n : e = <<SubSeq(b1, (i - 1) * w + 1, i * w)>>
        OBVIOUS
    <1>4. Len(b1) = w * (k + n)
        OBVIOUS
    <1> HIDE DEF k
    <1>5. ASSUME NEW i \in 1 .. k + n, m[i] # Null
          PROVE  m[i] = <<SubSeq(b1, (i - 1) * w + 1, i * w)>>
        <2>1. CASE i <= k
            <3> DEFINE x == (i - 1) * w
                       y == i * w
            <3>1. i \in Nat \ {0} /\ i \in 1..k
                BY <1>1, <2>1
            <3>2. x \in Nat /\ y \in Nat /\ y <= Len(buf1)
                BY <1>1, <2>1, <3>1, Slots
            <3>3. m[i] = <<SubSeq(buf1, x + 1, y)>>
                BY <1>2, <1>5, <3>1
            <3> HIDE DEF x, y
            <3>4. b1 \in Seq(Nat) /\ buf1 \in Seq(Nat) /\ BeginsWith(b1, buf1)
                BY <1>1
            <3>5. SubSeq(b1, x + 1, y) = SubSeq(buf1, x + 1, y)
                BY <3>2, <3>4, PartStays, Zenon
            <3> QED
                BY <3>3, <3>5 DEF x, y
        <2>2. CASE ~(i <= k)
            <3>1. i \in k + 1 .. k + n
                BY <1>1, <2>2
            <3> QED
                BY <1>2, <1>3, <1>5, <3>1, Zenon
        <2> QED
            BY <2>1, <2>2
    <1> QED
        BY <1>1, <1>4, <1>5 DEF Fixed

\* n empty elements of w bytes each.
LEMMA FixedGoesOnEmpty ==
    ASSUME NEW w, NEW buf1, NEW l \in Seq(Told), Fixed(w, buf1, l), NEW n \in Nat,
           NEW b1 \in Seq(Nat), Extends(b1, buf1, n * w, 0),
           NEW m \in Seq(Told), NEW e, Extends(m, l, n, e),
           e = Null \/ e = <<[j \in 1..w |-> 0]>>
    PROVE  Fixed(w, b1, m)
    <1> DEFINE k == Len(l)
               zeros == [j \in 1..w |-> 0]
    <1>1. /\ k \in Nat /\ w \in Nat /\ w \in Nat \ {0}
          /\ buf1 \in Seq(Nat) /\ Len(buf1) = w * k /\ Len(b1) = w * k + n * w
        BY LenProperties DEF Fixed, Extends
    <1>2. w * k \in Nat /\ n * w \in Nat /\ w * k + n * w = w * (k + n)
        BY <1>1
    <1>3. BeginsWith(b1, buf1) /\ \A i \in w * k + 1 .. w * k + n * w : b1[i] = 0
        BY <1>1, <1>2 DEF BeginsWith, Extends
    <1>4. zeros \in Seq(Nat) /\ Len(zeros) = w /\ \A j \in 1..w : zeros[j] = 0
        <2>1. zeros \in [1..w -> Nat] /\ \A j \in 1..w : zeros[j] = 0
            OBVIOUS
        <2> HIDE DEF zeros
        <2> QED
            BY <1>1, <2>1, SeqDef, LenProperties
    <1> HIDE DEF k, zeros
    <1>5. ASSUME NEW i \in k + 1 .. k + n
          PROVE  SubSeq(b1, (i - 1) * w + 1, i * w) = zeros
        <2> DEFINE x == (i - 1) * w
                   y == i * w
                   u == SubSeq(b1, x + 1, y)
                   low == w * k
                   high == w * (k + n)
        <2>1. i \in Nat \ {0} /\ i > k /\ i <= k + n /\ k + n \in Nat
            BY <1>1
        <2>2. x \in Nat /\ y = x + w /\ low <= x /\ y <= high /\ low \in Nat /\ high \in Nat
            BY <1>1, <2>1, Slots
        <2>3. \A j \in low + 1 .. high : b1[j] = 0
            BY <1>2, <1>3
        <2> HIDE DEF x, y, low, high
        <2> w \in Nat
            BY <1>1
        <2>4. \A j \in x + 1 .. y : b1[j] = 0
            <3> TAKE j \in x + 1 .. y
            <3>1. j \in low + 1 .. high
                BY <2>2
            <3> QED
                BY <2>3, <3>1
        <2>5. \A j \in x + 1 .. y : b1[j] \in Nat
            BY <2>4, 0 \in Nat, Zenon
        <2>6. /\ u \in Seq(Nat) /\ Len(u) = (IF x + 1 <= y THEN y - (x + 1) + 1 ELSE 0)
              /\ \A j \in 1 .. y - (x + 1) + 1 : u[j] = b1[x + 1 + j - 1]
            BY <1>1, <2>2, <2>5, SubSeqProperties
        <2> HIDE DEF u
        <2>7. Len(u) = w
            <3>1. (IF x + 1 <= y THEN y - (x + 1) + 1 ELSE 0) = w
                BY <2>2
            <3> QED
                BY <2>6, <3>1
        <2>8. \A j \in 1..w : u[j] = 0
            <3> TAKE j \in 1..w
            <3>1. j \in 1 .. y - (x + 1) + 1 /\ x + 1 + j - 1 \in x + 1 .. y
                BY <1>1, <2>2
            <3> QED
                BY <2>4, <2>6, <3>1
        <2>9. u = zeros
            BY <1>4, <2>6, <2>7, <2>8, SeqEqual
        <2> QED
            BY <2>9 DEF u, x, y
    <1>6. Len(b1) = w * (k + n)
        BY <1>1, <1>2
    <1>7. \/ e = Null
          \/ \A i \in k + 1 .. k + n : e = <<SubSeq(b1, (i - 1) * w + 1, i * w)>>
        <2>1. e = Null \/ e = <<zeros>>
            BY DEF zeros
        <2> QED
            BY <1>5, <2>1, Zenon
    <1> QED
        BY <1>3, <1>6, <1>7, FixedGoesOn DEF k

\* A value of w bytes.
LEMMA FixedGoesOnValue ==
    ASSUME NEW w, NEW buf1, NEW l \in Seq(Told), Fixed(w, buf1, l),
           NEW s \in Seq(Nat), Len(s) = w,
           NEW m \in Seq(Told), Extends(m, l, 1, <<s>>)
    PROVE  Fixed(w, buf1 \o s, m)
    <1> DEFINE k == Len(l)
               b1 == buf1 \o s
    <1>1. /\ k \in Nat /\ w \in Nat /\ buf1 \in Seq(Nat) /\ Len(buf1) = w * k
        BY LenProperties DEF Fixed
    <1>2. /\ b1 \in Seq(Nat) /\ BeginsWith(b1, buf1) /\ Len(b1) = w * k + w
          /\ SubSeq(b1, w * k + 1, w * k + w) = s
        <2>1. /\ b1 \in Seq(Nat) /\ BeginsWith(b1, buf1)
              /\ Len(b1) = Len(buf1) + Len(s)
              /\ SubSeq(b1, Len(buf1) + 1, Len(buf1) + Len(s)) = s
            BY <1>1, ConcatBegins, Zenon
        <2> QED
            BY <1>1, <2>1, Zenon
    <1>3. w * k \in Nat /\ w * (k + 1) = w * k + w
        BY <1>1
    <1> HIDE DEF b1
    <1>4. \A i \in k + 1 .. k + 1 : <<s>> = <<SubSeq(b1, (i - 1) * w + 1, i * w)>>
        <2> TAKE i \in k + 1 .. k + 1
        <2>1. i = k + 1
            BY <1>1
        <2>2. (i - 1) * w = w * k /\ i * w = w * k + w
            BY <1>1, <2>1
        <2> QED
            BY <1>2, <2>2
    <1>5. b1 \in Seq(Nat) /\ BeginsWith(b1, buf1) /\ Len(b1) = w * (Len(l) + 1)
        BY <1>2, <1>3
    <1>6. \A i \in Len(l) + 1 .. Len(l) + 1 :
                <<s>> = <<SubSeq(b1, (i - 1) * w + 1, i * w)>>
        BY <1>4
    <1> HIDE DEF k
    <1>7. Fixed(w, b1, m)
        BY <1>5, <1>6, FixedGoesOn
    <1> QED
        BY <1>7 DEF b1

\* Every variadic buffer there was is still there, with more behind it perhaps.
MoreBytes(new, old) ==
    Len(old) <= Len(new) /\ \A j \in 1 .. Len(old) : BeginsWith(new[j], old[j])

\* The bytes an entry stands for.
BytesOf(v, variadic) ==
    IF v.size <= InlineSize THEN v.data
    ELSE SubSeq(variadic[v.index], v.offset + 1, v.offset + v.size)

\* The bytes of an entry are in the buffer it names.
InPlace(v, variadic) ==
    v.size > InlineSize => /\ v.index \in 1 .. Len(variadic)
                           /\ v.offset + v.size <= Len(variadic[v.index])

\* An entry keeps its bytes when the variadic buffers grow.
LEMMA EntryStays ==
    ASSUME NEW v \in Entries, NEW old \in Seq(Seq(Nat)), NEW new \in Seq(Seq(Nat)),
           MoreBytes(new, old), InPlace(v, old)
    PROVE  InPlace(v, new) /\ BytesOf(v, new) = BytesOf(v, old)
    <1>1. InlineSize \in Nat
        BY ArrowLimitsAssumption
    <1>2. v.size \in Nat /\ v.offset \in Nat
        BY DEF Entries
    <1>3. CASE v.size <= InlineSize
        <2>1. ~(v.size > InlineSize)
            BY <1>1, <1>2, <1>3
        <2> QED
            BY <1>3, <2>1 DEF InPlace, BytesOf
    <1>4. CASE ~(v.size <= InlineSize)
        <2> DEFINE j == v.index
                   x == v.offset
                   y == v.offset + v.size
        <2>1. v.size > InlineSize
            BY <1>1, <1>2, <1>4
        <2>2. j \in 1 .. Len(old) /\ y <= Len(old[j]) /\ x \in Nat /\ y \in Nat
            <3>1. j \in 1 .. Len(old) /\ y <= Len(old[j])
                BY <2>1, Zenon DEF InPlace
            <3>2. x \in Nat /\ y \in Nat
                BY <1>2
            <3> QED
                BY <3>1, <3>2
        <2>3. Len(old) \in Nat /\ Len(new) \in Nat /\ Len(old) <= Len(new)
            BY LenProperties DEF MoreBytes
        <2>4. j \in 1 .. Len(new)
            <3> HIDE DEF j
            <3> QED
                BY <2>2, <2>3
        <2>5. old[j] \in Seq(Nat) /\ new[j] \in Seq(Nat) /\ BeginsWith(new[j], old[j])
            BY <2>2, <2>4, ElementOfSeq DEF MoreBytes
        <2>6. InPlace(v, new) <=> j \in 1 .. Len(new) /\ y <= Len(new[j])
            BY <2>1 DEF InPlace
        <2>7. /\ BytesOf(v, new) = SubSeq(new[j], x + 1, y)
              /\ BytesOf(v, old) = SubSeq(old[j], x + 1, y)
            BY <1>4 DEF BytesOf
        <2> DEFINE s == old[j]
                   t == new[j]
        <2> HIDE DEF j, x, y
        <2>8. /\ s \in Seq(Nat) /\ t \in Seq(Nat) /\ BeginsWith(t, s) /\ y <= Len(s)
              /\ x \in Nat /\ y \in Nat
            BY <2>2, <2>5
        <2> HIDE DEF s, t
        <2>9. SubSeq(t, x + 1, y) = SubSeq(s, x + 1, y)
            BY <2>8, PartStays, Zenon
        <2>10. y <= Len(t)
            <3>1. Len(s) \in Nat /\ Len(t) \in Nat /\ Len(s) <= Len(t)
                BY <2>8, LenProperties DEF BeginsWith
            <3> QED
                BY <2>8, <3>1
        <2> QED
            BY <2>4, <2>6, <2>7, <2>9, <2>10 DEF s, t
    <1> QED
        BY <1>3, <1>4

\* Views, said with the bytes of their entries.
LEMMA ViewsByEntry ==
    ASSUME NEW buf1, NEW variadic, NEW l
    PROVE  Views(buf1, variadic, l) <=>
              /\ buf1 \in Seq(Entries) /\ Len(buf1) = Len(l)
              /\ variadic \in Seq(Seq(Nat))
              /\ \A i \in 1 .. Len(l) : InPlace(buf1[i], variadic)
              /\ \A i \in 1 .. Len(l) : l[i] # Null => l[i] = <<BytesOf(buf1[i], variadic)>>
    BY Zenon DEF Views, InPlace, BytesOf

\* Views go on, n of them with the same entry v.
LEMMA ViewsGoOn ==
    ASSUME NEW buf1, NEW old, NEW l \in Seq(Told), Views(buf1, old, l), NEW n \in Nat,
           NEW new \in Seq(Seq(Nat)), MoreBytes(new, old),
           NEW b1 \in Seq(Entries), NEW v \in Entries, Extends(b1, buf1, n, v),
           InPlace(v, new),
           NEW m \in Seq(Told), NEW e, Extends(m, l, n, e),
           e = Null \/ e = <<BytesOf(v, new)>>
    PROVE  Views(b1, new, m)
    <1> DEFINE k == Len(l)
    <1>1. /\ buf1 \in Seq(Entries) /\ Len(buf1) = k /\ old \in Seq(Seq(Nat))
          /\ \A i \in 1 .. k : InPlace(buf1[i], old)
          /\ \A i \in 1 .. k : l[i] # Null => l[i] = <<BytesOf(buf1[i], old)>>
        BY ViewsByEntry, Zenon
    <1>2. k \in Nat /\ Len(b1) = k + n /\ Len(m) = k + n
        BY <1>1, LenProperties DEF Extends
    <1>3. /\ \A i \in 1 .. k : m[i] = l[i] /\ b1[i] = buf1[i]
          /\ \A i \in k + 1 .. k + n : m[i] = e /\ b1[i] = v
        BY <1>1 DEF Extends
    <1> HIDE DEF k
    <1>4. ASSUME NEW i \in 1 .. k + n
          PROVE  /\ InPlace(b1[i], new)
                 /\ m[i] # Null => m[i] = <<BytesOf(b1[i], new)>>
        <2>1. CASE i <= k
            <3>1. i \in 1..k
                BY <1>2, <2>1
            <3>2. buf1[i] \in Entries
                BY <1>1, <3>1, ElementOfSeq
            <3> DEFINE w == buf1[i]
            <3>3. InPlace(w, old) /\ w \in Entries /\ b1[i] = w /\ m[i] = l[i]
                  /\ (l[i] # Null => l[i] = <<BytesOf(w, old)>>)
                BY <1>1, <1>3, <3>1, <3>2, Zenon
            <3> HIDE DEF w
            <3>4. InPlace(w, new) /\ BytesOf(w, new) = BytesOf(w, old)
                BY <1>1, <3>3, EntryStays, Zenon
            <3> QED
                BY <3>3, <3>4, Zenon
        <2>2. CASE ~(i <= k)
            <3>1. i \in k + 1 .. k + n
                BY <1>2, <2>2
            <3> QED
                BY <1>3, <3>1, Zenon
        <2> QED
            BY <2>1, <2>2
    <1>5. Len(b1) = Len(m)
        BY <1>2
    <1>6. Len(m) = k + n
        BY <1>2
    <1> QED
        BY <1>4, <1>5, <1>6, ViewsByEntry, Zenon

\* The bits of fresh bytes that are empty are all 0.
LEMMA FreshBitsAreZero ==
    ASSUME NEW bits \in Buffers, NEW need \in Nat, Len(bits) <= need,
           NEW i \in Nat, 8 * Len(bits) <= i, i < 8 * need
    PROVE  ArrowBitGet(Resized(bits, need, {}), i) = 0
    <1> DEFINE n     == need - Len(bits)
               fresh == [k \in 1..n |-> {}]
               more  == bits \o fresh
               p     == i \div 8 + 1
    <1>1. Len(bits) \in Nat
        BY LenProperties DEF Buffers
    <1>2. n \in Nat
        BY <1>1
    <1>3. fresh \in [1..n -> SUBSET Byte] /\ \A k \in 1..n : fresh[k] = {}
        OBVIOUS
    <1>4. p \in Nat /\ Len(bits) < p /\ p <= need
        BY <1>1, ByteAndBit
    <1> HIDE DEF n, fresh, p
    <1>5. fresh \in Buffers /\ Len(fresh) = n
        BY <1>2, <1>3, SeqDef, LenProperties DEF Buffers
    <1>6. \A k \in 1 .. Len(bits) + n :
                more[k] = IF k <= Len(bits) THEN bits[k] ELSE fresh[k - Len(bits)]
        BY <1>5, ConcatProperties DEF Buffers
    <1> HIDE DEF more
    <1>7. p \in 1 .. Len(bits) + n /\ ~(p <= Len(bits)) /\ p - Len(bits) \in 1..n
        BY <1>1, <1>4 DEF n
    <1>8. more[p] = {}
        BY <1>3, <1>6, <1>7
    <1>9. ArrowBitGet(more, i) = 0
        BY <1>8 DEF ArrowBitGet, p
    <1> QED
        BY <1>9 DEF more, fresh, n, Resized

\* Booleans go on: n elements, of which only a single one may be true.
LEMMA BoolsGoOn ==
    ASSUME NEW buf1, NEW l \in Seq(Told), Bools(buf1, l), NEW n \in Nat \ {0},
           NEW on \in BOOLEAN, on => n = 1,
           NEW m \in Seq(Told), NEW e, Extends(m, l, n, e),
           e = Null \/ e = <<IF on THEN 1 ELSE 0>>
    PROVE  Bools(ArrowBitsSetTo(Resized(buf1, BytesForBits(Len(l) + 1), {}),
                                Len(l), n, on), m)
    <1> DEFINE k == Len(l)
               need == BytesForBits(k + 1)
               more == Resized(buf1, need, {})
               set  == ArrowBitsSetTo(more, k, n, on)
               bytes == Len(buf1)
    <1>1. /\ k \in Nat /\ buf1 \in Buffers /\ bytes \in Nat
          /\ bytes <= BytesForBits(k) /\ Len(m) = k + n /\ n \in Nat /\ n > 0
        BY LenProperties DEF Bools, Extends, Buffers
    <1>2. /\ \A i \in 1 .. k : m[i] = l[i]
          /\ \A i \in k + 1 .. k + n : m[i] = e
          /\ \A i \in 1 .. k : l[i] # Null =>
                l[i] = <<IF i - 1 < 8 * bytes THEN ArrowBitGet(buf1, i - 1) ELSE 0>>
        BY DEF Extends, Bools
    <1> HIDE DEF k, bytes
    <1>3. /\ need \in Nat /\ BytesForBits(k) <= need /\ k + 1 <= 8 * need
          /\ BytesForBits(k) \in Nat /\ need <= BytesForBits(k + n)
          /\ BytesForBits(k + n) \in Nat
        <2>1. k + 1 \in Nat /\ k + n \in Nat /\ k <= k + 1 /\ k + 1 <= k + n
            BY <1>1
        <2> QED
            BY <1>1, <2>1, BytesHoldBits, BytesGrow
    <1> HIDE DEF need
    <1>4. bytes <= need
        BY <1>1, <1>3
    <1>5. /\ more \in Buffers /\ Len(more) = need
          /\ \A i \in 0 .. 8 * bytes - 1 : ArrowBitGet(more, i) = ArrowBitGet(buf1, i)
        BY <1>1, <1>3, <1>4, FreshBytes DEF bytes
    <1>6. \A i \in Nat : 8 * bytes <= i /\ i < 8 * need => ArrowBitGet(more, i) = 0
        BY <1>1, <1>3, <1>4, FreshBitsAreZero DEF bytes
    <1> HIDE DEF more
    <1>7. /\ set \in Buffers /\ Len(set) = need
          /\ \A i \in 0 .. 8 * need - 1 :
                ArrowBitGet(set, i) = IF i \in k .. k + n - 1
                                      THEN IF on THEN 1 ELSE 0
                                      ELSE ArrowBitGet(more, i)
        <2>1. IsSetTo(set, more, k, n, on)
            BY <1>1, <1>5, BitsSetInside
        <2> QED
            BY <1>5, <2>1 DEF IsSetTo
    <1> HIDE DEF set
    <1>8. ASSUME NEW i \in 1 .. k + n, m[i] # Null
          PROVE  m[i] = <<IF i - 1 < 8 * need THEN ArrowBitGet(set, i - 1) ELSE 0>>
        <2>1. CASE i <= k
            <3>1. /\ i \in 1..k /\ i - 1 < 8 * need /\ i - 1 \in 0 .. 8 * need - 1
                  /\ i - 1 \notin k .. k + n - 1 /\ i - 1 \in Nat
                BY <1>1, <1>3, <2>1
            <3>2. ArrowBitGet(set, i - 1) = ArrowBitGet(more, i - 1)
                BY <1>7, <3>1
            <3>3. m[i] = <<IF i - 1 < 8 * bytes THEN ArrowBitGet(buf1, i - 1) ELSE 0>>
                BY <1>2, <1>8, <3>1
            <3>4. CASE i - 1 < 8 * bytes
                <4>1. i - 1 \in 0 .. 8 * bytes - 1
                    BY <1>1, <3>1, <3>4
                <4> QED
                    BY <1>5, <3>1, <3>2, <3>3, <3>4, <4>1
            <3>5. CASE ~(i - 1 < 8 * bytes)
                <4>1. 8 * bytes <= i - 1
                    BY <1>1, <3>1, <3>5
                <4> QED
                    BY <1>6, <3>1, <3>2, <3>3, <3>5, <4>1
            <3> QED
                BY <3>4, <3>5
        <2>2. CASE ~(i <= k)
            <3>1. i \in k + 1 .. k + n /\ i - 1 \in k .. k + n - 1 /\ i - 1 \in Nat
                BY <1>1, <2>2
            <3>2. m[i] = <<IF on THEN 1 ELSE 0>>
                BY <1>2, <1>8, <3>1
            <3>3. CASE i - 1 < 8 * need
                <4>1. i - 1 \in 0 .. 8 * need - 1
                    BY <1>3, <3>1, <3>3
                <4>2. ArrowBitGet(set, i - 1) = IF on THEN 1 ELSE 0
                    BY <1>7, <3>1, <4>1
                <4> QED
                    BY <3>2, <3>3, <4>2
            <3>4. CASE ~(i - 1 < 8 * need)
                <4>1. n # 1
                    BY <1>1, <1>3, <3>1, <3>4
                <4> QED
                    BY <3>2, <3>4, <4>1
            <3> QED
                BY <3>3, <3>4
        <2> QED
            BY <2>1, <2>2
    <1> QED
        BY <1>1, <1>3, <1>7, <1>8 DEF Bools, set, more, need, k

-----------------------------------------------------------------------------
(* The inductive invariant of ArrowLeafBuilder.                            *)

Fields == {"type", "layout", "length", "null_count", "offset", "buf0", "size_bits",
           "buf1", "buf2", "variadic", "junk"}

\* What the layout of a leaf tells its readers.
LayoutOK(type, layout) ==
    /\ type = "na" => /\ layout.buffer[1] = "none" /\ layout.bits[1] = 0
                      /\ layout.buffer[2] = "none" /\ layout.bits[2] = 0
    /\ type # "na" => /\ layout.buffer[1] = "validity" /\ layout.bits[1] = 1
                      /\ layout.buffer[2] = IF type \in StringTypes THEN "offset"
                                                                    ELSE "data"
    /\ type \in PlainTypes => layout.bits[2] \in {8, 16, 32, 64, 128, 256}
    /\ type = "bool" => layout.bits[2] = 1
    /\ type \in ViewTypes => layout.bits[2] = 128
    /\ type \in StringTypes => layout.bits[2] \in {32, 64}
    /\ type = "fixed_size_binary" => /\ layout.bits[2] \div 8 \in Nat \ {0}
                                     /\ layout.bits[2] = 8 * (layout.bits[2] \div 8)
    /\ layout.bits[3] = 0

DataOK(a, l) ==
    /\ a.type \in PlainTypes => Plain(a.buf1, l)
    /\ a.type = "bool" => Bools(a.buf1, l)
    /\ a.type = "fixed_size_binary" => Fixed(a.layout.bits[2] \div 8, a.buf1, l)
    /\ a.type \in StringTypes => Texts(a.type, a.buf1, a.buf2, l)
    /\ a.type \in ViewTypes => Views(a.buf1, a.variadic, l)

NullsOf(l) == {i \in 1 .. Len(l) : l[i] = Null}

NullsAgree(a, l) ==
    \A i \in 1 .. Len(l) : l[i] = Null <=> a.type = "na" \/ IsNull(a, i - 1)

\* The array a holds the elements l.
Holds(a, l) ==
    /\ Fields \subseteq DOMAIN a
    /\ a.type \in LeafTypes /\ a.offset = 0 /\ LayoutOK(a.type, a.layout)
    /\ InStep(a) /\ (a.type = "na" => a.buf0 = <<>> /\ a.buf1 = <<>>)
    /\ l \in Seq(Told) /\ a.length = Len(l)
    /\ NullsAgree(a, l)
    /\ a.null_count = Cardinality(NullsOf(l))
    /\ DataOK(a, l)

LeafInv == Holds(array, log)

\* The kinds of leaves exclude each other.
LEMMA Kinds ==
    ASSUME NEW type \in LeafTypes
    PROVE  /\ \/ type \in {"na", "bool", "fixed_size_binary"}
              \/ type \in PlainTypes \/ type \in StringTypes \/ type \in ViewTypes
           /\ type \in PlainTypes =>
                type \notin {"na", "bool", "fixed_size_binary"} \cup StringTypes \cup ViewTypes
           /\ type \in StringTypes =>
                type \notin {"na", "bool", "fixed_size_binary"} \cup ViewTypes
           /\ type \in ViewTypes => type \notin {"na", "bool", "fixed_size_binary"}
           /\ type \notin UnionTypes
    <1>1. \/ type \in {"na", "bool", "fixed_size_binary"}
          \/ type \in PlainTypes \/ type \in StringTypes \/ type \in ViewTypes
        BY DEF LeafTypes, PlainTypes
    <1>2. type \in StringTypes =>
                type \notin {"na", "bool", "fixed_size_binary"} \cup ViewTypes \cup UnionTypes
        BY DEF StringTypes, ViewTypes, UnionTypes
    <1>3. type \in ViewTypes => type \notin {"na", "bool", "fixed_size_binary"} \cup UnionTypes
        BY DEF ViewTypes, UnionTypes
    <1>4. type \in {"na", "bool", "fixed_size_binary"} => type \notin UnionTypes
        BY DEF UnionTypes
    <1>5. type \in PlainTypes => type \notin {"na", "bool", "fixed_size_binary"}
        BY DEF PlainTypes, IntegerTypes, FloatTypes, DecimalTypes, IntervalTypes
    <1>6. type \in PlainTypes => type \notin StringTypes \cup ViewTypes \cup UnionTypes
        BY DEF PlainTypes, IntegerTypes, FloatTypes, DecimalTypes, IntervalTypes,
               StringTypes, ViewTypes, UnionTypes
    <1> QED
        BY <1>1, <1>2, <1>3, <1>4, <1>5, <1>6

\* The data of a leaf is that of its kind.
LEMMA DataOfKind ==
    ASSUME NEW a, NEW l, a.type \in LeafTypes
    PROVE  /\ a.type = "na" => DataOK(a, l)
           /\ a.type \in PlainTypes => (DataOK(a, l) <=> Plain(a.buf1, l))
           /\ a.type = "bool" => (DataOK(a, l) <=> Bools(a.buf1, l))
           /\ a.type = "fixed_size_binary" =>
                (DataOK(a, l) <=> Fixed(a.layout.bits[2] \div 8, a.buf1, l))
           /\ a.type \in StringTypes => (DataOK(a, l) <=> Texts(a.type, a.buf1, a.buf2, l))
           /\ a.type \in ViewTypes => (DataOK(a, l) <=> Views(a.buf1, a.variadic, l))
    <1> DEFINE type == a.type
    <1>1. /\ type \in PlainTypes =>
                type \notin {"na", "bool", "fixed_size_binary"} \cup StringTypes \cup ViewTypes
          /\ type \in StringTypes =>
                type \notin {"na", "bool", "fixed_size_binary"} \cup ViewTypes
          /\ type \in ViewTypes => type \notin {"na", "bool", "fixed_size_binary"}
        BY Kinds, Zenon
    <1>2. /\ type = "na" => type # "bool" /\ type # "fixed_size_binary"
          /\ type = "bool" => type # "fixed_size_binary"
        OBVIOUS
    <1>3. DataOK(a, l) <=>
            /\ type \in PlainTypes => Plain(a.buf1, l)
            /\ type = "bool" => Bools(a.buf1, l)
            /\ type = "fixed_size_binary" => Fixed(a.layout.bits[2] \div 8, a.buf1, l)
            /\ type \in StringTypes => Texts(type, a.buf1, a.buf2, l)
            /\ type \in ViewTypes => Views(a.buf1, a.variadic, l)
        BY Zenon DEF DataOK
    <1> HIDE DEF type
    <1>4. /\ type = "na" => DataOK(a, l)
          /\ type \in PlainTypes => (DataOK(a, l) <=> Plain(a.buf1, l))
          /\ type = "bool" => (DataOK(a, l) <=> Bools(a.buf1, l))
          /\ type = "fixed_size_binary" =>
                (DataOK(a, l) <=> Fixed(a.layout.bits[2] \div 8, a.buf1, l))
          /\ type \in StringTypes => (DataOK(a, l) <=> Texts(type, a.buf1, a.buf2, l))
          /\ type \in ViewTypes => (DataOK(a, l) <=> Views(a.buf1, a.variadic, l))
        BY <1>1, <1>2, <1>3
    <1> QED
        BY <1>4 DEF type

\* The layout of a leaf.
LEMMA LayoutOfLeaf ==
    ASSUME NEW type \in LeafTypes, NEW size \in Nat \ {0}
    PROVE  LayoutOK(type, LayoutOf(type, size))
    <1> DEFINE init == ArrowLayoutInit(type)
               layout == LayoutOf(type, size)
    <1>1. type # "fixed_size_binary" => layout = init
        <2>1. type # "fixed_size_list"
            BY DEF LeafTypes, IntegerTypes, FloatTypes, DecimalTypes, IntervalTypes,
                   StringTypes, ViewTypes
        <2> QED
            BY <2>1 DEF LayoutOf, ViewLayout
    <1>2. type = "fixed_size_binary" => layout = [init EXCEPT !.bits[2] = size * 8]
        BY DEF LayoutOf, ViewLayout
    <1>3. CASE type = "na"
        <2>1. init = [buffer |-> None3, bits |-> <<0, 0, 0>>, child_size |-> 0]
            <3>1. /\ type \in {"uninitialized", "na", "run_end_encoded"}
                  /\ type \notin StringTypes
                  /\ type \notin {"list", "large_list", "map"} /\ type \notin ListViews
                  /\ type \notin {"struct", "fixed_size_list"}
                  /\ type # "dense_union" /\ type # "sparse_union"
                BY <1>3 DEF StringTypes, ListViews
            <3> QED
                BY <3>1, Zenon DEF ArrowLayoutInit
        <2>2. layout = [buffer |-> None3, bits |-> <<0, 0, 0>>, child_size |-> 0]
            BY <1>1, <1>3, <2>1
        <2>3. type \notin PlainTypes \cup ViewTypes \cup StringTypes
            BY <1>3, Kinds
        <2> QED
            BY <1>3, <2>2, <2>3 DEF LayoutOK, None3
    <1>4. CASE type \in StringTypes
        <2> DEFINE off == IF type \in Offsets64 \cup {"large_list_view"} THEN 64 ELSE 32
        <2>1. init = [buffer |-> <<"validity", "offset", "data">>,
                      bits |-> <<1, off, 0>>, child_size |-> 0]
            <3>1. /\ type \notin {"uninitialized", "na", "run_end_encoded"}
                  /\ type \notin {"list", "large_list", "map"} /\ type \notin ListViews
                  /\ type \notin {"struct", "fixed_size_list"}
                  /\ type # "dense_union" /\ type # "sparse_union"
                BY <1>4 DEF StringTypes, ListViews
            <3> QED
                BY <1>4, <3>1, Zenon DEF ArrowLayoutInit
        <2>2. /\ type \notin PlainTypes \cup ViewTypes
              /\ type \notin {"na", "bool", "fixed_size_binary"}
            BY <1>4, Kinds
        <2>3. off \in {32, 64}
            OBVIOUS
        <2> HIDE DEF off
        <2>4. layout = [buffer |-> <<"validity", "offset", "data">>,
                        bits |-> <<1, off, 0>>, child_size |-> 0]
            BY <1>1, <2>1, <2>2
        <2> QED
            BY <1>4, <2>2, <2>3, <2>4 DEF LayoutOK
    <1>5. CASE type \notin StringTypes /\ type # "na"
        <2>1. init = [buffer |-> <<"validity", "data", "none">>,
                      bits |-> <<1, Width[type], 0>>, child_size |-> 0]
            <3>1. /\ type \notin {"uninitialized", "na", "run_end_encoded"}
                  /\ type \notin {"list", "large_list", "map"} /\ type \notin ListViews
                  /\ type \notin {"struct", "fixed_size_list"}
                  /\ type # "dense_union" /\ type # "sparse_union"
                BY <1>5 DEF LeafTypes, IntegerTypes, FloatTypes, DecimalTypes,
                            IntervalTypes, StringTypes, ViewTypes, ListViews
            <3> QED
                BY <1>5, <3>1, Zenon DEF ArrowLayoutInit
        <2>2. CASE type = "fixed_size_binary"
            <3>1. Width[type] = 0
                BY <2>2 DEF Width
            <3>2. layout = [buffer |-> <<"validity", "data", "none">>,
                            bits |-> <<1, size * 8, 0>>, child_size |-> 0]
                BY <1>2, <2>1, <2>2, <3>1
            <3>3. (size * 8) \div 8 = size /\ size * 8 = 8 * size
                OBVIOUS
            <3>4. type \notin PlainTypes \cup ViewTypes
                BY <2>2, Kinds
            <3> QED
                BY <1>5, <2>2, <3>2, <3>3, <3>4 DEF LayoutOK
        <2>3. CASE type # "fixed_size_binary"
            <3> DEFINE width == Width[type]
            <3>1. layout = [buffer |-> <<"validity", "data", "none">>,
                            bits |-> <<1, width, 0>>, child_size |-> 0]
                BY <1>1, <2>1, <2>3
            <3>2. type \in PlainTypes => width \in {8, 16, 32, 64, 128, 256}
                BY DEF PlainTypes, IntegerTypes, FloatTypes, DecimalTypes,
                       IntervalTypes, Width
            <3>3. type = "bool" => width = 1
                BY DEF Width
            <3>4. type \in ViewTypes => width = 128
                BY DEF ViewTypes, Width
            <3> HIDE DEF width
            <3> QED
                BY <1>5, <2>3, <3>1, <3>2, <3>3, <3>4 DEF LayoutOK
        <2> QED
            BY <2>2, <2>3
    <1> QED
        BY <1>3, <1>4, <1>5

-----------------------------------------------------------------------------
(* Every call keeps the invariant.                                         *)

\* n more elements e: the nulls among all of them.
LEMMA NullsOfMore ==
    ASSUME NEW l \in Seq(Told), NEW m \in Seq(Told), NEW n \in Nat, NEW e,
           Extends(m, l, n, e)
    PROVE  /\ Cardinality(NullsOf(l)) \in Nat
           /\ Cardinality(NullsOf(m)) =
                Cardinality(NullsOf(l)) + IF e = Null THEN n ELSE 0
    <1> DEFINE k == Len(l)
               old == NullsOf(l)
               new == k + 1 .. k + n
    <1>1. k \in Nat /\ Len(m) = k + n
        BY LenProperties DEF Extends
    <1>2. /\ \A i \in 1 .. k : m[i] = l[i]
          /\ \A i \in k + 1 .. k + n : m[i] = e
        BY DEF Extends
    <1>3. IsFiniteSet(1..k) /\ old \in SUBSET (1..k)
        BY <1>1, FS_Interval DEF NullsOf
    <1>4. IsFiniteSet(old) /\ Cardinality(old) \in Nat
        BY <1>3, FS_Subset, FS_CardinalityType
    <1>5. IsFiniteSet(new) /\ Cardinality(new) = n
        <2> DEFINE p == k + 1
                   q == k + n
        <2>1. /\ IsFiniteSet(p..q)
              /\ Cardinality(p..q) = IF p > q THEN 0 ELSE q - p + 1
            <3>1. p \in Int /\ q \in Int
                BY <1>1
            <3> HIDE DEF p, q
            <3> QED
                BY <3>1, FS_Interval
        <2>2. (IF k + 1 > k + n THEN 0 ELSE (k + n) - (k + 1) + 1) = n
            BY <1>1
        <2> QED
            BY <2>1, <2>2
    <1>6. CASE e = Null
        <2>1. NullsOf(m) = old \cup new
            <3>1. ASSUME NEW i \in NullsOf(m)
                  PROVE  i \in old \cup new
                <4>1. i \in 1 .. k + n /\ m[i] = Null
                    BY <1>1 DEF NullsOf
                <4>2. CASE i \in 1..k
                    BY <1>2, <4>1, <4>2 DEF NullsOf
                <4>3. CASE i \in new
                    BY <4>3
                <4>4. i \in 1..k \/ i \in new
                    BY <1>1, <4>1
                <4> QED
                    BY <4>2, <4>3, <4>4
            <3>2. ASSUME NEW i \in old
                  PROVE  i \in NullsOf(m)
                <4>1. i \in 1..k /\ l[i] = Null
                    BY DEF NullsOf
                <4>2. i \in 1 .. Len(m) /\ m[i] = Null
                    BY <1>1, <1>2, <4>1
                <4> QED
                    BY <4>2 DEF NullsOf
            <3>3. ASSUME NEW i \in new
                  PROVE  i \in NullsOf(m)
                <4>1. i \in 1 .. Len(m)
                    BY <1>1
                <4>2. m[i] = Null
                    BY <1>2, <1>6
                <4> QED
                    BY <4>1, <4>2 DEF NullsOf
            <3> QED
                BY <3>1, <3>2, <3>3
        <2>2. old \cap new = {}
            BY <1>1, <1>3
        <2> HIDE DEF old, new
        <2>3. Cardinality(old \cup new) = Cardinality(old) + Cardinality(new) - 0
            <3>1. Cardinality(old \cup new) =
                    Cardinality(old) + Cardinality(new) - Cardinality(old \cap new)
                BY <1>4, <1>5, FS_Union, Zenon
            <3> QED
                BY <2>2, <3>1, FS_EmptySet, Zenon
        <2> QED
            BY <1>4, <1>5, <1>6, <2>1, <2>3 DEF old
    <1>7. CASE e # Null
        <2>1. NullsOf(m) = old
            <3>1. ASSUME NEW i \in NullsOf(m)
                  PROVE  i \in old
                <4>1. i \in 1 .. k + n /\ m[i] = Null
                    BY <1>1 DEF NullsOf
                <4>2. i \notin new
                    BY <1>2, <1>7, <4>1
                <4>3. i \in 1..k
                    BY <1>1, <4>1, <4>2
                <4> QED
                    BY <1>2, <4>1, <4>3 DEF NullsOf
            <3>2. ASSUME NEW i \in old
                  PROVE  i \in NullsOf(m)
                <4>1. i \in 1..k /\ l[i] = Null
                    BY DEF NullsOf
                <4>2. i \in 1 .. Len(m) /\ m[i] = Null
                    BY <1>1, <1>2, <4>1
                <4> QED
                    BY <4>2 DEF NullsOf
            <3> QED
                BY <3>1, <3>2
        <2> QED
            BY <1>4, <1>7, <2>1
    <1> QED
        BY <1>4, <1>6, <1>7

\* An array whose data and whose bitmap hold n more elements holds them.
LEMMA HoldsMore ==
    ASSUME NEW a, NEW l, Holds(a, l), NEW n \in Nat, NEW e,
           NEW m \in Seq(Told), Extends(m, l, n, e),
           NEW b, Fields \subseteq DOMAIN b, b.type = a.type, b.layout = a.layout,
           b.offset = a.offset, b.length = a.length + n, InStep(b),
           a.type = "na" => b.buf0 = <<>> /\ b.buf1 = <<>>,
           b.null_count = a.null_count + IF e = Null THEN n ELSE 0,
           \A i \in 0 .. a.length - 1 : IsNull(b, i) <=> IsNull(a, i),
           \A i \in a.length .. a.length + n - 1 :
                e = Null <=> a.type = "na" \/ IsNull(b, i),
           DataOK(b, m)
    PROVE  Holds(b, m)
    <1> DEFINE k == Len(l)
    <1>1. /\ l \in Seq(Told) /\ a.length = k /\ k \in Nat /\ Len(m) = k + n
          /\ a.type \in LeafTypes /\ a.offset = 0 /\ LayoutOK(a.type, a.layout)
          /\ NullsAgree(a, l) /\ a.null_count = Cardinality(NullsOf(l))
        BY LenProperties DEF Holds, Extends
    <1>2. /\ \A i \in 1 .. k : m[i] = l[i]
          /\ \A i \in k + 1 .. k + n : m[i] = e
          /\ \A i \in 1 .. k : l[i] = Null <=> a.type = "na" \/ IsNull(a, i - 1)
        BY <1>1 DEF Extends, NullsAgree
    <1>3. /\ \A i \in 0 .. k - 1 : IsNull(b, i) <=> IsNull(a, i)
          /\ \A i \in k .. k + n - 1 : e = Null <=> a.type = "na" \/ IsNull(b, i)
        BY <1>1
    <1>4. b.null_count = Cardinality(NullsOf(m))
        BY <1>1, NullsOfMore
    <1> HIDE DEF k
    <1>5. ASSUME NEW i \in 1 .. k + n
          PROVE  m[i] = Null <=> a.type = "na" \/ IsNull(b, i - 1)
        <2>1. CASE i <= k
            <3>1. i \in 1..k /\ i - 1 \in 0 .. k - 1
                BY <1>1, <2>1
            <3> QED
                BY <1>2, <1>3, <3>1
        <2>2. CASE ~(i <= k)
            <3>1. i \in k + 1 .. k + n /\ i - 1 \in k .. k + n - 1
                BY <1>1, <2>2
            <3> QED
                BY <1>2, <1>3, <3>1
        <2> QED
            BY <2>1, <2>2
    <1>6. NullsAgree(b, m)
        BY <1>1, <1>5 DEF NullsAgree
    <1> QED
        BY <1>1, <1>4, <1>6 DEF Holds

\* The fields other than those of the bitmap.
SameButBitmap(b, c) ==
    /\ DOMAIN b = DOMAIN c
    /\ b.type = c.type /\ b.layout = c.layout /\ b.length = c.length
    /\ b.null_count = c.null_count /\ b.offset = c.offset
    /\ b.buf1 = c.buf1 /\ b.buf2 = c.buf2 /\ b.variadic = c.variadic

\* ArrowBitmapAppend changes the bitmap only.
LEMMA BitmapAppendKeeps ==
    ASSUME NEW a, Fields \subseteq DOMAIN a, NEW on, NEW n
    PROVE  SameButBitmap(ArrowBitmapAppend(a, on, n), a)
    <1>1. PICK x, y : ArrowBitmapAppend(a, on, n) =
                        [a EXCEPT !.buf0 = x, !.size_bits = y]
        BY Zenon DEF ArrowBitmapAppend
    <1> QED
        BY <1>1 DEF Fields, SameButBitmap

\* FillValidity changes the bitmap only.
LEMMA FillValidityKeeps ==
    ASSUME NEW a, Fields \subseteq DOMAIN a, NEW n, NEW is_valid
    PROVE  SameButBitmap(FillValidity(a, n, is_valid), a)
    <1>1. CASE a.buf0 # <<>>
        <2>1. FillValidity(a, n, is_valid) = ArrowBitmapAppend(a, is_valid, n)
            BY <1>1, Zenon DEF FillValidity
        <2> QED
            BY <2>1, BitmapAppendKeeps, Zenon
    <1>2. CASE a.buf0 = <<>> /\ ~is_valid
        <2> DEFINE past == ArrowBitmapAppend(a, TRUE, a.length)
                   b    == ArrowBitmapAppend(past, FALSE, n)
        <2>1. FillValidity(a, n, is_valid) = b
            BY <1>2, Zenon DEF FillValidity
        <2>2. SameButBitmap(past, a)
            BY BitmapAppendKeeps, Zenon
        <2> HIDE DEF past
        <2>3. Fields \subseteq DOMAIN past
            BY <2>2 DEF SameButBitmap
        <2>4. SameButBitmap(b, past)
            BY <2>3, BitmapAppendKeeps, Zenon
        <2> HIDE DEF b
        <2> QED
            BY <2>1, <2>2, <2>4, Zenon DEF SameButBitmap
    <1>3. CASE a.buf0 = <<>> /\ is_valid
        <2>1. FillValidity(a, n, is_valid) = a
            BY <1>3, Zenon DEF FillValidity
        <2> QED
            BY <2>1, Zenon DEF SameButBitmap
    <1> QED
        BY <1>1, <1>2, <1>3

\* What a call leaves behind: more elements, or the array as it was.
Keeps(r, a, l, told) ==
    IF r.rc = "OK" THEN Holds(r.array, l \o told) ELSE r.array = a

\* The common end of the appends: c is a, with a value in its data.
LEMMA ValueStep ==
    ASSUME NEW a, NEW l, Holds(a, l), a.type # "na", NEW v \in Values,
           NEW c, Fields \subseteq DOMAIN c, c.type = a.type, c.layout = a.layout,
           c.offset = a.offset, c.null_count = a.null_count, c.length = a.length,
           c.buf0 = a.buf0, c.size_bits = a.size_bits, c.junk = a.junk,
           DataOK(c, l \o <<<<v>>>>)
    PROVE  Keeps(AppendValid(c), a, l, <<<<v>>>>)
    <1> DEFINE e == <<v>>
               m == l \o <<e>>
               f == FillValidity(c, 1, TRUE)
               b == [f EXCEPT !.length = @ + 1]
    <1>1. AppendValid(c) = [rc |-> "OK", array |-> b]
        <2>1. f = IF c.buf0 = <<>> THEN c ELSE ArrowBitmapAppend(c, TRUE, 1)
            BY Zenon DEF FillValidity
        <2> QED
            BY <2>1, Zenon DEF AppendValid, Ok
    <1>2. e \in Told /\ e # Null /\ l \in Seq(Told) /\ a.length \in Nat
        BY EmptySeq, LenProperties DEF Told, Null, Holds, InStep, BitmapOK
    <1>3. m \in Seq(Told) /\ Extends(m, l, 1, e)
        BY <1>2, OneMore
    <1>4. InStep(c)
        BY DEF Holds, InStep, BitmapOK, Fields
    <1>5. /\ InStep(b)
          /\ \A i \in 0 .. c.length - 1 : IsNull(f, i) <=> IsNull(c, i)
          /\ \A i \in c.length .. c.length + 1 - 1 : IsNull(f, i) <=> ~TRUE
        <2>1. 1 \in Nat \ {0} /\ TRUE \in BOOLEAN
            OBVIOUS
        <2> QED
            BY <1>4, <2>1, NullsExactly, Zenon
    <1>6. SameButBitmap(f, c)
        BY FillValidityKeeps, Zenon
    <1> HIDE DEF e, m, f
    <1>7. /\ DOMAIN b = DOMAIN f
          /\ b.type = a.type /\ b.layout = a.layout /\ b.length = a.length + 1
          /\ b.null_count = a.null_count /\ b.offset = a.offset /\ b.buf0 = f.buf0
          /\ b.buf1 = c.buf1 /\ b.buf2 = c.buf2 /\ b.variadic = c.variadic
        BY <1>6 DEF Fields, SameButBitmap
    <1> HIDE DEF b
    <1>8. DataOK(b, m)
        BY <1>7 DEF DataOK, m, e
    <1>9. \A i \in 0 .. a.length - 1 : IsNull(b, i) <=> IsNull(a, i)
        BY <1>5, <1>7 DEF IsNull
    <1>10. \A i \in a.length .. a.length + 1 - 1 : ~IsNull(b, i)
        BY <1>5, <1>7 DEF IsNull
    <1>11. b.null_count = a.null_count + IF e = Null THEN 1 ELSE 0
        <2>1. a.null_count \in Nat
            BY <1>2, <1>3, NullsOfMore DEF Holds
        <2> QED
            BY <1>2, <1>7, <2>1
    <1>12. Fields \subseteq DOMAIN b
        BY <1>6, <1>7 DEF SameButBitmap
    <1>13. \A i \in a.length .. a.length + 1 - 1 :
                e = Null <=> a.type = "na" \/ IsNull(b, i)
        BY <1>2, <1>10
    <1>14. Holds(b, m)
        BY <1>3, <1>5, <1>7, <1>8, <1>9, <1>11, <1>12, <1>13, HoldsMore
    <1> QED
        BY <1>1, <1>14 DEF Keeps, m, e

\* c differs from a in its data only.
SameButData(c, a) ==
    /\ DOMAIN c = DOMAIN a
    /\ c.type = a.type /\ c.layout = a.layout /\ c.length = a.length
    /\ c.null_count = a.null_count /\ c.offset = a.offset
    /\ c.buf0 = a.buf0 /\ c.size_bits = a.size_bits /\ c.junk = a.junk

\* The fields of an array that holds l and an appended value.
LEMMA ToldMore ==
    ASSUME NEW a, NEW l, Holds(a, l), NEW v \in Values
    PROVE  /\ <<v>> \in Told /\ l \in Seq(Told) /\ l \o <<<<v>>>> \in Seq(Told)
           /\ Extends(l \o <<<<v>>>>, l, 1, <<v>>)
           /\ a.length = Len(l) /\ Len(l) \in Nat
    <1>1. <<v>> \in Told /\ l \in Seq(Told) /\ a.length = Len(l)
        BY DEF Told, Holds
    <1> QED
        BY <1>1, OneMore, LenProperties

\* A number behind the others.
LEMMA NumberStep ==
    ASSUME NEW a, NEW l, Holds(a, l), a.type \in PlainTypes, NEW v \in Int
    PROVE  Keeps(AppendValid([a EXCEPT !.buf1 = Append(@, v)]), a, l, <<<<v>>>>)
    <1> DEFINE c == [a EXCEPT !.buf1 = Append(@, v)]
               b1 == Append(a.buf1, v)
               m == l \o <<<<v>>>>
    <1>1. v \in Values /\ a.type \in LeafTypes /\ Fields \subseteq DOMAIN a
        BY DEF Values, Holds
    <1>2. l \in Seq(Told) /\ m \in Seq(Told) /\ Extends(m, l, 1, <<v>>)
        BY <1>1, ToldMore
    <1>3. SameButData(c, a) /\ c.buf1 = b1
        BY <1>1 DEF SameButData, Fields
    <1>4. Plain(a.buf1, l)
        BY DEF Holds, DataOK
    <1>5. b1 \in Seq(Int) /\ Extends(b1, a.buf1, 1, v)
        <2>1. a.buf1 \in Seq(Int)
            BY <1>4 DEF Plain
        <2> QED
            BY <2>1, OneMore
    <1> HIDE DEF b1, m, c
    <1>6. Plain(b1, m)
        BY <1>2, <1>4, <1>5, PlainGoesOn
    <1>7. c.type = a.type /\ c.type \in PlainTypes /\ c.type \in LeafTypes
          /\ Plain(c.buf1, m)
        BY <1>1, <1>3, <1>6 DEF SameButData
    <1>8. DataOK(c, m)
        BY <1>7, DataOfKind, Zenon
    <1>9. a.type # "na"
        BY <1>1, Kinds
    <1>10. Keeps(AppendValid(c), a, l, <<<<v>>>>)
        BY <1>1, <1>3, <1>8, <1>9, ValueStep DEF SameButData, m
    <1> QED
        BY <1>10 DEF c

\* A boolean behind the others.
LEMMA BooleanStep ==
    ASSUME NEW a, NEW l, Holds(a, l), a.type = "bool", NEW on \in BOOLEAN,
           NEW v \in Int, v = IF on THEN 1 ELSE 0
    PROVE  Keeps(AppendValid(AppendBits(a, on, 1)), a, l, <<<<v>>>>)
    <1> DEFINE c == AppendBits(a, on, 1)
               b1 == ArrowBitsSetTo(Resized(a.buf1, BytesForBits(Len(l) + 1), {}),
                                    Len(l), 1, on)
               m == l \o <<<<v>>>>
               cap == GrownCapacity(a.capacity, BytesForBits(Len(l) + 1))
    <1>1. /\ v \in Values /\ a.type \in LeafTypes /\ Fields \subseteq DOMAIN a
          /\ a.length = Len(l)
        BY DEF Values, Holds
    <1>2. l \in Seq(Told) /\ m \in Seq(Told) /\ Extends(m, l, 1, <<v>>)
        BY <1>1, ToldMore
    <1>3. c = [a EXCEPT !.buf1 = b1, !.capacity = cap,
                        !.overrun = @ \/ BytesForBits(Len(l) + 1) > cap]
        BY <1>1, Zenon DEF AppendBits
    <1>4. Bools(a.buf1, l)
        BY DEF Holds, DataOK
    <1>5. Bools(b1, m)
        <2>1. 1 \in Nat \ {0} /\ (on => 1 = 1)
            OBVIOUS
        <2>2. <<v>> = Null \/ <<v>> = <<IF on THEN 1 ELSE 0>>
            OBVIOUS
        <2> HIDE DEF m
        <2> QED
            BY <1>2, <1>4, <2>1, <2>2, BoolsGoOn
    <1> HIDE DEF b1, m, c, cap
    <1>6. SameButData(c, a) /\ c.buf1 = b1
        BY <1>1, <1>3 DEF SameButData, Fields
    <1>7. c.type = "bool" /\ c.type \in LeafTypes /\ Bools(c.buf1, m)
        BY <1>1, <1>5, <1>6 DEF SameButData
    <1>8. DataOK(c, m)
        BY <1>7, DataOfKind, Zenon
    <1>9. a.type # "na"
        OBVIOUS
    <1>10. Keeps(AppendValid(c), a, l, <<<<v>>>>)
        BY <1>1, <1>6, <1>8, <1>9, ValueStep DEF SameButData, m
    <1> QED
        BY <1>10 DEF c

\* A string behind the others, if its end is not beyond the limit.
LEMMA TextStep ==
    ASSUME NEW a, NEW l, Holds(a, l), a.type \in StringTypes, NEW s \in Seq(Nat),
           ~(a.type \in Offsets32 /\ a.buf1[a.length + 1] + Len(s) > Int32Max)
    PROVE  Keeps(AppendValid([a EXCEPT !.buf1 = Append(@, a.buf1[a.length + 1] + Len(s)),
                                       !.buf2 = @ \o s]), a, l, <<<<s>>>>)
    <1> DEFINE last == a.buf1[a.length + 1]
               c == [a EXCEPT !.buf1 = Append(@, last + Len(s)), !.buf2 = @ \o s]
               b1 == Append(a.buf1, last + Len(s))
               b2 == a.buf2 \o s
               m == l \o <<<<s>>>>
    <1>1. /\ s \in Values /\ a.type \in LeafTypes /\ Fields \subseteq DOMAIN a
          /\ a.length = Len(l)
        BY DEF Values, Holds
    <1>2. l \in Seq(Told) /\ m \in Seq(Told) /\ Extends(m, l, 1, <<s>>) /\ Len(l) \in Nat
        BY <1>1, ToldMore
    <1>3. SameButData(c, a) /\ c.buf1 = b1 /\ c.buf2 = b2
        BY <1>1 DEF SameButData, Fields
    <1>4. Texts(a.type, a.buf1, a.buf2, l)
        BY DEF Holds, DataOK
    <1>5. /\ a.buf1 \in Seq(Nat) /\ last = Len(a.buf2) /\ last \in Nat
          /\ last = a.buf1[Len(l) + 1] /\ Len(s) \in Nat
        <2>1. a.buf1 \in Seq(Nat) /\ a.buf2 \in Seq(Nat)
              /\ a.buf1[Len(l) + 1] = Len(a.buf2)
            BY <1>4 DEF Texts
        <2>2. Len(a.buf2) \in Nat /\ Len(s) \in Nat
            BY <2>1, LenProperties
        <2> QED
            BY <1>1, <2>1, <2>2
    <1>6. a.type \in Offsets32 => last + Len(s) <= Int32Max
        <2>1. ~(a.type \in Offsets32 /\ last + Len(s) > Int32Max)
            OBVIOUS
        <2> HIDE DEF last
        <2>2. last + Len(s) > Int32Max \/ last + Len(s) <= Int32Max
            <3> DEFINE size == Len(s)
            <3>1. last \in Nat /\ size \in Nat /\ Int32Max \in Nat
                BY <1>5, ArrowLimitsAssumption
            <3> HIDE DEF size
            <3>2. last + size > Int32Max \/ last + size <= Int32Max
                BY <3>1
            <3> QED
                BY <3>2 DEF size
        <2> QED
            BY <2>1, <2>2, Zenon
    <1> HIDE DEF last
    <1>7. b1 \in Seq(Nat) /\ Extends(b1, a.buf1, 1, last + Len(s))
        BY <1>5, OneMore
    <1> HIDE DEF b1, m, c
    <1>8. Texts(a.type, b1, b2, m)
        BY <1>2, <1>4, <1>5, <1>6, <1>7, TextsGoOn
    <1> HIDE DEF b2
    <1>9. c.type = a.type /\ c.type \in StringTypes /\ c.type \in LeafTypes
          /\ Texts(c.type, c.buf1, c.buf2, m)
        BY <1>1, <1>3, <1>8 DEF SameButData
    <1>10. DataOK(c, m)
        BY <1>9, DataOfKind, Zenon
    <1>11. a.type # "na"
        BY <1>1, Kinds
    <1>12. Keeps(AppendValid(c), a, l, <<<<s>>>>)
        BY <1>1, <1>3, <1>10, <1>11, ValueStep DEF SameButData, m
    <1> QED
        BY <1>12 DEF c, last

\* A binary of the array's width behind the others.
LEMMA FixedStep ==
    ASSUME NEW a, NEW l, Holds(a, l), a.type = "fixed_size_binary", NEW s \in Seq(Nat),
           Len(s) * 8 = a.layout.bits[2]
    PROVE  Keeps(AppendValid([a EXCEPT !.buf1 = @ \o s]), a, l, <<<<s>>>>)
    <1> DEFINE c == [a EXCEPT !.buf1 = @ \o s]
               w == a.layout.bits[2] \div 8
               b1 == a.buf1 \o s
               m == l \o <<<<s>>>>
    <1>1. /\ s \in Values /\ a.type \in LeafTypes /\ Fields \subseteq DOMAIN a
          /\ a.length = Len(l)
        BY DEF Values, Holds
    <1>2. l \in Seq(Told) /\ m \in Seq(Told) /\ Extends(m, l, 1, <<s>>)
        BY <1>1, ToldMore
    <1>3. SameButData(c, a) /\ c.buf1 = b1
        BY <1>1 DEF SameButData, Fields
    <1>4. Fixed(w, a.buf1, l)
        BY DEF Holds, DataOK
    <1>5. Len(s) = w
        <2>1. Len(s) \in Nat
            BY LenProperties
        <2>2. (Len(s) * 8) \div 8 = Len(s)
            BY <2>1
        <2> QED
            BY <2>2
    <1> HIDE DEF b1, m, c, w
    <1>6. Fixed(w, b1, m)
        BY <1>2, <1>4, <1>5, FixedGoesOnValue DEF b1
    <1>7. c.type = "fixed_size_binary" /\ c.type \in LeafTypes
          /\ Fixed(c.layout.bits[2] \div 8, c.buf1, m)
        BY <1>1, <1>3, <1>6 DEF SameButData, w
    <1>8. DataOK(c, m)
        BY <1>7, DataOfKind, Zenon
    <1>9. a.type # "na"
        OBVIOUS
    <1>10. Keeps(AppendValid(c), a, l, <<<<s>>>>)
        BY <1>1, <1>3, <1>8, <1>9, ValueStep DEF SameButData, m
    <1> QED
        BY <1>10 DEF c

\* The entries of a short and of a long value.
ShortEntry(n, s) == [NoBytes EXCEPT !.size = n, !.data = s]
LongEntry(n, j, w) == [NoBytes EXCEPT !.size = n, !.index = j, !.offset = w]

\* Their fields.
LEMMA NewEntries ==
    ASSUME NEW n \in Nat, NEW s \in Seq(Nat), NEW j \in Nat, NEW w \in Nat
    PROVE  /\ ShortEntry(n, s) \in Entries /\ ShortEntry(n, s).size = n
           /\ ShortEntry(n, s).data = s
           /\ LongEntry(n, j, w) \in Entries /\ LongEntry(n, j, w).size = n
           /\ LongEntry(n, j, w).index = j /\ LongEntry(n, j, w).offset = w
    <1>1. NoBytes \in Entries
        BY EmptySeq DEF NoBytes, Entries
    <1> QED
        BY <1>1 DEF Entries, ShortEntry, LongEntry

\* What AppendView does to the entries and to the variadic buffers.
LEMMA ViewAppended ==
    ASSUME NEW a, Fields \subseteq DOMAIN a, NEW s \in Seq(Nat),
           a.variadic \in Seq(Seq(Nat))
    PROVE  \E v \in Entries, new \in Seq(Seq(Nat)) :
              /\ AppendView(a, s).buf1 = Append(a.buf1, v)
              /\ AppendView(a, s).variadic = new
              /\ SameButData(AppendView(a, s), a)
              /\ MoreBytes(new, a.variadic) /\ InPlace(v, new) /\ BytesOf(v, new) = s
    <1> DEFINE n == Len(s)
               old == a.variadic
               k == Len(old)
               full == k = 0 \/ Len(old[k]) + n > BlockSize
               bufs == IF full THEN Append(old, <<>>) ELSE old
               j == Len(bufs)
               c == AppendView(a, s)
    <1>1. n \in Nat /\ k \in Nat /\ InlineSize \in Nat
        BY LenProperties, ArrowLimitsAssumption
    <1>2. \A t \in Seq(Nat) : BeginsWith(t, t)
        <2>1. \A t \in Seq(Nat) : Len(t) \in Nat
            BY LenProperties
        <2> QED
            BY <2>1 DEF BeginsWith
    <1>3. MoreBytes(old, old)
        BY <1>1, <1>2, ElementOfSeq DEF MoreBytes
    <1>4. CASE n <= InlineSize
        <2> DEFINE v == ShortEntry(n, s)
        <2>1. c = [a EXCEPT !.buf1 = Append(@, v)]
            BY <1>4, Zenon DEF AppendView, ShortEntry
        <2>2. 0 \in Nat
            OBVIOUS
        <2> HIDE DEF v, c, n
        <2>3. v \in Entries /\ v.size = n /\ v.data = s
            BY <1>1, <2>2, NewEntries DEF v
        <2>4. ~(v.size > InlineSize)
            BY <1>1, <1>4, <2>3
        <2>5. InPlace(v, old) /\ BytesOf(v, old) = s
            BY <1>4, <2>3, <2>4, Zenon DEF InPlace, BytesOf
        <2>6. c.buf1 = Append(a.buf1, v) /\ c.variadic = old /\ SameButData(c, a)
            BY <2>1 DEF Fields, SameButData
        <2> HIDE DEF old
        <2>7. old \in Seq(Seq(Nat))
            BY DEF old
        <2> QED
            BY <1>3, <2>3, <2>5, <2>6, <2>7, Zenon DEF c, old
    <1>5. CASE ~(n <= InlineSize)
        <2> DEFINE w == Len(bufs[j])
                   v == LongEntry(n, j, w)
                   new == [bufs EXCEPT ![j] = @ \o s]
        <2>1. c = [a EXCEPT !.buf1 = Append(@, v), !.variadic = new]
            BY <1>5, Zenon DEF AppendView, LongEntry
        <2>3. old \in Seq(Seq(Nat)) /\ <<>> \in Seq(Nat)
            BY EmptySeq
        <2>4. /\ bufs \in Seq(Seq(Nat)) /\ j \in 1 .. Len(bufs) /\ k <= j /\ j \in Nat
              /\ \A i \in 1 .. k : bufs[i] = old[i]
            <3>1. CASE full
                <4>1. bufs = Append(old, <<>>)
                    BY <3>1
                <4>2. /\ Append(old, <<>>) \in Seq(Seq(Nat))
                      /\ Len(Append(old, <<>>)) = k + 1
                      /\ \A i \in 1 .. k : Append(old, <<>>)[i] = old[i]
                    BY <2>3, AppendProperties
                <4> HIDE DEF bufs, old, k
                <4> QED
                    BY <1>1, <4>1, <4>2
            <3>2. CASE ~full
                <4>1. bufs = old /\ k # 0
                    BY <3>2
                <4> HIDE DEF bufs, old, full
                <4>2. j = k
                    BY <4>1
                <4> HIDE DEF j, k
                <4> QED
                    BY <1>1, <2>3, <4>1, <4>2 DEF j
            <3> QED
                BY <3>1, <3>2
        <2> HIDE DEF c, v, bufs, old, full
        <2>5. bufs[j] \in Seq(Nat) /\ w \in Nat
            BY <2>4, ElementOfSeq, LenProperties
        <2> DEFINE last == bufs[j]
                   x == last \o s
        <2>6. /\ x \in Seq(Nat) /\ BeginsWith(x, last) /\ Len(x) = w + n
              /\ SubSeq(x, w + 1, w + n) = s
            <3> HIDE DEF last
            <3>1. last \in Seq(Nat)
                BY <2>5 DEF last
            <3>2. /\ x \in Seq(Nat) /\ BeginsWith(x, last)
                  /\ Len(x) = Len(last) + Len(s)
                  /\ SubSeq(x, Len(last) + 1, Len(last) + Len(s)) = s
                BY <3>1, ConcatBegins, Zenon
            <3> QED
                BY <3>2 DEF last
        <2>7. new = [bufs EXCEPT ![j] = x]
            OBVIOUS
        <2> HIDE DEF x, new, last, w
        <2>8. /\ new \in Seq(Seq(Nat)) /\ Len(new) = Len(bufs)
              /\ \A i \in 1 .. Len(bufs) : new[i] = IF i = j THEN x ELSE bufs[i]
            <3> HIDE DEF j
            <3> QED
                BY <2>4, <2>6, <2>7, ExceptSeq
        <2>9. Len(new) = j /\ new[j] = x
            BY <2>4, <2>8
        <2> HIDE DEF j, k
        <2>10. v \in Entries /\ v.size = n /\ v.index = j /\ v.offset = w
            <3> HIDE DEF n
            <3>1. n \in Nat /\ j \in Nat /\ w \in Nat
                BY <1>1, <2>4, <2>5
            <3> QED
                BY <3>1, NewEntries DEF v
        <2>11. j \in 1 .. j
            BY <2>4 DEF j
        <2>12. w + n <= Len(new[j])
            BY <1>1, <2>5, <2>6, <2>9
        <2>13. InPlace(v, new) /\ BytesOf(v, new) = s
            BY <1>5, <2>6, <2>9, <2>10, <2>11, <2>12, Zenon DEF InPlace, BytesOf
        <2>14. MoreBytes(new, old)
            <3>1. ASSUME NEW i \in 1..k
                  PROVE  BeginsWith(new[i], old[i])
                <4>1. i \in 1 .. Len(bufs) /\ bufs[i] = old[i] /\ bufs[i] \in Seq(Nat)
                    BY <1>1, <2>4, ElementOfSeq DEF j
                <4>2. CASE i = j
                    BY <2>6, <2>9, <4>1, <4>2, Zenon DEF last
                <4>3. CASE i # j
                    BY <1>2, <2>8, <4>1, <4>3, Zenon
                <4> QED
                    BY <4>2, <4>3
            <3> QED
                BY <2>4, <2>9, <3>1 DEF MoreBytes, k
        <2>15. c.buf1 = Append(a.buf1, v) /\ c.variadic = new /\ SameButData(c, a)
            BY <2>1 DEF Fields, SameButData
        <2> QED
            BY <2>8, <2>10, <2>13, <2>14, <2>15, Zenon DEF c, old
    <1> QED
        BY <1>4, <1>5

\* A view behind the others.
LEMMA ViewStep ==
    ASSUME NEW a, NEW l, Holds(a, l), a.type \in ViewTypes, NEW s \in Seq(Nat)
    PROVE  Keeps(AppendValid(AppendView(a, s)), a, l, <<<<s>>>>)
    <1> DEFINE c == AppendView(a, s)
               m == l \o <<<<s>>>>
    <1>1. /\ s \in Values /\ a.type \in LeafTypes /\ Fields \subseteq DOMAIN a
          /\ a.length = Len(l)
        BY DEF Values, Holds
    <1>2. l \in Seq(Told) /\ m \in Seq(Told) /\ Extends(m, l, 1, <<s>>)
        BY <1>1, ToldMore
    <1>3. Views(a.buf1, a.variadic, l)
        BY DEF Holds, DataOK
    <1>4. a.buf1 \in Seq(Entries) /\ a.variadic \in Seq(Seq(Nat))
        BY <1>3 DEF Views
    <1>5. PICK v \in Entries, new \in Seq(Seq(Nat)) :
              /\ c.buf1 = Append(a.buf1, v) /\ c.variadic = new /\ SameButData(c, a)
              /\ MoreBytes(new, a.variadic) /\ InPlace(v, new) /\ BytesOf(v, new) = s
        BY <1>1, <1>4, ViewAppended, Zenon
    <1> DEFINE b1 == Append(a.buf1, v)
    <1>6. b1 \in Seq(Entries) /\ Extends(b1, a.buf1, 1, v)
        BY <1>4, OneMore
    <1> HIDE DEF b1, m, c
    <1>7. Views(b1, new, m)
        <2>1. 1 \in Nat /\ (<<s>> = Null \/ <<s>> = <<BytesOf(v, new)>>)
            BY <1>5
        <2> QED
            BY <1>2, <1>3, <1>5, <1>6, <2>1, ViewsGoOn, Zenon
    <1>8. c.type = a.type /\ c.type \in ViewTypes /\ c.type \in LeafTypes
          /\ Views(c.buf1, c.variadic, m)
        BY <1>1, <1>5, <1>7, Zenon DEF SameButData, b1
    <1>9. DataOK(c, m)
        BY <1>8, DataOfKind, Zenon
    <1>10. a.type # "na"
        BY <1>1, Kinds
    <1>11. SameButData(c, a)
        BY <1>5
    <1>12. Keeps(AppendValid(c), a, l, <<<<s>>>>)
        BY <1>1, <1>9, <1>10, <1>11, ValueStep DEF SameButData, m
    <1> QED
        BY <1>12 DEF c

\* n empty elements in the data of an array.
LEMMA EmptyData ==
    ASSUME NEW a, Fields \subseteq DOMAIN a, a.type \in LeafTypes, a.type # "na",
           LayoutOK(a.type, a.layout), NEW l \in Seq(Told), a.length = Len(l),
           DataOK(a, l), NEW n \in Nat \ {0}, NEW e, e = Null \/ e = <<EmptyLeaf(a)>>,
           NEW m \in Seq(Told), Extends(m, l, n, e)
    PROVE  LET g == FillBuffers(a, n)
           IN  SameButData(g, a) /\ DataOK(g, m)
    <1> DEFINE g == FillBuffers(a, n)
    <1>1. n \in Nat /\ n > 0 /\ n * 1 = n /\ Len(l) \in Nat
        BY LenProperties
    <1>2. /\ a.type # "na" => a.layout.buffer[2] = IF a.type \in StringTypes THEN "offset"
                                                                           ELSE "data"
        BY DEF LayoutOK
    <1>3. ASSUME NEW b1, g = [a EXCEPT !.buf1 = b1]
          PROVE  /\ SameButData(g, a) /\ g.buf1 = b1 /\ g.buf2 = a.buf2
                 /\ g.variadic = a.variadic /\ g.type = a.type /\ g.layout = a.layout
        BY <1>3 DEF SameButData, Fields
    <1>4. CASE a.type \in PlainTypes
        <2>1. a.type \notin {"na", "bool", "fixed_size_binary"} \cup StringTypes \cup ViewTypes
            BY <1>4, Kinds, Zenon
        <2> DEFINE t == [j \in 1..n |-> 0]
                   b1 == a.buf1 \o t
        <2>2. g = [a EXCEPT !.buf1 = b1]
            <3>1. /\ a.type # "bool" /\ a.type # "fixed_size_binary"
                  /\ a.type \notin ViewTypes /\ a.layout.buffer[2] = "data"
                BY <1>2, <2>1
            <3>2. a.layout.buffer[2] # "offset" /\ a.layout.buffer[2] # "view_offset"
                BY <3>1
            <3> QED
                BY <1>1, <3>1, <3>2, Zenon DEF FillBuffers
        <2>3. Plain(a.buf1, l) /\ a.buf1 \in Seq(Int)
            BY <1>4 DEF DataOK, Plain
        <2>4. b1 \in Seq(Int) /\ Extends(b1, a.buf1, n, 0)
            <3>1. 0 \in Int
                OBVIOUS
            <3> QED
                BY <1>1, <2>3, <3>1, ManyMore
        <2>5. e = Null \/ e = <<0>>
            <3>1. EmptyLeaf(a) = 0
                BY <2>1, Zenon DEF EmptyLeaf
            <3> QED
                BY <3>1
        <2> HIDE DEF b1, g
        <2>6. Plain(b1, m)
            BY <1>1, <2>3, <2>4, <2>5, PlainGoesOn
        <2>7. SameButData(g, a) /\ g.type \in PlainTypes /\ g.type \in LeafTypes
              /\ Plain(g.buf1, m)
            BY <1>3, <1>4, <2>2, <2>6
        <2> QED
            BY <2>7, DataOfKind, Zenon DEF g
    <1>5. CASE a.type = "bool"
        <2> DEFINE b1 == ArrowBitsSetTo(Resized(a.buf1, BytesForBits(Len(l) + 1), {}),
                                        Len(l), n, FALSE)
                   cap == GrownCapacity(a.capacity, BytesForBits(Len(l) + 1))
        <2>1. a.type \notin StringTypes \cup ViewTypes /\ a.type # "fixed_size_binary"
            BY <1>5, Kinds
        <2>2. g = [a EXCEPT !.buf1 = b1, !.capacity = cap,
                            !.overrun = @ \/ BytesForBits(Len(l) + n) > cap]
            <3>1. a.layout.buffer[2] = "data"
                BY <1>2, <2>1
            <3>2. a.layout.buffer[2] # "offset" /\ a.layout.buffer[2] # "view_offset"
                BY <3>1
            <3>3. g = AppendBits(a, FALSE, n)
                BY <1>5, <3>1, <3>2, Zenon DEF FillBuffers
            <3> HIDE DEF g
            <3> QED
                BY <3>3, Zenon DEF AppendBits
        <2>3. Bools(a.buf1, l)
            BY <1>5 DEF DataOK
        <2>4. e = Null \/ e = <<IF FALSE THEN 1 ELSE 0>>
            <3>1. EmptyLeaf(a) = 0
                BY <1>5, <2>1, Zenon DEF EmptyLeaf
            <3> QED
                BY <3>1
        <2> HIDE DEF g
        <2>5. Bools(b1, m)
            BY <1>1, <2>3, <2>4, BoolsGoOn
        <2> HIDE DEF b1, cap
        <2>6. SameButData(g, a) /\ g.buf1 = b1
            BY <2>2 DEF SameButData, Fields
        <2>7. g.type = "bool" /\ g.type \in LeafTypes /\ Bools(g.buf1, m)
            BY <1>5, <2>5, <2>6 DEF SameButData
        <2> QED
            BY <2>6, <2>7, DataOfKind, Zenon DEF g
    <1>6. CASE a.type = "fixed_size_binary"
        <2> DEFINE w == a.layout.bits[2] \div 8
                   t == [j \in 1 .. n * w |-> 0]
                   b1 == a.buf1 \o t
        <2>1. a.type \notin StringTypes \cup ViewTypes /\ a.type # "bool"
            BY <1>6, Kinds
        <2>2. g = [a EXCEPT !.buf1 = b1]
            <3>1. a.layout.buffer[2] = "data"
                BY <1>2, <2>1
            <3>2. a.layout.buffer[2] # "offset" /\ a.layout.buffer[2] # "view_offset"
                BY <3>1
            <3>3. a.type \notin ViewTypes
                BY <2>1
            <3> QED
                BY <1>6, <2>1, <3>1, <3>2, <3>3, Zenon DEF FillBuffers
        <2>3. Fixed(w, a.buf1, l) /\ w \in Nat /\ a.buf1 \in Seq(Nat)
            BY <1>6 DEF DataOK, Fixed
        <2>4. e = Null \/ e = <<[j \in 1..w |-> 0]>>
            <3>1. a.type \notin StringTypes \cup ViewTypes
                BY <2>1
            <3>2. EmptyLeaf(a) = [j \in 1..w |-> 0]
                BY <1>6, <3>1, Zenon DEF EmptyLeaf
            <3> QED
                BY <3>2
        <2> HIDE DEF g, w
        <2>5. b1 \in Seq(Nat) /\ Extends(b1, a.buf1, n * w, 0)
            <3>1. 0 \in Nat /\ n * w \in Nat
                BY <1>1, <2>3
            <3> DEFINE q == n * w
            <3> HIDE DEF q
            <3>2. a.buf1 \o [j \in 1..q |-> 0] \in Seq(Nat)
                  /\ Extends(a.buf1 \o [j \in 1..q |-> 0], a.buf1, q, 0)
                BY <2>3, <3>1, ManyMore DEF q
            <3> QED
                BY <3>2 DEF q
        <2> HIDE DEF b1
        <2>6. Fixed(w, b1, m)
            BY <1>1, <2>3, <2>4, <2>5, FixedGoesOnEmpty
        <2>7. SameButData(g, a) /\ g.type = "fixed_size_binary" /\ g.type \in LeafTypes
              /\ Fixed(g.layout.bits[2] \div 8, g.buf1, m)
            BY <1>3, <1>6, <2>2, <2>6 DEF w
        <2> QED
            BY <2>7, DataOfKind, Zenon DEF g
    <1>7. CASE a.type \in StringTypes
        <2> DEFINE last == a.buf1[a.length + 1]
                   b1 == a.buf1 \o [j \in 1..n |-> last]
        <2>1. a.type \notin {"na", "bool", "fixed_size_binary"} \cup ViewTypes
            BY <1>7, Kinds
        <2>2. g = [a EXCEPT !.buf1 = b1]
            <3>1. a.layout.buffer[2] = "offset" /\ a.type # "bool"
                BY <1>2, <1>7, <2>1
            <3>2. a.layout.buffer[2] # "data" /\ a.layout.buffer[2] # "view_offset"
                BY <3>1
            <3> QED
                BY <3>1, <3>2, Zenon DEF FillBuffers
        <2>3. Texts(a.type, a.buf1, a.buf2, l)
            BY <1>7 DEF DataOK
        <2>4. /\ a.buf1 \in Seq(Nat) /\ last = a.buf1[Len(l) + 1] /\ last \in Nat
            <3>1. /\ a.buf1 \in Seq(Nat) /\ a.buf2 \in Seq(Nat)
                  /\ a.buf1[Len(l) + 1] = Len(a.buf2)
                BY <2>3 DEF Texts
            <3>2. Len(a.buf2) \in Nat
                BY <3>1, LenProperties
            <3> QED
                BY <3>1, <3>2
        <2>5. e = Null \/ e = <<<<>>>>
            <3>1. a.type \in StringTypes \cup ViewTypes /\ a.type # "fixed_size_binary"
                BY <1>7, <2>1
            <3>2. EmptyLeaf(a) = <<>>
                BY <3>1, Zenon DEF EmptyLeaf
            <3> QED
                BY <3>2
        <2> HIDE DEF g, last
        <2>6. b1 \in Seq(Nat) /\ Extends(b1, a.buf1, n, last)
            BY <1>1, <2>4, ManyMore
        <2> HIDE DEF b1
        <2>7. Texts(a.type, b1, a.buf2, m)
            <3>1. Extends(b1, a.buf1, n, a.buf1[Len(l) + 1])
                BY <2>4, <2>6
            <3> QED
                BY <1>1, <2>3, <2>5, <2>6, <3>1, TextsGoOnEmpty
        <2>8. SameButData(g, a) /\ g.type \in StringTypes /\ g.type \in LeafTypes
              /\ Texts(g.type, g.buf1, g.buf2, m)
            BY <1>3, <1>7, <2>2, <2>7
        <2> QED
            BY <2>8, DataOfKind, Zenon DEF g
    <1>8. CASE a.type \in ViewTypes
        <2> DEFINE b1 == a.buf1 \o [j \in 1..n |-> NoBytes]
                   old == a.variadic
        <2>1. a.type \notin {"na", "bool", "fixed_size_binary"} \cup StringTypes
            BY <1>8, Kinds
        <2>2. g = [a EXCEPT !.buf1 = b1]
            <3>1. /\ a.layout.buffer[2] = "data" /\ a.type # "bool"
                  /\ a.type # "fixed_size_binary"
                BY <1>2, <2>1
            <3>2. a.layout.buffer[2] # "offset" /\ a.layout.buffer[2] # "view_offset"
                BY <3>1
            <3> QED
                BY <1>1, <1>8, <3>1, <3>2, Zenon DEF FillBuffers
        <2>3. Views(a.buf1, old, l) /\ a.buf1 \in Seq(Entries) /\ old \in Seq(Seq(Nat))
            BY <1>8 DEF DataOK, Views
        <2>4. e = Null \/ e = <<<<>>>>
            <3>1. a.type \in StringTypes \cup ViewTypes /\ a.type # "fixed_size_binary"
                BY <1>8, <2>1
            <3>2. EmptyLeaf(a) = <<>>
                BY <3>1, Zenon DEF EmptyLeaf
            <3> QED
                BY <3>2
        <2>5. /\ NoBytes \in Entries /\ NoBytes.size = 0 /\ NoBytes.data = <<>>
            BY EmptySeq DEF NoBytes, Entries
        <2> HIDE DEF g, old
        <2>6. b1 \in Seq(Entries) /\ Extends(b1, a.buf1, n, NoBytes)
            BY <1>1, <2>3, <2>5, ManyMore
        <2> HIDE DEF b1
        <2>7. 0 <= InlineSize /\ ~(0 > InlineSize)
            BY ArrowLimitsAssumption
        <2>8. InPlace(NoBytes, old) /\ BytesOf(NoBytes, old) = <<>>
            BY <2>5, <2>7, Zenon DEF InPlace, BytesOf
        <2>9. MoreBytes(old, old)
            <3>1. Len(old) \in Nat /\ \A j \in 1 .. Len(old) : old[j] \in Seq(Nat)
                BY <2>3, LenProperties, ElementOfSeq
            <3>2. \A t \in Seq(Nat) : Len(t) \in Nat
                BY LenProperties
            <3> QED
                BY <3>1, <3>2 DEF MoreBytes, BeginsWith
        <2>10. Views(b1, old, m)
            <3>1. e = Null \/ e = <<BytesOf(NoBytes, old)>>
                BY <2>4, <2>8
            <3> QED
                BY <1>1, <2>3, <2>5, <2>6, <2>8, <2>9, <3>1, ViewsGoOn
        <2>11. SameButData(g, a) /\ g.type \in ViewTypes /\ g.type \in LeafTypes
              /\ Views(g.buf1, g.variadic, m)
            BY <1>3, <1>8, <2>2, <2>10 DEF old
        <2> QED
            BY <2>11, DataOfKind, Zenon DEF g
    <1> QED
        BY <1>4, <1>5, <1>6, <1>7, <1>8, Kinds

\* n elements that are null or empty, behind the others.
LEMMA EmptyStep ==
    ASSUME NEW a, NEW l, Holds(a, l), NEW n \in Nat \ {0}, NEW is_valid \in BOOLEAN,
           NEW e, e = IF is_valid /\ a.type # "na" THEN <<EmptyLeaf(a)>> ELSE Null
    PROVE  Holds(AppendEmptyNode(a, n, is_valid), l \o [k \in 1..n |-> e])
    <1> DEFINE m == l \o [k \in 1..n |-> e]
               b == AppendEmptyNode(a, n, is_valid)
               more == IF e = Null THEN n ELSE 0
    <1>1. /\ l \in Seq(Told) /\ a.length = Len(l) /\ a.length \in Nat
          /\ Fields \subseteq DOMAIN a /\ a.type \in LeafTypes /\ InStep(a)
          /\ LayoutOK(a.type, a.layout) /\ DataOK(a, l) /\ n \in Nat
          /\ (a.type = "na" => a.buf0 = <<>> /\ a.buf1 = <<>>)
        BY LenProperties DEF Holds
    <1>2. e \in Told /\ (e = Null <=> ~(is_valid /\ a.type # "na"))
        <2>1. EmptyLeaf(a) \in Values
            <3>1. CASE a.type \in StringTypes \cup ViewTypes
                <4>1. a.type # "fixed_size_binary"
                    BY <1>1, <3>1, Kinds
                <4>2. EmptyLeaf(a) = <<>>
                    BY <3>1, <4>1, Zenon DEF EmptyLeaf
                <4> QED
                    BY <4>2, EmptySeq DEF Values
            <3>2. CASE a.type = "fixed_size_binary" /\ a.type \notin StringTypes \cup ViewTypes
                <4> DEFINE w == a.layout.bits[2] \div 8
                <4>1. EmptyLeaf(a) = [j \in 1..w |-> 0]
                    BY <3>2, Zenon DEF EmptyLeaf
                <4>2. w \in Nat
                    BY <1>1, <3>2 DEF LayoutOK
                <4> HIDE DEF w
                <4>3. [j \in 1..w |-> 0] \in [1..w -> Nat]
                    OBVIOUS
                <4>4. [j \in 1..w |-> 0] \in Seq(Nat)
                    BY <4>2, <4>3, SeqDef
                <4> QED
                    BY <4>1, <4>4 DEF Values
            <3>3. CASE a.type # "fixed_size_binary" /\ a.type \notin StringTypes \cup ViewTypes
                <4>1. EmptyLeaf(a) = 0
                    BY <3>3, Zenon DEF EmptyLeaf
                <4> QED
                    BY <4>1 DEF Values
            <3> QED
                BY <3>1, <3>2, <3>3
        <2>2. <<>> \in Told /\ \A v \in Values : <<v>> \in Told /\ <<v>> # <<>>
            BY EmptySeq DEF Told
        <2> QED
            BY <2>1, <2>2 DEF Null
    <1>3. m \in Seq(Told) /\ Extends(m, l, n, e)
        BY <1>1, <1>2, ManyMore
    <1>4. a.null_count \in Nat
        BY <1>1, <1>3, NullsOfMore DEF Holds
    <1> HIDE DEF m
    <1>5. CASE a.type = "na"
        <2>1. b = [a EXCEPT !.null_count = @ + n, !.length = @ + n]
            BY <1>5 DEF AppendEmptyNode
        <2>2. e = Null
            BY <1>2, <1>5
        <2> HIDE DEF b
        <2>3. /\ DOMAIN b = DOMAIN a /\ b.type = a.type /\ b.layout = a.layout
              /\ b.offset = a.offset /\ b.length = a.length + n
              /\ b.null_count = a.null_count + n
              /\ b.buf0 = a.buf0 /\ b.buf1 = a.buf1
              /\ b.size_bits = a.size_bits /\ b.junk = a.junk
            BY <1>1, <2>1 DEF Fields
        <2>4. InStep(b) /\ b.buf0 = <<>> /\ b.buf1 = <<>>
            BY <1>1, <1>5, <2>3 DEF InStep, BitmapOK
        <2>5. DataOK(b, m)
            <3>1. b.type = "na" /\ b.type \in LeafTypes
                BY <1>1, <1>5, <2>3
            <3> QED
                BY <3>1, DataOfKind, Zenon
        <2>6. /\ \A i \in 0 .. a.length - 1 : IsNull(b, i) <=> IsNull(a, i)
              /\ \A i \in a.length .. a.length + n - 1 :
                    e = Null <=> a.type = "na" \/ IsNull(b, i)
            BY <1>5, <2>2, <2>3 DEF IsNull
        <2>7. b.null_count = a.null_count + IF e = Null THEN n ELSE 0
            BY <2>2, <2>3
        <2>8. Fields \subseteq DOMAIN b
            BY <1>1, <2>3
        <2>9. Holds(b, m)
            BY <1>1, <1>3, <2>3, <2>4, <2>5, <2>6, <2>7, <2>8, HoldsMore
        <2> QED
            BY <2>9 DEF b, m
    <1>6. CASE a.type # "na"
        <2> DEFINE f == FillValidity(a, n, is_valid)
                   g == FillBuffers(f, n)
                   fn == [f EXCEPT !.length = @ + n]
        <2>1. b = [g EXCEPT !.length = @ + n,
                            !.null_count = @ + (IF is_valid THEN 0 ELSE n)]
            BY <1>6, Zenon DEF AppendEmptyNode
        <2>2. /\ InStep(fn)
              /\ \A i \in 0 .. a.length - 1 : IsNull(f, i) <=> IsNull(a, i)
              /\ \A i \in a.length .. a.length + n - 1 : IsNull(f, i) <=> ~is_valid
            BY <1>1, NullsExactly, Zenon
        <2>3. SameButBitmap(f, a)
            BY <1>1, FillValidityKeeps, Zenon
        <2>4. EmptyLeaf(f) = EmptyLeaf(a)
            BY <2>3, Zenon DEF SameButBitmap, EmptyLeaf
        <2> HIDE DEF f
        <2>5. DataOK(f, l)
            BY <1>1, <2>3 DEF DataOK, SameButBitmap
        <2>6. /\ Fields \subseteq DOMAIN f /\ f.type \in LeafTypes /\ f.type # "na"
              /\ LayoutOK(f.type, f.layout) /\ f.length = Len(l)
              /\ (e = Null \/ e = <<EmptyLeaf(f)>>)
            BY <1>1, <1>6, <2>3, <2>4 DEF SameButBitmap
        <2>7. SameButData(g, f) /\ DataOK(g, m)
            BY <1>1, <1>3, <2>5, <2>6, EmptyData, Zenon
        <2> HIDE DEF g, b
        <2>8. /\ DOMAIN b = DOMAIN a /\ b.type = a.type /\ b.layout = a.layout
              /\ b.offset = a.offset /\ b.length = a.length + n
              /\ b.null_count = a.null_count + (IF is_valid THEN 0 ELSE n)
              /\ b.buf0 = f.buf0 /\ b.size_bits = f.size_bits /\ b.junk = f.junk
              /\ b.buf1 = g.buf1 /\ b.buf2 = g.buf2 /\ b.variadic = g.variadic
              /\ g.type = a.type /\ g.layout = a.layout
            BY <1>1, <2>1, <2>3, <2>7 DEF SameButData, SameButBitmap, Fields
        <2>9. DataOK(b, m)
            BY <2>7, <2>8 DEF DataOK
        <2>10. InStep(b)
            <3>1. /\ DOMAIN fn = DOMAIN f /\ fn.length = a.length + n
                  /\ fn.buf0 = f.buf0 /\ fn.size_bits = f.size_bits /\ fn.junk = f.junk
                BY <2>3, <2>6 DEF SameButBitmap, Fields
            <3>2. DOMAIN b = DOMAIN f
                BY <2>3, <2>8 DEF SameButBitmap
            <3> HIDE DEF fn
            <3> QED
                BY <2>2, <2>8, <3>1, <3>2 DEF InStep, BitmapOK
        <2>11. b.null_count = a.null_count + IF e = Null THEN n ELSE 0
            BY <1>2, <1>6, <2>8
        <2>12. \A i \in 0 .. a.length - 1 : IsNull(b, i) <=> IsNull(a, i)
            BY <2>2, <2>8 DEF IsNull
        <2>13. \A i \in a.length .. a.length + n - 1 :
                    e = Null <=> a.type = "na" \/ IsNull(b, i)
            BY <1>2, <1>6, <2>2, <2>8 DEF IsNull
        <2>14. Fields \subseteq DOMAIN b
            BY <1>1, <2>8
        <2>15. Holds(b, m)
            BY <1>1, <1>3, <1>6, <2>8, <2>9, <2>10, <2>11, <2>12, <2>13, <2>14, HoldsMore
        <2> QED
            BY <2>15 DEF b, m
    <1> QED
        BY <1>5, <1>6

\* ArrowArrayAppendInt and ArrowArrayAppendUInt.
LEMMA IntegerCall ==
    ASSUME NEW a, NEW l, Holds(a, l), NEW v \in Int
    PROVE  Keeps(AppendInteger(a, v), a, l,
                 <<<<IF a.type = "bool" /\ v # 0 THEN 1 ELSE v>>>>)
    <1> DEFINE r == AppendInteger(a, v)
               read == IF a.type = "bool" /\ v # 0 THEN 1 ELSE v
    <1>1. a.type \in LeafTypes
        BY DEF Holds
    <1>2. a.type \in FloatTypes \cup IntegerTypes => a.type \in PlainTypes /\ a.type # "bool"
        BY <1>1, Kinds DEF PlainTypes
    <1>3. a.type \in FloatTypes => a.type \notin IntegerTypes
        BY DEF FloatTypes, IntegerTypes
    <1>4. CASE a.type \in FloatTypes \cup IntegerTypes /\ InRange(a.type, v)
        <2>1. r = AppendValid([a EXCEPT !.buf1 = Append(@, v)])
            BY <1>2, <1>4, Zenon DEF AppendInteger
        <2>2. read = v
            BY <1>2, <1>4
        <2>3. Keeps(AppendValid([a EXCEPT !.buf1 = Append(@, v)]), a, l, <<<<v>>>>)
            BY <1>2, <1>4, NumberStep, Zenon
        <2> HIDE DEF r, read
        <2> QED
            BY <2>1, <2>2, <2>3 DEF r, read
    <1>5. CASE a.type = "bool"
        <2>1. a.type \notin FloatTypes \cup IntegerTypes
            BY <1>2, <1>5
        <2>2. r = AppendValid(AppendBits(a, v # 0, 1))
            BY <1>5, <2>1, Zenon DEF AppendInteger
        <2>3. /\ (v # 0) \in BOOLEAN /\ read \in Int
              /\ read = IF v # 0 THEN 1 ELSE 0
            BY <1>5
        <2> HIDE DEF read, r
        <2>4. Keeps(AppendValid(AppendBits(a, v # 0, 1)), a, l, <<<<read>>>>)
            BY <1>5, <2>3, BooleanStep, Zenon
        <2> QED
            BY <2>2, <2>4 DEF r, read
    <1>6. CASE /\ ~(a.type \in FloatTypes \cup IntegerTypes /\ InRange(a.type, v))
               /\ a.type # "bool"
        <2>1. r = Error("EINVAL", a)
            BY <1>6, Zenon DEF AppendInteger
        <2> HIDE DEF r
        <2>2. r.rc # "OK" /\ r.array = a
            BY <2>1 DEF Error
        <2> QED
            BY <2>2 DEF Keeps, r
    <1> QED
        BY <1>4, <1>5, <1>6

\* The calls that append a number of another kind.
LEMMA NumberCalls ==
    ASSUME NEW a, NEW l, Holds(a, l), NEW v \in Int, NEW n_words, NEW type
    PROVE  /\ Keeps(ArrowArrayAppendDouble(a, v), a, l, <<<<v>>>>)
           /\ Keeps(ArrowArrayAppendDecimal(a, n_words, v), a, l, <<<<v>>>>)
           /\ Keeps(ArrowArrayAppendInterval(a, type, v), a, l, <<<<v>>>>)
    <1> DEFINE ok == AppendValid([a EXCEPT !.buf1 = Append(@, v)])
               no == Error("EINVAL", a)
    <1>1. a.type \in PlainTypes => Keeps(ok, a, l, <<<<v>>>>)
        BY NumberStep, Zenon
    <1>2. Keeps(no, a, l, <<<<v>>>>)
        BY DEF Error, Keeps
    <1>3. \/ a.type \in PlainTypes /\ ArrowArrayAppendDouble(a, v) = ok
          \/ ArrowArrayAppendDouble(a, v) = no
        BY Zenon DEF ArrowArrayAppendDouble, PlainTypes
    <1>4. \/ a.type \in PlainTypes /\ ArrowArrayAppendDecimal(a, n_words, v) = ok
          \/ ArrowArrayAppendDecimal(a, n_words, v) = no
        <2> DEFINE words == [decimal32 |-> 0, decimal64 |-> 1, decimal128 |-> 2,
                             decimal256 |-> 4]
        <2>1. DOMAIN words = DecimalTypes
            BY DEF DecimalTypes
        <2>2. ArrowArrayAppendDecimal(a, n_words, v) =
                IF a.type \in DOMAIN words /\ n_words = words[a.type] THEN ok ELSE no
            BY DEF ArrowArrayAppendDecimal
        <2> HIDE DEF words, ok, no
        <2> QED
            BY <2>1, <2>2 DEF PlainTypes
    <1>5. \/ a.type \in PlainTypes /\ ArrowArrayAppendInterval(a, type, v) = ok
          \/ ArrowArrayAppendInterval(a, type, v) = no
        BY Zenon DEF ArrowArrayAppendInterval, PlainTypes
    <1> HIDE DEF ok, no
    <1> QED
        BY <1>1, <1>2, <1>3, <1>4, <1>5

\* ArrowArrayAppendBytes and ArrowArrayAppendString.
LEMMA BytesCalls ==
    ASSUME NEW a, NEW l, Holds(a, l), NEW s \in Seq(Nat)
    PROVE  /\ Keeps(ArrowArrayAppendBytes(a, s), a, l, <<<<s>>>>)
           /\ Keeps(ArrowArrayAppendString(a, s), a, l, <<<<s>>>>)
    <1> DEFINE r == ArrowArrayAppendBytes(a, s)
               n == Len(s)
               last == a.buf1[a.length + 1]
    <1>1. a.type \in LeafTypes
        BY DEF Holds
    <1>2. /\ a.type \in StringTypes => a.type \notin ViewTypes /\ a.type # "fixed_size_binary"
          /\ a.type \in ViewTypes => a.type \notin StringTypes /\ a.type # "fixed_size_binary"
        BY <1>1, Kinds
    <1>3. \A rc : rc # "OK" => Keeps(Error(rc, a), a, l, <<<<s>>>>)
        BY DEF Error, Keeps
    <1>4. Keeps(r, a, l, <<<<s>>>>)
        <2>1. CASE a.type \in ViewTypes
            <3>1. r = AppendValid(AppendView(a, s))
                BY <1>2, <2>1, Zenon DEF ArrowArrayAppendBytes
            <3> HIDE DEF r
            <3> QED
                BY <2>1, <3>1, ViewStep, Zenon
        <2>2. CASE a.type \in StringTypes
            <3>1. CASE a.type \in Offsets32 /\ last + n > Int32Max
                <4>1. r = Error("EOVERFLOW", a)
                    BY <1>2, <2>2, <3>1, Zenon DEF ArrowArrayAppendBytes
                <4> HIDE DEF r
                <4> QED
                    BY <1>3, <4>1
            <3>2. CASE ~(a.type \in Offsets32 /\ last + n > Int32Max)
                <4>1. r = AppendValid([a EXCEPT !.buf1 = Append(@, last + n),
                                                !.buf2 = @ \o s])
                    BY <1>2, <2>2, <3>2, Zenon DEF ArrowArrayAppendBytes
                <4> HIDE DEF r
                <4> QED
                    BY <2>2, <3>2, <4>1, TextStep, Zenon
            <3> QED
                BY <3>1, <3>2
        <2>3. CASE a.type = "fixed_size_binary" /\ n * 8 = a.layout.bits[2]
            <3>1. r = AppendValid([a EXCEPT !.buf1 = @ \o s])
                BY <1>2, <2>3, Zenon DEF ArrowArrayAppendBytes
            <3> HIDE DEF r
            <3> QED
                BY <2>3, <3>1, FixedStep, Zenon
        <2>4. CASE /\ a.type \notin ViewTypes /\ a.type \notin StringTypes
                   /\ ~(a.type = "fixed_size_binary" /\ n * 8 = a.layout.bits[2])
            <3>1. r = Error("EINVAL", a)
                BY <2>4, Zenon DEF ArrowArrayAppendBytes
            <3> HIDE DEF r
            <3> QED
                BY <1>3, <3>1
        <2> HIDE DEF r, n, last
        <2> QED
            BY <2>1, <2>2, <2>3, <2>4
    <1>5. \/ ArrowArrayAppendString(a, s) = r
          \/ ArrowArrayAppendString(a, s) = Error("EINVAL", a)
        BY Zenon DEF ArrowArrayAppendString
    <1> HIDE DEF r
    <1> QED
        BY <1>3, <1>4, <1>5 DEF r

\* A new array holds nothing.
LEMMA InitHolds == Init => LeafInv
    <1> SUFFICES ASSUME Init PROVE LeafInv
        OBVIOUS
    <1>1. PICK type \in Types, size \in Sizes, junk \in Junk :
            array = StartAppending(NewNode([storage |-> type,
                                            layout |-> LayoutOf(type, size),
                                            type_ids |-> <<>>], junk))
        BY Zenon DEF Init
    <1>2. type \in LeafTypes /\ size \in Nat \ {0} /\ junk \in SUBSET Byte
        BY LeafBuilderAssumption
    <1> DEFINE layout == LayoutOf(type, size)
               first == IF layout.buffer[2] = "offset" THEN <<0>> ELSE <<>>
    <1>3. LayoutOK(type, layout)
        BY <1>2, LayoutOfLeaf
    <1> HIDE DEF layout
    <1>4. array = [type |-> type, layout |-> layout, length |-> 0, null_count |-> 0,
                   offset |-> 0, buf0 |-> <<>>, size_bits |-> 0, buf1 |-> first,
                   capacity |-> 0, overrun |-> FALSE,
                   buf2 |-> <<>>, variadic |-> <<>>, list_view_offset |-> 0,
                   type_ids |-> <<>>, junk |-> junk, id_is_index |-> TRUE,
                   children |-> <<>>, dictionary |-> <<>>]
        BY <1>1 DEF StartAppending, NewNode, layout
    <1>5. /\ Fields \subseteq DOMAIN array /\ array.type = type /\ array.layout = layout
          /\ array.length = 0 /\ array.null_count = 0 /\ array.offset = 0
          /\ array.buf0 = <<>> /\ array.size_bits = 0 /\ array.buf1 = first
          /\ array.buf2 = <<>> /\ array.variadic = <<>> /\ array.junk = junk
        BY <1>4 DEF Fields
    <1>6. /\ \A S : <<>> \in Seq(S)
          /\ Len(<<>>) = 0
        BY EmptySeq
    <1>7. log = <<>> /\ log \in Seq(Told) /\ Len(log) = 0
        BY <1>6 DEF Init
    <1>8. InStep(array)
        <2>1. BytesForBits(0) = 0
            BY BytesHoldBits
        <2>2. <<>> \in Buffers
            BY <1>6 DEF Buffers
        <2> QED
            BY <1>2, <1>5, <1>6, <2>1, <2>2 DEF InStep, BitmapOK, Fields
    <1>9. NullsOf(log) = {}
        BY <1>7 DEF NullsOf
    <1>10. DataOK(array, log)
        <2>1. type # "na" => layout.buffer[2] = IF type \in StringTypes THEN "offset"
                                                                        ELSE "data"
            BY <1>3 DEF LayoutOK
        <2>2. ASSUME type \notin StringTypes, type # "na"
              PROVE  first = <<>>
            BY <2>1, <2>2
        <2>3. CASE type \in PlainTypes
            <3>1. first = <<>>
                BY <1>2, <2>2, <2>3, Kinds
            <3>2. Plain(array.buf1, log)
                BY <1>5, <1>6, <1>7, <3>1 DEF Plain
            <3> QED
                BY <1>2, <1>5, <2>3, <3>2, DataOfKind
        <2>4. CASE type = "bool"
            <3>1. first = <<>>
                BY <1>2, <2>2, <2>4, Kinds
            <3>2. BytesForBits(0) \in Nat
                BY BytesHoldBits
            <3>3. Bools(array.buf1, log)
                BY <1>5, <1>6, <1>7, <3>1, <3>2 DEF Bools, Buffers
            <3> QED
                BY <1>2, <1>5, <2>4, <3>3, DataOfKind
        <2>5. CASE type = "fixed_size_binary"
            <3> DEFINE w == layout.bits[2] \div 8
            <3>1. first = <<>> /\ w \in Nat \ {0}
                BY <1>2, <1>3, <2>2, <2>5, Kinds DEF LayoutOK
            <3> HIDE DEF w
            <3>2. w * 0 = 0
                BY <3>1
            <3>3. Fixed(w, array.buf1, log)
                BY <1>5, <1>6, <1>7, <3>1, <3>2 DEF Fixed
            <3> QED
                BY <1>2, <1>5, <2>5, <3>3, DataOfKind DEF w
        <2>6. CASE type \in StringTypes
            <3>1. type # "na"
                BY <1>2, <2>6, Kinds
            <3>2. first = <<0>>
                BY <2>1, <2>6, <3>1
            <3>3. first \in Seq(Nat) /\ Len(first) = 1 /\ first[1] = 0
                BY <3>2
            <3> HIDE DEF first
            <3>4. 0 <= Int32Max
                BY ArrowLimitsAssumption
            <3>5. Texts(type, first, <<>>, log)
                BY <1>6, <1>7, <3>3, <3>4 DEF Texts
            <3> QED
                BY <1>2, <1>5, <2>6, <3>5, DataOfKind
        <2>7. CASE type \in ViewTypes
            <3>1. first = <<>>
                BY <1>2, <2>2, <2>7, Kinds
            <3>2. Views(array.buf1, array.variadic, log)
                BY <1>5, <1>6, <1>7, <3>1 DEF Views
            <3> QED
                BY <1>2, <1>5, <2>7, <3>2, DataOfKind
        <2>8. CASE type = "na"
            BY <1>2, <1>5, <2>8, DataOfKind
        <2> QED
            BY <1>2, <2>3, <2>4, <2>5, <2>6, <2>7, <2>8, Kinds
    <1>11. NullsAgree(array, log)
        BY <1>7 DEF NullsAgree
    <1>12. type = "na" => first = <<>>
        BY <1>3 DEF LayoutOK
    <1> QED
        BY <1>2, <1>3, <1>5, <1>7, <1>8, <1>9, <1>10, <1>11, <1>12, FS_EmptySet
        DEF LeafInv, Holds

\* A call that keeps the array, or adds what it was told to, keeps the invariant.
LEMMA CallKeeps ==
    ASSUME LeafInv, NEW STATE r, NEW STATE told, Keeps(r, array, log, told), Call(r, told)
    PROVE  LeafInv'
    <1>1. CASE r.rc = "OK"
        BY <1>1 DEF Keeps, Call, LeafInv
    <1>2. CASE r.rc # "OK"
        BY <1>2 DEF Keeps, Call, LeafInv
    <1> QED
        BY <1>1, <1>2

\* Every step keeps the invariant.
LEMMA StepHolds == LeafInv /\ [Next]_vars => LeafInv'
    <1> SUFFICES ASSUME LeafInv, [Next]_vars PROVE LeafInv'
        OBVIOUS
    <1> DEFINE a == array
    <1>1. Holds(array, log)
        BY DEF LeafInv
    <1>2. Ints \subseteq Int /\ Strings \subseteq Seq(Nat) /\ Counts \subseteq Nat
        BY LeafBuilderAssumption
    <1>3. ASSUME NEW n \in Counts, NEW is_valid \in BOOLEAN, AppendEmpty(n, is_valid)
          PROVE  LeafInv'
        <2> DEFINE e == IF is_valid /\ array.type # "na" THEN <<EmptyLeaf(array)>> ELSE Null
                   told == [k \in 1..n |-> e]
                   r == Ok(IF n = 0 THEN array ELSE AppendEmptyNode(array, n, is_valid))
        <2>1. Call(r, told)
            BY <1>3, Zenon DEF AppendEmpty
        <2>2. r.rc = "OK"
              /\ r.array = IF n = 0 THEN array ELSE AppendEmptyNode(array, n, is_valid)
            BY DEF Ok
        <2> HIDE DEF r, e
        <2>3. Holds(r.array, log \o told)
            <3>1. CASE n = 0
                <4>1. told = <<>>
                    BY <3>1
                <4>2. log \o <<>> = log
                    BY <1>1, ConcatEmptySeq DEF Holds
                <4> QED
                    BY <1>1, <2>2, <3>1, <4>1, <4>2
            <3>2. CASE n # 0
                <4>1. n \in Nat \ {0}
                    BY <1>2, <3>2
                <4> QED
                    BY <1>1, <2>2, <3>2, <4>1, EmptyStep DEF e
            <3> QED
                BY <3>1, <3>2
        <2> HIDE DEF told
        <2>4. Keeps(r, array, log, told)
            BY <2>2, <2>3 DEF Keeps
        <2> QED
            BY <2>1, <2>4, CallKeeps
    <1>4. ASSUME NEW v \in Ints, AppendInt(v)
          PROVE  LeafInv'
        <2> DEFINE told == <<<<IF array.type = "bool" /\ v # 0 THEN 1 ELSE v>>>>
                   r == AppendInteger(array, v)
        <2>1. Call(r, told)
            BY <1>4, Zenon DEF AppendInt
        <2>2. Keeps(r, array, log, told)
            BY <1>1, <1>2, IntegerCall
        <2> HIDE DEF r, told
        <2> QED
            BY <2>1, <2>2, CallKeeps
    <1>5. ASSUME NEW v \in Ints, NEW n_words, NEW type,
                 AppendDouble(v) \/ AppendDecimal(n_words, v) \/ AppendInterval(type, v)
          PROVE  LeafInv'
        <2>1. v \in Int
            BY <1>2
        <2>2. /\ Keeps(ArrowArrayAppendDouble(array, v), array, log, <<<<v>>>>)
              /\ Keeps(ArrowArrayAppendDecimal(array, n_words, v), array, log, <<<<v>>>>)
              /\ Keeps(ArrowArrayAppendInterval(array, type, v), array, log, <<<<v>>>>)
            BY <1>1, <2>1, NumberCalls
        <2> QED
            BY <1>5, <2>2, CallKeeps DEF AppendDouble, AppendDecimal, AppendInterval
    <1>6. ASSUME NEW s \in Strings, AppendBytes(s) \/ AppendString(s)
          PROVE  LeafInv'
        <2>1. s \in Seq(Nat)
            BY <1>2
        <2>2. /\ Keeps(ArrowArrayAppendBytes(array, s), array, log, <<<<s>>>>)
              /\ Keeps(ArrowArrayAppendString(array, s), array, log, <<<<s>>>>)
            BY <1>1, <2>1, BytesCalls
        <2> QED
            BY <1>6, <2>2, CallKeeps DEF AppendBytes, AppendString
    <1>7. CASE UNCHANGED vars
        BY <1>7 DEF vars, LeafInv
    <1> QED
        BY <1>3, <1>4, <1>5, <1>6, <1>7 DEF Next

\* In every state that can be reached the buffers of the array hold exactly what
\* it was told to hold, laid out as its type demands.
THEOREM LeafInductive == Spec => []LeafInv
    BY InitHolds, StepHolds, PTL DEF Spec

-----------------------------------------------------------------------------
(* What the invariant says to a reader and to the validator.               *)

\* Element p of an array that holds l, read from offset o on, is l[p].
LEMMA ReadsBack ==
    ASSUME NEW a, NEW l, Holds(a, l), ~ShortBits(a), NEW o \in 0 .. a.length,
           NEW i \in 1 .. a.length - o
    PROVE  LeafElement([a EXCEPT !.offset = o], i) = l[o + i]
    <1> DEFINE d == [a EXCEPT !.offset = o]
               k == Len(l)
               p == o + i
    <1>1. /\ l \in Seq(Told) /\ a.length = k /\ k \in Nat /\ a.type \in LeafTypes
          /\ Fields \subseteq DOMAIN a /\ NullsAgree(a, l) /\ DataOK(a, l)
        BY LenProperties DEF Holds
    <1>2. /\ d.type = a.type /\ d.layout = a.layout /\ d.offset = o
          /\ d.buf0 = a.buf0 /\ d.buf1 = a.buf1 /\ d.buf2 = a.buf2
          /\ d.variadic = a.variadic
        BY <1>1 DEF Fields
    <1>3. p \in 1..k /\ o \in Nat /\ i \in Nat /\ p \in Nat
        BY <1>1
    <1>4. ArrowArrayViewIsNull(d, i) <=> a.type = "na" \/ IsNull(a, p - 1)
        <2>1. a.type \notin UnionTypes
            BY <1>1, Kinds
        <2> HIDE DEF d
        <2>2. ArrowArrayViewIsNull(d, i) <=>
                a.type = "na" \/ (a.buf0 # <<>> /\ ArrowBitGet(a.buf0, p - 1) = 0)
            <3>1. CASE a.type = "na"
                BY <1>2, <2>1, <3>1, Zenon DEF ArrowArrayViewIsNull
            <3>2. CASE a.type # "na"
                BY <1>2, <2>1, <3>2 DEF ArrowArrayViewIsNull
            <3> QED
                BY <3>1, <3>2
        <2> QED
            BY <2>2 DEF IsNull
    <1>5. l[p] = Null <=> a.type = "na" \/ IsNull(a, p - 1)
        BY <1>1, <1>3 DEF NullsAgree
    <1> DEFINE bytes == a.type \in StringTypes \cup ViewTypes \cup {"fixed_size_binary"}
    <1>6. LeafElement(d, i) = IF ArrowArrayViewIsNull(d, i) THEN Null
                              ELSE IF bytes THEN <<ArrowArrayViewGetBytes(d, i)>>
                                            ELSE <<ArrowArrayViewGetInt(d, i)>>
        <2> HIDE DEF d
        <2> QED
            BY <1>2, Zenon DEF LeafElement
    <1> HIDE DEF d, k, p
    <1>7. CASE l[p] = Null
        <2>1. LeafElement(d, i) = l[p]
            BY <1>4, <1>5, <1>6, <1>7, Zenon
        <2> QED
            BY <2>1 DEF d, p
    <1>8. CASE l[p] # Null
        <2>1. /\ LeafElement(d, i) = IF bytes THEN <<ArrowArrayViewGetBytes(d, i)>>
                                              ELSE <<ArrowArrayViewGetInt(d, i)>>
              /\ a.type # "na"
            BY <1>4, <1>5, <1>6, <1>8, Zenon
        <2>2. p = d.offset + i
            BY <1>2 DEF p
        <2>3. CASE a.type \in PlainTypes
            <3>1. ~bytes /\ a.type # "bool"
                BY <1>1, <2>3, Kinds
            <3>2. l[p] = <<a.buf1[p]>>
                BY <1>1, <1>3, <1>8, <2>3 DEF DataOK, Plain, k
            <3>3. ArrowArrayViewGetInt(d, i) = a.buf1[p]
                BY <1>2, <2>2, <3>1 DEF ArrowArrayViewGetInt
            <3> HIDE DEF bytes
            <3> QED
                BY <2>1, <3>1, <3>2, <3>3 DEF d, p
        <2>4. CASE a.type = "bool"
            <3>1. ~bytes
                BY <1>1, <2>4, Kinds
            <3>2. /\ Bools(a.buf1, l) /\ a.buf1 \in Buffers
                  /\ l[p] = <<IF p - 1 < 8 * Len(a.buf1) THEN ArrowBitGet(a.buf1, p - 1)
                                                         ELSE 0>>
                BY <1>1, <1>3, <1>8, <2>4 DEF DataOK, Bools, k
            <3>3. p - 1 < 8 * Len(a.buf1)
                <4>1. Len(a.buf1) \in Nat
                    BY <3>2, LenProperties DEF Buffers
                <4>2. ~(Len(a.buf1) < BytesForBits(k))
                    BY <1>1, <2>4 DEF ShortBits
                <4>3. BytesForBits(k) \in Nat /\ k <= 8 * BytesForBits(k)
                    BY <1>1, BytesHoldBits
                <4> DEFINE x == Len(a.buf1)
                           y == BytesForBits(k)
                <4> HIDE DEF x, y
                <4>4. x \in Nat /\ y \in Nat /\ ~(x < y) /\ k <= 8 * y
                    BY <4>1, <4>2, <4>3 DEF x, y
                <4>5. p - 1 < 8 * x
                    BY <1>1, <1>3, <4>4
                <4> QED
                    BY <4>5 DEF x
            <3>4. ArrowArrayViewGetInt(d, i) = ArrowBitGet(a.buf1, p - 1)
                BY <1>2, <2>2, <2>4 DEF ArrowArrayViewGetInt
            <3> HIDE DEF bytes
            <3> QED
                BY <2>1, <3>1, <3>2, <3>3, <3>4 DEF d, p
        <2>5. CASE a.type \in StringTypes
            <3>1. bytes
                BY <2>5
            <3>2. l[p] = <<SubSeq(a.buf2, a.buf1[p] + 1, a.buf1[p + 1])>>
                BY <1>1, <1>3, <1>8, <2>5 DEF DataOK, Texts, k
            <3>3. a.type # "fixed_size_binary"
                BY <1>1, <2>5, Kinds
            <3>4. ArrowArrayViewGetBytes(d, i) = SubSeq(a.buf2, a.buf1[p] + 1, a.buf1[p + 1])
                BY <1>2, <2>2, <2>5, <3>3, Zenon DEF ArrowArrayViewGetBytes
            <3> HIDE DEF bytes
            <3> QED
                BY <2>1, <3>1, <3>2, <3>4 DEF d, p
        <2>6. CASE a.type = "fixed_size_binary"
            <3> DEFINE w == a.layout.bits[2] \div 8
            <3>1. bytes /\ a.type \notin StringTypes
                BY <1>1, <2>6, Kinds
            <3>2. l[p] = <<SubSeq(a.buf1, (p - 1) * w + 1, p * w)>>
                BY <1>1, <1>3, <1>8, <2>6 DEF DataOK, Fixed, k
            <3>3. ArrowArrayViewGetBytes(d, i) = SubSeq(a.buf1, (p - 1) * w + 1, p * w)
                BY <1>2, <2>2, <2>6, <3>1, Zenon DEF ArrowArrayViewGetBytes
            <3> HIDE DEF bytes
            <3> QED
                BY <2>1, <3>1, <3>2, <3>3 DEF d, p
        <2>7. CASE a.type \in ViewTypes
            <3>1. bytes /\ a.type \notin StringTypes /\ a.type # "fixed_size_binary"
                BY <1>1, <2>7, Kinds
            <3>2. l[p] = <<BytesOf(a.buf1[p], a.variadic)>>
                BY <1>1, <1>3, <1>8, <2>7, ViewsByEntry DEF DataOK, k
            <3>3. ArrowArrayViewGetBytes(d, i) = GetBytesFromView(d, p)
                BY <1>2, <2>2, <3>1, Zenon DEF ArrowArrayViewGetBytes
            <3>4. GetBytesFromView(d, p) = BytesOf(a.buf1[p], a.variadic)
                BY <1>2, Zenon DEF GetBytesFromView, BytesOf
            <3> HIDE DEF bytes
            <3> QED
                BY <2>1, <3>1, <3>2, <3>3, <3>4 DEF d, p
        <2> QED
            BY <1>1, <2>1, <2>3, <2>4, <2>5, <2>6, <2>7, Kinds
    <1> QED
        BY <1>7, <1>8

\* Whatever was appended, in whatever order, is read back from every offset, as
\* long as no bits were written behind the memory of a boolean buffer: for
\* arrays of any type and length, any limits and any calls.
THEOREM LeavesReadBack == Spec => []LeafReadsBack
    <1>1. LeafInv => LeafReadsBack
        <2> SUFFICES ASSUME LeafInv PROVE LeafReadsBack
            OBVIOUS
        <2>1. Holds(array, log) /\ array.length = Len(log)
            BY DEF LeafInv, Holds
        <2>2. array.null_count = Cardinality({i \in 1..Len(log) : log[i] = Null})
            BY DEF LeafInv, Holds, NullsOf
        <2>3. ASSUME ~ShortBits(array)
              PROVE  \A o \in 0..array.length : \A i \in 1 .. array.length - o :
                        LeafElement([array EXCEPT !.offset = o], i) = log[o + i]
            BY <2>1, <2>3, ReadsBack
        <2> QED
            BY <2>1, <2>2, <2>3 DEF LeafReadsBack
    <1> QED
        BY <1>1, LeafInductive, PTL

\* Whole elements of e bytes need no more than e bytes each.
LEMMA WholeBytes ==
    ASSUME NEW p \in Nat
    PROVE  BytesForBits(8 * p) = p
    <1>1. 8 * p \in Nat
        OBVIOUS
    <1> DEFINE n == 8 * p
    <1>2. BytesForBits(n) \in Nat /\ n <= 8 * BytesForBits(n)
          /\ 8 * BytesForBits(n) < n + 8
        BY <1>1, BytesHoldBits
    <1> QED
        BY <1>2

\* The bitmap is large enough for the elements.
LEMMA BitmapLargeEnough ==
    ASSUME NEW a, NEW l, Holds(a, l)
    PROVE  BufferBytes(a, 1) >= MinBytes(a, 1)
    <1> DEFINE n == a.offset + a.length
    <1>1. /\ l \in Seq(Told) /\ a.length = Len(l) /\ a.length \in Nat /\ a.offset = 0
          /\ LayoutOK(a.type, a.layout) /\ InStep(a) /\ BitmapOK(a)
          /\ NullsAgree(a, l) /\ a.null_count = Cardinality(NullsOf(l))
        BY LenProperties DEF Holds, InStep
    <1>2. /\ a.buf0 \in Buffers /\ Len(a.buf0) \in Nat
          /\ Len(a.buf0) = BytesForBits(a.size_bits)
        BY <1>1, LenProperties DEF BitmapOK, Buffers
    <1>3. a.layout.bits[1] <= 1
        BY <1>1 DEF LayoutOK
    <1>4. BufferBytes(a, 1) = Len(a.buf0)
        BY <1>3, 1 # 2 DEF BufferBytes
    <1>5. CASE a.type = "na"
        <2>1. a.layout.buffer[1] = "none"
            BY <1>1, <1>5 DEF LayoutOK
        <2>2. MinBytes(a, 1) = 0
            BY <2>1 DEF MinBytes
        <2> QED
            BY <1>2, <1>4, <2>2
    <1>6. CASE a.type # "na"
        <2>1. a.layout.buffer[1] = "validity"
            BY <1>1, <1>6 DEF LayoutOK
        <2>2. a.layout.buffer[1] # "offset" /\ a.layout.buffer[1] # "data"
              /\ a.layout.buffer[1] # "none"
            BY <2>1
        <2>3. MinBytes(a, 1) = IF a.null_count = 0 /\ BufferBytes(a, 1) = 0 THEN 0
                               ELSE BytesForBits(n)
            BY <2>1, <2>2, Zenon DEF MinBytes
        <2>4. CASE a.buf0 # <<>>
            <3>1. n = a.size_bits
                BY <1>1, <2>4 DEF InStep
            <3>2. MinBytes(a, 1) = 0 \/ MinBytes(a, 1) = Len(a.buf0)
                BY <1>2, <2>3, <3>1
            <3> QED
                BY <1>2, <1>4, <3>2
        <2>5. CASE a.buf0 = <<>>
            <3>1. NullsOf(l) = {}
                <4>1. \A i \in 1 .. Len(l) : l[i] # Null
                    BY <1>1, <1>6, <2>5 DEF NullsAgree, IsNull
                <4> QED
                    BY <4>1 DEF NullsOf
            <3>2. a.null_count = 0
                BY <1>1, <3>1, FS_EmptySet
            <3>3. BufferBytes(a, 1) = 0
                BY <1>4, <2>5, EmptySeq
            <3> QED
                BY <2>3, <3>2, <3>3
        <2> QED
            BY <2>4, <2>5
    <1> QED
        BY <1>5, <1>6

\* The buffer of the offsets or the elements is large enough for them.
LEMMA DataLargeEnough ==
    ASSUME NEW a, NEW l, Holds(a, l), ~ShortBits(a)
    PROVE  BufferBytes(a, 2) >= MinBytes(a, 2)
    <1> DEFINE k == Len(l)
               bits == a.layout.bits[2]
               size == Len(a.buf1)
               use == a.layout.buffer[2]
    <1>1. /\ l \in Seq(Told) /\ a.length = k /\ k \in Nat /\ a.offset = 0
          /\ a.offset + a.length = k
          /\ LayoutOK(a.type, a.layout) /\ a.type \in LeafTypes /\ DataOK(a, l)
        BY LenProperties DEF Holds
    <1>2. BufferBytes(a, 2) = IF bits <= 1 \/ a.type = "fixed_size_binary" THEN size
                              ELSE size * (bits \div 8)
        BY 2 # 1 DEF BufferBytes
    <1>3. /\ use = "data" => MinBytes(a, 2) = BytesForBits(bits * k)
          /\ use = "offset" => MinBytes(a, 2) = IF k = 0 THEN 0 ELSE (bits \div 8) * (k + 1)
          /\ use = "none" => MinBytes(a, 2) = 0
        <2>1. CASE use = "data"
            <3>1. use # "validity" /\ use # "offset" /\ use # "none"
                BY <2>1
            <3> QED
                BY <1>1, <2>1, <3>1, Zenon DEF MinBytes
        <2>2. CASE use = "offset"
            <3>1. use # "validity" /\ use # "data" /\ use # "none"
                BY <2>2
            <3> QED
                BY <1>1, <2>2, <3>1, Zenon DEF MinBytes
        <2>3. CASE use = "none"
            <3>1. use # "validity" /\ use # "data" /\ use # "offset"
                BY <2>3
            <3> QED
                BY <1>1, <2>3, <3>1, Zenon DEF MinBytes
        <2> QED
            BY <2>1, <2>2, <2>3
    <1>4. a.type # "na" => use = IF a.type \in StringTypes THEN "offset" ELSE "data"
        BY <1>1 DEF LayoutOK
    <1>5. ASSUME NEW w \in Nat \ {0}, bits = 8 * w, size = k, use = "data",
                 a.type # "fixed_size_binary"
          PROVE  BufferBytes(a, 2) >= MinBytes(a, 2)
        <2> HIDE DEF bits, size, use, k
        <2>1. ~(bits <= 1) /\ bits \div 8 = w
            BY <1>5
        <2>2. BufferBytes(a, 2) = k * w
            BY <1>2, <1>5, <2>1
        <2>3. bits * k = 8 * (k * w) /\ k * w \in Nat
            BY <1>1, <1>5
        <2>4. MinBytes(a, 2) = k * w
            BY <1>3, <1>5, <2>3, WholeBytes
        <2> QED
            BY <2>2, <2>3, <2>4
    <1>6. CASE a.type \in PlainTypes
        <2>1. bits \in {8, 16, 32, 64, 128, 256} /\ size = k
            BY <1>1, <1>6 DEF LayoutOK, DataOK, Plain
        <2>2. use = "data" /\ a.type # "fixed_size_binary"
            BY <1>1, <1>4, <1>6, Kinds
        <2>3. \E w \in {1, 2, 4, 8, 16, 32} : bits = 8 * w
            <3> HIDE DEF bits
            <3> QED
                BY <2>1
        <2> HIDE DEF bits, size, use, k
        <2> QED
            BY <1>5, <2>1, <2>2, <2>3
    <1>7. CASE a.type \in ViewTypes
        <2>1. bits = 8 * 16 /\ size = k
            BY <1>1, <1>7 DEF LayoutOK, DataOK, Views
        <2>2. use = "data" /\ a.type # "fixed_size_binary"
            BY <1>1, <1>4, <1>7, Kinds
        <2> HIDE DEF bits, size, use, k
        <2> QED
            BY <1>5, <2>1, <2>2
    <1>8. CASE a.type = "bool"
        <2>1. bits = 1 /\ a.buf1 \in Buffers
            BY <1>1, <1>8 DEF LayoutOK, DataOK, Bools
        <2>2. use = "data"
            BY <1>1, <1>4, <1>8, Kinds
        <2>3. ~(size < BytesForBits(k)) /\ size \in Nat
            BY <1>1, <1>8, <2>1, LenProperties DEF ShortBits, Buffers
        <2> HIDE DEF bits, size, use, k
        <2>4. BufferBytes(a, 2) = size
            BY <1>2, <2>1
        <2>5. MinBytes(a, 2) = BytesForBits(k) /\ BytesForBits(k) \in Nat
            <3>1. bits * k = k
                BY <1>1, <2>1
            <3> QED
                BY <1>1, <1>3, <2>2, <3>1, BytesHoldBits
        <2> QED
            BY <2>3, <2>4, <2>5
    <1>9. CASE a.type = "fixed_size_binary"
        <2> DEFINE w == bits \div 8
        <2>1. w \in Nat /\ bits = 8 * w /\ size = w * k
            BY <1>1, <1>9 DEF LayoutOK, DataOK, Fixed
        <2>2. use = "data"
            BY <1>1, <1>4, <1>9, Kinds
        <2> HIDE DEF bits, size, use, k, w
        <2>3. BufferBytes(a, 2) = size
            BY <1>2, <1>9
        <2>4. bits * k = 8 * (w * k) /\ w * k \in Nat
            BY <1>1, <2>1
        <2>5. MinBytes(a, 2) = w * k
            BY <1>3, <2>2, <2>4, WholeBytes
        <2> QED
            BY <2>1, <2>3, <2>4, <2>5
    <1>10. CASE a.type \in StringTypes
        <2>1. bits \in {32, 64} /\ size = k + 1
            BY <1>1, <1>10 DEF LayoutOK, DataOK, Texts
        <2>2. use = "offset" /\ a.type # "fixed_size_binary"
            BY <1>1, <1>4, <1>10, Kinds
        <2> DEFINE w == bits \div 8
        <2> HIDE DEF bits, size, use, k
        <2>3. ~(bits <= 1) /\ w \in {4, 8}
            BY <2>1
        <2> HIDE DEF w
        <2>4. BufferBytes(a, 2) = size * w
            BY <1>2, <2>2, <2>3 DEF w
        <2>5. MinBytes(a, 2) = 0 \/ MinBytes(a, 2) = w * (k + 1)
            BY <1>3, <2>2 DEF w
        <2>6. size * w = w * (k + 1) /\ size * w \in Nat
            BY <1>1, <2>1, <2>3
        <2> QED
            BY <2>4, <2>5, <2>6
    <1>11. CASE a.type = "na"
        <2>1. use = "none" /\ bits = 0 /\ size = 0
            BY <1>1, <1>11, EmptySeq DEF LayoutOK, Holds
        <2> HIDE DEF bits, size, use, k
        <2>2. MinBytes(a, 2) = 0 /\ BufferBytes(a, 2) = size
            BY <1>2, <1>3, <2>1
        <2> QED
            BY <2>1, <2>2
    <1> QED
        BY <1>1, <1>6, <1>7, <1>8, <1>9, <1>10, <1>11, Kinds

\* The offsets ascend, lead into the data and stay within their limit.
LEMMA OffsetsValid ==
    ASSUME NEW a, NEW l, Holds(a, l)
    PROVE  /\ OffsetsLeadInto(a, BufferBytes(a, 3)) /\ OffsetsAscend(a)
           /\ a.type \in Offsets32 => \A i \in DOMAIN a.buf1 : a.buf1[i] <= Int32Max
    <1> DEFINE k == Len(l)
    <1>1. /\ l \in Seq(Told) /\ a.length = k /\ k \in Nat /\ a.offset = 0
          /\ LayoutOK(a.type, a.layout) /\ a.type \in LeafTypes /\ DataOK(a, l)
        BY LenProperties DEF Holds
    <1>2. BufferBytes(a, 3) = Len(a.buf2)
        <2>1. a.layout.bits[3] <= 1
            BY <1>1 DEF LayoutOK
        <2> QED
            BY <2>1, 3 # 1, 3 # 2 DEF BufferBytes
    <1>3. a.type \in Offsets32 => a.type \in StringTypes
        BY <1>1 DEF Offsets32, LeafTypes, IntegerTypes, FloatTypes, DecimalTypes,
                    IntervalTypes, StringTypes, ViewTypes
    <1>4. CASE a.type \notin StringTypes
        <2>1. a.layout.buffer[2] # "offset"
            BY <1>1, <1>4 DEF LayoutOK
        <2> QED
            BY <1>3, <1>4, <2>1, Zenon DEF OffsetsLeadInto, OffsetsAscend
    <1>5. CASE a.type \in StringTypes
        <2> DEFINE b1 == a.buf1
                   end == Len(a.buf2)
        <2>1. /\ b1 \in Seq(Nat) /\ Len(b1) = k + 1 /\ b1[k + 1] = end /\ end \in Nat
              /\ \A i \in 1 .. k : b1[i] <= b1[i + 1]
              /\ \A i \in 1 .. k + 1 : b1[i] <= end
              /\ (a.type \in Offsets32 => end <= Int32Max)
            BY <1>1, <1>5, LenProperties DEF DataOK, Texts
        <2>2. /\ DOMAIN b1 = 1 .. k + 1
              /\ \A i \in 1 .. k + 1 : b1[i] \in Nat
            BY <2>1, LenProperties, ElementOfSeq
        <2>3. /\ a.offset + 1 = 1 /\ a.offset + a.length = k
              /\ a.offset + a.length + 1 = k + 1
              /\ 1 \in 1 .. k + 1 /\ k + 1 \in 1 .. k + 1
            BY <1>1
        <2> HIDE DEF k, b1, end
        <2>4. b1[1] >= 0 /\ b1[k + 1] >= 0 /\ end >= b1[k + 1]
            BY <2>1, <2>2, <2>3
        <2>5. OffsetsLeadInto(a, end)
            BY <2>3, <2>4, Zenon DEF OffsetsLeadInto, b1
        <2>6. OffsetsAscend(a)
            BY <2>1, <2>3, Zenon DEF OffsetsAscend, b1
        <2>7. ASSUME a.type \in Offsets32, NEW i \in DOMAIN b1
              PROVE  b1[i] <= Int32Max
            <3>1. i \in 1 .. k + 1 /\ b1[i] \in Nat /\ b1[i] <= end
                BY <2>1, <2>2
            <3> DEFINE x == b1[i]
            <3> HIDE DEF x
            <3>2. x \in Nat /\ x <= end /\ end <= Int32Max /\ Int32Max \in Nat
                BY <2>1, <2>7, <3>1, ArrowLimitsAssumption DEF x
            <3>3. x <= Int32Max
                BY <2>1, <3>2
            <3> QED
                BY <3>3 DEF x
        <2> QED
            BY <1>2, <2>5, <2>6, <2>7 DEF b1, end
    <1> QED
        BY <1>4, <1>5

\* An array built by the appends passes every test of ArrowArrayFinishBuilding,
\* unless a boolean buffer is short or was written past: for arrays of any type
\* and length, any limits and any calls.
THEOREM LeavesAreValid == Spec => []LeafIsValid
    <1>1. LeafInv => LeafIsValid
        <2> SUFFICES ASSUME LeafInv PROVE LeafIsValid
            OBVIOUS
        <2>1. Holds(array, log)
            BY DEF LeafInv
        <2>2. ~ShortBits(array) => BuffersLargeEnough(array)
            <3>1. \A i \in 1..2 : i = 1 \/ i = 2
                OBVIOUS
            <3> QED
                BY <2>1, <3>1, BitmapLargeEnough, DataLargeEnough DEF BuffersLargeEnough
        <2>3. /\ OffsetsLeadInto(array, BufferBytes(array, 3)) /\ OffsetsAscend(array)
              /\ array.type \in Offsets32 =>
                    \A i \in DOMAIN array.buf1 : array.buf1[i] <= Int32Max
            BY <2>1, OffsetsValid, Zenon
        <2> QED
            BY <2>2, <2>3, Zenon DEF LeafIsValid
    <1> QED
        BY <1>1, LeafInductive, PTL
=============================================================================
