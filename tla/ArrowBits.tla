------------------------------ MODULE ArrowBits ------------------------------
(***************************************************************************)
(* Bit-packed buffers of the vendored nanoarrow library: the loops over    *)
(* whole bytes and masks with which ranges of bits are set, read and       *)
(* counted (adbc_nanoarrow.h), and the two buffers of an array that are    *)
(* made of them, the validity bitmap and the data of a boolean array.      *)
(*                                                                         *)
(* A byte is the set of its bits that are 1; what realloc leaves in a      *)
(* fresh byte is the node's junk.                                          *)
(***************************************************************************)
EXTENDS Integers, Sequences, FiniteSetsExt

Byte == 0..7

\* _ArrowBytesForBits, and _ArrowRoundUpToMultipleOf8(bits) / 8
BytesForBits(bits) == (bits + 7) \div 8

PrecedingBitmask(k) == 0..(k - 1)
TrailingBitmask(k) == k..7

\* The bits of byte b that stay when those of start..end-1 are set.
KeptBits(b, start, end) ==
    LET first == start \div 8
        last  == end \div 8
        pre   == PrecedingBitmask(start % 8)
        post  == TrailingBitmask(end % 8)
    IN  CASE b = first /\ first = last -> pre \cup post
          [] b = first /\ first # last -> pre
          [] b \in first + 1 .. last - 1 -> {}
          [] b = last /\ first # last /\ end % 8 # 0 -> post
          [] OTHER -> Byte

\* The bytes of the range that are in the buffer; AppendBits, the one caller
\* whose range may lead out of it, accounts for the others.
BitsSetToForgettingHead(bits, start, length, on) ==
    LET end  == start + length
        fill == IF on THEN Byte ELSE {}
        post == TrailingBitmask(end % 8)
    IN  [k \in DOMAIN bits |->
            CASE length > 0 /\ k - 1 \in start \div 8 .. end \div 8 - 1 -> fill
              [] length > 0 /\ k - 1 = end \div 8 ->
                    (bits[k] \cap post) \cup (fill \ post)
              [] OTHER -> bits[k]]
ArrowBitsSetTo(bits, start, length, on) ==
    LET fill    == IF on THEN Byte ELSE {}
        kept(k) == KeptBits(k - 1, start, start + length)
    IN  IF length = 0 THEN bits
        ELSE [k \in DOMAIN bits |-> (bits[k] \cap kept(k)) \cup (fill \ kept(k))]

ArrowBitGet(bits, i) == IF i % 8 \in bits[i \div 8 + 1] THEN 1 ELSE 0

ArrowBitCountSet(bits, start, length) ==
    LET end == start + length
        first == start \div 8
        last  == (end - 1) \div 8
        tail  == IF end % 8 = 0 THEN Byte ELSE PrecedingBitmask(end % 8)
        head  == TrailingBitmask(start % 8)
        count(k) == Cardinality(bits[k + 1] \cap
                        CASE k = first /\ k = last -> head \cap tail
                          [] k = first /\ k # last -> head
                          [] k = last /\ k # first -> tail
                          [] OTHER -> Byte)
    IN  IF length = 0 THEN 0
        ELSE FoldSet(LAMBDA k, sum : sum + count(k), 0, first..last)

-----------------------------------------------------------------------------
(* The bitmap and the booleans of a node a of an array.                    *)

\* A buffer with room for need bytes; the new ones are all the same.
Resized(bits, need, byte) == bits \o [k \in 1 .. need - Len(bits) |-> byte]

ArrowBitmapAppend(a, on, n) ==
    LET size == a.size_bits + n
        room == Resized(a.buf0, BytesForBits(size), a.junk)
    IN  [a EXCEPT !.buf0 = ArrowBitsSetTo(room, a.size_bits, n, on),
                  !.size_bits = size]

\* ArrowBufferReserve with _ArrowGrowByFactor: the capacity at least doubles.
GrownCapacity(capacity, need) ==
    IF need <= capacity THEN capacity
    ELSE IF 2 * capacity > need THEN 2 * capacity ELSE need

\* The bit-packed data of a boolean array; on is what n elements are set to.
\* The buffer is made to hold one more element, whatever n is.  What is
\* written behind its size but within its capacity is lost, for the next byte
\* is zeroed before it counts; what is written behind the capacity overwrites
\* memory that is not the buffer's, and overrun records it for good.
AppendBits(a, on, n) ==
    LET need == BytesForBits(a.length + 1)
        room == Resized(a.buf1, need, {})
        capacity == GrownCapacity(a.capacity, need)
    IN  [a EXCEPT !.buf1 = ArrowBitsSetTo(room, a.length, n, on),
                  !.capacity = capacity,
                  !.overrun = @ \/ BytesForBits(a.length + n) > capacity]

\* The bitmap appears with the first null.
FillValidity(a, n, is_valid) ==
    CASE a.buf0 # <<>> -> ArrowBitmapAppend(a, is_valid, n)
      [] a.buf0 = <<>> /\ ~is_valid ->
            ArrowBitmapAppend(ArrowBitmapAppend(a, TRUE, a.length), FALSE, n)
      [] OTHER -> a

=============================================================================
