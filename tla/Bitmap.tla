------------------------------- MODULE Bitmap -------------------------------
(***************************************************************************)
(* kernel/mem/bitmap.c.  A bitmap covers the indices                       *)
(* off .. off + 8 * size - 1; the bits that are 1 are kept as the set of   *)
(* their indices, so the split of an index into a byte and a bit of        *)
(* bitmap_test and bitmap_set is membership in that set.                   *)
(***************************************************************************)
EXTENDS Integers, FiniteSetsExt

CONSTANT ByteSize       \* bits in a byte of the buffer, 8 in the code

ASSUME ByteSizeAssumption == ByteSize \in Nat \ {0}

\* CEIL(n, m) of stdint.h, for n > 0.
Ceil(n, m) == ((n - 1) \div m) + 1

\* The indices a bitmap of `size' bytes starting at index `off' can hold;
\* the assertions of bitmap_test and bitmap_set stop the kernel outside.
BitmapBits(off, size) == off .. (off + size * ByteSize - 1)

\* What bitmap_scan returns when it finds nothing.
NotFound == -1

Run(start, cnt) == start .. (start + cnt - 1)

\* The starts of the runs of cnt bits that are all 0.
FreeRuns(bits, ones, cnt) ==
    {s \in bits : Run(s, cnt) \subseteq bits \ ones}

-----------------------------------------------------------------------------
\* bitmap_scan: the first run of cnt zero bits.  BitmapScan.tla models the
\* loop and shows that this is what it computes.  Asked for no bits at all,
\* the loop only meets count = cnt once a 1 has reset count, and so returns
\* the index after the first 1.
bitmap_scan(bits, ones, cnt) ==
    IF cnt = 0
    THEN IF bits \cap ones = {} THEN NotFound ELSE Min(bits \cap ones) + 1
    ELSE IF FreeRuns(bits, ones, cnt) = {}
         THEN NotFound ELSE Min(FreeRuns(bits, ones, cnt))
=============================================================================
