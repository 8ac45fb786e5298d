----------------------------- MODULE BitmapScan -----------------------------
(***************************************************************************)
(* The loop of bitmap_scan (kernel/mem/bitmap.c), one iteration per step,  *)
(* against the definition of its result that the allocators use            *)
(* (bitmap_scan of module Bitmap).                                         *)
(***************************************************************************)
EXTENDS Bitmap

CONSTANTS Off, Size,    \* bitmap->off and bitmap->size
          MaxCnt        \* largest number of bits asked for

ASSUME ScanAssumption == Off \in Nat /\ Size \in Nat /\ MaxCnt \in Nat

VARIABLES ones,         \* the bitmap, which the scan only reads
          cnt,          \* the argument
          start, count, next_bit,
          pc            \* "scan" in the loop, "done" after it

scanVars == <<ones, cnt, start, count, next_bit, pc>>

Bits == BitmapBits(Off, Size)

ScanTyped ==
    /\ ones \subseteq Bits
    /\ cnt \in 0..MaxCnt
    /\ start \in Bits \cup {NotFound, Off + Size * ByteSize}
    /\ count \in 0..next_bit
    /\ next_bit \in 0..(Size * ByteSize)
    /\ pc \in {"scan", "done"}

ScanInit ==
    /\ ones \in SUBSET Bits
    /\ cnt \in 0..MaxCnt
    /\ start = NotFound
    /\ count = 0
    /\ next_bit = 0
    /\ pc = "scan"

\* The loop without the reset of count at a 1.
Faulty_ScanBit_NoReset ==
    /\ pc = "scan"
    /\ next_bit < Size * ByteSize
    /\ next_bit' = next_bit + 1
    /\ count' = IF Off + next_bit \in ones THEN count ELSE count + 1
    /\ IF count' = cnt
       THEN start' = Off + next_bit' - cnt /\ pc' = "done"
       ELSE UNCHANGED <<start, pc>>
    /\ UNCHANGED <<ones, cnt>>

\* A 1 that goes back to the loop before next_bit is counted on.
Faulty_ScanBit_Stuck ==
    /\ pc = "scan"
    /\ next_bit < Size * ByteSize
    /\ IF Off + next_bit \in ones
       THEN count' = 0 /\ UNCHANGED <<next_bit, start, pc>>
       ELSE /\ next_bit' = next_bit + 1
            /\ count' = count + 1
            /\ IF count' = cnt
               THEN start' = Off + next_bit' - cnt /\ pc' = "done"
               ELSE UNCHANGED <<start, pc>>
    /\ UNCHANGED <<ones, cnt>>

\* One iteration; bits-- > 0 holds as long as next_bit is in the bitmap.
ScanBit ==
    /\ pc = "scan"
    /\ next_bit < Size * ByteSize
    /\ next_bit' = next_bit + 1
    /\ count' = IF Off + next_bit \in ones THEN 0 ELSE count + 1
    /\ IF count' = cnt
       THEN start' = Off + next_bit' - cnt /\ pc' = "done"
       ELSE UNCHANGED <<start, pc>>
    /\ UNCHANGED <<ones, cnt>>

\* The loop runs out of bits: start is still -1.
ScanEnds ==
    /\ pc = "scan"
    /\ next_bit = Size * ByteSize
    /\ pc' = "done"
    /\ UNCHANGED <<ones, cnt, start, count, next_bit>>

ScanNext == ScanBit \/ ScanEnds

ScanSpec == ScanInit /\ [][ScanNext]_scanVars
-----------------------------------------------------------------------------
\* Between two iterations count is the length of the run of 0s that ends just
\* before next_bit, and no run that is long enough has been passed over.
LoopInv ==
    /\ \A i \in 1..count : Off + next_bit - i \notin ones
    /\ count < next_bit => Off + next_bit - count - 1 \in ones
    /\ pc = "scan" =>
         /\ start = NotFound
         /\ IF cnt = 0
            THEN count = next_bit
            ELSE /\ count < cnt
                 /\ \A s \in FreeRuns(Bits, ones, cnt) : s + cnt > Off + next_bit

\* bitmap_scan returns the first run of cnt clear bits, and -1 exactly when
\* there is none (bitmap.c:46-72).
ScanCorrect == pc = "done" => start = bitmap_scan(Bits, ones, cnt)
=============================================================================
