--------------------------- MODULE LibraryProofs ----------------------------
(***************************************************************************)
(* The parts the others are built on, for all inputs: bitmap_scan returns  *)
(* the first run of clear bits, and the functions of string.c do what the  *)
(* C library's do.                                                         *)
(***************************************************************************)
EXTENDS BitmapScan, Strings, SequenceTheorems, WellFoundedInduction, TLAPS

\* The least element of a set of numbers is any element no larger than the
\* others.
LEMMA MinIs ==
    ASSUME NEW S \in SUBSET Int, NEW x \in S, \A y \in S : x <= y
    PROVE  Min(S) = x
PROOF
  <1>1. \E z \in S : \A y \in S : z =< y
    OBVIOUS
  <1>2. /\ Min(S) \in S
        /\ \A y \in S : Min(S) =< y
    BY <1>1 DEF Min
  <1>3. Min(S) \in Int /\ x \in Int /\ x <= Min(S) /\ Min(S) <= x
    BY <1>2
  <1>. QED  BY <1>3

\* And the greatest one is any element no smaller.
LEMMA MaxIs ==
    ASSUME NEW S \in SUBSET Int, NEW x \in S, \A y \in S : x >= y
    PROVE  Max(S) = x
PROOF
  <1>1. \E z \in S : \A y \in S : z >= y
    OBVIOUS
  <1>2. /\ Max(S) \in S
        /\ \A y \in S : Max(S) >= y
    BY <1>1 DEF Max
  <1>3. Max(S) \in Int /\ x \in Int /\ x >= Max(S) /\ Max(S) >= x
    BY <1>2
  <1>. QED  BY <1>3

\* A set of numbers that is not empty has a least one.
LEMMA LeastElement ==
    ASSUME NEW S \in SUBSET Nat, S # {}
    PROVE  \E x \in S : \A y \in S : x <= y
PROOF
  <1>. DEFINE R == OpToRel(<, Nat)
  <1>1. IsWellFoundedOn(R, Nat)
    BY NatLessThanWellFounded
  <1>2. R = {ss \in Nat \X Nat : ss[1] < ss[2]}
    BY DEF OpToRel
  <1>. HIDE DEF R
  <1>3. PICK x \in S : \A y \in S : ~ (<<y, x>> \in R)
    BY <1>1, WFMin
  <1>4. ASSUME NEW y \in S PROVE x <= y
    <2>1. <<y, x>> \notin R /\ x \in Nat /\ y \in Nat
      BY <1>3
    <2>2. ~ (y < x)
      BY <1>2, <2>1
    <2>. QED  BY <2>1, <2>2
  <1>. QED  BY <1>4
-----------------------------------------------------------------------------
(* bitmap_scan. *)

LEMMA SizeFact == Size * ByteSize \in Nat
  BY ByteSizeAssumption, ScanAssumption

\* The variables of the scan keep their types.
THEOREM ScanTyping == ScanSpec => []ScanTyped
PROOF
  <1>1. ScanInit => ScanTyped
    BY SizeFact, ScanAssumption DEF ScanInit, ScanTyped
  <1>2. ScanTyped /\ [ScanNext]_scanVars => ScanTyped'
    <2>. SUFFICES ASSUME ScanTyped, [ScanNext]_scanVars
                  PROVE  ScanTyped'
      OBVIOUS
    <2>. DEFINE n == Size * ByteSize
    <2>0. n \in Nat
      BY SizeFact
    <2>1. CASE ScanBit
      <3>1. /\ count' \in 0..next_bit' /\ next_bit' \in 0..n
        BY <2>0, <2>1 DEF ScanBit, ScanTyped
      <3>2. start' \in Bits \cup {NotFound, Off + n}
        <4>1. CASE count' # cnt
          BY <2>1, <4>1 DEF ScanBit, ScanTyped
        <4>2. CASE count' = cnt
          <5>1. start' = Off + (next_bit' - cnt) /\ next_bit' - cnt \in 0..n
            BY <2>0, <2>1, <3>1, <4>2, ScanAssumption DEF ScanBit, ScanTyped
          <5>. QED
            BY <2>0, <5>1, ScanAssumption DEF Bits, BitmapBits
        <4>. QED  BY <4>1, <4>2
      <3>. QED
        BY <2>1, <3>1, <3>2 DEF ScanBit, ScanTyped
    <2>2. CASE ScanEnds
      BY <2>2 DEF ScanEnds, ScanTyped
    <2>3. CASE UNCHANGED scanVars
      BY <2>3 DEF scanVars, ScanTyped
    <2>. QED
      BY <2>1, <2>2, <2>3 DEF ScanNext
  <1>. QED
    BY <1>1, <1>2, PTL DEF ScanSpec

\* The loop invariant.
THEOREM ScanLoopInv == ScanSpec => []LoopInv
PROOF
  <1>. DEFINE n == Size * ByteSize
  <1>0. n \in Nat
    BY SizeFact
  <1>1. ScanInit => LoopInv
    <2>. SUFFICES ASSUME ScanInit PROVE LoopInv
      OBVIOUS
    <2>1. \A s \in FreeRuns(Bits, ones, cnt) : cnt # 0 => s + cnt > Off
      BY <1>0, ScanAssumption DEF FreeRuns, Bits, BitmapBits, ScanInit
    <2>. QED
      BY <2>1, ScanAssumption DEF LoopInv, ScanInit
  <1>2. LoopInv /\ ScanTyped /\ ScanTyped' /\ [ScanNext]_scanVars => LoopInv'
    <2>. SUFFICES ASSUME LoopInv, ScanTyped, ScanTyped', [ScanNext]_scanVars
                  PROVE  LoopInv'
      OBVIOUS
    <2>1. CASE ScanBit
      <3>1. (\A i \in 1..count : Off + next_bit - i \notin ones)'
        <4>1. CASE Off + next_bit \in ones
          BY <2>1, <4>1 DEF ScanBit
        <4>2. CASE Off + next_bit \notin ones
          <5>. SUFFICES ASSUME NEW i \in 1..(count + 1)
                        PROVE  Off + (next_bit + 1) - i \notin ones
            BY <2>1, <4>2 DEF ScanBit
          <5>1. CASE i = 1
            BY <4>2, <5>1, ScanAssumption DEF ScanTyped
          <5>2. CASE i # 1
            <6>1. i - 1 \in 1..count
              BY <5>2 DEF ScanTyped
            <6>2. Off + next_bit - (i - 1) = Off + (next_bit + 1) - i
              BY ScanAssumption DEF ScanTyped
            <6>. QED  BY <6>1, <6>2 DEF LoopInv
          <5>. QED  BY <5>1, <5>2
        <4>. QED  BY <4>1, <4>2
      <3>2. (count < next_bit => Off + next_bit - count - 1 \in ones)'
        <4>1. CASE Off + next_bit \in ones
          <5>1. Off + next_bit' - count' - 1 = Off + next_bit
            BY <2>1, <4>1, ScanAssumption DEF ScanBit, ScanTyped
          <5>. QED  BY <2>1, <4>1, <5>1 DEF ScanBit
        <4>2. CASE Off + next_bit \notin ones
          <5>1. Off + next_bit' - count' - 1 = Off + next_bit - count - 1
            BY <2>1, <4>2, ScanAssumption DEF ScanBit, ScanTyped
          <5>2. count' < next_bit' => count < next_bit
            BY <2>1, <4>2 DEF ScanBit, ScanTyped
          <5>. QED  BY <2>1, <5>1, <5>2 DEF ScanBit, LoopInv
        <4>. QED  BY <4>1, <4>2
      <3>3. ASSUME pc' = "scan", cnt = 0
            PROVE  count' = next_bit'
        BY <2>1, <3>3 DEF ScanBit, LoopInv, ScanTyped
      <3>4. ASSUME pc' = "scan", cnt # 0
            PROVE  /\ count' < cnt
                   /\ \A s \in FreeRuns(Bits, ones, cnt) :
                        s + cnt > Off + next_bit'
        <4>1. count < cnt /\ count' # cnt
          BY <2>1, <3>4 DEF ScanBit, LoopInv, ScanTyped
        <4>2. count' < cnt
          BY <2>1, <4>1, <3>4 DEF ScanBit, ScanTyped
        <4>3. ASSUME NEW s \in FreeRuns(Bits, ones, cnt),
                     s + cnt <= Off + next_bit'
              PROVE  FALSE
          <5>0. s \in Int /\ cnt \in Nat /\ count \in Nat /\ next_bit \in Nat
            BY <1>0, ScanAssumption DEF FreeRuns, Bits, BitmapBits, ScanTyped
          <5>1. s + cnt = Off + next_bit + 1
            <6>1. s + cnt > Off + next_bit
              BY <2>1, <3>4 DEF LoopInv, ScanBit
            <6>. QED
              BY <2>1, <4>3, <5>0, <6>1, ScanAssumption DEF ScanBit
          <5>2. Off + next_bit \in Run(s, cnt)
            BY <3>4, <5>0, <5>1, ScanAssumption DEF Run
          <5>3. Off + next_bit \notin ones
            BY <5>2 DEF FreeRuns
          <5>4. count' = count + 1 /\ count + 1 < cnt
            BY <2>1, <4>2, <5>3 DEF ScanBit
          <5>5. s \in Bits /\ Off <= s
            BY <1>0, ScanAssumption DEF FreeRuns, Bits, BitmapBits
          <5>6. count < next_bit
            BY <5>0, <5>1, <5>4, <5>5, ScanAssumption
          <5>7. Off + next_bit - count - 1 \in ones
            BY <5>6 DEF LoopInv
          <5>8. Off + next_bit - count - 1 \in Run(s, cnt)
            BY <5>0, <5>1, <5>4, ScanAssumption DEF Run
          <5>. QED
            BY <5>7, <5>8 DEF FreeRuns
        <4>4. \A s \in FreeRuns(Bits, ones, cnt) : s + cnt > Off + next_bit'
          <5>. SUFFICES ASSUME NEW s \in FreeRuns(Bits, ones, cnt)
                        PROVE  s + cnt > Off + next_bit'
            OBVIOUS
          <5>1. s \in Int /\ cnt \in Int /\ next_bit \in Int
            BY <1>0, ScanAssumption DEF FreeRuns, Bits, BitmapBits, ScanTyped
          <5>2. ~(s + cnt <= Off + (next_bit + 1))
            BY <2>1, <4>3 DEF ScanBit
          <5>3. s + cnt > Off + (next_bit + 1)
            BY <5>1, <5>2, ScanAssumption
          <5>. QED  BY <2>1, <5>3 DEF ScanBit
        <4>. QED  BY <4>2, <4>4
      <3>5. pc' = "scan" => start' = NotFound
        BY <2>1 DEF ScanBit, LoopInv
      <3>6. ones' = ones /\ cnt' = cnt
        BY <2>1 DEF ScanBit
      <3>. QED
        BY <3>1, <3>2, <3>3, <3>4, <3>5, <3>6 DEF LoopInv, Bits
    <2>2. CASE ScanEnds
      BY <2>2 DEF ScanEnds, LoopInv
    <2>3. CASE UNCHANGED scanVars
      BY <2>3 DEF scanVars, LoopInv
    <2>. QED
      BY <2>1, <2>2, <2>3 DEF ScanNext
  <1>3. ScanSpec => []ScanTyped
    BY ScanTyping
  <1>. QED
    BY <1>1, <1>2, <1>3, PTL DEF ScanSpec

\* What the loop returns is the first run of cnt clear bits, or -1 if there
\* is none: the result the allocators of mem.c build on.
THEOREM ScanReturnsFirstRun == ScanSpec => []ScanCorrect
PROOF
  <1>. DEFINE n == Size * ByteSize
              Runs == FreeRuns(Bits, ones, cnt)
              Set1 == Bits \cap ones
  <1>0. n \in Nat /\ Bits = Off..(Off + n - 1)
    BY SizeFact DEF Bits, BitmapBits
  <1>1. ScanInit => ScanCorrect
    BY DEF ScanInit, ScanCorrect
  <1>2. LoopInv /\ ScanTyped /\ ScanCorrect /\ [ScanNext]_scanVars => ScanCorrect'
    <2>. SUFFICES ASSUME LoopInv, ScanTyped, ScanCorrect, [ScanNext]_scanVars
                  PROVE  ScanCorrect'
      OBVIOUS
    <2>1. CASE ScanBit
      <3>. SUFFICES ASSUME count' = cnt
                    PROVE  start' = bitmap_scan(Bits, ones, cnt)
        BY <2>1 DEF ScanBit, ScanCorrect, Bits
      <3>1. start' = Off + (next_bit + 1) - cnt
        BY <2>1 DEF ScanBit
      <3>2. /\ next_bit \in 0..(n - 1) /\ count \in 0..next_bit
            /\ cnt \in Nat /\ Off \in Nat
        BY <1>0, <2>1, ScanAssumption DEF ScanBit, ScanTyped
      <3>3. CASE cnt = 0
        <4>0. count + 1 # 0
          BY <3>2
        <4>1. Off + next_bit \in ones
          BY <2>1, <3>3, <4>0 DEF ScanBit
        <4>2. count = next_bit
          BY <2>1, <3>3 DEF ScanBit, LoopInv
        <4>3. Off + next_bit \in Set1
          BY <1>0, <3>2, <4>1
        <4>4. ASSUME NEW b \in Set1, b < Off + next_bit
              PROVE  FALSE
          <5>1. b \in Int /\ Off <= b
            BY <1>0, <3>2
          <5>2. Off + next_bit - b \in 1..count
            BY <3>2, <4>2, <4>4, <5>1
          <5>3. Off + next_bit - (Off + next_bit - b) = b
            BY <3>2, <5>1
          <5>4. b \notin ones
            BY <5>2, <5>3 DEF LoopInv
          <5>. QED  BY <5>4
        <4>5. Set1 \in SUBSET Int
          BY <1>0, <3>2
        <4>6. \A b \in Set1 : Off + next_bit <= b
          <5>. SUFFICES ASSUME NEW b \in Set1
                        PROVE  Off + next_bit <= b
            OBVIOUS
          <5>1. b \in Int
            BY <4>5
          <5>2. ~(b < Off + next_bit)
            BY <4>4
          <5>. HIDE DEF Set1
          <5>. QED  BY <3>2, <5>1, <5>2
        <4>7. Min(Set1) = Off + next_bit
          <5>. HIDE DEF Set1
          <5>. QED  BY <4>3, <4>5, <4>6, MinIs
        <4>8. start' = Off + next_bit + 1
          BY <3>1, <3>2, <3>3
        <4>. QED
          BY <3>3, <4>3, <4>7, <4>8 DEF bitmap_scan
      <3>4. CASE cnt # 0
        <4>1. Off + next_bit \notin ones /\ cnt = count + 1
          BY <2>1, <3>2, <3>4 DEF ScanBit
        <4>2. start' \in Bits
          BY <1>0, <3>1, <3>2, <4>1
        <4>3. ASSUME NEW b \in Run(start', cnt)
              PROVE  b \in Bits \ ones
          <5>1. b \in Int /\ Off <= b /\ start' <= b /\ b <= Off + next_bit
            BY <1>0, <3>1, <3>2, <4>1, <4>2 DEF Run
          <5>2. b \in Bits
            BY <1>0, <3>2, <5>1
          <5>3. CASE b = Off + next_bit
            BY <4>1, <5>2, <5>3
          <5>4. CASE b # Off + next_bit
            <6>1. Off + next_bit - b \in 1..count
              BY <3>1, <3>2, <4>1, <5>1, <5>4
            <6>2. Off + next_bit - (Off + next_bit - b) = b
              BY <3>2, <5>1
            <6>3. b \notin ones
              BY <6>1, <6>2 DEF LoopInv
            <6>. QED  BY <5>2, <6>3
          <5>. QED  BY <5>3, <5>4
        <4>4. start' \in Runs
          BY <4>2, <4>3 DEF FreeRuns
        <4>5. Runs \in SUBSET Int
          BY <1>0, <3>2 DEF FreeRuns
        <4>6. \A s \in Runs : start' <= s
          <5>. SUFFICES ASSUME NEW s \in Runs
                        PROVE  start' <= s
            OBVIOUS
          <5>1. s \in Int
            BY <4>5
          <5>2. s + cnt > Off + next_bit
            BY <2>1, <3>4 DEF LoopInv, ScanBit
          <5>. HIDE DEF Runs
          <5>. QED  BY <3>1, <3>2, <5>1, <5>2
        <4>7. Min(Runs) = start'
          <5>. HIDE DEF Runs
          <5>. QED  BY <4>4, <4>5, <4>6, MinIs
        <4>. QED
          BY <3>4, <4>4, <4>7 DEF bitmap_scan
      <3>. QED  BY <3>3, <3>4
    <2>2. CASE ScanEnds
      <3>. SUFFICES start = bitmap_scan(Bits, ones, cnt)
        BY <2>2 DEF ScanEnds, ScanCorrect, Bits
      <3>1. start = NotFound /\ next_bit = n /\ Off \in Nat /\ cnt \in Nat
        BY <2>2, ScanAssumption DEF ScanEnds, LoopInv, ScanTyped
      <3>2. CASE cnt = 0
        <4>1. count = n
          BY <2>2, <3>1, <3>2 DEF ScanEnds, LoopInv
        <4>2. ASSUME NEW b \in Set1
              PROVE  FALSE
          <5>1. b \in Int /\ Off + n - b \in 1..count
            BY <1>0, <3>1, <4>1
          <5>2. Off + n - (Off + n - b) = b
            BY <1>0, <3>1, <5>1
          <5>. QED  BY <3>1, <5>1, <5>2 DEF LoopInv
        <4>. QED  BY <3>1, <3>2, <4>2 DEF bitmap_scan
      <3>3. CASE cnt # 0
        <4>1. ASSUME NEW s \in Runs
              PROVE  FALSE
          <5>1. s \in Int /\ s + cnt - 1 \in Run(s, cnt)
            BY <1>0, <3>1, <3>3 DEF FreeRuns, Run
          <5>2. s + cnt > Off + n
            BY <2>2, <3>1, <3>3 DEF LoopInv, ScanEnds
          <5>3. s + cnt - 1 \in Bits
            BY <5>1 DEF FreeRuns
          <5>. QED  BY <1>0, <3>1, <5>1, <5>2, <5>3
        <4>. QED  BY <3>1, <3>3, <4>1 DEF bitmap_scan
      <3>. QED  BY <3>2, <3>3
    <2>3. CASE UNCHANGED scanVars
      BY <2>3 DEF scanVars, ScanCorrect, Bits
    <2>. QED
      BY <2>1, <2>2, <2>3 DEF ScanNext
  <1>3. ScanSpec => []ScanTyped /\ []LoopInv
    BY ScanTyping, ScanLoopInv
  <1>. QED
    BY <1>1, <1>2, <1>3, PTL DEF ScanSpec

\* The steps the scan has left, at most.
ScanLeft == Size * ByteSize - next_bit + (IF pc = "scan" THEN 1 ELSE 0)

\* bitmap_scan looks at each bit at most once, and returns (bitmap.c:52-65).
THEOREM ScanComesToEnd ==
    ScanSpec => [](ScanLeft \in Nat) /\ [][ScanLeft' < ScanLeft]_scanVars
  <1>1. ScanTyped => ScanLeft \in Nat
    <2> DEFINE n == Size * ByteSize
    <2>1. n \in Nat
      BY SizeFact
    <2> HIDE DEF n
    <2>2. ScanTyped => ScanLeft \in Nat
      BY <2>1 DEF ScanTyped, ScanLeft, n
    <2> QED BY <2>2
  <1>2. ScanTyped /\ [ScanNext]_scanVars => [ScanLeft' < ScanLeft]_scanVars
    <2> SUFFICES ASSUME ScanTyped, ScanNext PROVE ScanLeft' < ScanLeft
      OBVIOUS
    <2>1. Size * ByteSize \in Nat /\ next_bit \in Nat
      BY SizeFact DEF ScanTyped
    <2>2. CASE ScanBit
      <3>1. next_bit' = next_bit + 1 /\ pc = "scan"
        BY <2>2 DEF ScanBit
      <3> QED BY <2>1, <3>1 DEF ScanLeft
    <2>3. CASE ScanEnds
      <3>1. next_bit' = next_bit /\ pc = "scan" /\ pc' = "done"
        BY <2>3 DEF ScanEnds
      <3> QED BY <2>1, <3>1 DEF ScanLeft
    <2> QED BY <2>2, <2>3 DEF ScanNext
  <1> QED BY <1>1, <1>2, ScanTyping, PTL DEF ScanSpec
-----------------------------------------------------------------------------
(* Memories, strings in them, and what a copy has written so far. *)

\* What is known of the arguments of a call.
LEMMA MemoryFacts ==
    ASSUME NEW r \in Requests
    PROVE  /\ Cells(r.mem) \subseteq Nat
           /\ r.mem = [c \in Cells(r.mem) |-> r.mem[c]]
           /\ \A c \in Cells(r.mem) : r.mem[c] \in Int /\ 0..c \subseteq Cells(r.mem)
           /\ \A c \in Cells(r.mem) : r.mem[c] \in -128..127
           /\ r.dest \in Nat /\ r.src \in Nat /\ r.count \in Nat /\ r.ch \in Int
  <1> DEFINE m == r.mem
             D == Cells(r.mem)
  <1>1. /\ m \in [D -> -128..127]
        /\ \A c \in D : c \in Nat /\ 0..c \subseteq D
        /\ r.dest \in Nat /\ r.src \in Nat /\ r.count \in Nat /\ r.ch \in Int
    BY RequestsAssumption
  <1> HIDE DEF m, D
  <1>2. m = [c \in D |-> m[c]] /\ \A c \in D : m[c] \in -128..127
    BY <1>1
  <1>3. \A c \in D : m[c] \in Int
    BY <1>2
  <1> QED BY <1>1, <1>2, <1>3 DEF m, D

\* Below a cell there are cells only.
LEMMA CellsBelow ==
    ASSUME NEW r \in Requests, NEW c \in Cells(r.mem), NEW d \in Nat, d <= c
    PROVE  d \in Cells(r.mem)
  <1>1. c \in Nat /\ 0..c \subseteq Cells(r.mem)
    BY MemoryFacts
  <1>2. d \in 0..c
    BY <1>1
  <1> QED BY <1>1, <1>2

\* No end of a string in the first k bytes from p on.
NoEnd(m, p, k) == \A i \in 0..(k - 1) : m[p + i] # NUL

\* A string ends at its length, and not before.
LEMMA LengthFacts ==
    ASSUME NEW r \in Requests, NEW p \in Nat, Ends(r.mem, p) # {}
    PROVE  LET n == Length(r.mem, p)
           IN  /\ n \in Nat /\ p + n \in Cells(r.mem) /\ r.mem[p + n] = NUL
               /\ NoEnd(r.mem, p, n)
  <1> DEFINE S == Ends(r.mem, p)
  <1>1. S \subseteq Nat /\ \A c \in S : c >= p /\ c \in Cells(r.mem) /\ r.mem[c] = NUL
    BY MemoryFacts DEF Ends
  <1>3. PICK c \in S : \A d \in S : c <= d
    BY <1>1, LeastElement
  <1>4. Min(S) = c
    BY <1>1, <1>3, MinIs
  <1>5. ASSUME NEW i \in 0..(c - p - 1) PROVE r.mem[p + i] # NUL
    <2>1. p + i \in Nat /\ p + i >= p /\ p + i < c /\ p + i <= c /\ c \in Cells(r.mem)
      BY <1>1
    <2>2. p + i \in Cells(r.mem)
      BY <2>1, <1>1, CellsBelow
    <2> QED BY <1>3, <2>1, <2>2, <1>1 DEF Ends
  <1> QED BY <1>1, <1>4, <1>5 DEF Length, NoEnd

\* A pointer that has met no end is not past it.
LEMMA NotPast ==
    ASSUME NEW r \in Requests, NEW p \in Nat, Ends(r.mem, p) # {},
           NEW k \in Nat, NoEnd(r.mem, p, k)
    PROVE  /\ k <= Length(r.mem, p) /\ p + k \in Cells(r.mem)
           /\ r.mem[p + k] = NUL <=> k = Length(r.mem, p)
           /\ r.mem[p + k] # NUL => NoEnd(r.mem, p, k + 1)
  <1> DEFINE n == Length(r.mem, p)
  <1>1. n \in Nat /\ p + n \in Cells(r.mem) /\ r.mem[p + n] = NUL /\ NoEnd(r.mem, p, n)
    BY LengthFacts
  <1> HIDE DEF n
  <1>2. k <= n
    BY <1>1 DEF NoEnd
  <1>3. p + k \in Cells(r.mem)
    <2>1. p + k \in Nat /\ p + k <= p + n
      BY <1>1, <1>2
    <2> QED BY <1>1, <2>1, CellsBelow
  <1>4. k < n => r.mem[p + k] # NUL
    BY <1>1 DEF NoEnd
  <1>5. r.mem[p + k] # NUL => NoEnd(r.mem, p, k + 1)
    BY DEF NoEnd
  <1> QED BY <1>1, <1>2, <1>3, <1>4, <1>5 DEF n

\* The bytes of a memory, and NUL.
Values(m) == {m[c] : c \in Int} \cup {NUL}

\* Some bytes of a memory, and one more.
LEMMA BytesLength ==
    ASSUME NEW m, NEW p \in Int, NEW k \in Nat
    PROVE  /\ BytesAt(m, p, k) \in Seq(Values(m)) /\ Len(BytesAt(m, p, k)) = k
           /\ \A i \in 1..k : BytesAt(m, p, k)[i] = m[p + i - 1]
           /\ Append(BytesAt(m, p, k), m[p + k]) = BytesAt(m, p, k + 1)
  <1> DEFINE T == Values(m)
  <1>1. \A j \in Nat : BytesAt(m, p, j) \in Seq(T) /\ Len(BytesAt(m, p, j)) = j
    <2>1. \A j \in Nat : \A i \in 1..j : m[p + i - 1] \in T
      BY DEF Values
    <2> HIDE DEF T
    <2> QED BY <2>1 DEF BytesAt
  <1>2. m[p + k] \in T
    BY DEF Values
  <1> HIDE DEF T
  <1> DEFINE s == BytesAt(m, p, k)
             t == Append(s, m[p + k])
             u == BytesAt(m, p, k + 1)
  <1>3. /\ t \in Seq(T) /\ Len(t) = k + 1
        /\ \A i \in 1..k : t[i] = s[i]
        /\ t[k + 1] = m[p + k]
    BY <1>1, <1>2, AppendProperties
  <1>4. \A i \in 1..(k + 1) : t[i] = u[i]
    <2> TAKE i \in 1..(k + 1)
    <2>1. u[i] = m[p + i - 1]
      BY DEF BytesAt
    <2>2. i <= k => s[i] = m[p + i - 1]
      BY DEF BytesAt
    <2>3. i = k + 1 => m[p + i - 1] = m[p + k]
      OBVIOUS
    <2> QED BY <1>3, <2>1, <2>2, <2>3
  <1>5. u \in Seq(T) /\ Len(u) = k + 1
    BY <1>1
  <1>6. t = u
    BY <1>3, <1>4, <1>5, SeqEqual
  <1> QED BY <1>1, <1>6 DEF BytesAt, T

\* Nothing written changes nothing.
LEMMA WithEmpty ==
    ASSUME NEW r \in Requests, NEW p \in Nat
    PROVE  With(r.mem, p, <<>>) = r.mem
  BY MemoryFacts DEF With, Cells

LEMMA NoBytes == \A m, p : BytesAt(m, p, 0) = <<>>
  BY DEF BytesAt

\* The memory after one byte was stored.
Put(m, c, b) == [m EXCEPT ![c] = b]

\* A byte stored behind those written already.
LEMMA WithAppend ==
    ASSUME NEW r \in Requests, NEW p \in Nat, NEW T, NEW s \in Seq(T), NEW v
    PROVE  Put(With(r.mem, p, s), p + Len(s), v) = With(r.mem, p, Append(s, v))
  <1> DEFINE U == T \cup {v}
             t == Append(s, v)
  <1>1. s \in Seq(U) /\ v \in U
    OBVIOUS
  <1>2. /\ Len(t) = Len(s) + 1 /\ Len(s) \in Nat
        /\ \A i \in 1..Len(s) : t[i] = s[i]
        /\ t[Len(s) + 1] = v
    BY <1>1, AppendProperties
  <1> HIDE DEF t, U
  <1> DEFINE f == With(r.mem, p, t)
             g == [With(r.mem, p, s) EXCEPT ![p + Len(s)] = v]
  <1>3. DOMAIN With(r.mem, p, s) = Cells(r.mem) /\ DOMAIN f = Cells(r.mem) /\ DOMAIN g = Cells(r.mem)
    BY DEF With
  <1>4. ASSUME NEW c \in Cells(r.mem) PROVE f[c] = g[c]
    <2>0. c \in Nat
      BY MemoryFacts
    <2>1. CASE c = p + Len(s)
      <3>1. c - p + 1 = Len(s) + 1 /\ c - p + 1 \in 1..Len(t)
        BY <1>2, <2>0, <2>1
      <3> QED BY <1>2, <2>1, <3>1 DEF With
    <2>2. CASE c # p + Len(s)
      <3>1. g[c] = With(r.mem, p, s)[c]
        BY <2>2 DEF With
      <3>2. c - p + 1 \in 1..Len(t) <=> c - p + 1 \in 1..Len(s)
        BY <1>2, <2>0, <2>2
      <3> QED BY <1>2, <3>1, <3>2 DEF With
    <2> QED BY <2>1, <2>2
  <1>5. f = [c \in Cells(r.mem) |-> f[c]] /\ g = [c \in Cells(r.mem) |-> g[c]]
    BY DEF With
  <1> QED BY <1>3, <1>4, <1>5 DEF t, Put

\* The same of a memory and a number of bytes known under other names.
LEMMA PutBehind ==
    ASSUME NEW r \in Requests, NEW p \in Nat, NEW T, NEW s \in Seq(T), NEW v,
           NEW k \in Nat, Len(s) = k, NEW f, f = With(r.mem, p, s)
    PROVE  Put(f, p + k, v) = With(r.mem, p, Append(s, v))
  <1>1. Put(With(r.mem, p, s), p + Len(s), v) = With(r.mem, p, Append(s, v))
    BY WithAppend, SMT
  <1> QED BY <1>1

\* One byte copied from src to ptr, when those from p on were.
LEMMA CopyStep ==
    ASSUME NEW r \in Requests, NEW p \in Nat, NEW k \in Nat,
           mem = With(r.mem, p, BytesAt(r.mem, r.src, k)),
           r.src + k \in Cells(r.mem), p <= r.src \/ r.src + k < p
    PROVE  /\ mem[r.src + k] = r.mem[r.src + k]
           /\ \A v : Put(mem, p + k, v) = With(r.mem, p, Append(BytesAt(r.mem, r.src, k), v))
           /\ Put(mem, p + k, r.mem[r.src + k]) = With(r.mem, p, BytesAt(r.mem, r.src, k + 1))
  <1> DEFINE s == BytesAt(r.mem, r.src, k)
  <1>0. r.src \in Nat
    BY MemoryFacts
  <1>1. /\ s \in Seq(Values(r.mem)) /\ Len(s) = k
        /\ Append(s, r.mem[r.src + k]) = BytesAt(r.mem, r.src, k + 1)
    <2>1. r.src \in Int
      BY <1>0
    <2> QED BY <2>1, BytesLength, Zenon
  <1> HIDE DEF s
  <1>2. r.src + k - p + 1 \notin 1..k
    BY <1>0
  <1>3. mem[r.src + k] = r.mem[r.src + k]
    <2>1. mem = With(r.mem, p, s)
      BY DEF s
    <2>2. \A c \in Cells(r.mem) : c - p + 1 \notin 1..Len(s) => With(r.mem, p, s)[c] = r.mem[c]
      BY DEF With
    <2>3. With(r.mem, p, s)[r.src + k] = r.mem[r.src + k]
      BY <1>0, <1>1, <1>2, <2>2
    <2> QED BY <2>1, <2>3
  <1>4. ASSUME NEW v PROVE Put(mem, p + k, v) = With(r.mem, p, Append(s, v))
    <2>1. s \in Seq(Values(r.mem))
      BY <1>1
    <2>2. Len(s) = k /\ mem = With(r.mem, p, s)
      BY <1>1 DEF s
    <2> QED BY <2>1, <2>2, PutBehind, SMT
  <1> QED BY <1>1, <1>3, <1>4 DEF s

\* What is written behind a string is written behind its unchanged bytes.
LEMMA WithBehind ==
    ASSUME NEW r \in Requests, NEW p \in Nat, NEW q \in Nat,
           Ends(r.mem, p) # {}, Ends(r.mem, q) # {}
    PROVE  With(r.mem, p + Length(r.mem, p), Append(StringAt(r.mem, q), NUL))
             = With(r.mem, p, StringAt(r.mem, p) \o Append(StringAt(r.mem, q), NUL))
  <1> DEFINE a == Length(r.mem, p)
             s == StringAt(r.mem, p)
             t == Append(StringAt(r.mem, q), NUL)
             T == Values(r.mem)
  <1>1. a \in Nat /\ Length(r.mem, q) \in Nat
    BY LengthFacts
  <1>2. s \in Seq(T) /\ Len(s) = a /\ \A i \in 1..a : s[i] = r.mem[p + i - 1]
    <2>1. p \in Int /\ a \in Nat
      BY <1>1
    <2> HIDE DEF a
    <2>2. LET u == BytesAt(r.mem, p, a)
          IN  u \in Seq(T) /\ Len(u) = a /\ \A i \in 1..a : u[i] = r.mem[p + i - 1]
      BY <2>1, BytesLength
    <2> QED BY <2>2 DEF StringAt, a
  <1>3. t \in Seq(T)
    <2> DEFINE b == Length(r.mem, q)
    <2>1. q \in Int /\ b \in Nat
      BY <1>1
    <2> HIDE DEF b
    <2>2. BytesAt(r.mem, q, b) \in Seq(T)
      BY <2>1, BytesLength
    <2>3. NUL \in T
      BY DEF Values
    <2> HIDE DEF T
    <2> QED BY <2>2, <2>3, AppendProperties DEF StringAt, b
  <1> HIDE DEF a, s, t, T
  <1>4. /\ Len(s \o t) = a + Len(t) /\ Len(t) \in Nat
        /\ \A i \in 1..(a + Len(t)) : (s \o t)[i] = IF i <= a THEN s[i] ELSE t[i - a]
    <2>1. a \in Nat /\ Len(t) \in Nat
      BY <1>1, <1>3 DEF a
    <2> QED BY <1>2, <1>3, <2>1, ConcatProperties
  <1>0. a \in Nat
    BY <1>1 DEF a
  <1>5. ASSUME NEW c \in Cells(r.mem)
        PROVE  (IF c - (p + a) + 1 \in 1..Len(t) THEN t[c - (p + a) + 1] ELSE r.mem[c])
                 = (IF c - p + 1 \in 1..Len(s \o t) THEN (s \o t)[c - p + 1] ELSE r.mem[c])
    <2>0. c \in Nat
      BY MemoryFacts
    <2>1. CASE c < p
      BY <1>0, <1>4, <2>0, <2>1
    <2>2. CASE c >= p /\ c < p + a
      <3>1. c - p + 1 \in 1..a /\ p + (c - p + 1) - 1 = c
        BY <1>0, <2>0, <2>2
      <3>2. s[c - p + 1] = r.mem[c]
        BY <1>2, <3>1
      <3> QED BY <1>0, <1>4, <2>0, <2>2, <3>1, <3>2
    <2>3. CASE c >= p + a
      <3> DEFINE i == c - p + 1
      <3>2. i \in Nat /\ i > a
        BY <1>0, <2>0, <2>3
      <3>3. i \in 1..(a + Len(t)) <=> i - a \in 1..Len(t)
        BY <1>0, <1>4, <3>2
      <3>4. i \in 1..(a + Len(t)) => (s \o t)[i] = t[i - a]
        BY <1>0, <1>4, <3>2
      <3>5. c - p + 1 = i /\ c - (p + a) + 1 = i - a
        BY <1>0, <2>0
      <3> HIDE DEF i
      <3> QED BY <1>4, <3>3, <3>4, <3>5
    <2> QED BY <1>0, <2>0, <2>1, <2>2, <2>3
  <1>6. With(r.mem, p + a, t) = With(r.mem, p, s \o t)
    BY <1>5 DEF With
  <1> QED BY <1>6 DEF a, s, t
-----------------------------------------------------------------------------
(* What is done of a call after k turns of its loop. *)

\* strcpy and strcat: where the copy goes.
Target(r) == IF r.fn = "strcat" THEN r.dest + Length(r.mem, r.dest) ELSE r.dest

CopyingString(r, k) ==
    /\ ptr = Target(r) + k /\ src = r.src + k /\ NoEnd(r.mem, r.src, k)
    /\ mem = With(r.mem, Target(r), BytesAt(r.mem, r.src, k))

CopyingBytes(r, k) ==
    /\ ptr = r.dest + k /\ src = r.src + k /\ left + k = r.count /\ left \in Nat
    /\ mem = With(r.mem, r.dest, BytesAt(r.mem, r.src, k))
    /\ r.fn = "strncpy" => NoEnd(r.mem, r.src, k)

\* A byte of a text in capitals.
Raised(b) == IF IsSmall(b) THEN b - 32 ELSE b

Changing(r, k) ==
    /\ ptr = r.dest + k
    /\ r.fn = "memset" =>
         left + k = r.count /\ left \in Nat /\ mem = With(r.mem, r.dest, [i \in 1..k |-> Int8(r.ch)])
    /\ r.fn = "strupr" =>
         /\ NoEnd(r.mem, r.dest, k)
         /\ mem = With(r.mem, r.dest, [i \in 1..k |-> Raised(r.mem[r.dest + i - 1])])

Measuring(r, k) ==
    /\ ptr = r.dest + k /\ mem = r.mem /\ NoEnd(r.mem, r.dest, k)
    /\ r.fn = "strnlen" => left + k = r.count /\ left \in Nat

Comparing(r, k) ==
    /\ ptr = r.dest + k /\ src = r.src + k /\ mem = r.mem
    /\ \A i \in 0..(k - 1) : r.mem[r.dest + i] = r.mem[r.src + i]
    /\ r.fn = "strcmp" => NoEnd(r.mem, r.dest, k)
    /\ r.fn = "memcmp" => left + k = r.count /\ left \in Nat

Those(r) == IF r.fn \in {"strsep", "strrsep"} THEN Separators ELSE {r.ch}

Searching(r, k) ==
    /\ ptr = r.dest + k /\ mem = r.mem
    /\ IF r.fn = "memchr" THEN left + k = r.count /\ left \in Nat
                          ELSE NoEnd(r.mem, r.dest, k)
    /\ IF r.fn \in {"strrchr", "strrsep"}
       THEN /\ \A i \in 0..(k - 1) : r.mem[r.dest + i] \in Those(r) => r.dest + i <= last
            /\ \/ last = Nowhere
               \/ \E i \in 0..(k - 1) : last = r.dest + i /\ r.mem[last] \in Those(r)
       ELSE \A i \in 0..(k - 1) : r.mem[r.dest + i] \notin Those(r)

Looping(r, k) ==
    /\ r.fn \in {"strcpy", "strcat"}   => CopyingString(r, k)
    /\ r.fn \in {"strncpy", "memcpy"}  => CopyingBytes(r, k)
    /\ r.fn \in {"memset", "strupr"}   => Changing(r, k)
    /\ r.fn \in {"strlen", "strnlen"}  => Measuring(r, k)
    /\ r.fn \in {"strcmp", "memcmp"}   => Comparing(r, k)
    /\ r.fn \in {"strchr", "strsep", "strrchr", "strrsep", "memchr"} => Searching(r, k)

Seeking(r, k) ==
    /\ r.fn = "strcat" /\ ptr = r.dest + k /\ src = r.src
    /\ mem = r.mem /\ NoEnd(r.mem, r.dest, k)

StringInv ==
    /\ request \in Requests /\ Legal(request)
    /\ doing \in {"seek", "loop", "done"}
    /\ doing = "seek" => \E k \in Nat : Seeking(request, k)
    /\ doing = "loop" => \E k \in Nat : Looping(request, k)
    /\ CallCorrect

\* What is left to show of a step of a loop.
LEMMA LoopStep ==
    ASSUME StringInv, UNCHANGED request,
           \/ doing' = "loop" /\ \E k \in Nat : Looping(request, k)'
           \/ doing' = "done" /\ mem' = Outcome(request) /\ Promised(request, result')
    PROVE  StringInv'
  <1>1. doing' = "loop" => StringInv'
    BY DEF StringInv, CallCorrect
  <1>2. CASE doing' = "done"
    <2>1. mem' = Outcome(request) /\ Promised(request, result')
      BY <1>2
    <2>2. CallCorrect'
      BY <2>1 DEF CallCorrect
    <2> QED BY <1>2, <2>2 DEF StringInv
  <1> QED BY <1>1, <1>2
-----------------------------------------------------------------------------
\* The bytes of a copy that are already written are not read again.
LEMMA StringCopies ==
    ASSUME StringInv, doing = "loop", request.fn \in {"strcpy", "strcat"}, CopyString,
           UNCHANGED request
    PROVE  StringInv'
  <1> DEFINE r == request
             p == Target(r)
             n == Length(r.mem, r.src)
  <1>1. r \in Requests /\ Legal(r)
    BY DEF StringInv
  <1>2. PICK k \in Nat : CopyingString(r, k)
    BY DEF StringInv, Looping
  <1>3. /\ r.dest \in Nat /\ r.src \in Nat /\ Ends(r.mem, r.src) # {}
        /\ r.fn = "strcat" => Ends(r.mem, r.dest) # {}
    BY <1>1, MemoryFacts DEF Legal, LegalCopy
  <1>4. n \in Nat /\ k <= n /\ r.src + k \in Cells(r.mem)
        /\ (r.mem[r.src + k] = NUL <=> k = n)
        /\ (r.mem[r.src + k] # NUL => NoEnd(r.mem, r.src, k + 1))
    BY <1>1, <1>2, <1>3, NotPast, LengthFacts DEF CopyingString
  <1>5. /\ p \in Nat /\ Room(r.mem, p, n + 1)
        /\ p <= r.src \/ r.src + k < p
    <2>1. CASE r.fn = "strcpy"
      BY <1>1, <1>3, <1>4, <2>1 DEF Legal, LegalCopy, Forward, Target
    <2>2. CASE r.fn = "strcat"
      <3> DEFINE a == Length(r.mem, r.dest)
      <3>1. a \in Nat
        BY <1>1, <1>3, <2>2, LengthFacts
      <3>2. /\ Room(r.mem, r.dest, a + n + 1)
            /\ r.dest + (a + n + 1) <= r.src \/ r.src + n < r.dest
        BY <1>1, <2>2 DEF Legal, LegalCopy
      <3>3. p = r.dest + a
        BY <2>2 DEF Target
      <3> HIDE DEF a, n, p
      <3>4. Room(r.mem, p, n + 1)
        BY <1>3, <1>4, <3>1, <3>2, <3>3 DEF Room
      <3> QED BY <1>3, <1>4, <3>1, <3>2, <3>3, <3>4
    <2> QED BY <2>1, <2>2
  <1> HIDE DEF p
  <1>6. p + k \in Cells(r.mem)
    BY <1>4, <1>5 DEF Room
  <1>7. mem = With(r.mem, p, BytesAt(r.mem, r.src, k)) /\ ptr = p + k /\ src = r.src + k
    BY <1>2 DEF CopyingString, p
  <1>8. /\ mem[src] = r.mem[src]
        /\ \A v : Put(mem, p + k, v) = With(r.mem, p, Append(BytesAt(r.mem, r.src, k), v))
        /\ Put(mem, p + k, r.mem[r.src + k]) = With(r.mem, p, BytesAt(r.mem, r.src, k + 1))
    <2>1. p \in Nat /\ (p <= r.src \/ r.src + k < p) /\ r.src + k \in Cells(r.mem)
      BY <1>4, <1>5
    <2>2. r \in Requests /\ mem = With(r.mem, p, BytesAt(r.mem, r.src, k)) /\ src = r.src + k
      BY <1>1, <1>7
    <2> HIDE DEF r, n
    <2>3. /\ mem[r.src + k] = r.mem[r.src + k]
          /\ \A v : Put(mem, p + k, v) = With(r.mem, p, Append(BytesAt(r.mem, r.src, k), v))
          /\ Put(mem, p + k, r.mem[r.src + k]) = With(r.mem, p, BytesAt(r.mem, r.src, k + 1))
      BY <2>1, <2>2, CopyStep
    <2> QED BY <2>2, <2>3
  <1>9. CASE mem[src] = NUL
    <2>1. k = n /\ doing' = "done" /\ result' = r.dest
      BY <1>4, <1>7, <1>8, <1>9 DEF CopyString, Returns
    <2>2. mem' = Put(mem, p + k, NUL)
      BY <1>7, <1>9 DEF CopyString, Store, Put
    <2>3. mem' = With(r.mem, p, Append(StringAt(r.mem, r.src), NUL))
      BY <1>8, <2>1, <2>2 DEF StringAt
    <2>4. mem' = Outcome(r)
      <3>1. CASE r.fn = "strcpy"
        BY <2>3, <3>1 DEF Outcome, Target, p
      <3>2. CASE r.fn = "strcat"
        <4>1. With(r.mem, r.dest + Length(r.mem, r.dest), Append(StringAt(r.mem, r.src), NUL))
                = With(r.mem, r.dest, StringAt(r.mem, r.dest) \o Append(StringAt(r.mem, r.src), NUL))
          BY <1>1, <1>3, <3>2, WithBehind
        <4> QED BY <2>3, <3>2, <4>1 DEF Outcome, Target, p
      <3> QED BY <3>1, <3>2
    <2>5. Promised(r, result')
      BY <2>1 DEF Promised
    <2> QED BY <2>1, <2>4, <2>5, LoopStep
  <1>10. CASE mem[src] # NUL
    <2>1. /\ doing' = "loop" /\ ptr' = p + (k + 1) /\ src' = r.src + (k + 1)
          /\ mem' = Put(mem, p + k, r.mem[r.src + k])
      BY <1>1, <1>3, <1>5, <1>7, <1>8, <1>10 DEF CopyString, Goes, Store, Put
    <2>2. CopyingString(r, k + 1)'
      BY <1>4, <1>7, <1>8, <1>10, <2>1 DEF CopyingString, p
    <2>3. Looping(r, k + 1)'
      BY <2>2 DEF Looping
    <2> QED BY <2>1, <2>3, LoopStep
  <1> QED BY <1>9, <1>10

\* strncpy and memcpy: the byte to be copied is as it was, and goes behind the
\* others.
LEMMA BytesCopied ==
    ASSUME StringInv, NEW k \in Nat, CopyingBytes(request, k), request.fn \in {"strncpy", "memcpy"}
    PROVE  LET r == request
           IN  /\ r \in Requests /\ r.dest \in Nat /\ r.src \in Nat /\ r.count \in Nat
               /\ left \in Nat /\ k <= r.count
               /\ left > 0 =>
                    /\ r.dest + k \in Cells(r.mem) /\ r.src + k \in Cells(r.mem)
                    /\ mem[src] = r.mem[r.src + k]
                    /\ \A v : Put(mem, ptr, v)
                         = With(r.mem, r.dest, Append(BytesAt(r.mem, r.src, k), v))
                    /\ Put(mem, ptr, mem[src]) = With(r.mem, r.dest, BytesAt(r.mem, r.src, k + 1))
  <1> DEFINE r == request
  <1>1. r \in Requests /\ Legal(r)
    BY DEF StringInv
  <1>2. r.dest \in Nat /\ r.src \in Nat /\ r.count \in Nat
    BY <1>1, MemoryFacts
  <1>3. /\ left \in Nat /\ left + k = r.count /\ ptr = r.dest + k /\ src = r.src + k
        /\ mem = With(r.mem, r.dest, BytesAt(r.mem, r.src, k))
        /\ r.fn = "strncpy" => NoEnd(r.mem, r.src, k)
    BY DEF CopyingBytes
  <1>4. /\ Room(r.mem, r.dest, r.count) /\ Forward(r.dest, r.src, r.count)
        /\ Room(r.mem, r.src, r.count) \/ (r.fn = "strncpy" /\ Ends(r.mem, r.src) # {})
    BY <1>1 DEF Legal, LegalCopy
  <1>5. ASSUME left > 0
        PROVE  /\ r.dest + k \in Cells(r.mem) /\ r.src + k \in Cells(r.mem)
               /\ r.dest <= r.src \/ r.src + k < r.dest
    <2>1. k < r.count
      BY <1>2, <1>3, <1>5
    <2>2. r.src + k \in Cells(r.mem)
      <3>1. CASE Room(r.mem, r.src, r.count)
        BY <1>2, <2>1, <3>1 DEF Room
      <3>2. CASE r.fn = "strncpy" /\ Ends(r.mem, r.src) # {}
        BY <1>1, <1>2, <1>3, <3>2, NotPast
      <3> QED BY <1>4, <3>1, <3>2
    <2> QED BY <1>2, <1>4, <2>1, <2>2 DEF Room, Forward
  <1>6. ASSUME left > 0
        PROVE  /\ mem[r.src + k] = r.mem[r.src + k]
               /\ \A v : Put(mem, r.dest + k, v)
                    = With(r.mem, r.dest, Append(BytesAt(r.mem, r.src, k), v))
               /\ Put(mem, r.dest + k, r.mem[r.src + k])
                    = With(r.mem, r.dest, BytesAt(r.mem, r.src, k + 1))
    <2>1. r.dest + k \in Cells(r.mem) /\ r.src + k \in Cells(r.mem)
            /\ (r.dest <= r.src \/ r.src + k < r.dest)
      BY <1>5, <1>6
    <2> HIDE DEF r
    <2> QED BY <1>1, <1>2, <1>3, <2>1, CopyStep
  <1> HIDE DEF r
  <1>7. k <= r.count
    BY <1>2, <1>3
  <1> QED BY <1>1, <1>2, <1>3, <1>5, <1>6, <1>7 DEF r

LEMMA MemcpyStep ==
    ASSUME StringInv, memcpy PROVE StringInv'
  <1> DEFINE r == request
  <1>1. request.fn = "memcpy" /\ doing = "loop" /\ request' = request
    BY DEF memcpy, Calling
  <1>2. PICK k \in Nat : CopyingBytes(r, k)
    BY <1>1 DEF StringInv, Looping
  <1>3. /\ r.count \in Nat /\ left \in Nat /\ left + k = r.count
        /\ ptr = r.dest + k /\ src = r.src + k /\ r.dest \in Nat /\ r.src \in Nat
        /\ mem = With(r.mem, r.dest, BytesAt(r.mem, r.src, k))
        /\ left > 0 => Put(mem, ptr, mem[src]) = With(r.mem, r.dest, BytesAt(r.mem, r.src, k + 1))
    BY <1>1, <1>2, BytesCopied DEF CopyingBytes
  <1>4. CASE left > 0
    <2>1. /\ doing' = "loop" /\ left' = left - 1 /\ ptr' = r.dest + (k + 1) /\ src' = r.src + (k + 1)
          /\ mem' = Put(mem, ptr, mem[src])
      BY <1>1, <1>3, <1>4 DEF memcpy, Goes, Store, Put
    <2>2. left' \in Nat /\ left' + (k + 1) = r.count
      BY <1>3, <1>4, <2>1
    <2>3. Looping(r, k + 1)'
      BY <1>1, <1>3, <1>4, <2>1, <2>2 DEF CopyingBytes, Looping
    <2> QED BY <1>1, <2>1, <2>3, LoopStep
  <1>5. CASE ~ left > 0
    <2>1. k = r.count /\ mem' = mem /\ doing' = "done" /\ result' = r.dest
      BY <1>3, <1>5 DEF memcpy, Returns
    <2>2. mem' = Outcome(r) /\ Promised(r, result')
      BY <1>1, <1>3, <2>1 DEF Outcome, Promised
    <2> QED BY <1>1, <2>1, <2>2, LoopStep
  <1> QED BY <1>4, <1>5

LEMMA StrncpyStep ==
    ASSUME StringInv, strncpy PROVE StringInv'
  <1> DEFINE r == request
             fits == {n \in 0..(r.count - 1) : n + r.src \in Ends(r.mem, r.src)}
  <1>1. request.fn = "strncpy" /\ doing = "loop" /\ request' = request
    BY DEF strncpy, Calling
  <1>2. PICK k \in Nat : CopyingBytes(r, k)
    BY <1>1 DEF StringInv, Looping
  <1>3. /\ r.count \in Nat /\ left \in Nat /\ left + k = r.count
        /\ ptr = r.dest + k /\ src = r.src + k /\ r.dest \in Nat /\ r.src \in Nat
        /\ mem = With(r.mem, r.dest, BytesAt(r.mem, r.src, k))
        /\ NoEnd(r.mem, r.src, k) /\ r \in Requests
    BY <1>1, <1>2, BytesCopied DEF CopyingBytes
  <1>4. left > 0 =>
          /\ r.src + k \in Cells(r.mem) /\ mem[src] = r.mem[r.src + k]
          /\ \A v : Put(mem, ptr, v) = With(r.mem, r.dest, Append(BytesAt(r.mem, r.src, k), v))
          /\ Put(mem, ptr, mem[src]) = With(r.mem, r.dest, BytesAt(r.mem, r.src, k + 1))
    BY <1>1, <1>2, BytesCopied
  <1>5. r.count > 0 /\ Room(r.mem, r.dest, r.count)
    BY <1>1 DEF StringInv, Legal, LegalCopy
  <1>6. \A n \in fits : n >= k
    <2> TAKE n \in fits
    <2>1. r.mem[r.src + n] = NUL
      BY <1>3 DEF Ends
    <2> QED BY <1>3, <2>1 DEF NoEnd
  <1>7. CASE left = 0
    <2>1. k = r.count /\ doing' = "done" /\ result' = r.dest
          /\ mem' = Put(mem, r.dest + r.count - 1, NUL)
      BY <1>3, <1>7 DEF strncpy, Returns, Store, Put
    <2>2. fits = {}
      BY <1>3, <1>6, <2>1
    <2>3. PICK j \in Nat : k = j + 1 /\ r.count - 1 = j /\ r.dest + r.count - 1 = r.dest + j
      <3>1. r.count - 1 \in Nat
        BY <1>3, <1>5
      <3> QED BY <1>3, <2>1, <3>1
    <2> DEFINE s == BytesAt(r.mem, r.src, j)
               f == With(r.mem, r.dest, s)
    <2>4. s \in Seq(Values(r.mem)) /\ Len(s) = j
          /\ Append(s, r.mem[r.src + j]) = BytesAt(r.mem, r.src, j + 1)
      <3>1. r.src \in Int
        BY <1>3
      <3> HIDE DEF r
      <3> QED BY <3>1, BytesLength, Zenon
    <2> HIDE DEF s
    <2>5. \A v : With(r.mem, r.dest, Append(s, v)) = Put(f, r.dest + j, v)
      <3> TAKE v
      <3>1. s \in Seq(Values(r.mem)) /\ Len(s) = j /\ r \in Requests /\ r.dest \in Nat
        BY <1>3, <2>4
      <3> HIDE DEF r
      <3> QED BY <3>1, PutBehind, SMT
    <2>6. mem = Put(f, r.dest + j, r.mem[r.src + j])
      BY <1>3, <2>3, <2>4, <2>5
    <2> HIDE DEF f
    <2>7. Put(mem, r.dest + j, NUL) = Put(f, r.dest + j, NUL)
      BY <2>6 DEF Put
    <2>8. mem' = With(r.mem, r.dest, Append(s, NUL))
      BY <2>1, <2>3, <2>5, <2>7
    <2>9. mem' = Outcome(r) /\ Promised(r, result')
      BY <1>1, <2>1, <2>2, <2>3, <2>8 DEF Outcome, Promised, s
    <2> QED BY <1>1, <2>1, <2>9, LoopStep
  <1>8. CASE left > 0 /\ mem[src] = NUL
    <2>1. doing' = "done" /\ result' = r.dest /\ mem' = Put(mem, ptr, NUL)
      BY <1>3, <1>8 DEF strncpy, Returns, Store, Put
    <2>2. k \in fits
      <3>1. k \in 0..(r.count - 1) /\ k + r.src = r.src + k
        BY <1>3, <1>8
      <3>2. r.mem[r.src + k] = NUL /\ r.src + k \in Cells(r.mem) /\ r.src + k >= r.src
        BY <1>3, <1>4, <1>8
      <3> QED BY <3>1, <3>2 DEF Ends
    <2>3. Min(fits) = k
      <3>1. fits \in SUBSET Int
        BY <1>3
      <3> HIDE DEF fits
      <3> QED BY <1>6, <2>2, <3>1, MinIs
    <2>4. mem' = With(r.mem, r.dest, Append(BytesAt(r.mem, r.src, k), NUL))
      BY <1>4, <1>8, <2>1
    <2>5. mem' = Outcome(r) /\ Promised(r, result')
      BY <1>1, <2>1, <2>2, <2>3, <2>4 DEF Outcome, Promised
    <2> QED BY <1>1, <2>1, <2>5, LoopStep
  <1>9. CASE left > 0 /\ mem[src] # NUL
    <2>1. /\ doing' = "loop" /\ left' = left - 1 /\ ptr' = r.dest + (k + 1) /\ src' = r.src + (k + 1)
          /\ mem' = Put(mem, ptr, mem[src])
      BY <1>1, <1>3, <1>9 DEF strncpy, Goes, Store, Put
    <2>2. left' \in Nat /\ left' + (k + 1) = r.count
      BY <1>3, <1>9, <2>1
    <2>3. NoEnd(r.mem, r.src, k + 1)
      BY <1>3, <1>4, <1>9 DEF NoEnd
    <2>4. Looping(r, k + 1)'
      BY <1>1, <1>3, <1>4, <1>9, <2>1, <2>2, <2>3 DEF CopyingBytes, Looping
    <2> QED BY <1>1, <2>1, <2>4, LoopStep
  <1> QED BY <1>3, <1>7, <1>8, <1>9
-----------------------------------------------------------------------------
\* strcat finds the end of its destination.
LEMMA SeekStep ==
    ASSUME StringInv, SeekEnd PROVE StringInv'
  <1> DEFINE r == request
  <1>1. PICK k \in Nat : Seeking(r, k)
    BY DEF StringInv, SeekEnd
  <1>2. /\ r \in Requests /\ Legal(r) /\ r.fn = "strcat" /\ request' = request
        /\ ptr = r.dest + k /\ src = r.src /\ mem = r.mem /\ NoEnd(r.mem, r.dest, k)
        /\ mem' = mem /\ src' = src
    BY <1>1 DEF StringInv, SeekEnd, Seeking
  <1>3. r.dest \in Nat /\ r.src \in Nat /\ Ends(r.mem, r.dest) # {}
    BY <1>2, MemoryFacts DEF Legal, LegalCopy
  <1>4. /\ r.mem[r.dest + k] = NUL <=> k = Length(r.mem, r.dest)
        /\ r.mem[r.dest + k] # NUL => NoEnd(r.mem, r.dest, k + 1)
    BY <1>2, <1>3, NotPast
  <1>5. CASE mem[ptr] # NUL
    <2>1. ptr' = r.dest + (k + 1) /\ doing' = "seek"
      BY <1>2, <1>3, <1>5 DEF SeekEnd
    <2>2. Seeking(r, k + 1)'
      BY <1>2, <1>4, <1>5, <2>1 DEF Seeking
    <2> QED BY <1>2, <2>1, <2>2 DEF StringInv, CallCorrect
  <1>6. CASE mem[ptr] = NUL
    <2>1. ptr' = ptr /\ doing' = "loop" /\ k = Length(r.mem, r.dest)
      BY <1>2, <1>4, <1>6 DEF SeekEnd
    <2>2. With(r.mem, Target(r), BytesAt(r.mem, r.src, 0)) = r.mem
      <3>1. Target(r) \in Nat
        BY <1>2, <1>3, <2>1 DEF Target
      <3> QED BY <1>2, <3>1, WithEmpty, NoBytes
    <2>3. CopyingString(r, 0)'
      BY <1>2, <1>3, <2>1, <2>2 DEF CopyingString, Target, NoEnd
    <2>4. Looping(r, 0)'
      BY <1>2, <2>3 DEF Looping
    <2> QED BY <1>2, <2>1, <2>4, LoopStep
  <1> QED BY <1>5, <1>6
-----------------------------------------------------------------------------
\* Where the pointer stands that has met no end yet.
LEMMA MeasureFacts ==
    ASSUME StringInv, NEW k \in Nat, NEW p \in Nat, Ends(request.mem, p) # {},
           NoEnd(request.mem, p, k)
    PROVE  LET r == request
           IN  /\ r.mem[p + k] = NUL <=> k = Length(r.mem, p)
               /\ r.mem[p + k] # NUL => NoEnd(r.mem, p, k + 1)
               /\ k <= Length(r.mem, p) /\ p + k \in Cells(r.mem)
  BY NotPast DEF StringInv

LEMMA StrlenStep ==
    ASSUME StringInv, strlen PROVE StringInv'
  <1> DEFINE r == request
  <1>1. r.fn = "strlen" /\ doing = "loop" /\ request' = request /\ mem' = mem
    BY DEF strlen, Calling
  <1>2. PICK k \in Nat : Measuring(r, k)
    BY <1>1 DEF StringInv, Looping
  <1>3. /\ r.dest \in Nat /\ Ends(r.mem, r.dest) # {}
        /\ ptr = r.dest + k /\ mem = r.mem /\ NoEnd(r.mem, r.dest, k)
    BY <1>1, <1>2, MemoryFacts DEF StringInv, Legal, Measuring
  <1>4. /\ r.mem[r.dest + k] = NUL <=> k = Length(r.mem, r.dest)
        /\ r.mem[r.dest + k] # NUL => NoEnd(r.mem, r.dest, k + 1)
    BY <1>3, MeasureFacts
  <1>5. CASE mem[ptr] # NUL
    <2>1. ptr' = r.dest + (k + 1) /\ doing' = "loop"
      BY <1>1, <1>3, <1>5 DEF strlen, Goes
    <2>2. Looping(r, k + 1)'
      BY <1>1, <1>3, <1>4, <1>5, <2>1 DEF Measuring, Looping
    <2> QED BY <1>1, <2>1, <2>2, LoopStep
  <1>6. CASE mem[ptr] = NUL
    <2>1. doing' = "done" /\ result' = Length(r.mem, r.dest)
      BY <1>3, <1>4, <1>6 DEF strlen, Returns
    <2> QED BY <1>1, <1>3, <2>1, LoopStep DEF Outcome, Promised
  <1> QED BY <1>5, <1>6

LEMMA StrnlenStep ==
    ASSUME StringInv, strnlen PROVE StringInv'
  <1> DEFINE r == request
             S == {r.count} \cup {c - r.dest : c \in Ends(r.mem, r.dest)}
  <1>1. r.fn = "strnlen" /\ doing = "loop" /\ request' = request /\ mem' = mem
    BY DEF strnlen, Calling
  <1>2. PICK k \in Nat : Measuring(r, k)
    BY <1>1 DEF StringInv, Looping
  <1>3. /\ r \in Requests /\ r.dest \in Nat /\ r.count \in Nat /\ left \in Nat /\ left + k = r.count
        /\ ptr = r.dest + k /\ mem = r.mem /\ NoEnd(r.mem, r.dest, k)
        /\ Cells(r.mem) \subseteq Nat
        /\ Ends(r.mem, r.dest) # {} \/ Room(r.mem, r.dest, r.count + 1)
    BY <1>1, <1>2, MemoryFacts DEF StringInv, Legal, Measuring
  <1>4. CASE mem[ptr] # NUL /\ left > 0
    <2>1. ptr' = r.dest + (k + 1) /\ left' = left - 1 /\ doing' = "loop"
      BY <1>1, <1>3, <1>4 DEF strnlen, Goes
    <2>2. left' \in Nat /\ left' + (k + 1) = r.count
      BY <1>3, <1>4, <2>1
    <2>3. NoEnd(r.mem, r.dest, k + 1)
      BY <1>3, <1>4 DEF NoEnd
    <2>4. Looping(r, k + 1)'
      BY <1>1, <1>3, <2>1, <2>2, <2>3 DEF Measuring, Looping
    <2> QED BY <1>1, <2>1, <2>4, LoopStep
  <1>5. CASE ~ (mem[ptr] # NUL /\ left > 0)
    <2>1. doing' = "done" /\ result' = k
      BY <1>3, <1>5 DEF strnlen, Returns
    <2>2. \A c \in Ends(r.mem, r.dest) : c \in Nat /\ c - r.dest >= k
      <3> TAKE c \in Ends(r.mem, r.dest)
      <3>1. c \in Nat /\ c >= r.dest /\ r.mem[c] = NUL
        BY <1>3 DEF Ends
      <3>2. c - r.dest \in Nat /\ r.dest + (c - r.dest) = c
        BY <1>3, <3>1
      <3>3. c - r.dest \notin 0..(k - 1)
        BY <1>3, <3>1, <3>2 DEF NoEnd
      <3> QED BY <3>1, <3>2, <3>3
    <2>3. k \in S
      <3>1. CASE left = 0
        BY <1>3, <3>1
      <3>2. CASE left # 0
        <4>1. r.mem[r.dest + k] = NUL
          BY <1>3, <1>5, <3>2
        <4>2. r.dest + k \in Cells(r.mem)
          <5>1. CASE Ends(r.mem, r.dest) # {}
            BY <1>3, <5>1, NotPast
          <5>2. CASE Room(r.mem, r.dest, r.count + 1)
            BY <1>3, <5>2 DEF Room
          <5> QED BY <1>3, <5>1, <5>2
        <4>3. r.dest + k \in Ends(r.mem, r.dest) /\ (r.dest + k) - r.dest = k
          BY <1>3, <4>1, <4>2 DEF Ends
        <4> QED BY <4>3
      <3> QED BY <3>1, <3>2
    <2>4. \A x \in S : x \in Int /\ k <= x
      BY <1>3, <2>2
    <2>5. Min(S) = k
      <3> HIDE DEF S
      <3> QED BY <2>3, <2>4, MinIs
    <2> QED BY <1>1, <1>3, <2>1, <2>5, LoopStep DEF Outcome, Promised
  <1> QED BY <1>4, <1>5
-----------------------------------------------------------------------------
\* A text given by its bytes, and one byte more.
LEMMA SeriesAppend ==
    ASSUME NEW k \in Nat, NEW e(_)
    PROVE  LET s == [i \in 1..k |-> e(i)]
           IN  /\ s \in Seq({e(i) : i \in Int}) /\ Len(s) = k
               /\ Append(s, e(k + 1)) = [i \in 1..(k + 1) |-> e(i)]
  <1> DEFINE T == {e(i) : i \in Int}
             s == [i \in 1..k |-> e(i)]
             t == Append(s, e(k + 1))
             u == [i \in 1..(k + 1) |-> e(i)]
  <1>1. s \in Seq(T) /\ Len(s) = k /\ u \in Seq(T) /\ Len(u) = k + 1 /\ e(k + 1) \in T
    <2>1. \A i \in Int : e(i) \in T
      OBVIOUS
    <2> HIDE DEF T
    <2> QED BY <2>1
  <1>2. \A i \in 1..k : s[i] = e(i)
    OBVIOUS
  <1>3. \A i \in 1..(k + 1) : u[i] = e(i)
    OBVIOUS
  <1> HIDE DEF T, s, u
  <1>4. /\ t \in Seq(T) /\ Len(t) = k + 1 /\ t[k + 1] = e(k + 1)
        /\ \A i \in 1..k : t[i] = s[i]
    BY <1>1, AppendProperties
  <1>5. \A i \in 1..(k + 1) : t[i] = u[i]
    <2> TAKE i \in 1..(k + 1)
    <2>1. i \in 1..k \/ i = k + 1
      OBVIOUS
    <2> QED BY <1>2, <1>3, <1>4, <2>1
  <1>6. t = u
    BY <1>1, <1>4, <1>5, SeqEqual
  <1> QED BY <1>1, <1>6 DEF s, t, u, T

LEMMA MemsetStep ==
    ASSUME StringInv, memset PROVE StringInv'
  <1> DEFINE r == request
             b == Int8(r.ch)
             s(n) == [i \in 1..n |-> b]
  <1>1. r.fn = "memset" /\ doing = "loop" /\ request' = request
    BY DEF memset, Calling
  <1>2. PICK k \in Nat : Changing(r, k)
    BY <1>1 DEF StringInv, Looping
  <1>3. /\ r \in Requests /\ r.dest \in Nat /\ r.count \in Nat
        /\ left \in Nat /\ left + k = r.count /\ ptr = r.dest + k
        /\ mem = With(r.mem, r.dest, s(k))
    BY <1>1, <1>2, MemoryFacts DEF StringInv, Changing
  <1>4. CASE left > 0
    <2>1. /\ ptr' = r.dest + (k + 1) /\ left' = left - 1 /\ doing' = "loop"
          /\ mem' = Put(mem, r.dest + k, b)
      BY <1>1, <1>3, <1>4 DEF memset, Goes, Store, Put
    <2>2. left' \in Nat /\ left' + (k + 1) = r.count
      BY <1>3, <1>4, <2>1
    <2>3. mem' = With(r.mem, r.dest, s(k + 1))
      <3> HIDE DEF b
      <3>1. s(k) \in Seq({b}) /\ Len(s(k)) = k /\ Append(s(k), b) = s(k + 1)
        OBVIOUS
      <3> DEFINE t == s(k)
      <3>2. t \in Seq({b}) /\ Len(t) = k /\ r \in Requests /\ r.dest \in Nat
            /\ mem = With(r.mem, r.dest, t)
        BY <1>3, <3>1
      <3> HIDE DEF r, s, t
      <3>3. Put(mem, r.dest + k, b) = With(r.mem, r.dest, Append(t, b))
        BY <3>2, PutBehind, SMT
      <3> QED BY <2>1, <3>1, <3>3 DEF t
    <2>4. Looping(r, k + 1)'
      BY <1>1, <2>1, <2>2, <2>3 DEF Changing, Looping
    <2> QED BY <1>1, <2>1, <2>4, LoopStep
  <1>5. CASE ~ left > 0
    <2>1. k = r.count /\ mem' = mem /\ doing' = "done" /\ result' = r.dest
      BY <1>3, <1>5 DEF memset, Returns
    <2>2. mem' = Outcome(r) /\ Promised(r, result')
      BY <1>1, <1>3, <2>1 DEF Outcome, Promised
    <2> QED BY <1>1, <2>1, <2>2, LoopStep
  <1> QED BY <1>4, <1>5

LEMMA StruprStep ==
    ASSUME StringInv, strupr PROVE StringInv'
  <1> DEFINE r == request
             e(i) == Raised(r.mem[r.dest + i - 1])
             s(n) == [i \in 1..n |-> e(i)]
  <1>1. r.fn = "strupr" /\ doing = "loop" /\ request' = request
    BY DEF strupr, Calling
  <1>2. PICK k \in Nat : Changing(r, k)
    BY <1>1 DEF StringInv, Looping
  <1>3. /\ r \in Requests /\ r.dest \in Nat /\ Ends(r.mem, r.dest) # {}
        /\ ptr = r.dest + k /\ NoEnd(r.mem, r.dest, k)
        /\ mem = With(r.mem, r.dest, s(k))
    BY <1>1, <1>2, MemoryFacts DEF StringInv, Legal, Changing
  <1>4. /\ r.mem[r.dest + k] = NUL <=> k = Length(r.mem, r.dest)
        /\ r.mem[r.dest + k] # NUL => NoEnd(r.mem, r.dest, k + 1)
        /\ r.dest + k \in Cells(r.mem)
    BY <1>3, MeasureFacts
  <1>5. /\ s(k) \in Seq({e(i) : i \in Int}) /\ Len(s(k)) = k
        /\ Append(s(k), e(k + 1)) = s(k + 1)
    <2> HIDE DEF e
    <2> QED BY SeriesAppend
  <1>6. mem[ptr] = r.mem[r.dest + k]
    <2> DEFINE t == s(k)
               c == r.dest + k
    <2>1. c \in Cells(r.mem) /\ c - r.dest + 1 \notin 1..k
      BY <1>3, <1>4
    <2>2. Len(t) = k /\ mem = With(r.mem, r.dest, t)
      BY <1>3, <1>5
    <2>3. \A a \in Cells(r.mem) : a - r.dest + 1 \notin 1..Len(t) =>
            With(r.mem, r.dest, t)[a] = r.mem[a]
      <3> HIDE DEF r, t
      <3> QED BY DEF With
    <2>4. ptr = c
      BY <1>3
    <2> HIDE DEF r, s, e, t, c
    <2>5. With(r.mem, r.dest, t)[c] = r.mem[c]
      BY <2>1, <2>2, <2>3
    <2>6. mem[ptr] = r.mem[c]
      BY <2>2, <2>4, <2>5
    <2> QED BY <2>6 DEF c
  <1>7. CASE mem[ptr] # NUL
    <2>1. /\ ptr' = r.dest + (k + 1) /\ doing' = "loop"
          /\ mem' = Put(mem, r.dest + k, Raised(r.mem[r.dest + k]))
      <3>1. /\ ptr' = ptr + 1 /\ doing' = doing
            /\ mem' = [mem EXCEPT ![ptr] = IF IsSmall(mem[ptr]) THEN mem[ptr] - 32 ELSE mem[ptr]]
        BY <1>7 DEF strupr, Goes, Store
      <3>2. ptr = r.dest + k /\ mem[ptr] = r.mem[r.dest + k] /\ r.dest \in Nat
        BY <1>3, <1>6
      <3>3. ptr + 1 = r.dest + (k + 1)
        BY <3>2
      <3>4. mem' = Put(mem, ptr, Raised(mem[ptr]))
        BY <3>1 DEF Put, Raised
      <3> QED BY <1>1, <3>1, <3>2, <3>3, <3>4
    <2>2. e(k + 1) = Raised(r.mem[r.dest + k])
      <3>1. r.dest + (k + 1) - 1 = r.dest + k
        BY <1>3
      <3> QED BY <3>1
    <2>3. mem' = With(r.mem, r.dest, s(k + 1))
      <3> DEFINE t == s(k)
                 b == e(k + 1)
                 T == {e(i) : i \in Int}
      <3>1. /\ t \in Seq(T) /\ Len(t) = k /\ r \in Requests /\ r.dest \in Nat
            /\ mem = With(r.mem, r.dest, t)
        BY <1>3, <1>5
      <3>2. Append(t, b) = s(k + 1) /\ mem' = Put(mem, r.dest + k, b)
        BY <1>5, <2>1, <2>2
      <3> HIDE DEF r, s, e, t, b, T
      <3>3. Put(mem, r.dest + k, b) = With(r.mem, r.dest, Append(t, b))
        BY <3>1, PutBehind, SMT
      <3> QED BY <3>2, <3>3
    <2>4. Changing(r, k + 1)'
      BY <1>1, <1>4, <1>6, <1>7, <2>1, <2>3 DEF Changing
    <2>5. Looping(r, k + 1)'
      BY <1>1, <2>4 DEF Looping
    <2> QED BY <1>1, <2>1, <2>5, LoopStep
  <1>8. CASE mem[ptr] = NUL
    <2>1. doing' = "done" /\ result' = r.dest + k /\ mem' = mem /\ k = Length(r.mem, r.dest)
      BY <1>3, <1>4, <1>6, <1>8 DEF strupr, Returns
    <2>2. mem' = Outcome(r)
      BY <1>1, <1>3, <2>1 DEF Outcome, Raised
    <2>3. Promised(r, result')
      BY <1>1, <2>1 DEF Promised
    <2> QED BY <1>1, <2>1, <2>2, <2>3, LoopStep
  <1> QED BY <1>7, <1>8
-----------------------------------------------------------------------------
\* The first byte in which two texts differ decides their order.
LEMMA OrderAt ==
    ASSUME NEW s, NEW t, DOMAIN s \subseteq Int,
           NEW j \in DOMAIN s, j \in DOMAIN t, s[j] # t[j],
           \A i \in DOMAIN s \cap DOMAIN t : i < j => s[i] = t[i],
           s[j] \in -128..127, t[j] \in -128..127
    PROVE  TellsOrder(Compared(s[j], t[j]), s, t)
  <1> DEFINE D == Differ(s, t)
             a == s[j]
             b == t[j]
  <1>1. j \in D /\ D \in SUBSET Int
    BY DEF Differ
  <1>2. \A k \in D : j <= k
    <2> TAKE k \in D
    <2>1. ~ (k < j)
      BY DEF Differ
    <2> QED BY <1>1, <2>1
  <1>3. Min(D) = j
    <2> HIDE DEF D
    <2> QED BY <1>1, <1>2, MinIs
  <1>4. D # {}
    BY <1>1
  <1> HIDE DEF D
  <1>5. Order(s, t) = IF Unsigned(a) < Unsigned(b) THEN -1 ELSE 1
    BY <1>3, <1>4 DEF Order, D
  <1>6. Apart(s, t) <=> (a < 0) # (b < 0)
    BY <1>3, <1>4 DEF Apart, D
  <1>7. a \in -128..127 /\ b \in -128..127 /\ a # b
    OBVIOUS
  <1> HIDE DEF a, b
  <1>8. /\ Unsigned(a) = IF a < 0 THEN a + 256 ELSE a
        /\ Unsigned(b) = IF b < 0 THEN b + 256 ELSE b
    BY <1>7 DEF Unsigned
  <1>9. Compared(a, b) # 0 /\ Order(s, t) # 0
    BY <1>5, <1>7 DEF Compared
  <1>10. (a < 0) = (b < 0) => Compared(a, b) = Order(s, t)
    BY <1>5, <1>7, <1>8 DEF Compared
  <1> QED BY <1>6, <1>9, <1>10 DEF TellsOrder, a, b

\* Texts that agree as far as both go are equal.
LEMMA OrderSame ==
    ASSUME NEW s, NEW t, \A i \in DOMAIN s \cap DOMAIN t : s[i] = t[i]
    PROVE  TellsOrder(0, s, t)
  <1>1. Differ(s, t) = {}
    BY DEF Differ
  <1>2. Order(s, t) = 0
    BY <1>1 DEF Order
  <1> QED BY <1>2 DEF TellsOrder

\* A string with its end.
LEMMA EndedText ==
    ASSUME NEW r \in Requests, NEW p \in Nat, Ends(r.mem, p) # {}
    PROVE  LET s == Append(StringAt(r.mem, p), NUL)
           IN  /\ DOMAIN s = 1..(Length(r.mem, p) + 1)
               /\ \A i \in 1..(Length(r.mem, p) + 1) : s[i] = r.mem[p + i - 1]
  <1> DEFINE n == Length(r.mem, p)
             s == Append(StringAt(r.mem, p), NUL)
  <1>1. n \in Nat /\ r.mem[p + n] = NUL
    BY LengthFacts
  <1>2. /\ s = BytesAt(r.mem, p, n + 1)
    <2> HIDE DEF n
    <2>1. p \in Int
      OBVIOUS
    <2>2. Append(BytesAt(r.mem, p, n), r.mem[p + n]) = BytesAt(r.mem, p, n + 1)
      BY <1>1, <2>1, BytesLength, Zenon
    <2> QED BY <1>1, <2>2 DEF StringAt, n
  <1> QED BY <1>2 DEF BytesAt

LEMMA StrcmpStep ==
    ASSUME StringInv, strcmp PROVE StringInv'
  <1> DEFINE r == request
             n == Length(r.mem, r.dest)
             m == Length(r.mem, r.src)
             s == Append(StringAt(r.mem, r.dest), NUL)
             t == Append(StringAt(r.mem, r.src), NUL)
  <1>1. r.fn = "strcmp" /\ doing = "loop" /\ request' = request /\ mem' = mem
    BY DEF strcmp, Calling
  <1>2. PICK k \in Nat : Comparing(r, k)
    BY <1>1 DEF StringInv, Looping
  <1>3. /\ r \in Requests /\ r.dest \in Nat /\ r.src \in Nat
        /\ Ends(r.mem, r.dest) # {} /\ Ends(r.mem, r.src) # {}
        /\ ptr = r.dest + k /\ src = r.src + k /\ mem = r.mem /\ NoEnd(r.mem, r.dest, k)
        /\ \A i \in 0..(k - 1) : r.mem[r.dest + i] = r.mem[r.src + i]
    BY <1>1, <1>2, MemoryFacts DEF StringInv, Legal, Comparing
  <1>4. /\ r.mem[r.dest + k] = NUL <=> k = n
        /\ r.mem[r.dest + k] # NUL => NoEnd(r.mem, r.dest, k + 1)
        /\ k <= n /\ r.dest + k \in Cells(r.mem)
    BY <1>3, MeasureFacts
  <1>5. NoEnd(r.mem, r.src, k)
    BY <1>3 DEF NoEnd
  <1>6. /\ r.mem[r.src + k] = NUL <=> k = m
        /\ k <= m /\ r.src + k \in Cells(r.mem)
    BY <1>3, <1>5, MeasureFacts
  <1>7. CASE mem[ptr] = mem[src] /\ mem[ptr] # NUL
    <2>1. ptr' = r.dest + (k + 1) /\ src' = r.src + (k + 1) /\ doing' = "loop"
      BY <1>1, <1>3, <1>7 DEF strcmp, Goes
    <2>2. \A i \in 0..((k + 1) - 1) : r.mem[r.dest + i] = r.mem[r.src + i]
      BY <1>3, <1>7
    <2>3. Comparing(r, k + 1)'
      BY <1>1, <1>3, <1>4, <1>7, <2>1, <2>2 DEF Comparing
    <2>4. Looping(r, k + 1)'
      BY <1>1, <2>3 DEF Looping
    <2> QED BY <1>1, <2>1, <2>4, LoopStep
  <1>8. CASE ~ (mem[ptr] = mem[src] /\ mem[ptr] # NUL)
    <2>1. doing' = "done" /\ result' = Compared(r.mem[r.dest + k], r.mem[r.src + k])
      BY <1>3, <1>8 DEF strcmp, Returns
    <2>2. /\ n \in Nat /\ m \in Nat
          /\ DOMAIN s = 1..(n + 1) /\ DOMAIN t = 1..(m + 1)
          /\ \A i \in 1..(n + 1) : s[i] = r.mem[r.dest + i - 1]
          /\ \A i \in 1..(m + 1) : t[i] = r.mem[r.src + i - 1]
      BY <1>3, EndedText, LengthFacts
    <2> HIDE DEF n, m, s, t
    <2>3. \A i \in 1..k : s[i] = t[i]
      <3> TAKE i \in 1..k
      <3>1. i - 1 \in 0..(k - 1) /\ r.dest + i - 1 = r.dest + (i - 1) /\ r.src + i - 1 = r.src + (i - 1)
        BY <1>3
      <3>2. i \in 1..(n + 1) /\ i \in 1..(m + 1)
        BY <1>4, <1>6, <2>2 DEF n, m
      <3> QED BY <1>3, <2>2, <3>1, <3>2
    <2>4. /\ k + 1 \in 1..(n + 1) /\ k + 1 \in 1..(m + 1)
          /\ s[k + 1] = r.mem[r.dest + k] /\ t[k + 1] = r.mem[r.src + k]
      <3>1. r.dest + (k + 1) - 1 = r.dest + k /\ r.src + (k + 1) - 1 = r.src + k
        BY <1>3
      <3>2. k + 1 \in 1..(n + 1) /\ k + 1 \in 1..(m + 1)
        BY <1>4, <1>6, <2>2 DEF n, m
      <3> QED BY <2>2, <3>1, <3>2
    <2>5. TellsOrder(Compared(r.mem[r.dest + k], r.mem[r.src + k]), s, t)
      <3>1. CASE r.mem[r.dest + k] # r.mem[r.src + k]
        <4>1. r.mem[r.dest + k] \in -128..127 /\ r.mem[r.src + k] \in -128..127
          BY <1>3, <1>4, <1>6, MemoryFacts
        <4>2. /\ DOMAIN s \subseteq Int /\ k + 1 \in DOMAIN s /\ k + 1 \in DOMAIN t
              /\ \A i \in DOMAIN s \cap DOMAIN t : i < k + 1 => s[i] = t[i]
          <5>1. /\ DOMAIN s = 1..(n + 1) /\ DOMAIN t = 1..(m + 1)
                /\ k + 1 \in 1..(n + 1) /\ k + 1 \in 1..(m + 1)
            BY <2>2, <2>4
          <5> HIDE DEF r, s, t, n, m
          <5>2. DOMAIN s \subseteq Int /\ k + 1 \in DOMAIN s /\ k + 1 \in DOMAIN t
            BY <5>1
          <5>3. \A i \in 1..(n + 1) : i < k + 1 => i \in 1..k
            OBVIOUS
          <5>4. \A i \in DOMAIN s \cap DOMAIN t : i < k + 1 => s[i] = t[i]
            BY <2>3, <5>1, <5>3
          <5> QED BY <5>2, <5>4
        <4>3. s[k + 1] # t[k + 1]
          BY <2>4, <3>1
        <4>4. TellsOrder(Compared(s[k + 1], t[k + 1]), s, t)
          BY <2>4, <4>1, <4>2, <4>3, OrderAt
        <4> QED BY <2>4, <4>4
      <3>2. CASE r.mem[r.dest + k] = r.mem[r.src + k]
        <4>1. k = n /\ k = m /\ r.mem[r.src + k] = NUL
          BY <1>3, <1>4, <1>6, <1>8, <3>2 DEF n, m
        <4>2. \A i \in 1..(k + 1) : s[i] = t[i]
          BY <2>3, <2>4, <3>2
        <4>3. DOMAIN s = 1..(k + 1) /\ DOMAIN t = 1..(k + 1)
          BY <2>2, <4>1
        <4>4. \A i \in DOMAIN s \cap DOMAIN t : s[i] = t[i]
          BY <4>2, <4>3
        <4>5. TellsOrder(0, s, t)
          BY <4>4, OrderSame
        <4> QED BY <3>2, <4>1, <4>5 DEF Compared, NUL
      <3> QED BY <3>1, <3>2
    <2>6. Promised(r, result')
      BY <1>1, <2>1, <2>5 DEF Promised, s, t
    <2> QED BY <1>1, <1>3, <2>1, <2>6, LoopStep DEF Outcome
  <1> QED BY <1>7, <1>8

LEMMA MemcmpStep ==
    ASSUME StringInv, memcmp PROVE StringInv'
  <1> DEFINE r == request
             s == BytesAt(r.mem, r.dest, r.count)
             t == BytesAt(r.mem, r.src, r.count)
  <1>1. r.fn = "memcmp" /\ doing = "loop" /\ request' = request /\ mem' = mem
    BY DEF memcmp, Calling
  <1>2. PICK k \in Nat : Comparing(r, k)
    BY <1>1 DEF StringInv, Looping
  <1>3. /\ r \in Requests /\ r.dest \in Nat /\ r.src \in Nat /\ r.count \in Nat
        /\ Room(r.mem, r.dest, r.count) /\ Room(r.mem, r.src, r.count)
        /\ ptr = r.dest + k /\ src = r.src + k /\ mem = r.mem
        /\ left \in Nat /\ left + k = r.count
        /\ \A i \in 0..(k - 1) : r.mem[r.dest + i] = r.mem[r.src + i]
    BY <1>1, <1>2, MemoryFacts DEF StringInv, Legal, Comparing
  <1>4. CASE left > 0 /\ mem[ptr] = mem[src]
    <2>1. ptr' = r.dest + (k + 1) /\ src' = r.src + (k + 1) /\ left' = left - 1 /\ doing' = "loop"
      BY <1>1, <1>3, <1>4 DEF memcmp, Goes
    <2>2. left' \in Nat /\ left' + (k + 1) = r.count
      BY <1>3, <1>4, <2>1
    <2>3. \A i \in 0..((k + 1) - 1) : r.mem[r.dest + i] = r.mem[r.src + i]
      BY <1>3, <1>4
    <2>4. Comparing(r, k + 1)'
      BY <1>1, <1>3, <2>1, <2>2, <2>3 DEF Comparing
    <2>5. Looping(r, k + 1)'
      BY <1>1, <2>4 DEF Looping
    <2> QED BY <1>1, <2>1, <2>5, LoopStep
  <1>5. CASE ~ (left > 0 /\ mem[ptr] = mem[src])
    <2>1. /\ DOMAIN s = 1..r.count /\ DOMAIN t = 1..r.count
          /\ \A i \in 1..r.count : s[i] = r.mem[r.dest + i - 1] /\ t[i] = r.mem[r.src + i - 1]
      BY DEF BytesAt
    <2> HIDE DEF s, t
    <2>2. \A i \in 1..k : s[i] = t[i]
      <3> TAKE i \in 1..k
      <3>1. i - 1 \in 0..(k - 1) /\ r.dest + i - 1 = r.dest + (i - 1) /\ r.src + i - 1 = r.src + (i - 1)
        BY <1>3
      <3>2. i \in 1..r.count
        BY <1>3
      <3> QED BY <1>3, <2>1, <3>1, <3>2
    <2>3. doing' = "done" /\ result' = IF left = 0 THEN 0 ELSE Compared(r.mem[r.dest + k], r.mem[r.src + k])
      BY <1>3, <1>5 DEF memcmp, Returns
    <2>4. CASE left = 0
      <3>1. TellsOrder(0, s, t)
        <4>1. k = r.count
          BY <1>3, <2>4
        <4> QED BY <2>1, <2>2, <4>1, OrderSame
      <3> QED BY <1>1, <1>3, <2>3, <2>4, <3>1, LoopStep DEF Outcome, Promised, s, t
    <2>5. CASE left # 0
      <3>1. k + 1 \in 1..r.count /\ (k + 1) - 1 = k
            /\ r.dest + (k + 1) - 1 = r.dest + k /\ r.src + (k + 1) - 1 = r.src + k
        BY <1>3, <2>5
      <3>2. s[k + 1] = r.mem[r.dest + k] /\ t[k + 1] = r.mem[r.src + k]
        BY <2>1, <3>1
      <3>3. r.mem[r.dest + k] # r.mem[r.src + k]
        BY <1>3, <1>5, <2>5
      <3>4. r.mem[r.dest + k] \in -128..127 /\ r.mem[r.src + k] \in -128..127
        <4>1. r.dest + k \in Cells(r.mem) /\ r.src + k \in Cells(r.mem)
          BY <1>3, <2>5 DEF Room
        <4> QED BY <1>3, <4>1, MemoryFacts
      <3>5. TellsOrder(Compared(s[k + 1], t[k + 1]), s, t)
        <4>1. /\ DOMAIN s \subseteq Int /\ k + 1 \in DOMAIN s /\ k + 1 \in DOMAIN t
              /\ \A i \in DOMAIN s \cap DOMAIN t : i < k + 1 => s[i] = t[i]
          BY <2>1, <2>2, <3>1
        <4>2. s[k + 1] # t[k + 1]
          BY <3>2, <3>3
        <4> QED BY <3>2, <3>4, <4>1, <4>2, OrderAt
      <3>6. TellsOrder(Compared(r.mem[r.dest + k], r.mem[r.src + k]), s, t)
        BY <3>2, <3>5
      <3> QED BY <1>1, <1>3, <2>3, <2>5, <3>6, LoopStep DEF Outcome, Promised, s, t
    <2> QED BY <2>4, <2>5
  <1> QED BY <1>4, <1>5
-----------------------------------------------------------------------------
\* The searches up to the end of a string.
LEMMA SearchFacts ==
    ASSUME StringInv, NEW k \in Nat, Searching(request, k),
           request.fn \in {"strchr", "strsep", "strrchr", "strrsep"}
    PROVE  LET r == request
               n == Length(r.mem, r.dest)
           IN  /\ r.dest \in Nat /\ n \in Nat /\ k <= n
               /\ ptr = r.dest + k /\ mem = r.mem
               /\ mem[ptr] = NUL <=> k = n
               /\ mem[ptr] # NUL => NoEnd(r.mem, r.dest, k + 1)
               /\ AsksForChar(r) =>
                    Matches(r) = {c \in r.dest..(r.dest + n) : r.mem[c] \in Those(r)}
  <1> DEFINE r == request
             n == Length(r.mem, r.dest)
  <1>1. /\ r \in Requests /\ r.dest \in Nat /\ Ends(r.mem, r.dest) # {}
        /\ ptr = r.dest + k /\ mem = r.mem /\ NoEnd(r.mem, r.dest, k)
    BY MemoryFacts DEF StringInv, Legal, Searching
  <1>2. /\ r.mem[r.dest + k] = NUL <=> k = n
        /\ r.mem[r.dest + k] # NUL => NoEnd(r.mem, r.dest, k + 1)
        /\ k <= n
    BY <1>1, MeasureFacts
  <1>3. n \in Nat
    BY <1>1, LengthFacts
  <1>4. ASSUME AsksForChar(r)
        PROVE  Matches(r) = {c \in r.dest..(r.dest + n) : r.mem[c] \in Those(r)}
    <2>1. r.dest + (n + 1) - 1 = r.dest + n
      BY <1>1, <1>3
    <2>2. Matches(r) = {c \in r.dest..(r.dest + (n + 1) - 1) : r.mem[c] \in Those(r)}
      BY <1>4 DEF Matches, Those, AsksForChar
    <2> QED BY <2>1, <2>2
  <1> QED BY <1>1, <1>2, <1>3, <1>4

\* strchr and strsep: nothing before the pointer matches.
LEMMA FirstStep ==
    ASSUME StringInv, doing = "loop", request.fn \in {"strchr", "strsep"},
           FindFirst(Those(request)), UNCHANGED request
    PROVE  StringInv'
  <1> DEFINE r == request
             n == Length(r.mem, r.dest)
             D == {c \in r.dest..(r.dest + n) : r.mem[c] \in Those(r)}
  <1>1. PICK k \in Nat : Searching(r, k)
    BY DEF StringInv, Looping
  <1>2. /\ r.dest \in Nat /\ n \in Nat /\ k <= n
        /\ ptr = r.dest + k /\ mem = r.mem
        /\ mem[ptr] = NUL <=> k = n
        /\ mem[ptr] # NUL => NoEnd(r.mem, r.dest, k + 1)
        /\ AsksForChar(r) => Matches(r) = D
    BY <1>1, SearchFacts
  <1>3. \A i \in 0..(k - 1) : r.mem[r.dest + i] \notin Those(r)
    BY <1>1 DEF Searching
  <1> HIDE DEF n
  <1>4. \A c \in D : c \in Nat /\ c >= r.dest + k
    <2> TAKE c \in D
    <2>1. c \in Nat /\ c >= r.dest /\ r.mem[c] \in Those(r)
      BY <1>2
    <2>2. c - r.dest \in Nat /\ r.dest + (c - r.dest) = c
      BY <1>2, <2>1
    <2>3. c - r.dest \notin 0..(k - 1)
      BY <1>3, <2>1, <2>2
    <2> QED BY <1>2, <2>1, <2>2, <2>3
  <1>5. CASE mem[ptr] \in Those(r)
    <2>1. doing' = "done" /\ result' = r.dest + k /\ mem' = mem
      BY <1>2, <1>5 DEF FindFirst, Returns
    <2>2. r.dest + k \in D
      BY <1>2, <1>5
    <2>3. Min(D) = r.dest + k /\ D # {}
      <3>1. \A c \in D : c \in Int /\ r.dest + k <= c
        BY <1>2, <1>4
      <3> HIDE DEF D
      <3> QED BY <2>2, <3>1, MinIs
    <2>4. mem' = Outcome(r) /\ Promised(r, result')
      BY <1>2, <2>1, <2>3 DEF Outcome, Promised
    <2> QED BY <2>1, <2>4, LoopStep
  <1>6. CASE mem[ptr] \notin Those(r) /\ mem[ptr] = NUL
    <2>1. doing' = "done" /\ result' = Nowhere /\ mem' = mem
      BY <1>6 DEF FindFirst, Returns
    <2>2. D = {}
      <3>1. ASSUME NEW c \in D PROVE FALSE
        <4>1. c = r.dest + k
          BY <1>2, <1>4, <1>6
        <4> QED BY <1>2, <1>6, <4>1
      <3> QED BY <3>1
    <2>3. mem' = Outcome(r) /\ Promised(r, result')
      BY <1>2, <2>1, <2>2 DEF Outcome, Promised
    <2> QED BY <2>1, <2>3, LoopStep
  <1>7. CASE mem[ptr] \notin Those(r) /\ mem[ptr] # NUL
    <2>1. doing' = "loop" /\ ptr' = r.dest + (k + 1) /\ mem' = mem
      BY <1>2, <1>7 DEF FindFirst, Goes
    <2>2. \A i \in 0..((k + 1) - 1) : r.mem[r.dest + i] \notin Those(r)
      BY <1>2, <1>3, <1>7
    <2>3. Searching(r, k + 1)'
      BY <1>2, <1>7, <2>1, <2>2 DEF Searching, Those
    <2>4. Looping(r, k + 1)'
      BY <2>3 DEF Looping
    <2> QED BY <2>1, <2>4, LoopStep
  <1> QED BY <1>5, <1>6, <1>7

\* strrchr and strrsep: `last' is the last match before the pointer.
LEMMA LastStep ==
    ASSUME StringInv, doing = "loop", request.fn \in {"strrchr", "strrsep"},
           FindLast(Those(request)), UNCHANGED request
    PROVE  StringInv'
  <1> DEFINE r == request
             n == Length(r.mem, r.dest)
             D == {c \in r.dest..(r.dest + n) : r.mem[c] \in Those(r)}
             match == IF mem[ptr] \in Those(r) THEN ptr ELSE last
  <1>1. PICK k \in Nat : Searching(r, k)
    BY DEF StringInv, Looping
  <1>2. /\ r.dest \in Nat /\ n \in Nat /\ k <= n
        /\ ptr = r.dest + k /\ mem = r.mem
        /\ mem[ptr] = NUL <=> k = n
        /\ mem[ptr] # NUL => NoEnd(r.mem, r.dest, k + 1)
        /\ AsksForChar(r) => Matches(r) = D
    BY <1>1, SearchFacts
  <1>3. /\ \A i \in 0..(k - 1) : r.mem[r.dest + i] \in Those(r) => r.dest + i <= last
        /\ \/ last = Nowhere
           \/ \E i \in 0..(k - 1) : last = r.dest + i /\ r.mem[last] \in Those(r)
    BY <1>1 DEF Searching
  <1> HIDE DEF n
  <1>4. /\ \A i \in 0..k : r.mem[r.dest + i] \in Those(r) => r.dest + i <= match
        /\ \/ match = Nowhere
           \/ \E i \in 0..k : match = r.dest + i /\ r.mem[match] \in Those(r)
    <2>1. CASE mem[ptr] \in Those(r)
      BY <1>2, <2>1
    <2>2. CASE mem[ptr] \notin Those(r)
      <3>1. match = last
        BY <2>2
      <3>2. r.mem[r.dest + k] \notin Those(r)
        BY <1>2, <2>2
      <3> HIDE DEF match
      <3>3. \A i \in 0..k : i \in 0..(k - 1) \/ i = k
        OBVIOUS
      <3> QED BY <1>3, <3>1, <3>2, <3>3
    <2> QED BY <2>1, <2>2
  <1>5. CASE mem[ptr] = NUL
    <2>1. doing' = "done" /\ result' = match /\ mem' = mem /\ k = n
      BY <1>2, <1>5 DEF FindLast
    <2> HIDE DEF match
    <2>2. \A c \in D : c \in Int /\ c <= match
      <3> TAKE c \in D
      <3>1. c \in Nat /\ c >= r.dest /\ c <= r.dest + k /\ r.mem[c] \in Those(r)
        BY <1>2, <2>1
      <3>2. c - r.dest \in 0..k /\ r.dest + (c - r.dest) = c
        BY <1>2, <3>1
      <3> QED BY <1>4, <3>1, <3>2
    <2>3. CASE match = Nowhere
      <3>1. D = {}
        <4>1. ASSUME NEW c \in D PROVE FALSE
          <5>1. c \in Nat /\ c <= match
            BY <1>2, <2>2
          <5> QED BY <2>3, <5>1 DEF Nowhere
        <4> QED BY <4>1
      <3> QED BY <1>2, <2>1, <2>3, <3>1, LoopStep DEF Outcome, Promised
    <2>4. CASE match # Nowhere
      <3>1. match \in D
        <4>1. PICK i \in 0..k : match = r.dest + i /\ r.mem[match] \in Those(r)
          BY <1>4, <2>4
        <4> QED BY <1>2, <2>1, <4>1
      <3>2. Max(D) = match /\ D # {}
        <4> HIDE DEF D
        <4>1. \A c \in D : c \in Int /\ match >= c
          <5> TAKE c \in D
          <5>1. c \in Int /\ match \in Int /\ c <= match
            BY <2>2, <3>1
          <5> QED BY <5>1
        <4> QED BY <3>1, <4>1, MaxIs
      <3> QED BY <1>2, <2>1, <3>2, LoopStep DEF Outcome, Promised
    <2> QED BY <2>3, <2>4
  <1>6. CASE mem[ptr] # NUL
    <2>1. doing' = "loop" /\ ptr' = r.dest + (k + 1) /\ mem' = mem /\ last' = match
      BY <1>2, <1>6 DEF FindLast
    <2> HIDE DEF match
    <2>2. (k + 1) - 1 = k
      OBVIOUS
    <2>3. Searching(r, k + 1)'
      BY <1>2, <1>4, <1>6, <2>1, <2>2 DEF Searching, Those
    <2>4. Looping(r, k + 1)'
      BY <2>3 DEF Looping
    <2> QED BY <2>1, <2>4, LoopStep
  <1> QED BY <1>5, <1>6

LEMMA MemchrStep ==
    ASSUME StringInv, memchr PROVE StringInv'
  <1> DEFINE r == request
             D == {c \in r.dest..(r.dest + r.count - 1) : r.mem[c] \in {r.ch}}
  <1>1. r.fn = "memchr" /\ doing = "loop" /\ request' = request /\ mem' = mem
    BY DEF memchr, Calling
  <1>2. PICK k \in Nat : Searching(r, k)
    BY <1>1 DEF StringInv, Looping
  <1>3. /\ r.dest \in Nat /\ r.count \in Nat
        /\ ptr = r.dest + k /\ mem = r.mem /\ left \in Nat /\ left + k = r.count
        /\ \A i \in 0..(k - 1) : r.mem[r.dest + i] # r.ch
    BY <1>1, <1>2, MemoryFacts DEF StringInv, Searching, Those
  <1>4. AsksForChar(r) => Matches(r) = D
    BY <1>1 DEF Matches, AsksForChar
  <1>5. \A c \in D : c \in Int /\ c >= r.dest + k /\ c < r.dest + r.count
    <2> TAKE c \in D
    <2>1. c \in Nat /\ c >= r.dest /\ c < r.dest + r.count /\ r.mem[c] = r.ch
      BY <1>3
    <2>2. c - r.dest \in Nat /\ r.dest + (c - r.dest) = c
      BY <1>3, <2>1
    <2>3. c - r.dest \notin 0..(k - 1)
      BY <1>3, <2>1, <2>2
    <2> QED BY <1>3, <2>1, <2>2, <2>3
  <1>6. CASE left = 0
    <2>1. D = {}
      BY <1>3, <1>5, <1>6
    <2>2. doing' = "done"
      BY <1>6 DEF memchr, Returns
    <2> QED BY <1>1, <1>3, <1>4, <2>1, <2>2, LoopStep DEF Outcome, Promised
  <1>7. CASE left # 0 /\ mem[ptr] = r.ch
    <2>1. doing' = "done" /\ result' = r.dest + k
      BY <1>3, <1>7 DEF memchr, Returns
    <2>2. r.dest + k \in D
      BY <1>3, <1>7
    <2>3. Min(D) = r.dest + k
      <3>1. \A c \in D : c \in Int /\ r.dest + k <= c
        BY <1>3, <1>5
      <3> HIDE DEF D
      <3> QED BY <2>2, <3>1, MinIs
    <2> QED BY <1>1, <1>3, <1>4, <2>1, <2>3, LoopStep DEF Outcome, Promised
  <1>8. CASE left # 0 /\ mem[ptr] # r.ch
    <2>1. doing' = "loop" /\ ptr' = r.dest + (k + 1) /\ left' = left - 1
      BY <1>1, <1>3, <1>8 DEF memchr, Goes
    <2>2. left' \in Nat /\ left' + (k + 1) = r.count
      BY <1>3, <1>8, <2>1
    <2>3. \A i \in 0..((k + 1) - 1) : r.mem[r.dest + i] # r.ch
      BY <1>3, <1>8
    <2>4. Searching(r, k + 1)'
      BY <1>1, <1>3, <2>1, <2>2, <2>3 DEF Searching, Those
    <2>5. Looping(r, k + 1)'
      BY <1>1, <2>4 DEF Looping
    <2> QED BY <1>1, <2>1, <2>5, LoopStep
  <1> QED BY <1>6, <1>7, <1>8
-----------------------------------------------------------------------------
LEMMA StringInvInit == StringInit => StringInv
  <1> SUFFICES ASSUME StringInit PROVE StringInv
    OBVIOUS
  <1> DEFINE r == request
  <1>1. /\ r \in Requests /\ Legal(r) /\ mem = r.mem /\ ptr = r.dest /\ src = r.src
        /\ left = r.count /\ last = Nowhere
        /\ doing = IF r.fn = "strcat" THEN "seek" ELSE "loop"
    BY DEF StringInit, StringStart
  <1>2. r.dest \in Nat /\ r.src \in Nat /\ r.count \in Nat
    BY <1>1, MemoryFacts
  <1>3. \A m, p : NoEnd(m, p, 0)
    BY DEF NoEnd
  <1>4. With(r.mem, r.dest, BytesAt(r.mem, r.src, 0)) = r.mem
    BY <1>1, <1>2, WithEmpty, NoBytes
  <1>5. \A e : With(r.mem, r.dest, [i \in 1..0 |-> e[i]]) = r.mem
    <2>1. \A e : [i \in 1..0 |-> e[i]] = <<>>
      OBVIOUS
    <2> QED BY <1>1, <1>2, <2>1, WithEmpty
  <1>6. CASE r.fn = "strcat"
    <2>1. Seeking(r, 0)
      BY <1>1, <1>2, <1>3, <1>6 DEF Seeking
    <2> QED BY <1>1, <1>6, <2>1 DEF StringInv, CallCorrect
  <1>7. CASE r.fn # "strcat"
    <2>1. Changing(r, 0)
      <3>1. /\ [i \in 1..0 |-> Int8(r.ch)] = <<>>
            /\ [i \in 1..0 |-> Raised(r.mem[r.dest + i - 1])] = <<>>
        OBVIOUS
      <3>2. With(r.mem, r.dest, <<>>) = r.mem
        BY <1>1, <1>2, WithEmpty
      <3> QED BY <1>1, <1>2, <1>3, <3>1, <3>2 DEF Changing
    <2>2. r.fn = "strcpy" => CopyingString(r, 0)
      BY <1>1, <1>2, <1>3, <1>4, <1>7 DEF CopyingString, Target
    <2>3. CopyingBytes(r, 0)
      BY <1>1, <1>2, <1>3, <1>4 DEF CopyingBytes
    <2>4. Measuring(r, 0)
      BY <1>1, <1>2, <1>3 DEF Measuring
    <2>5. Comparing(r, 0)
      BY <1>1, <1>2, <1>3 DEF Comparing
    <2>6. Searching(r, 0)
      BY <1>1, <1>2, <1>3 DEF Searching
    <2>7. Looping(r, 0)
      BY <1>7, <2>1, <2>2, <2>3, <2>4, <2>5, <2>6 DEF Looping
    <2> QED BY <1>1, <1>7, <2>7 DEF StringInv, CallCorrect
  <1> QED BY <1>6, <1>7

\* A step keeps the invariant.
LEMMA StringInvStep ==
    ASSUME StringInv, [StringNext]_stringVars PROVE StringInv'
  <1>1. CASE UNCHANGED stringVars
    <2>1. request' = request /\ mem' = mem /\ ptr' = ptr /\ src' = src /\ left' = left
            /\ last' = last /\ result' = result /\ doing' = doing
      BY <1>1 DEF stringVars
    <2>2. \A k : Seeking(request, k) => Seeking(request, k)'
      BY <2>1 DEF Seeking
    <2>3. ASSUME NEW k, Looping(request, k) PROVE Looping(request, k)'
      <3>1. /\ CopyingString(request, k) => CopyingString(request, k)'
            /\ CopyingBytes(request, k) => CopyingBytes(request, k)'
            /\ Changing(request, k) => Changing(request, k)'
        BY <2>1 DEF CopyingString, CopyingBytes, Changing
      <3>2. /\ Measuring(request, k) => Measuring(request, k)'
            /\ Comparing(request, k) => Comparing(request, k)'
            /\ Searching(request, k) => Searching(request, k)'
        BY <2>1 DEF Measuring, Comparing, Searching
      <3> QED BY <2>1, <2>3, <3>1, <3>2 DEF Looping
    <2>4. CallCorrect'
      BY <2>1 DEF StringInv, CallCorrect
    <2> QED BY <2>1, <2>2, <2>3, <2>4 DEF StringInv
  <1>2. CASE strcpy
    BY <1>2, StringCopies DEF strcpy, Calling
  <1>3. CASE strcat
    BY <1>3, StringCopies, SeekStep DEF strcat, Calling
  <1>4. CASE strchr
    BY <1>4, FirstStep DEF strchr, Calling, Those
  <1>5. CASE strsep
    BY <1>5, FirstStep DEF strsep, Calling, Those
  <1>6. CASE strrchr
    BY <1>6, LastStep DEF strrchr, Calling, Those
  <1>7. CASE strrsep
    BY <1>7, LastStep DEF strrsep, Calling, Those
  <1> QED
    BY <1>1, <1>2, <1>3, <1>4, <1>5, <1>6, <1>7, StrncpyStep, StrnlenStep, StrlenStep,
       StrcmpStep, MemcmpStep, MemsetStep, MemcpyStep, MemchrStep, StruprStep DEF StringNext

\* Every function of string.c returns and leaves in memory what the C
\* library's does, whatever the memory and the arguments: strings end where
\* they should, copies that overlap forwards included (string.c:7-232).
THEOREM CallsCorrect == StringSpec => []CallCorrect
  <1>1. StringInv /\ [StringNext]_stringVars => StringInv'
    BY StringInvStep
  <1>2. StringInv => CallCorrect
    BY DEF StringInv
  <1> QED BY StringInvInit, <1>1, <1>2, PTL DEF StringSpec

-----------------------------------------------------------------------------
(***************************************************************************)
(* Every call of string.c returns.                                         *)
(***************************************************************************)

\* The functions that are told how many bytes there are, and all of them.
Counted   == {"strncpy", "memset", "memcpy", "memcmp", "memchr", "strnlen"}
Functions == Counted \cup {"strcpy", "strcat", "strlen", "strcmp", "strchr", "strrchr",
                           "strsep", "strrsep", "strupr"}

\* The bytes a call steps over, at most.
Turns(r) ==
    CASE r.fn \in Counted  -> r.count
      [] r.fn = "strcpy"   -> Length(r.mem, r.src)
      [] r.fn = "strcat"   -> Length(r.mem, r.dest) + Length(r.mem, r.src)
      [] OTHER             -> Length(r.mem, r.dest)

Stage(d) == IF d = "seek" THEN 2 ELSE IF d = "loop" THEN 1 ELSE 0

\* The steps a call has left.
StringLeft == request.dest + Turns(request) - ptr + Stage(doing)

\* A legal call has a number of them.
LEMMA TurnsNat ==
    ASSUME NEW r \in Requests, Legal(r)
    PROVE  Turns(r) \in Nat
  <1>1. r.dest \in Nat /\ r.src \in Nat /\ r.count \in Nat
    BY MemoryFacts
  <1>2. CASE r.fn \in Counted
    BY <1>1, <1>2 DEF Turns, Counted
  <1>3. CASE r.fn = "strcpy"
    <2>1. Ends(r.mem, r.src) # {}
      BY <1>3 DEF Legal, LegalCopy
    <2>2. Length(r.mem, r.src) \in Nat
      BY <1>1, <2>1, LengthFacts
    <2> QED BY <1>3, <2>2 DEF Turns, Counted
  <1>4. CASE r.fn = "strcat"
    <2>1. Ends(r.mem, r.src) # {} /\ Ends(r.mem, r.dest) # {}
      BY <1>4 DEF Legal, LegalCopy
    <2>2. Length(r.mem, r.src) \in Nat /\ Length(r.mem, r.dest) \in Nat
      BY <1>1, <2>1, LengthFacts
    <2> QED BY <1>4, <2>2 DEF Turns, Counted
  <1>5. CASE r.fn \notin Counted \cup {"strcpy", "strcat"}
    <2>1. Ends(r.mem, r.dest) # {}
      BY <1>5 DEF Legal, Counted
    <2>2. Length(r.mem, r.dest) \in Nat
      BY <1>1, <2>1, LengthFacts
    <2> QED BY <1>5, <2>2 DEF Turns
  <1> QED BY <1>2, <1>3, <1>4, <1>5

\* While a call goes on its pointer is not past the last of these bytes.
NotBeyond ==
    StringInv /\ doing # "done" /\ request.fn \in Functions =>
        ptr \in Nat /\ ptr <= request.dest + Turns(request)

LEMMA PointerBound == NotBeyond
  <1> SUFFICES ASSUME StringInv, doing # "done", request.fn \in Functions
               PROVE  ptr \in Nat /\ ptr <= request.dest + Turns(request)
    BY DEF NotBeyond
  <1> DEFINE r == request
  <1>1. r \in Requests /\ Legal(r)
    BY DEF StringInv
  <1>2. r.dest \in Nat /\ r.src \in Nat /\ r.count \in Nat
    BY <1>1, MemoryFacts
  <1>3. CASE doing = "seek"
    <2>1. PICK k \in Nat : Seeking(r, k)
      BY <1>3 DEF StringInv
    <2>2. r.fn = "strcat" /\ ptr = r.dest + k /\ NoEnd(r.mem, r.dest, k)
      BY <2>1 DEF Seeking
    <2>3. Ends(r.mem, r.src) # {} /\ Ends(r.mem, r.dest) # {}
      BY <1>1, <2>2 DEF Legal, LegalCopy
    <2>4. k <= Length(r.mem, r.dest)
      BY <1>1, <1>2, <2>2, <2>3, NotPast
    <2>5. Length(r.mem, r.src) \in Nat /\ Length(r.mem, r.dest) \in Nat
      BY <1>1, <1>2, <2>3, LengthFacts
    <2> QED BY <1>2, <2>2, <2>4, <2>5 DEF Turns, Counted
  <1>4. CASE doing = "loop"
    <2>1. PICK k \in Nat : Looping(r, k)
      BY <1>4 DEF StringInv
    <2>2. CASE r.fn \in Counted
      <3>1. ptr = r.dest + k /\ left + k = r.count /\ left \in Nat
        <4>1. CASE r.fn \in {"strncpy", "memcpy"}
          BY <2>1, <4>1 DEF Looping, CopyingBytes
        <4>2. CASE r.fn = "memset"
          BY <2>1, <4>2 DEF Looping, Changing
        <4>3. CASE r.fn = "strnlen"
          BY <2>1, <4>3 DEF Looping, Measuring
        <4>4. CASE r.fn = "memcmp"
          BY <2>1, <4>4 DEF Looping, Comparing
        <4>5. CASE r.fn = "memchr"
          BY <2>1, <4>5 DEF Looping, Searching
        <4>6. \/ r.fn \in {"strncpy", "memcpy"} \/ r.fn = "memset" \/ r.fn = "strnlen"
              \/ r.fn = "memcmp" \/ r.fn = "memchr"
          BY <2>2 DEF Counted
        <4> QED BY <4>1, <4>2, <4>3, <4>4, <4>5, <4>6
      <3>2. Turns(r) = r.count
        BY <2>2 DEF Turns, Counted
      <3> QED BY <1>2, <3>1, <3>2
    <2>3. CASE r.fn \in {"strcpy", "strcat"}
      <3>1. ptr = Target(r) + k /\ NoEnd(r.mem, r.src, k)
        BY <2>1, <2>3 DEF Looping, CopyingString
      <3>2. Ends(r.mem, r.src) # {} /\ (r.fn = "strcat" => Ends(r.mem, r.dest) # {})
        BY <1>1, <2>3 DEF Legal, LegalCopy
      <3>3. k <= Length(r.mem, r.src)
        BY <1>1, <1>2, <3>1, <3>2, NotPast
      <3>4. Length(r.mem, r.src) \in Nat /\ (r.fn = "strcat" => Length(r.mem, r.dest) \in Nat)
        BY <1>1, <1>2, <3>2, LengthFacts
      <3> QED BY <1>2, <2>3, <3>1, <3>3, <3>4 DEF Turns, Counted, Target
    <2>4. CASE r.fn \in Functions \ (Counted \cup {"strcpy", "strcat"})
      <3>1. ptr = r.dest + k /\ NoEnd(r.mem, r.dest, k)
        BY <2>1, <2>4 DEF Looping, Changing, Measuring, Comparing, Searching, Counted, Functions
      <3>2. Ends(r.mem, r.dest) # {}
        BY <1>1, <2>4 DEF Legal, Counted, Functions
      <3>3. k <= Length(r.mem, r.dest)
        BY <1>1, <1>2, <3>1, <3>2, NotPast
      <3>4. Length(r.mem, r.dest) \in Nat
        BY <1>1, <1>2, <3>2, LengthFacts
      <3> QED BY <1>2, <2>4, <3>1, <3>3, <3>4 DEF Turns
    <2> QED BY <2>2, <2>3, <2>4
  <1> QED BY <1>3, <1>4 DEF StringInv

LEMMA PointerBoundNext == NotBeyond'
  BY PointerBound, PTL

\* A step of a call goes on by a byte or comes to the next stage.
LEMMA CallGoesOn ==
    ASSUME StringInv, StringNext
    PROVE  /\ request' = request /\ request.fn \in Functions
           /\ \/ ptr' = ptr + 1 /\ doing' = doing /\ doing # "done"
              \/ ptr' = ptr /\ Stage(doing') < Stage(doing)
  <1>1. CASE strcpy \/ strncpy
    BY <1>1 DEF strcpy, strncpy, Calling, CopyString, Returns, Goes, Stage, Functions, Counted
  <1>2. CASE strcat
    <2>1. CASE SeekEnd
      <3>1. request.fn = "strcat"
        BY <2>1 DEF StringInv, SeekEnd, Seeking
      <3> QED BY <2>1, <3>1 DEF SeekEnd, Stage, Functions
    <2>2. CASE Calling("strcat") /\ CopyString
      BY <2>2 DEF Calling, CopyString, Returns, Goes, Stage, Functions
    <2> QED BY <1>2, <2>1, <2>2 DEF strcat
  <1>3. CASE strnlen \/ strlen \/ strcmp
    BY <1>3 DEF strnlen, strlen, strcmp, Calling, Returns, Goes, Stage, Functions, Counted
  <1>4. CASE strchr \/ strsep
    BY <1>4 DEF strchr, strsep, FindFirst, Calling, Returns, Goes, Stage, Functions
  <1>5. CASE strrchr \/ strrsep
    BY <1>5 DEF strrchr, strrsep, FindLast, Calling, Stage, Functions
  <1>6. CASE memcmp \/ memset \/ memcpy
    BY <1>6 DEF memcmp, memset, memcpy, Calling, Returns, Goes, Stage, Functions, Counted
  <1>7. CASE memchr \/ strupr
    BY <1>7 DEF memchr, strupr, Calling, Returns, Goes, Stage, Functions, Counted
  <1> QED BY <1>1, <1>2, <1>3, <1>4, <1>5, <1>6, <1>7 DEF StringNext

Underway == StringInv /\ ptr \in Nat /\ ptr <= request.dest + Turns(request)

\* Every call of string.c returns, after as many steps as there are bytes to
\* step over: no loop runs past the end of what it may look at
\* (string.c:7-232).
THEOREM StringComesToEnd ==
    StringSpec => [](StringLeft \in Nat) /\ [][StringLeft' < StringLeft]_stringVars
  <1>1. StringInit => Underway
    <2> SUFFICES ASSUME StringInit PROVE Underway
      OBVIOUS
    <2>1. StringInv
      BY StringInvInit
    <2>2. request \in Requests /\ Legal(request) /\ ptr = request.dest
      BY <2>1 DEF StringInv, StringInit, StringStart
    <2>3. request.dest \in Nat /\ Turns(request) \in Nat
      BY <2>2, MemoryFacts, TurnsNat
    <2> QED BY <2>1, <2>2, <2>3 DEF Underway
  <1>2. Underway /\ [StringNext]_stringVars => Underway'
    <2> SUFFICES ASSUME Underway, [StringNext]_stringVars PROVE Underway'
      OBVIOUS
    <2>1. StringInv'
      BY StringInvStep DEF Underway
    <2>2. CASE StringNext
      <3>1. /\ request' = request /\ request.fn \in Functions
            /\ \/ ptr' = ptr + 1 /\ doing' = doing /\ doing # "done"
               \/ ptr' = ptr
        BY <2>2, CallGoesOn DEF Underway
      <3>2. CASE ptr' = ptr
        BY <2>1, <3>1, <3>2 DEF Underway
      <3>3. CASE ptr' = ptr + 1 /\ doing' # "done"
        <4>1. ptr' \in Nat /\ ptr' <= request'.dest + Turns(request')
          BY <2>1, <3>1, <3>3, PointerBoundNext DEF NotBeyond
        <4> QED BY <2>1, <4>1 DEF Underway
      <3> QED BY <3>1, <3>2, <3>3
    <2>3. CASE UNCHANGED stringVars
      BY <2>1, <2>3 DEF Underway, stringVars
    <2> QED BY <2>2, <2>3
  <1>3. Underway => StringLeft \in Nat
    <2> SUFFICES ASSUME Underway PROVE StringLeft \in Nat
      OBVIOUS
    <2>1. request.dest \in Nat /\ Turns(request) \in Nat
      BY MemoryFacts, TurnsNat DEF Underway, StringInv
    <2> QED BY <2>1 DEF Underway, StringLeft, Stage
  <1>4. Underway /\ [StringNext]_stringVars => [StringLeft' < StringLeft]_stringVars
    <2> SUFFICES ASSUME Underway, StringNext PROVE StringLeft' < StringLeft
      OBVIOUS
    <2>1. request.dest \in Nat /\ Turns(request) \in Nat /\ ptr \in Nat
      BY MemoryFacts, TurnsNat DEF Underway, StringInv
    <2>2. /\ request' = request
          /\ \/ ptr' = ptr + 1 /\ doing' = doing
             \/ ptr' = ptr /\ Stage(doing') < Stage(doing)
      BY CallGoesOn DEF Underway
    <2>3. StringLeft' = request.dest + Turns(request) - ptr' + Stage(doing')
      BY <2>2 DEF StringLeft
    <2>4. Stage(doing) \in Nat /\ Stage(doing') \in Nat
      BY DEF Stage
    <2> DEFINE a == Stage(doing)
               b == Stage(doing')
    <2> HIDE DEF a, b
    <2>5. /\ StringLeft' = request.dest + Turns(request) - ptr' + b
          /\ StringLeft = request.dest + Turns(request) - ptr + a
          /\ a \in Nat /\ b \in Nat
          /\ \/ ptr' = ptr + 1 /\ a = b
             \/ ptr' = ptr /\ b < a
      BY <2>2, <2>3, <2>4 DEF a, b, StringLeft
    <2> QED BY <2>1, <2>5
  <1> QED BY <1>1, <1>2, <1>3, <1>4, PTL DEF StringSpec
=============================================================================
