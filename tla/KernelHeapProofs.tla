-------------------------- MODULE KernelHeapProofs --------------------------
(***************************************************************************)
(* The page pool accounts for every page, for any size of pool and any     *)
(* requests, and does what PageAllocator promises when the pool fills its  *)
(* map exactly.                                                            *)
(*                                                                         *)
(* The heap on it keeps its three views of a page - the header of its      *)
(* arena, the free list and what callers hold - in agreement, and uses the *)
(* pool as PagePool expects of its callers, for any pool and any requests. *)
(* The first part uses no assumption on the heap.                          *)
(***************************************************************************)
EXTENDS KernelHeap, FiniteSetTheorems, TLAPS

\* A set of natural numbers that is not empty has a least element.
LEMMA LeastElement ==
    ASSUME NEW S \in SUBSET Nat, S # {}
    PROVE  /\ Min(S) \in S
           /\ \A y \in S : Min(S) <= y
PROOF
  <1>. DEFINE R == OpToRel(<, Nat)
  <1>1. IsWellFoundedOn(R, Nat)
    BY NatLessThanWellFounded
  <1>2. R = {ss \in Nat \X Nat : ss[1] < ss[2]}
    BY DEF OpToRel
  <1>. HIDE DEF R
  <1>3. PICK x \in S : \A y \in S : ~ (<<y, x>> \in R)
    BY <1>1, WFMin
  <1>4. \A y \in S : ~ (y < x)
    BY <1>2, <1>3
  <1>5. \E z \in S : \A y \in S : z =< y
    BY <1>4
  <1>. QED  BY <1>5 DEF Min

LEMMA PageBitsFact ==
    /\ PageBits \in SUBSET Nat
    /\ Ceil(TotalPages, ByteSize) * ByteSize \in Nat
    /\ PageBits = PoolBase .. (PoolBase + Ceil(TotalPages, ByteSize) * ByteSize - 1)
PROOF
  <1>1. (TotalPages - 1) \div ByteSize \in Nat
    BY PoolAssumption, ByteSizeAssumption
  <1>2. Ceil(TotalPages, ByteSize) \in Nat
    BY <1>1 DEF Ceil
  <1>. QED
    BY <1>2, PoolAssumption, ByteSizeAssumption DEF PageBits, BitmapBits

\* The map covers the pool, and its last byte may reach past the pool's end.
LEMMA PagesInBits == Pages \subseteq PageBits /\ Reserved \subseteq Pages
PROOF
  <1>. DEFINE q == (TotalPages - 1) \div ByteSize
  <1>1. /\ q \in Nat
        /\ TotalPages - 1 = (q * ByteSize) + ((TotalPages - 1) % ByteSize)
        /\ (TotalPages - 1) % ByteSize \in 0..(ByteSize - 1)
    BY PoolAssumption, ByteSizeAssumption
  <1>2. (q + 1) * ByteSize = q * ByteSize + ByteSize
    BY <1>1, ByteSizeAssumption
  <1>3. q * ByteSize \in Int
    BY <1>1, ByteSizeAssumption
  <1>4. Ceil(TotalPages, ByteSize) * ByteSize = q * ByteSize + ByteSize
    BY <1>2 DEF Ceil
  <1>. HIDE DEF q
  <1>5. TotalPages <= q * ByteSize + ByteSize
    BY <1>1, <1>3, PoolAssumption, ByteSizeAssumption
  <1>. QED
    BY <1>3, <1>4, <1>5, PageBitsFact, PoolAssumption, ByteSizeAssumption
       DEF Pages, Reserved

\* What the scan finds is a run of clear bits of the map, and if it finds
\* nothing there is no such run.
LEMMA ScanResult ==
    ASSUME NEW ones, NEW cnt \in Nat \ {0}
    PROVE  LET idx == bitmap_scan(PageBits, ones, cnt)
           IN  /\ idx \in FreeRuns(PageBits, ones, cnt) \/ idx = NotFound
               /\ idx = NotFound <=> FreeRuns(PageBits, ones, cnt) = {}
               /\ Run(idx, cnt) \subseteq PageBits <=> idx # NotFound
               /\ idx # NotFound => Run(idx, cnt) \subseteq PageBits \ ones
PROOF
  <1>. DEFINE Runs == FreeRuns(PageBits, ones, cnt)
              idx == bitmap_scan(PageBits, ones, cnt)
  <1>1. Runs \in SUBSET Nat
    BY PageBitsFact DEF FreeRuns
  <1>2. CASE Runs = {}
    <2>1. idx = NotFound
      BY <1>2 DEF bitmap_scan
    <2>2. -1 \in Run(idx, cnt)
      BY <2>1 DEF Run, NotFound
    <2>3. -1 \notin PageBits
      BY PageBitsFact
    <2>. QED  BY <1>2, <2>1, <2>2, <2>3
  <1>3. CASE Runs # {}
    <2>1. Min(Runs) \in Runs
      BY <1>1, <1>3, LeastElement
    <2>2. idx \in Runs
      BY <1>3, <2>1 DEF bitmap_scan
    <2>3. idx # NotFound
      BY <1>1, <2>2 DEF NotFound
    <2>4. Run(idx, cnt) \subseteq PageBits \ ones
      BY <2>2 DEF FreeRuns
    <2>. QED  BY <1>3, <2>2, <2>3, <2>4
  <1>. QED  BY <1>2, <1>3

\* A step of the pool keeps the types of its variables.
LEMMA PoolStepTyped == PoolTypeOK /\ [PoolNext]_poolVars => PoolTypeOK'
PROOF
  <1>. SUFFICES ASSUME PoolTypeOK, [PoolNext]_poolVars
                PROVE  PoolTypeOK'
    OBVIOUS
  <1>1. ASSUME NEW count \in Counts, AllocPages(count)
        PROVE  PoolTypeOK'
    <2>. DEFINE idx == bitmap_scan(PageBits, used, count)
                new == Request(idx, count)
    <2>1. idx \in PageBits
      BY <1>1, ScanResult, PoolAssumption DEF AllocPages, FreeRuns
    <2>2. new = Request(new.base, new.count) /\ new.base = idx /\ new.count = count
      BY DEF Request
    <2>3. extents' = extents \cup {new}
      BY <1>1 DEF AllocPages
    <2>. HIDE DEF idx, new
    <2>4. (\A e \in extents : /\ e = Request(e.base, e.count)
                              /\ e.base \in PageBits
                              /\ e.count \in Counts)'
      BY <2>1, <2>2, <2>3 DEF PoolTypeOK
    <2>5. used' \subseteq PageBits /\ available' = available /\ failed' = NoFailure
      BY <1>1 DEF AllocPages, PoolTypeOK
    <2>. QED
      BY <2>4, <2>5 DEF PoolTypeOK
  <1>2. ASSUME NEW count \in Counts, AllocAsserts(count)
        PROVE  PoolTypeOK'
    BY <1>2 DEF AllocAsserts, PoolTypeOK
  <1>3. ASSUME NEW e \in extents, FreePages(e)
        PROVE  PoolTypeOK'
    <2>1. failed' = NoFailure
      BY <1>3 DEF FreePages
    <2>. QED  BY <1>3, <2>1 DEF FreePages, PoolTypeOK
  <1>4. ASSUME NEW e \in extents, FreeAsserts(e)
        PROVE  PoolTypeOK'
    BY <1>4 DEF FreeAsserts, PoolTypeOK
  <1>5. CASE UNCHANGED poolVars
    BY <1>5 DEF poolVars, PoolTypeOK
  <1>. QED
    BY <1>1, <1>2, <1>3, <1>4, <1>5 DEF PoolNext

\* The variables of the pool keep their types.
THEOREM PoolTyping == PoolSpec => []PoolTypeOK
PROOF
  <1>1. PoolInit => PoolTypeOK
    BY PagesInBits, PoolAssumption DEF PoolInit, PoolTypeOK
  <1>2. PoolTypeOK /\ [PoolNext]_poolVars => PoolTypeOK'
    BY PoolStepTyped
  <1>. QED
    BY <1>1, <1>2, PTL DEF PoolSpec

\* A step of the pool keeps the accounting and the runs apart.
LEMMA PoolStepSafe ==
    PoolTypeOK /\ (PoolAccounting /\ ExtentsDisjoint) /\ [PoolNext]_poolVars
      => (PoolAccounting /\ ExtentsDisjoint)'
PROOF
  <1>. DEFINE Inv == PoolAccounting /\ ExtentsDisjoint
  <1>. SUFFICES ASSUME PoolTypeOK, Inv, [PoolNext]_poolVars
                PROVE  Inv'
    OBVIOUS
  <1>1. ASSUME NEW count \in Counts, AllocPages(count)
        PROVE  Inv'
    <2>. DEFINE idx == bitmap_scan(PageBits, used, count)
                new == Request(idx, count)
    <2>1. extents' = extents \cup {new} /\ used' = used \cup Run(idx, count)
      BY <1>1 DEF AllocPages
    <2>2. ExtentPages(new) = Run(idx, count)
      BY DEF ExtentPages, Request
    <2>3. Run(idx, count) \cap used = {}
      BY <1>1, ScanResult, PoolAssumption DEF AllocPages
    <2>4. ExtentPages(new) \cap (Reserved \cup Held) = {}
      BY <2>2, <2>3 DEF PoolAccounting
    <2>. HIDE DEF idx, new
    <2>5. PoolAccounting'
      BY <2>1, <2>2 DEF PoolAccounting, Held
    <2>6. ExtentsDisjoint'
      BY <2>1, <2>4 DEF ExtentsDisjoint, Held
    <2>. QED  BY <2>5, <2>6
  <1>2. ASSUME NEW count \in Counts, AllocAsserts(count)
        PROVE  Inv'
    BY <1>2 DEF AllocAsserts, PoolAccounting, ExtentsDisjoint, Held
  <1>3. ASSUME NEW e \in extents, FreePages(e)
        PROVE  Inv'
    <2>1. extents' = extents \ {e} /\ used' = used \ ExtentPages(e)
      BY <1>3 DEF FreePages
    <2>2. \A f \in extents \ {e} : ExtentPages(f) \cap ExtentPages(e) = {}
      BY DEF ExtentsDisjoint
    <2>3. ExtentPages(e) \cap Reserved = {}
      BY DEF ExtentsDisjoint
    <2>4. PoolAccounting'
      BY <2>1, <2>2, <2>3 DEF PoolAccounting, Held
    <2>5. ExtentsDisjoint'
      BY <2>1 DEF ExtentsDisjoint
    <2>. QED  BY <2>4, <2>5
  <1>4. ASSUME NEW e \in extents, FreeAsserts(e)
        PROVE  Inv'
    BY <1>4 DEF FreeAsserts, PoolAccounting, ExtentsDisjoint, Held
  <1>5. CASE UNCHANGED poolVars
    BY <1>5 DEF poolVars, PoolAccounting, ExtentsDisjoint, Held
  <1>. QED
    BY <1>1, <1>2, <1>3, <1>4, <1>5 DEF PoolNext

\* Every taken bit is a page of the kernel's own or one a caller holds, and no
\* page is held twice: both facts are needed for either to be kept, because a
\* release clears the bits of one run and must not clear those of another.
THEOREM PoolSafe == PoolSpec => [](PoolAccounting /\ ExtentsDisjoint)
PROOF
  <1>. DEFINE Inv == PoolAccounting /\ ExtentsDisjoint
  <1>1. PoolInit => Inv
    BY DEF PoolInit, PoolAccounting, ExtentsDisjoint, Held
  <1>2. PoolTypeOK /\ Inv /\ [PoolNext]_poolVars => Inv'
    BY PoolStepSafe
  <1>3. PoolSpec => []PoolTypeOK
    BY PoolTyping
  <1>. QED
    BY <1>1, <1>2, <1>3, PTL DEF PoolSpec
-----------------------------------------------------------------------------
(***************************************************************************)
(* The pool fills the last byte of its map.  This is so for the kernel     *)
(* pool (9216 pages); for the physical pool it depends on the memory map   *)
(* of the machine.                                                         *)
(***************************************************************************)
WholeBytes == TotalPages % ByteSize = 0

LEMMA BitsArePages == WholeBytes => PageBits = Pages
PROOF
  <1>. SUFFICES ASSUME WholeBytes PROVE PageBits = Pages
    OBVIOUS
  <1>. DEFINE k == TotalPages \div ByteSize
              q == (TotalPages - 1) \div ByteSize
              r == (TotalPages - 1) % ByteSize
  <1>1. k \in Nat /\ TotalPages = k * ByteSize
    BY PoolAssumption, ByteSizeAssumption DEF WholeBytes
  <1>2. /\ q \in Nat /\ r \in 0..(ByteSize - 1)
        /\ TotalPages - 1 = (q * ByteSize) + r
    BY PoolAssumption, ByteSizeAssumption
  <1>. HIDE DEF k, q, r
  <1>3. k = q + 1
    <2>1. CASE k <= q
      <3>1. k * ByteSize <= q * ByteSize
        BY <1>1, <1>2, <2>1, ByteSizeAssumption
      <3>. QED  BY <1>1, <1>2, <3>1, PoolAssumption, ByteSizeAssumption
    <2>2. CASE k >= q + 2
      <3>1. k * ByteSize >= (q + 2) * ByteSize
        BY <1>1, <1>2, <2>2, ByteSizeAssumption
      <3>2. (q + 2) * ByteSize = (q * ByteSize) + ByteSize + ByteSize
        BY <1>2, ByteSizeAssumption
      <3>. QED  BY <1>1, <1>2, <3>1, <3>2, PoolAssumption, ByteSizeAssumption
    <2>. QED  BY <1>1, <1>2, <2>1, <2>2
  <1>4. Ceil(TotalPages, ByteSize) * ByteSize = TotalPages
    BY <1>1, <1>3 DEF Ceil, q
  <1>. QED
    BY <1>4, PageBitsFact DEF Pages

\* A pool that fills its map only hands out pages of its own.
THEOREM PoolKeepsToItsPages == WholeBytes => (PoolSpec => []HeldInPool)
PROOF
  <1>1. WholeBytes /\ PoolTypeOK /\ PoolAccounting => HeldInPool
    BY BitsArePages DEF PoolTypeOK, PoolAccounting, HeldInPool
  <1>2. PoolSpec => []PoolTypeOK /\ []PoolAccounting
    BY PoolTyping, PoolSafe, PTL
  <1>3. WholeBytes => [](PoolTypeOK /\ PoolAccounting => HeldInPool)
    <2>. SUFFICES ASSUME WholeBytes
                  PROVE  [](PoolTypeOK /\ PoolAccounting => HeldInPool)
      OBVIOUS
    <2>1. PoolTypeOK /\ PoolAccounting => HeldInPool
      BY <1>1
    <2>. QED  BY <2>1, PTL
  <1>. QED  BY <1>2, <1>3, PTL

\* pool_available_pages stays what mem_pool_init made it.
AvailableFixed == available = TotalPages - UsedPages

LEMMA AvailableNeverMoves == PoolSpec => []AvailableFixed
PROOF
  <1>1. PoolInit => AvailableFixed
    BY DEF PoolInit, AvailableFixed
  <1>2. AvailableFixed /\ [PoolNext]_poolVars => AvailableFixed'
    BY DEF AvailableFixed, PoolNext, AllocPages, AllocAsserts, FreePages,
           FreeAsserts, poolVars
  <1>. QED  BY <1>1, <1>2, PTL DEF PoolSpec

\* A request for more pages than mem_pool_init left over cannot be satisfied.
LEMMA NoRoomBeyondAvailable ==
    ASSUME WholeBytes, NEW count \in Counts, count > TotalPages - UsedPages,
           NEW ones, Reserved \subseteq ones
    PROVE  FreeRuns(PageBits, ones, count) = {}
PROOF
  <1>. SUFFICES ASSUME NEW s \in FreeRuns(PageBits, ones, count)
                PROVE  FALSE
    OBVIOUS
  <1>1. /\ PageBits = PoolBase .. (PoolBase + TotalPages - 1)
        /\ Reserved = PoolBase .. (PoolBase + UsedPages - 1)
        /\ count \in Nat \ {0} /\ TotalPages \in Nat /\ UsedPages \in Nat
        /\ PoolBase \in Nat
    BY BitsArePages, PoolAssumption DEF Pages, Reserved
  <1>2. s \in PageBits /\ s \in Int
    BY <1>1 DEF FreeRuns
  <1>3. s \in Run(s, count) /\ s + count - 1 \in Run(s, count)
    BY <1>1, <1>2 DEF Run
  <1>4. s \notin Reserved /\ s + count - 1 \in PageBits
    BY <1>3 DEF FreeRuns
  <1>. QED  BY <1>1, <1>2, <1>4

\* When an assertion of an allocation stops the kernel, what the kernel and
\* the callers hold leaves no room for the request.
THEOREM PoolStopsOnlyWhenExhausted ==
    WholeBytes => (PoolSpec => []StopsOnlyWhenExhausted)
PROOF
  <1>. SUFFICES ASSUME WholeBytes
                PROVE  PoolSpec => []StopsOnlyWhenExhausted
    OBVIOUS
  <1>1. PoolInit => StopsOnlyWhenExhausted
    BY DEF PoolInit, StopsOnlyWhenExhausted, NoFailure
  <1>2. PoolTypeOK /\ PoolAccounting /\ AvailableFixed /\ StopsOnlyWhenExhausted
        /\ [PoolNext]_poolVars => StopsOnlyWhenExhausted'
    <2>. SUFFICES ASSUME PoolTypeOK, PoolAccounting, AvailableFixed,
                         StopsOnlyWhenExhausted, [PoolNext]_poolVars
                  PROVE  StopsOnlyWhenExhausted'
      OBVIOUS
    <2>1. ASSUME NEW count \in Counts, AllocPages(count)
          PROVE  StopsOnlyWhenExhausted'
      BY <2>1 DEF AllocPages, StopsOnlyWhenExhausted, NoFailure
    <2>2. ASSUME NEW count \in Counts, AllocAsserts(count)
          PROVE  StopsOnlyWhenExhausted'
      <3>1. FreeRuns(PageBits, used, count) = {}
        <4>1. CASE count > available
          <5>1. Reserved \subseteq used
            BY DEF PoolAccounting
          <5>. QED
            BY <4>1, <5>1, NoRoomBeyondAvailable DEF AvailableFixed
        <4>2. CASE ~ (Run(bitmap_scan(PageBits, used, count), count) \subseteq PageBits)
          <5>1. count \in Nat \ {0}
            BY PoolAssumption
          <5>. QED
            BY <4>2, <5>1, ScanResult
        <4>. QED  BY <2>2, <4>1, <4>2 DEF AllocAsserts
      <3>2. (Reserved \cup Held)' = used
        BY <2>2 DEF AllocAsserts, PoolAccounting, Held
      <3>3. failed' = [op |-> "alloc", count |-> count]
        BY <2>2 DEF AllocAsserts
      <3>. QED
        BY <3>1, <3>2, <3>3 DEF StopsOnlyWhenExhausted
    <2>3. ASSUME NEW e \in extents, FreePages(e)
          PROVE  StopsOnlyWhenExhausted'
      BY <2>3 DEF FreePages, StopsOnlyWhenExhausted, NoFailure
    <2>4. ASSUME NEW e \in extents, FreeAsserts(e)
          PROVE  StopsOnlyWhenExhausted'
      BY <2>4 DEF FreeAsserts, StopsOnlyWhenExhausted
    <2>5. CASE UNCHANGED poolVars
      BY <2>5 DEF poolVars, StopsOnlyWhenExhausted, Held
    <2>. QED
      BY <2>1, <2>2, <2>3, <2>4, <2>5 DEF PoolNext
  <1>3. PoolSpec => []PoolTypeOK /\ []PoolAccounting /\ []AvailableFixed
    BY PoolTyping, PoolSafe, AvailableNeverMoves, PTL
  <1>. QED
    BY <1>1, <1>2, <1>3, PTL DEF PoolSpec

\* The pool implements PageAllocator, a page being free when its bit is 0: an
\* allocation that succeeds takes free pages, and one that stops the kernel
\* had no run of free pages to take.
THEOREM PoolImplementsAllocator == WholeBytes => (PoolSpec => AllocatorSpec)
PROOF
  <1>. SUFFICES ASSUME WholeBytes
                PROVE  PoolSpec => AllocatorSpec
    OBVIOUS
  <1>1. PoolInit => Allocator!Init
    BY DEF PoolInit, Allocator!Init, NoFailure, Allocator!NoFailure
  <1>2. PoolTypeOK /\ PoolAccounting /\ ExtentsDisjoint /\ AvailableFixed
        /\ HeldInPool /\ [PoolNext]_poolVars
          => [Allocator!Next]_(Allocator!avars)
    <2>. SUFFICES ASSUME PoolTypeOK, PoolAccounting, ExtentsDisjoint,
                         AvailableFixed, HeldInPool, [PoolNext]_poolVars
                  PROVE  [Allocator!Next]_(Allocator!avars)
      OBVIOUS
    <2>. USE DEF NoFailure, Allocator!NoFailure
    <2>1. ASSUME NEW count \in Counts, AllocPages(count)
          PROVE  Allocator!Next
      <3>. DEFINE idx == bitmap_scan(PageBits, used, count)
                  new == Request(idx, count)
      <3>1. new = Allocator!Request(idx, count)
        BY DEF Request, Allocator!Request
      <3>2. Allocator!ExtentPages(new) = Run(idx, count)
        BY DEF Request, Allocator!ExtentPages, Run
      <3>3. idx \in PageBits /\ Run(idx, count) \subseteq PageBits \ used
        BY <2>1, ScanResult, PoolAssumption DEF AllocPages, FreeRuns
      <3>4. /\ failed = NoFailure /\ failed' = failed
            /\ used' = used \cup Run(idx, count)
            /\ extents' = extents \cup {new}
        BY <2>1 DEF AllocPages
      <3>. HIDE DEF idx, new
      <3>5. (PageBits \ used)' = (PageBits \ used) \ Run(idx, count)
        BY <3>4 DEF PageBits, BitmapBits
      <3>6. Allocator!Allocate(count)
        BY <3>1, <3>2, <3>3, <3>4, <3>5 DEF Allocator!Allocate
      <3>. QED  BY <3>6 DEF Allocator!Next
    <2>2. ASSUME NEW count \in Counts, AllocAsserts(count)
          PROVE  Allocator!Next
      <3>1. FreeRuns(PageBits, used, count) = {}
        <4>1. CASE count > available
          <5>1. Reserved \subseteq used
            BY DEF PoolAccounting
          <5>. QED
            BY <4>1, <5>1, NoRoomBeyondAvailable DEF AvailableFixed
        <4>2. CASE ~ (Run(bitmap_scan(PageBits, used, count), count) \subseteq PageBits)
          <5>1. count \in Nat \ {0}
            BY PoolAssumption
          <5>. QED
            BY <4>2, <5>1, ScanResult
        <4>. QED  BY <2>2, <4>1, <4>2 DEF AllocAsserts
      <3>2. \A base \in PageBits :
               ~ (Allocator!ExtentPages(Allocator!Request(base, count))
                    \subseteq PageBits \ used)
        BY <3>1 DEF FreeRuns, Run, Allocator!ExtentPages, Allocator!Request
      <3>3. Allocator!Exhausted(count)
        BY <2>2, <3>2 DEF AllocAsserts, Allocator!Exhausted, PageBits, BitmapBits
      <3>. QED  BY <3>3 DEF Allocator!Next
    <2>3. ASSUME NEW e \in extents, FreePages(e)
          PROVE  Allocator!Next
      <3>1. ExtentPages(e) \subseteq PageBits
        BY BitsArePages DEF HeldInPool, Held
      <3>2. Allocator!ExtentPages(e) = ExtentPages(e)
        BY DEF Allocator!ExtentPages, ExtentPages, Run
      <3>3. (PageBits \ used)' = (PageBits \ used) \cup ExtentPages(e)
        BY <2>3, <3>1 DEF FreePages, PageBits, BitmapBits
      <3>4. Allocator!Release(e)
        BY <2>3, <3>2, <3>3 DEF FreePages, Allocator!Release
      <3>. QED  BY <3>4 DEF Allocator!Next
    <2>4. ASSUME NEW e \in extents, FreeAsserts(e)
          PROVE  FALSE
      <3>1. e.base \in PageBits
        BY DEF PoolTypeOK
      <3>. QED  BY <2>4, <3>1, BitsArePages DEF FreeAsserts
    <2>5. CASE UNCHANGED poolVars
      BY <2>5 DEF poolVars, Allocator!avars, PageBits, BitmapBits
    <2>. QED
      BY <2>1, <2>2, <2>3, <2>4, <2>5 DEF PoolNext
  <1>3. PoolSpec => []PoolTypeOK /\ []PoolAccounting /\ []ExtentsDisjoint
                    /\ []AvailableFixed /\ []HeldInPool
    BY PoolTyping, PoolSafe, AvailableNeverMoves, PoolKeepsToItsPages, PTL
  <1>. QED
    BY <1>1, <1>2, <1>3, PTL DEF PoolSpec, AllocatorSpec, Allocator!Spec
-----------------------------------------------------------------------------
(* The heap. *)

\* The heap's pool fills its map.
LEMMA HeapPages == PageBits = Pages /\ Pages \in SUBSET Nat
PROOF
  <1>1. WholeBytes
    BY HeapAssumption DEF WholeBytes
  <1>. QED  BY <1>1, BitsArePages, PageBitsFact

\* Every descriptor cuts a page into at least one block, and the last block
\* ends within the page.
LEMMA BlocksFit ==
    ASSUME NEW b \in BlockSizes
    PROVE  /\ b \in Nat \ {0} /\ b # Large
           /\ TotalBlocks(b) \in Nat \ {0}
           /\ TotalBlocks(b) * b <= PAGE_SIZE - ArenaSize
PROOF
  BY DEF BlockSizes, TotalBlocks, PAGE_SIZE, ArenaSize, Large

\* Block i of a page lies in that page, after the header.
LEMMA BlockAddress ==
    ASSUME NEW page \in Nat, NEW b \in BlockSizes,
           NEW i \in 0..(TotalBlocks(b) - 1)
    PROVE  LET block == get_block_address(page, b, i)
           IN  /\ block \in Nat
               /\ block >= page * PAGE_SIZE + ArenaSize
               /\ block + b <= page * PAGE_SIZE + PAGE_SIZE
               /\ get_arena_address(block) = page
PROOF
  <1>. DEFINE o == i * b
  <1>1. o \in Nat /\ o + b <= PAGE_SIZE - ArenaSize
    <2>1. CASE b = 16  BY <2>1 DEF TotalBlocks, PAGE_SIZE, ArenaSize
    <2>2. CASE b = 32  BY <2>2 DEF TotalBlocks, PAGE_SIZE, ArenaSize
    <2>3. CASE b = 64  BY <2>3 DEF TotalBlocks, PAGE_SIZE, ArenaSize
    <2>4. CASE b = 128  BY <2>4 DEF TotalBlocks, PAGE_SIZE, ArenaSize
    <2>5. CASE b = 256  BY <2>5 DEF TotalBlocks, PAGE_SIZE, ArenaSize
    <2>6. CASE b = 512  BY <2>6 DEF TotalBlocks, PAGE_SIZE, ArenaSize
    <2>7. CASE b = 1024  BY <2>7 DEF TotalBlocks, PAGE_SIZE, ArenaSize
    <2>8. CASE b = 2048  BY <2>8 DEF TotalBlocks, PAGE_SIZE, ArenaSize
    <2>. QED
      BY <2>1, <2>2, <2>3, <2>4, <2>5, <2>6, <2>7, <2>8 DEF BlockSizes
  <1>2. get_block_address(page, b, i) = page * PAGE_SIZE + ArenaSize + o
    BY DEF get_block_address
  <1>3. b \in Nat \ {0}
    BY BlocksFit
  <1>. HIDE DEF o
  <1>. QED
    BY <1>1, <1>2, <1>3 DEF get_arena_address, PAGE_SIZE, ArenaSize

\* The blocks of a page are as many as its descriptor says, all in the page.
LEMMA BlocksOfPage ==
    ASSUME NEW page \in Nat, NEW b \in BlockSizes
    PROVE  /\ ArenaBlocks(page, b) \in SUBSET Nat
           /\ \A block \in ArenaBlocks(page, b) : get_arena_address(block) = page
           /\ IsFiniteSet(ArenaBlocks(page, b))
           /\ Cardinality(ArenaBlocks(page, b)) = TotalBlocks(b)
PROOF
  <1>. DEFINE I == 0..(TotalBlocks(b) - 1)
              f == [i \in I |-> get_block_address(page, b, i)]
  <1>1. f \in Bijection(I, ArenaBlocks(page, b))
    <2>1. \A i, j \in I : f[i] = f[j] => i = j
      <3>1. \A i \in I : f[i] = page * PAGE_SIZE + ArenaSize + i * b
        BY DEF get_block_address
      <3>2. b \in Nat \ {0} /\ page * PAGE_SIZE + ArenaSize \in Nat
        BY BlocksFit DEF PAGE_SIZE, ArenaSize
      <3>3. \A i, j \in I : i # j => i * b # j * b
        BY DEF BlockSizes
      <3>4. \A i \in I : i * b \in Nat
        BY <3>2
      <3>. QED  BY <3>1, <3>2, <3>3, <3>4
    <2>2. ArenaBlocks(page, b) = {f[i] : i \in I}
      BY DEF ArenaBlocks
    <2>. QED  BY <2>1, <2>2 DEF Bijection, Injection, Surjection, IsInjective
  <1>2. IsFiniteSet(I) /\ Cardinality(I) = TotalBlocks(b)
    <2>1. TotalBlocks(b) \in Nat \ {0}
      BY BlocksFit
    <2>. HIDE DEF I
    <2>2. TotalBlocks(b) - 1 \in Int /\ 0 \in Int
      BY <2>1
    <2>3. IsFiniteSet(I) /\ Cardinality(I) =
            IF 0 > TotalBlocks(b) - 1 THEN 0 ELSE (TotalBlocks(b) - 1) - 0 + 1
      BY <2>2, FS_Interval DEF I
    <2>. QED  BY <2>1, <2>3
  <1>3. ExistsBijection(I, ArenaBlocks(page, b))
    BY <1>1 DEF ExistsBijection
  <1>4. /\ IsFiniteSet(ArenaBlocks(page, b))
        /\ Cardinality(ArenaBlocks(page, b)) = TotalBlocks(b)
    BY <1>2, <1>3, FS_Bijection
  <1>5. \A block \in ArenaBlocks(page, b) :
            block \in Nat /\ get_arena_address(block) = page
    BY BlockAddress DEF ArenaBlocks
  <1>. QED  BY <1>4, <1>5

\* A small request has a descriptor, whose blocks are large enough.
LEMMA DescriptorFits ==
    ASSUME NEW size \in Requests, size <= LargeSize
    PROVE  Descriptor(size) \in BlockSizes /\ size <= Descriptor(size)
PROOF
  <1>1. size \in Nat
    BY HeapAssumption, PoolAssumption DEF PAGE_SIZE
  <1>2. {b \in BlockSizes : size <= b} \in SUBSET Nat
    BY DEF BlockSizes
  <1>3. 1024 \in {b \in BlockSizes : size <= b}
    BY DEF BlockSizes, LargeSize
  <1>. QED  BY <1>1, <1>2, <1>3, LeastElement DEF Descriptor

\* What a caller of kmalloc gets for a large request lies in the first page.
LEMMA LargeAddress ==
    ASSUME NEW page \in Nat
    PROVE  /\ page * PAGE_SIZE + ArenaSize \in Nat
           /\ get_arena_address(page * PAGE_SIZE + ArenaSize) = page
PROOF
  BY DEF get_arena_address, PAGE_SIZE, ArenaSize

\* Writing the header of a new arena, and giving one up, leave the others.
LEMMA HeaderAdded ==
    ASSUME NEW f, NEW p, NEW h, p \notin DOMAIN f
    PROVE  LET g == Put(f, p, h)
           IN  /\ DOMAIN g = DOMAIN f \cup {p}
               /\ g[p] = h
               /\ \A a \in DOMAIN f : g[a] = f[a]
PROOF
  BY DEF Put

LEMMA HeaderDropped ==
    ASSUME NEW f, NEW p
    PROVE  LET g == Restrict(f, DOMAIN f \ {p})
           IN  /\ DOMAIN g = DOMAIN f \ {p}
               /\ \A a \in DOMAIN f \ {p} : g[a] = f[a]
PROOF
  BY DEF Restrict
-----------------------------------------------------------------------------
\* The number of pages of an arena.
ArenaPages(a) ==
    IF arena[a].block_size = Large THEN arena[a].free_blocks ELSE 1

\* The runs the heap was handed are those of its arenas.
ArenasAreExtents ==
    extents = {Request(a, ArenaPages(a)) : a \in DOMAIN arena}

\* What a caller holds is the memory of a large arena, or a block of a small
\* one that is not in the free list.
LiveInArenas ==
    \A m \in live : LET a == get_arena_address(m.ptr)
                        b == arena[a].block_size IN
        /\ a \in DOMAIN arena
        /\ b = Large => m.ptr = a * PAGE_SIZE + ArenaSize
        /\ b # Large => m.ptr \in ArenaBlocks(a, b) \ free_list[b]

\* No address is with two callers.
LiveApart == \A m, n \in live : m.ptr = n.ptr => m = n

(***************************************************************************)
(* The inductive invariant.  That kfree gives the page of an arena back    *)
(* only when no caller has a block in it needs the count of its free       *)
(* blocks (FreeBlocksCounted) and that held blocks are not free            *)
(* (LiveInArenas); that a new page is not one the heap already cut up      *)
(* needs the accounting of the pool.                                       *)
(***************************************************************************)
HeapInv ==
    /\ HeapTypeOK
    /\ PoolAccounting
    /\ ExtentsDisjoint
    /\ ArenasAreExtents
    /\ LiveInArenas
    /\ LiveApart
    /\ FreeListsSound
    /\ FreeBlocksCounted
    /\ EveryBlockAccounted

\* The pages of an allocation are not those of an arena.
LEMMA FreshArena ==
    ASSUME HeapInv, NEW count \in Counts, AllocPages(count)
    PROVE  LET page == bitmap_scan(PageBits, used, count)
           IN  /\ page \in Pages /\ page \in Nat
               /\ page \notin DOMAIN arena
               /\ extents' = extents \cup {Request(page, count)}
               /\ failed = NoFailure
               /\ (PoolTypeOK /\ PoolAccounting /\ ExtentsDisjoint)'
PROOF
  <1>. DEFINE page == bitmap_scan(PageBits, used, count)
  <1>1. count \in Nat \ {0}
    BY PoolAssumption
  <1>2. page \in PageBits /\ Run(page, count) \cap used = {}
    BY <1>1, ScanResult DEF AllocPages, FreeRuns
  <1>3. page \in Nat /\ page \in Pages
    BY <1>2, HeapPages
  <1>4. page \in Run(page, count)
    BY <1>1, <1>3 DEF Run
  <1>5. \A a \in DOMAIN arena : a \in used
    <2>. TAKE a \in DOMAIN arena
    <2>1. Request(a, ArenaPages(a)) \in extents
      BY DEF HeapInv, ArenasAreExtents
    <2>2. ArenaPages(a) \in Nat \ {0}
      BY <2>1, PoolAssumption DEF HeapInv, HeapTypeOK, PoolTypeOK, Request
    <2>3. a \in Nat
      BY HeapPages DEF HeapInv, HeapTypeOK
    <2>4. a \in ExtentPages(Request(a, ArenaPages(a)))
      BY <2>2, <2>3 DEF ExtentPages, Request, Run
    <2>. QED  BY <2>1, <2>4 DEF HeapInv, PoolAccounting, Held
  <1>6. page \notin DOMAIN arena
    BY <1>2, <1>4, <1>5
  <1>7. PoolNext
    BY DEF PoolNext
  <1>8. (PoolTypeOK /\ PoolAccounting /\ ExtentsDisjoint)'
    BY <1>7, PoolStepTyped, PoolStepSafe DEF HeapInv, HeapTypeOK
  <1>. QED  BY <1>3, <1>6, <1>8 DEF AllocPages

\* A large allocation keeps the invariant.
LEMMA KmallocLargeKeeps ==
    ASSUME HeapInv, NEW size \in Requests, KmallocLarge(size)
    PROVE  HeapInv'
PROOF
  <1>. DEFINE count == Ceil(size + ArenaSize, PAGE_SIZE)
              page == bitmap_scan(PageBits, used, count)
              new  == Allocation(page * PAGE_SIZE + ArenaSize, size)
  <1>1. count \in Counts /\ AllocPages(count)
    BY HeapAssumption DEF KmallocLarge
  <1>2. /\ page \in Pages /\ page \in Nat
        /\ page \notin DOMAIN arena
        /\ extents' = extents \cup {Request(page, count)}
        /\ (PoolTypeOK /\ PoolAccounting /\ ExtentsDisjoint)'
    BY <1>1, FreshArena
  <1>3. /\ DOMAIN arena' = DOMAIN arena \cup {page}
        /\ arena'[page] = Header(Large, count)
        /\ \A a \in DOMAIN arena : arena'[a] = arena[a]
    BY <1>2, HeaderAdded DEF KmallocLarge
  <1>4. live' = live \cup {new} /\ free_list' = free_list
    BY DEF KmallocLarge
  <1>5. /\ new = Allocation(new.ptr, size) /\ new.size = size
        /\ new.ptr = page * PAGE_SIZE + ArenaSize /\ new.ptr \in Nat
        /\ get_arena_address(new.ptr) = page
    BY <1>2, LargeAddress DEF Allocation
  <1>6. count \in Nat
    BY <1>1, PoolAssumption
  <1>7. Header(Large, count).block_size = Large /\ Header(Large, count).free_blocks = count
    BY DEF Header
  <1>. HIDE DEF count, page, new
  <1>8. \A m \in live : get_arena_address(m.ptr) \in DOMAIN arena
    BY DEF HeapInv, LiveInArenas
  <1>9. HeapTypeOK'
    BY <1>2, <1>3, <1>4, <1>5, <1>6, <1>7 DEF HeapInv, HeapTypeOK, Pages
  <1>10. ArenasAreExtents'
    BY <1>2, <1>3, <1>7 DEF HeapInv, ArenasAreExtents, ArenaPages
  <1>11. LiveInArenas'
    BY <1>2, <1>3, <1>4, <1>5, <1>7 DEF HeapInv, LiveInArenas
  <1>12. LiveApart'
    BY <1>2, <1>4, <1>5, <1>8 DEF HeapInv, LiveApart
  <1>13. FreeListsSound'
    BY <1>2, <1>3, <1>4 DEF HeapInv, FreeListsSound
  <1>14. FreeBlocksCounted'
    BY <1>2, <1>3, <1>4, <1>7 DEF HeapInv, FreeBlocksCounted
  <1>15. EveryBlockAccounted'
    <2>1. \A a \in DOMAIN arena : \A b \in BlockSizes :
             \A block \in ArenaBlocks(a, b) : new.ptr # block
      <3>. TAKE a \in DOMAIN arena
      <3>. TAKE b \in BlockSizes
      <3>1. a \in Nat /\ a # page
        BY <1>2, HeapPages DEF HeapInv, HeapTypeOK
      <3>2. \A block \in ArenaBlocks(a, b) : get_arena_address(block) = a
        BY <3>1, BlocksOfPage
      <3>. QED  BY <1>5, <3>1, <3>2
    <2>. QED
      BY <1>2, <1>3, <1>4, <1>7, <2>1 DEF HeapInv, HeapTypeOK, EveryBlockAccounted
  <1>. QED
    BY <1>2, <1>9, <1>10, <1>11, <1>12, <1>13, <1>14, <1>15 DEF HeapInv

\* Taking a block off a free list keeps the invariant.
LEMMA KmallocBlockKeeps ==
    ASSUME HeapInv, NEW size \in Requests, KmallocBlock(size)
    PROVE  HeapInv'
PROOF
  <1>. DEFINE b == Descriptor(size)
  <1>1. b \in BlockSizes /\ b # Large /\ b \in Nat
    BY DescriptorFits, BlocksFit DEF KmallocBlock
  <1>2. PICK block \in free_list[b] :
           /\ free_list' = [free_list EXCEPT ![b] = @ \ {block}]
           /\ arena' = [arena EXCEPT ![get_arena_address(block)].free_blocks = @ - 1]
           /\ live' = live \cup {Allocation(block, size)}
    BY DEF KmallocBlock
  <1>. DEFINE p == get_arena_address(block)
              new == Allocation(block, size)
  <1>3. UNCHANGED <<used, available, extents, failed>>
    BY DEF KmallocBlock
  <1>. HIDE DEF b
  <1>4. p \in DOMAIN arena /\ arena[p].block_size = b /\ block \in ArenaBlocks(p, b)
    BY <1>1 DEF HeapInv, FreeListsSound
  <1>5. p \in Nat
    BY <1>4, HeapPages DEF HeapInv, HeapTypeOK
  <1>6. arena[p] = Header(b, arena[p].free_blocks) /\ arena[p].free_blocks \in Nat
    BY <1>4 DEF HeapInv, HeapTypeOK
  <1>. DEFINE L == free_list[b] \cap ArenaBlocks(p, b)
  <1>7. IsFiniteSet(L) /\ arena[p].free_blocks = Cardinality(L)
    <2>1. IsFiniteSet(ArenaBlocks(p, b))
      BY <1>1, <1>5, BlocksOfPage
    <2>2. IsFiniteSet(L)
      BY <2>1, FS_Subset
    <2>. QED  BY <1>1, <1>4, <2>2 DEF HeapInv, FreeBlocksCounted
  <1>8. /\ arena[p].free_blocks - 1 = Cardinality(L \ {block})
        /\ arena[p].free_blocks - 1 \in Nat
    <2>1. block \in L
      BY <1>2, <1>4
    <2>. HIDE DEF L
    <2>2. Cardinality(L \ {block}) = Cardinality(L) - 1
      BY <1>7, <2>1, FS_RemoveElement
    <2>3. Cardinality(L \ {block}) \in Nat
      BY <1>7, FS_RemoveElement, FS_CardinalityType
    <2>. QED  BY <1>7, <2>2, <2>3
  <1>9. /\ DOMAIN arena' = DOMAIN arena
        /\ arena'[p] = Header(b, arena[p].free_blocks - 1)
        /\ \A a \in DOMAIN arena \ {p} : arena'[a] = arena[a]
    BY <1>2, <1>4, <1>6 DEF Header
  <1>10. /\ new.ptr = block /\ new.size = size /\ new = Allocation(new.ptr, new.size)
         /\ live' = live \cup {new}
    BY <1>2 DEF Allocation
  <1>11. /\ DOMAIN free_list' = BlockSizes
         /\ free_list'[b] = free_list[b] \ {block}
         /\ \A d \in BlockSizes \ {b} : free_list'[d] = free_list[d]
         /\ free_list' \in [BlockSizes -> SUBSET Nat]
         /\ block \in Nat
    BY <1>1, <1>2 DEF HeapInv, HeapTypeOK
  <1>12. \A m \in live : m.ptr # block
    <2>1. block \in free_list[b] /\ block \in ArenaBlocks(p, b)
      BY <1>2, <1>4
    <2>. QED  BY <1>1, <1>4, <2>1 DEF HeapInv, EveryBlockAccounted
  <1>13. /\ \A c, f : Header(c, f).block_size = c
         /\ \A c, f : Header(c, f).free_blocks = f
    BY DEF Header
  <1>. HIDE DEF new, L
  <1>14. (PoolTypeOK /\ PoolAccounting /\ ExtentsDisjoint)'
    BY <1>3 DEF HeapInv, HeapTypeOK, PoolTypeOK, PoolAccounting, ExtentsDisjoint, Held
  <1>15. HeapTypeOK'
    BY <1>1, <1>8, <1>9, <1>10, <1>11, <1>13, <1>14 DEF HeapInv, HeapTypeOK
  <1>16. ArenasAreExtents'
    BY <1>1, <1>3, <1>4, <1>9, <1>13 DEF HeapInv, ArenasAreExtents, ArenaPages
  <1>17. LiveInArenas'
    <2>1. ASSUME NEW m \in live
          PROVE  LET a == get_arena_address(m.ptr)
                     d == arena'[a].block_size IN
                  /\ a \in DOMAIN arena'
                  /\ d = Large => m.ptr = a * PAGE_SIZE + ArenaSize
                  /\ d # Large => m.ptr \in ArenaBlocks(a, d) \ free_list'[d]
      BY <1>1, <1>2, <1>4, <1>9, <1>13 DEF HeapInv, LiveInArenas, HeapTypeOK
    <2>2. /\ arena'[p].block_size = b
          /\ new.ptr \in ArenaBlocks(p, b) \ free_list'[b]
      BY <1>4, <1>9, <1>10, <1>11, <1>13
    <2>. QED  BY <1>1, <1>4, <1>9, <1>10, <2>1, <2>2 DEF LiveInArenas
  <1>18. LiveApart'
    BY <1>10, <1>12 DEF HeapInv, LiveApart
  <1>19. FreeListsSound'
    BY <1>1, <1>4, <1>9, <1>11, <1>13 DEF HeapInv, FreeListsSound
  <1>20. FreeBlocksCounted'
    <2>1. L \ {block} = free_list'[b] \cap ArenaBlocks(p, b)
      BY <1>11 DEF L
    <2>2. \A a \in DOMAIN arena \ {p} : block \notin ArenaBlocks(a, arena[a].block_size)
                                        \/ arena[a].block_size = Large
      <3>. SUFFICES ASSUME NEW a \in DOMAIN arena \ {p}, arena[a].block_size # Large
                    PROVE  block \notin ArenaBlocks(a, arena[a].block_size)
        OBVIOUS
      <3>1. a \in Nat /\ arena[a].block_size \in BlockSizes
        BY HeapPages DEF HeapInv, HeapTypeOK
      <3>. QED  BY <3>1, BlocksOfPage
    <2>3. ASSUME NEW a \in DOMAIN arena \ {p}, arena[a].block_size # Large
          PROVE  free_list'[arena[a].block_size] \cap ArenaBlocks(a, arena[a].block_size)
                   = free_list[arena[a].block_size] \cap ArenaBlocks(a, arena[a].block_size)
      <3>1. arena[a].block_size \in BlockSizes
        BY <2>3 DEF HeapInv, HeapTypeOK
      <3>. QED  BY <1>11, <2>2, <2>3, <3>1
    <2>4. arena'[p].free_blocks
            = Cardinality(free_list'[b] \cap ArenaBlocks(p, b))
      <3>1. arena'[p].free_blocks = arena[p].free_blocks - 1
        BY <1>9, <1>13
      <3>2. Cardinality(L \ {block})
              = Cardinality(free_list'[b] \cap ArenaBlocks(p, b))
        BY <2>1, Zenon
      <3>. QED  BY <1>8, <3>1, <3>2
    <2>5. arena'[p].block_size = b
      BY <1>9, <1>13
    <2>6. ASSUME NEW a \in DOMAIN arena \ {p}, arena[a].block_size # Large
          PROVE  arena'[a].free_blocks
                   = Cardinality(free_list'[arena'[a].block_size]
                                   \cap ArenaBlocks(a, arena'[a].block_size))
      BY <1>9, <2>3, <2>6 DEF HeapInv, FreeBlocksCounted
    <2>. HIDE DEF p
    <2>. QED
      BY <1>9, <2>4, <2>5, <2>6 DEF FreeBlocksCounted
  <1>21. EveryBlockAccounted'
    <2>1. ASSUME NEW x \in ArenaBlocks(p, b)
          PROVE  x \in free_list'[b] <=> ~ \E m \in live' : m.ptr = x
      <3>1. x \in free_list[b] <=> ~ \E m \in live : m.ptr = x
        BY <1>1, <1>4 DEF HeapInv, EveryBlockAccounted
      <3>. QED  BY <1>10, <1>11, <1>12, <3>1
    <2>2. arena'[p].free_blocks < TotalBlocks(b) /\ arena'[p].block_size = b
      <3>1. arena[p].free_blocks < TotalBlocks(b)
        BY <1>1, <1>4 DEF HeapInv, EveryBlockAccounted
      <3>. QED  BY <1>1, <1>6, <1>8, <1>9, <1>13, <3>1, BlocksFit
    <2>3. ASSUME NEW a \in DOMAIN arena \ {p}, arena[a].block_size # Large,
                 NEW x \in ArenaBlocks(a, arena[a].block_size)
          PROVE  x \in free_list'[arena[a].block_size] <=> ~ \E m \in live' : m.ptr = x
      <3>1. a \in Nat /\ arena[a].block_size \in BlockSizes
        BY <2>3, HeapPages DEF HeapInv, HeapTypeOK
      <3>2. x # block
        BY <3>1, BlocksOfPage
      <3>3. x \in free_list[arena[a].block_size] <=> ~ \E m \in live : m.ptr = x
        BY <2>3 DEF HeapInv, EveryBlockAccounted
      <3>. QED  BY <1>10, <1>11, <3>1, <3>2, <3>3
    <2>4. ASSUME NEW a \in DOMAIN arena \ {p}, arena[a].block_size # Large
          PROVE  arena[a].free_blocks < TotalBlocks(arena[a].block_size)
      BY <2>4 DEF HeapInv, EveryBlockAccounted
    <2>. HIDE DEF p
    <2>. QED
      BY <1>9, <2>1, <2>2, <2>3, <2>4 DEF EveryBlockAccounted
  <1>. QED
    BY <1>14, <1>15, <1>16, <1>17, <1>18, <1>19, <1>20, <1>21 DEF HeapInv

\* Cutting a new page into blocks, one of which is taken, keeps the invariant.
LEMMA KmallocArenaKeeps ==
    ASSUME HeapInv, NEW size \in Requests, KmallocArena(size)
    PROVE  HeapInv'
PROOF
  <1>. DEFINE b == Descriptor(size)
              page == bitmap_scan(PageBits, used, 1)
              blocks == ArenaBlocks(page, b)
              header == Header(b, TotalBlocks(b) - 1)
  <1>1. b \in BlockSizes /\ b # Large /\ TotalBlocks(b) \in Nat \ {0}
    BY DescriptorFits, BlocksFit DEF KmallocArena
  <1>2. 1 \in Counts /\ AllocPages(1)
    BY HeapAssumption DEF KmallocArena
  <1>3. /\ page \in Pages /\ page \in Nat
        /\ page \notin DOMAIN arena
        /\ extents' = extents \cup {Request(page, 1)}
        /\ (PoolTypeOK /\ PoolAccounting /\ ExtentsDisjoint)'
    BY <1>2, FreshArena
  <1>4. PICK block \in blocks :
           /\ free_list' = [free_list EXCEPT ![b] = blocks \ {block}]
           /\ live' = live \cup {Allocation(block, size)}
    BY DEF KmallocArena
  <1>. DEFINE new == Allocation(block, size)
  <1>5. free_list[b] = {} /\ arena' = Put(arena, page, header)
    BY DEF KmallocArena
  <1>. HIDE DEF b, page
  <1>6. /\ blocks \in SUBSET Nat
        /\ \A x \in blocks : get_arena_address(x) = page
        /\ IsFiniteSet(blocks) /\ Cardinality(blocks) = TotalBlocks(b)
    BY <1>1, <1>3, BlocksOfPage
  <1>7. Cardinality(blocks \ {block}) = TotalBlocks(b) - 1
    <2>. HIDE DEF blocks
    <2>. QED  BY <1>4, <1>6, FS_RemoveElement
  <1>8. header.block_size = b /\ header.free_blocks = TotalBlocks(b) - 1
        /\ header = Header(header.block_size, header.free_blocks)
    BY DEF Header
  <1>9. new.ptr = block /\ new.size = size /\ new = Allocation(new.ptr, new.size)
    BY DEF Allocation
  <1>. HIDE DEF blocks, header, new
  <1>10. /\ DOMAIN arena' = DOMAIN arena \cup {page}
         /\ arena'[page] = header
         /\ \A a \in DOMAIN arena : arena'[a] = arena[a]
    BY <1>3, <1>5 DEF Put
  <1>11. /\ free_list'[b] = blocks \ {block}
         /\ \A d \in BlockSizes \ {b} : free_list'[d] = free_list[d]
         /\ free_list' \in [BlockSizes -> SUBSET Nat]
    BY <1>1, <1>4, <1>6 DEF HeapInv, HeapTypeOK
  <1>12. live' = live \cup {new} /\ block \in Nat /\ get_arena_address(block) = page
    BY <1>4, <1>6 DEF new
  <1>13. \A m \in live : get_arena_address(m.ptr) \in DOMAIN arena
    BY DEF HeapInv, LiveInArenas
  <1>14. \A a \in DOMAIN arena : a \in Nat /\ a # page
    BY <1>3, HeapPages DEF HeapInv, HeapTypeOK
  <1>15. ASSUME NEW a \in DOMAIN arena, arena[a].block_size # Large
         PROVE  /\ arena[a].block_size \in BlockSizes
                /\ ArenaBlocks(a, arena[a].block_size) \cap blocks = {}
    <2>1. arena[a].block_size \in BlockSizes
      BY <1>15 DEF HeapInv, HeapTypeOK
    <2>2. \A x \in ArenaBlocks(a, arena[a].block_size) : get_arena_address(x) = a
      BY <1>14, <2>1, BlocksOfPage
    <2>. QED  BY <1>6, <1>14, <2>1, <2>2
  <1>16. HeapTypeOK'
    BY <1>1, <1>3, <1>8, <1>9, <1>10, <1>11, <1>12 DEF HeapInv, HeapTypeOK
  <1>17. ArenasAreExtents'
    BY <1>1, <1>3, <1>8, <1>10 DEF HeapInv, ArenasAreExtents, ArenaPages
  <1>18. LiveInArenas'
    <2>1. ASSUME NEW m \in live
          PROVE  LET a == get_arena_address(m.ptr)
                     d == arena'[a].block_size IN
                  /\ a \in DOMAIN arena'
                  /\ d = Large => m.ptr = a * PAGE_SIZE + ArenaSize
                  /\ d # Large => m.ptr \in ArenaBlocks(a, d) \ free_list'[d]
      <3>. DEFINE a == get_arena_address(m.ptr)
      <3>1. a \in DOMAIN arena /\ a \in DOMAIN arena' /\ arena'[a] = arena[a]
        BY <1>10, <1>13
      <3>2. /\ arena[a].block_size = Large => m.ptr = a * PAGE_SIZE + ArenaSize
            /\ arena[a].block_size # Large =>
                 m.ptr \in ArenaBlocks(a, arena[a].block_size)
                             \ free_list[arena[a].block_size]
        BY DEF HeapInv, LiveInArenas
      <3>. HIDE DEF a
      <3>3. arena[a].block_size # Large =>
                 m.ptr \notin free_list'[arena[a].block_size]
        BY <1>11, <1>15, <3>1, <3>2
      <3>. QED  BY <3>1, <3>2, <3>3 DEF a
    <2>2. /\ arena'[page].block_size = b
          /\ block \in ArenaBlocks(page, b) \ free_list'[b]
      BY <1>4, <1>8, <1>10, <1>11 DEF blocks
    <2>. QED  BY <1>1, <1>9, <1>10, <1>12, <2>1, <2>2 DEF LiveInArenas
  <1>19. LiveApart'
    BY <1>9, <1>12, <1>13, <1>14 DEF HeapInv, LiveApart
  <1>20. FreeListsSound'
    <2>1. ASSUME NEW d \in BlockSizes \ {b}, NEW x \in free_list'[d]
          PROVE  LET a == get_arena_address(x) IN
                   /\ a \in DOMAIN arena'
                   /\ arena'[a].block_size = d
                   /\ x \in ArenaBlocks(a, d)
      BY <1>10, <1>11 DEF HeapInv, FreeListsSound
    <2>2. ASSUME NEW x \in free_list'[b]
          PROVE  LET a == get_arena_address(x) IN
                   /\ a \in DOMAIN arena'
                   /\ arena'[a].block_size = b
                   /\ x \in ArenaBlocks(a, b)
      BY <1>6, <1>8, <1>10, <1>11 DEF blocks
    <2>. QED  BY <2>1, <2>2 DEF FreeListsSound
  <1>21. ASSUME NEW a \in DOMAIN arena, arena[a].block_size # Large
         PROVE  free_list'[arena[a].block_size] \cap ArenaBlocks(a, arena[a].block_size)
                  = free_list[arena[a].block_size] \cap ArenaBlocks(a, arena[a].block_size)
    BY <1>5, <1>11, <1>15, <1>21
  <1>22. FreeBlocksCounted'
    <2>1. arena'[page].free_blocks
            = Cardinality(free_list'[b] \cap ArenaBlocks(page, b))
      <3>1. arena'[page].free_blocks = Cardinality(blocks \ {block})
        BY <1>7, <1>8, <1>10
      <3>2. blocks \ {block} = free_list'[b] \cap ArenaBlocks(page, b)
        BY <1>11 DEF blocks
      <3>. QED  BY <3>1, <3>2, Zenon
    <2>2. ASSUME NEW a \in DOMAIN arena, arena'[a].block_size # Large
          PROVE  arena'[a].free_blocks
                   = Cardinality(free_list'[arena'[a].block_size]
                                   \cap ArenaBlocks(a, arena'[a].block_size))
      BY <1>10, <1>21, <2>2 DEF HeapInv, FreeBlocksCounted
    <2>3. arena'[page].block_size = b
      BY <1>8, <1>10
    <2>. QED
      BY <1>10, <2>1, <2>2, <2>3 DEF FreeBlocksCounted
  <1>23. EveryBlockAccounted'
    <2>1. ASSUME NEW x \in ArenaBlocks(page, b)
          PROVE  x \in free_list'[b] <=> ~ \E m \in live' : m.ptr = x
      <3>1. \A m \in live : m.ptr # x
        BY <1>6, <1>13, <1>14 DEF blocks
      <3>. QED  BY <1>9, <1>11, <1>12, <3>1 DEF blocks
    <2>2. arena'[page].free_blocks < TotalBlocks(b) /\ arena'[page].block_size = b
      BY <1>1, <1>8, <1>10
    <2>3. ASSUME NEW a \in DOMAIN arena, arena[a].block_size # Large,
                 NEW x \in ArenaBlocks(a, arena[a].block_size)
          PROVE  x \in free_list'[arena[a].block_size] <=> ~ \E m \in live' : m.ptr = x
      <3>1. x # block
        BY <1>4, <1>15, <2>3
      <3>2. x \in free_list[arena[a].block_size] <=> ~ \E m \in live : m.ptr = x
        BY <2>3 DEF HeapInv, EveryBlockAccounted
      <3>. QED  BY <1>9, <1>12, <1>21, <2>3, <3>1, <3>2
    <2>4. ASSUME NEW a \in DOMAIN arena, arena[a].block_size # Large
          PROVE  arena[a].free_blocks < TotalBlocks(arena[a].block_size)
      BY <2>4 DEF HeapInv, EveryBlockAccounted
    <2>. QED
      BY <1>10, <2>1, <2>2, <2>3, <2>4 DEF EveryBlockAccounted
  <1>. QED
    BY <1>3, <1>16, <1>17, <1>18, <1>19, <1>20, <1>22, <1>23 DEF HeapInv

\* The pages of an arena are a run the pool handed out, so a release of them
\* is one the pool expects.
LEMMA ArenaReleased ==
    ASSUME HeapInv, NEW a \in DOMAIN arena, FreePages(Request(a, ArenaPages(a)))
    PROVE  /\ PoolNext
           /\ (PoolTypeOK /\ PoolAccounting /\ ExtentsDisjoint)'
           /\ extents' = {Request(c, ArenaPages(c)) : c \in DOMAIN arena \ {a}}
PROOF
  <1>1. Request(a, ArenaPages(a)) \in extents
    BY DEF HeapInv, ArenasAreExtents
  <1>2. PoolNext
    BY <1>1 DEF PoolNext
  <1>3. (PoolTypeOK /\ PoolAccounting /\ ExtentsDisjoint)'
    BY <1>2, PoolStepTyped, PoolStepSafe DEF HeapInv, HeapTypeOK
  <1>4. \A c \in DOMAIN arena \ {a} :
            Request(c, ArenaPages(c)) # Request(a, ArenaPages(a))
    BY DEF Request
  <1>5. extents' = extents \ {Request(a, ArenaPages(a))}
    BY DEF FreePages
  <1>. QED
    BY <1>2, <1>3, <1>4, <1>5 DEF HeapInv, ArenasAreExtents

\* Giving a large allocation back keeps the invariant.
LEMMA KfreeLargeKeeps ==
    ASSUME HeapInv, NEW m \in live, KfreeLarge(m)
    PROVE  HeapInv' /\ PoolNext
PROOF
  <1>. DEFINE p == get_arena_address(m.ptr)
  <1>1. p \in DOMAIN arena /\ arena[p].block_size = Large
    BY DEF HeapInv, LiveInArenas, KfreeLarge
  <1>2. FreePages(Request(p, ArenaPages(p)))
    BY <1>1 DEF KfreeLarge, ArenaPages
  <1>3. /\ PoolNext
        /\ (PoolTypeOK /\ PoolAccounting /\ ExtentsDisjoint)'
        /\ extents' = {Request(c, ArenaPages(c)) : c \in DOMAIN arena \ {p}}
    BY <1>1, <1>2, ArenaReleased
  <1>4. /\ DOMAIN arena' = DOMAIN arena \ {p}
        /\ \A a \in DOMAIN arena \ {p} : arena'[a] = arena[a]
    BY HeaderDropped DEF KfreeLarge
  <1>5. live' = live \ {m} /\ free_list' = free_list
    BY DEF KfreeLarge
  <1>6. \A n \in live \ {m} : get_arena_address(n.ptr) \in DOMAIN arena \ {p}
    <2>. TAKE n \in live \ {m}
    <2>1. get_arena_address(n.ptr) \in DOMAIN arena
      BY DEF HeapInv, LiveInArenas
    <2>2. ASSUME get_arena_address(n.ptr) = p
          PROVE  FALSE
      <3>1. n.ptr = p * PAGE_SIZE + ArenaSize
        BY <1>1, <2>2 DEF HeapInv, LiveInArenas
      <3>2. m.ptr = p * PAGE_SIZE + ArenaSize
        BY <1>1 DEF HeapInv, LiveInArenas
      <3>. QED  BY <3>1, <3>2 DEF HeapInv, LiveApart
    <2>. QED  BY <2>1, <2>2
  <1>. HIDE DEF p
  <1>8. HeapTypeOK'
    BY <1>3, <1>4, <1>5 DEF HeapInv, HeapTypeOK
  <1>9. ArenasAreExtents'
    BY <1>3, <1>4 DEF ArenasAreExtents, ArenaPages
  <1>10. LiveInArenas'
    BY <1>4, <1>5, <1>6 DEF HeapInv, LiveInArenas
  <1>11. LiveApart'
    BY <1>5 DEF HeapInv, LiveApart
  <1>12. FreeListsSound'
    BY <1>1, <1>4, <1>5, BlocksFit DEF HeapInv, FreeListsSound
  <1>13. FreeBlocksCounted'
    BY <1>4, <1>5 DEF HeapInv, FreeBlocksCounted
  <1>14. EveryBlockAccounted'
    <2>1. ASSUME NEW a \in DOMAIN arena \ {p}, arena[a].block_size # Large,
                 NEW x \in ArenaBlocks(a, arena[a].block_size)
          PROVE  x \in free_list'[arena[a].block_size] <=> ~ \E n \in live' : n.ptr = x
      <3>1. a \in Nat /\ arena[a].block_size \in BlockSizes
        BY <2>1, HeapPages DEF HeapInv, HeapTypeOK
      <3>2. x # m.ptr
        BY <3>1, BlocksOfPage DEF p
      <3>3. x \in free_list[arena[a].block_size] <=> ~ \E n \in live : n.ptr = x
        BY <2>1 DEF HeapInv, EveryBlockAccounted
      <3>. QED  BY <1>5, <3>2, <3>3
    <2>2. ASSUME NEW a \in DOMAIN arena, arena[a].block_size # Large
          PROVE  arena[a].free_blocks < TotalBlocks(arena[a].block_size)
      BY <2>2 DEF HeapInv, EveryBlockAccounted
    <2>. QED
      BY <1>4, <2>1, <2>2 DEF EveryBlockAccounted
  <1>. QED
    BY <1>3, <1>8, <1>9, <1>10, <1>11, <1>12, <1>13, <1>14 DEF HeapInv

\* Giving a block back while others of its arena are in use keeps the
\* invariant.
LEMMA KfreeBlockKeeps ==
    ASSUME HeapInv, NEW m \in live, KfreeBlock(m)
    PROVE  HeapInv'
PROOF
  <1>. DEFINE p == get_arena_address(m.ptr)
              b == arena[p].block_size
              block == m.ptr
              L == free_list[b] \cap ArenaBlocks(p, b)
  <1>1. p \in DOMAIN arena /\ b # Large /\ block \in ArenaBlocks(p, b) \ free_list[b]
    BY DEF HeapInv, LiveInArenas, KfreeBlock
  <1>2. b \in BlockSizes /\ TotalBlocks(b) \in Nat /\ p \in Nat /\ block \in Nat
    BY <1>1, HeapPages, BlocksFit DEF HeapInv, HeapTypeOK
  <1>3. arena[p] = Header(b, arena[p].free_blocks) /\ arena[p].free_blocks \in Nat
    BY <1>1 DEF HeapInv, HeapTypeOK
  <1>4. /\ DOMAIN arena' = DOMAIN arena
        /\ arena'[p] = Header(b, arena[p].free_blocks + 1)
        /\ \A a \in DOMAIN arena \ {p} : arena'[a] = arena[a]
    BY <1>1, <1>3 DEF KfreeBlock, Header
  <1>5. /\ free_list'[b] = free_list[b] \cup {block}
        /\ \A d \in BlockSizes \ {b} : free_list'[d] = free_list[d]
        /\ free_list' \in [BlockSizes -> SUBSET Nat]
    BY <1>1, <1>2 DEF KfreeBlock, HeapInv, HeapTypeOK
  <1>6. /\ live' = live \ {m}
        /\ UNCHANGED <<used, available, extents, failed>>
        /\ arena[p].free_blocks + 1 # TotalBlocks(b)
    BY DEF KfreeBlock
  <1>7. \A n \in live \ {m} : n.ptr # block
    BY DEF HeapInv, LiveApart
  <1>8. arena[p].free_blocks + 1 = Cardinality(L \cup {block})
    <2>1. IsFiniteSet(ArenaBlocks(p, b))
      BY <1>2, BlocksOfPage
    <2>2. IsFiniteSet(L) /\ block \notin L
      BY <1>1, <2>1, FS_Subset
    <2>3. Cardinality(L) = arena[p].free_blocks
      BY <1>1 DEF HeapInv, FreeBlocksCounted
    <2>. HIDE DEF L
    <2>. QED  BY <2>2, <2>3, FS_AddElement
  <1>9. /\ \A c, f : Header(c, f).block_size = c
        /\ \A c, f : Header(c, f).free_blocks = f
    BY DEF Header
  <1>. HIDE DEF b, L
  <1>11. (PoolTypeOK /\ PoolAccounting /\ ExtentsDisjoint)'
    BY <1>6 DEF HeapInv, HeapTypeOK, PoolTypeOK, PoolAccounting, ExtentsDisjoint, Held
  <1>12. HeapTypeOK'
    BY <1>2, <1>3, <1>4, <1>5, <1>6, <1>9, <1>11 DEF HeapInv, HeapTypeOK
  <1>13. ArenasAreExtents'
    BY <1>1, <1>4, <1>6, <1>9 DEF HeapInv, ArenasAreExtents, ArenaPages, b
  <1>14. LiveInArenas'
    BY <1>1, <1>2, <1>4, <1>5, <1>6, <1>7, <1>9 DEF HeapInv, LiveInArenas, HeapTypeOK, b
  <1>15. LiveApart'
    BY <1>6 DEF HeapInv, LiveApart
  <1>16. FreeListsSound'
    BY <1>1, <1>2, <1>4, <1>5, <1>9 DEF HeapInv, FreeListsSound, b
  <1>17. ASSUME NEW a \in DOMAIN arena \ {p}, arena[a].block_size # Large
         PROVE  /\ arena[a].block_size \in BlockSizes
                /\ block \notin ArenaBlocks(a, arena[a].block_size)
    <2>1. a \in Nat /\ arena[a].block_size \in BlockSizes
      BY <1>17, HeapPages DEF HeapInv, HeapTypeOK
    <2>. QED  BY <2>1, BlocksOfPage
  <1>18. arena'[p].block_size = b /\ arena'[p].free_blocks = arena[p].free_blocks + 1
    BY <1>4, <1>9
  <1>. HIDE DEF p
  <1>19. FreeBlocksCounted'
    <2>1. arena'[p].free_blocks
            = Cardinality(free_list'[b] \cap ArenaBlocks(p, b))
      <3>1. L \cup {block} = free_list'[b] \cap ArenaBlocks(p, b)
        BY <1>1, <1>5 DEF L
      <3>. QED  BY <1>8, <1>18, <3>1, Zenon
    <2>2. ASSUME NEW a \in DOMAIN arena \ {p}, arena[a].block_size # Large
          PROVE  arena'[a].free_blocks
                   = Cardinality(free_list'[arena'[a].block_size]
                                   \cap ArenaBlocks(a, arena'[a].block_size))
      <3>1. free_list'[arena[a].block_size] \cap ArenaBlocks(a, arena[a].block_size)
              = free_list[arena[a].block_size] \cap ArenaBlocks(a, arena[a].block_size)
        BY <1>5, <1>17, <2>2
      <3>. QED  BY <1>4, <2>2, <3>1 DEF HeapInv, FreeBlocksCounted
    <2>. QED
      BY <1>4, <1>18, <2>1, <2>2 DEF FreeBlocksCounted
  <1>20. EveryBlockAccounted'
    <2>1. ASSUME NEW x \in ArenaBlocks(p, b)
          PROVE  x \in free_list'[b] <=> ~ \E n \in live' : n.ptr = x
      <3>1. x \in free_list[b] <=> ~ \E n \in live : n.ptr = x
        BY <1>1 DEF HeapInv, EveryBlockAccounted, b
      <3>. QED  BY <1>5, <1>6, <1>7, <3>1
    <2>2. arena'[p].free_blocks < TotalBlocks(b)
      <3>1. arena[p].free_blocks < TotalBlocks(b)
        BY <1>1 DEF HeapInv, EveryBlockAccounted, b
      <3>. QED  BY <1>2, <1>3, <1>6, <1>18, <3>1
    <2>3. ASSUME NEW a \in DOMAIN arena \ {p}, arena[a].block_size # Large,
                 NEW x \in ArenaBlocks(a, arena[a].block_size)
          PROVE  x \in free_list'[arena[a].block_size] <=> ~ \E n \in live' : n.ptr = x
      <3>1. x # block
        BY <1>17, <2>3
      <3>2. x \in free_list[arena[a].block_size] <=> ~ \E n \in live : n.ptr = x
        BY <2>3 DEF HeapInv, EveryBlockAccounted
      <3>. QED  BY <1>5, <1>6, <1>17, <2>3, <3>1, <3>2
    <2>4. ASSUME NEW a \in DOMAIN arena \ {p}, arena[a].block_size # Large
          PROVE  arena[a].free_blocks < TotalBlocks(arena[a].block_size)
      BY <2>4 DEF HeapInv, EveryBlockAccounted
    <2>. QED
      BY <1>4, <1>18, <2>1, <2>2, <2>3, <2>4 DEF EveryBlockAccounted
  <1>. QED
    BY <1>11, <1>12, <1>13, <1>14, <1>15, <1>16, <1>19, <1>20 DEF HeapInv

\* Giving the last block of an arena back, and the page with it, keeps the
\* invariant: the count of free blocks leaves no other caller in the page.
LEMMA KfreeArenaKeeps ==
    ASSUME HeapInv, NEW m \in live, KfreeArena(m)
    PROVE  HeapInv' /\ PoolNext
PROOF
  <1>. DEFINE p == get_arena_address(m.ptr)
              b == arena[p].block_size
              block == m.ptr
              blocks == ArenaBlocks(p, b)
              L == free_list[b] \cap blocks
  <1>1. p \in DOMAIN arena /\ b # Large /\ block \in blocks \ free_list[b]
    BY DEF HeapInv, LiveInArenas, KfreeArena
  <1>2. b \in BlockSizes /\ TotalBlocks(b) \in Nat /\ p \in Nat
    BY <1>1, HeapPages, BlocksFit DEF HeapInv, HeapTypeOK
  <1>3. FreePages(Request(p, ArenaPages(p)))
    BY <1>1 DEF KfreeArena, ArenaPages
  <1>4. /\ PoolNext
        /\ (PoolTypeOK /\ PoolAccounting /\ ExtentsDisjoint)'
        /\ extents' = {Request(c, ArenaPages(c)) : c \in DOMAIN arena \ {p}}
    BY <1>1, <1>3, ArenaReleased
  <1>5. /\ DOMAIN arena' = DOMAIN arena \ {p}
        /\ \A a \in DOMAIN arena \ {p} : arena'[a] = arena[a]
    BY HeaderDropped DEF KfreeArena
  <1>6. /\ free_list'[b] = (free_list[b] \cup {block}) \ blocks
        /\ \A d \in BlockSizes \ {b} : free_list'[d] = free_list[d]
        /\ free_list' \in [BlockSizes -> SUBSET Nat]
    <2>1. free_list' = [free_list EXCEPT ![b] = (@ \cup {block}) \ blocks]
      BY DEF KfreeArena
    <2>2. block \in Nat
      BY DEF HeapInv, HeapTypeOK
    <2>. QED  BY <1>2, <2>1, <2>2 DEF HeapInv, HeapTypeOK
  <1>7. live' = live \ {m} /\ arena[p].free_blocks + 1 = TotalBlocks(b)
    BY DEF KfreeArena
  <1>8. IsFiniteSet(blocks) /\ Cardinality(blocks) = TotalBlocks(b)
        /\ \A x \in blocks : get_arena_address(x) = p
    BY <1>2, BlocksOfPage
  <1>9. Cardinality(L) = arena[p].free_blocks /\ arena[p].free_blocks \in Nat
    BY <1>1 DEF HeapInv, FreeBlocksCounted, HeapTypeOK
  <1>. HIDE DEF b, blocks
  <1>10. blocks = L \cup {block}
    <2>1. IsFiniteSet(L) /\ block \notin L /\ L \cup {block} \subseteq blocks
      BY <1>1, <1>8, FS_Subset
    <2>. HIDE DEF L
    <2>2. Cardinality(L \cup {block}) = Cardinality(blocks)
      <3>1. Cardinality(L \cup {block}) = Cardinality(L) + 1
        BY <2>1, FS_AddElement
      <3>. QED  BY <1>7, <1>8, <1>9, <3>1
    <2>. QED  BY <1>8, <2>1, <2>2, FS_Subset
  <1>11. \A n \in live \ {m} : get_arena_address(n.ptr) \in DOMAIN arena \ {p}
    <2>. TAKE n \in live \ {m}
    <2>1. get_arena_address(n.ptr) \in DOMAIN arena
      BY DEF HeapInv, LiveInArenas
    <2>2. ASSUME get_arena_address(n.ptr) = p
          PROVE  FALSE
      <3>1. n.ptr \in blocks \ free_list[b]
        BY <1>1, <2>2 DEF HeapInv, LiveInArenas, blocks, b
      <3>2. n.ptr = block
        BY <1>10, <3>1
      <3>. QED  BY <3>2 DEF HeapInv, LiveApart
    <2>. QED  BY <2>1, <2>2
  <1>12. ASSUME NEW a \in DOMAIN arena \ {p}, arena[a].block_size # Large
         PROVE  /\ arena[a].block_size \in BlockSizes
                /\ ArenaBlocks(a, arena[a].block_size) \cap blocks = {}
    <2>1. a \in Nat /\ arena[a].block_size \in BlockSizes
      BY <1>12, HeapPages DEF HeapInv, HeapTypeOK
    <2>2. \A x \in ArenaBlocks(a, arena[a].block_size) : get_arena_address(x) = a
      BY <2>1, BlocksOfPage
    <2>. QED  BY <1>8, <2>1, <2>2
  <1>. HIDE DEF p
  <1>13. HeapTypeOK'
    BY <1>4, <1>5, <1>6, <1>7 DEF HeapInv, HeapTypeOK
  <1>14. ArenasAreExtents'
    BY <1>4, <1>5 DEF ArenasAreExtents, ArenaPages
  <1>15. LiveInArenas'
    <2>. SUFFICES ASSUME NEW n \in live \ {m}
                  PROVE  LET a == get_arena_address(n.ptr)
                             d == arena'[a].block_size IN
                          /\ a \in DOMAIN arena'
                          /\ d = Large => n.ptr = a * PAGE_SIZE + ArenaSize
                          /\ d # Large => n.ptr \in ArenaBlocks(a, d) \ free_list'[d]
      BY <1>7 DEF LiveInArenas
    <2>. DEFINE a == get_arena_address(n.ptr)
    <2>1. a \in DOMAIN arena \ {p} /\ arena'[a] = arena[a]
      BY <1>5, <1>11
    <2>2. /\ arena[a].block_size = Large => n.ptr = a * PAGE_SIZE + ArenaSize
          /\ arena[a].block_size # Large =>
               n.ptr \in ArenaBlocks(a, arena[a].block_size)
                           \ free_list[arena[a].block_size]
      BY DEF HeapInv, LiveInArenas
    <2>3. n.ptr # block
      BY DEF HeapInv, LiveApart
    <2>. HIDE DEF a
    <2>4. arena[a].block_size # Large => n.ptr \notin free_list'[arena[a].block_size]
      BY <1>6, <1>12, <2>1, <2>2, <2>3
    <2>. QED  BY <1>5, <2>1, <2>2, <2>4 DEF a
  <1>16. LiveApart'
    BY <1>7 DEF HeapInv, LiveApart
  <1>17. FreeListsSound'
    <2>1. ASSUME NEW d \in BlockSizes, NEW x \in free_list'[d]
          PROVE  LET a == get_arena_address(x) IN
                   /\ a \in DOMAIN arena'
                   /\ arena'[a].block_size = d
                   /\ x \in ArenaBlocks(a, d)
      <3>1. x \in free_list[d] \ blocks
        <4>1. CASE d = b
          BY <1>1, <1>6, <2>1, <4>1
        <4>2. CASE d # b
          <5>1. x \in free_list[d]
            BY <1>6, <2>1, <4>2
          <5>2. arena[get_arena_address(x)].block_size = d
            BY <5>1 DEF HeapInv, FreeListsSound
          <5>. QED  BY <1>8, <4>2, <5>1, <5>2 DEF b
        <4>. QED  BY <4>1, <4>2
      <3>2. /\ get_arena_address(x) \in DOMAIN arena
            /\ arena[get_arena_address(x)].block_size = d
            /\ x \in ArenaBlocks(get_arena_address(x), d)
        BY <3>1 DEF HeapInv, FreeListsSound
      <3>3. get_arena_address(x) # p
        BY <3>1, <3>2 DEF blocks, b
      <3>. QED  BY <1>5, <3>2, <3>3
    <2>. QED  BY <2>1 DEF FreeListsSound
  <1>18. ASSUME NEW a \in DOMAIN arena \ {p}, arena[a].block_size # Large
         PROVE  free_list'[arena[a].block_size] \cap ArenaBlocks(a, arena[a].block_size)
                  = free_list[arena[a].block_size] \cap ArenaBlocks(a, arena[a].block_size)
    BY <1>1, <1>6, <1>12, <1>18
  <1>19. FreeBlocksCounted'
    BY <1>5, <1>18 DEF HeapInv, FreeBlocksCounted
  <1>20. EveryBlockAccounted'
    <2>1. ASSUME NEW a \in DOMAIN arena \ {p}, arena[a].block_size # Large,
                 NEW x \in ArenaBlocks(a, arena[a].block_size)
          PROVE  x \in free_list'[arena[a].block_size] <=> ~ \E n \in live' : n.ptr = x
      <3>1. x # block
        BY <1>1, <1>12, <2>1
      <3>2. x \in free_list[arena[a].block_size] <=> ~ \E n \in live : n.ptr = x
        BY <2>1 DEF HeapInv, EveryBlockAccounted
      <3>. QED  BY <1>7, <1>18, <2>1, <3>1, <3>2
    <2>2. ASSUME NEW a \in DOMAIN arena, arena[a].block_size # Large
          PROVE  arena[a].free_blocks < TotalBlocks(arena[a].block_size)
      BY <2>2 DEF HeapInv, EveryBlockAccounted
    <2>. QED
      BY <1>5, <2>1, <2>2 DEF EveryBlockAccounted
  <1>. QED
    BY <1>4, <1>13, <1>14, <1>15, <1>16, <1>17, <1>19, <1>20 DEF HeapInv

\* Every step of the heap keeps the invariant and is a step of the pool.
LEMMA HeapStep ==
    ASSUME HeapInv, [HeapNext]_heapVars
    PROVE  HeapInv' /\ [PoolNext]_poolVars
PROOF
  <1>1. ASSUME NEW size \in Requests, KmallocLarge(size)
        PROVE  HeapInv' /\ PoolNext
    <2>1. PoolNext
      BY <1>1, HeapAssumption DEF KmallocLarge, PoolNext
    <2>. QED  BY <1>1, <2>1, KmallocLargeKeeps
  <1>2. ASSUME NEW size \in Requests, KmallocBlock(size)
        PROVE  HeapInv' /\ UNCHANGED poolVars
    BY <1>2, KmallocBlockKeeps DEF KmallocBlock, poolVars
  <1>3. ASSUME NEW size \in Requests, KmallocArena(size)
        PROVE  HeapInv' /\ PoolNext
    <2>1. PoolNext
      BY <1>3, HeapAssumption DEF KmallocArena, PoolNext
    <2>. QED  BY <1>3, <2>1, KmallocArenaKeeps
  <1>4. ASSUME NEW size \in Requests, KmallocAsserts(size)
        PROVE  HeapInv' /\ PoolNext
    <2>1. /\ \E count \in Counts : AllocAsserts(count)
          /\ UNCHANGED <<extents, arena, free_list, live>>
      BY <1>4, HeapAssumption DEF KmallocAsserts, AllocAsserts
    <2>2. PoolNext
      BY <2>1 DEF PoolNext
    <2>3. (PoolTypeOK /\ PoolAccounting /\ ExtentsDisjoint)'
      BY <2>2, PoolStepTyped, PoolStepSafe DEF HeapInv, HeapTypeOK
    <2>. QED
      BY <2>1, <2>2, <2>3 DEF HeapInv, HeapTypeOK, ArenasAreExtents, ArenaPages,
         LiveInArenas, LiveApart, FreeListsSound, FreeBlocksCounted,
         EveryBlockAccounted
  <1>5. ASSUME NEW m \in live, KfreeBlock(m)
        PROVE  HeapInv' /\ UNCHANGED poolVars
    BY <1>5, KfreeBlockKeeps DEF KfreeBlock, poolVars
  <1>6. CASE UNCHANGED heapVars
    <2>1. /\ UNCHANGED poolVars
          /\ UNCHANGED <<used, available, extents, failed, arena, free_list, live>>
      BY <1>6 DEF heapVars, poolVars
    <2>. QED
      BY <2>1 DEF HeapInv, HeapTypeOK, PoolTypeOK, PoolAccounting, ExtentsDisjoint,
         Held, ArenasAreExtents, ArenaPages, LiveInArenas, LiveApart,
         FreeListsSound, FreeBlocksCounted, EveryBlockAccounted
  <1>. QED
    BY <1>1, <1>2, <1>3, <1>4, <1>5, <1>6, KfreeLargeKeeps, KfreeArenaKeeps
       DEF HeapNext

\* The invariant holds always.
THEOREM HeapInvariant == HeapSpec => []HeapInv
PROOF
  <1>1. HeapInit => HeapInv
    <2>. SUFFICES ASSUME HeapInit PROVE HeapInv
      OBVIOUS
    <2>1. DOMAIN arena = {} /\ live = {} /\ extents = {}
          /\ free_list = [b \in BlockSizes |-> {}]
      BY DEF HeapInit, PoolInit
    <2>2. PoolTypeOK /\ PoolAccounting /\ ExtentsDisjoint
      BY PagesInBits, PoolAssumption
         DEF HeapInit, PoolInit, PoolTypeOK, PoolAccounting, ExtentsDisjoint, Held
    <2>. QED
      BY <2>1, <2>2 DEF HeapInv, HeapTypeOK, ArenasAreExtents, LiveInArenas,
         LiveApart, FreeListsSound, FreeBlocksCounted, EveryBlockAccounted
  <1>2. HeapInv /\ [HeapNext]_heapVars => HeapInv'
    BY HeapStep
  <1>. QED
    BY <1>1, <1>2, PTL DEF HeapSpec

-----------------------------------------------------------------------------
(***************************************************************************)
(* The memory itself: the regions callers hold, the headers and the free   *)
(* blocks share no byte.                                                   *)
(***************************************************************************)

\* What a caller asked for fits into the block it got, or behind the header
\* in the pages it got.
LiveFits ==
    /\ IsFiniteSet(live)
    /\ \A m \in live : LET a == get_arena_address(m.ptr)
                           b == arena[a].block_size IN
         IF b = Large THEN m.size + ArenaSize <= arena[a].free_blocks * PAGE_SIZE
                      ELSE m.size <= b

\* The pages counted for a large request hold it and the header.
LEMMA PagesSuffice ==
    ASSUME NEW size \in Nat
    PROVE  size + ArenaSize <= Ceil(size + ArenaSize, PAGE_SIZE) * PAGE_SIZE
PROOF
  BY DEF Ceil, ArenaSize, PAGE_SIZE

\* An arena of which a caller keeps a part keeps the header the bounds of that
\* part are taken from.
LEMMA LiveStaysIn ==
    ASSUME HeapInv, LiveFits, IsFiniteSet(live'),
           \A m \in live \cap live' : LET a == get_arena_address(m.ptr) IN
               /\ arena'[a].block_size = arena[a].block_size
               /\ arena[a].block_size = Large =>
                    arena'[a].free_blocks = arena[a].free_blocks,
           \A m \in live' \ live : LET a == get_arena_address(m.ptr)
                                       b == arena'[a].block_size IN
               IF b = Large THEN m.size + ArenaSize <= arena'[a].free_blocks * PAGE_SIZE
                            ELSE m.size <= b
    PROVE  LiveFits'
PROOF
  BY DEF LiveFits

\* Every step keeps what callers hold within what they were given.
LEMMA LiveFitsStep ==
    ASSUME HeapInv, LiveFits, [HeapNext]_heapVars
    PROVE  LiveFits'
PROOF
  <1>arenas. \A m \in live : get_arena_address(m.ptr) \in DOMAIN arena
    BY DEF HeapInv, LiveInArenas
  <1>fields. /\ \A c, f : Header(c, f).block_size = c /\ Header(c, f).free_blocks = f
         /\ \A p, n : Allocation(p, n).ptr = p /\ Allocation(p, n).size = n
    BY DEF Header, Allocation
  <1>1. ASSUME NEW size \in Requests, KmallocLarge(size)
        PROVE  LiveFits'
    <2>. DEFINE count == Ceil(size + ArenaSize, PAGE_SIZE)
                page == bitmap_scan(PageBits, used, count)
                new  == Allocation(page * PAGE_SIZE + ArenaSize, size)
    <2>1. count \in Counts /\ AllocPages(count) /\ size \in Nat
      BY <1>1, HeapAssumption, PoolAssumption DEF KmallocLarge, PAGE_SIZE
    <2>2. page \in Nat /\ page \notin DOMAIN arena
      BY <2>1, FreshArena
    <2>3. arena' = Put(arena, page, Header(Large, count)) /\ live' = live \cup {new}
      BY <1>1 DEF KmallocLarge
    <2>4. get_arena_address(new.ptr) = page /\ new.size = size
      BY <1>fields, <2>2, LargeAddress
    <2>5. size + ArenaSize <= count * PAGE_SIZE
      BY <2>1, PagesSuffice
    <2>. HIDE DEF count, page, new
    <2>6. /\ arena'[page] = Header(Large, count)
          /\ \A a \in DOMAIN arena : arena'[a] = arena[a]
      BY <2>2, <2>3 DEF Put
    <2>7. IsFiniteSet(live')
      BY <2>3, FS_AddElement DEF LiveFits
    <2>. QED
      BY <1>arenas, <1>fields, <2>3, <2>4, <2>5, <2>6, <2>7, LiveStaysIn
  <1>2. ASSUME NEW size \in Requests, KmallocBlock(size)
        PROVE  LiveFits'
    <2>. DEFINE b == Descriptor(size)
    <2>1. PICK block \in free_list[b] :
            /\ arena' = [arena EXCEPT ![get_arena_address(block)].free_blocks = @ - 1]
            /\ live' = live \cup {Allocation(block, size)}
      BY <1>2 DEF KmallocBlock
    <2>2. b \in BlockSizes /\ b # Large /\ size <= b
      BY <1>2, DescriptorFits, BlocksFit DEF KmallocBlock
    <2>. DEFINE p == get_arena_address(block)
                new == Allocation(block, size)
    <2>3. p \in DOMAIN arena /\ arena[p].block_size = b
      BY <2>2 DEF HeapInv, FreeListsSound
    <2>4. arena[p] = Header(b, arena[p].free_blocks)
      BY <2>3 DEF HeapInv, HeapTypeOK
    <2>5. /\ arena'[p] = Header(b, arena[p].free_blocks - 1)
          /\ \A a \in DOMAIN arena \ {p} : arena'[a] = arena[a]
      BY <2>1, <2>3, <2>4 DEF Header
    <2>6. IsFiniteSet(live')
      BY <2>1, FS_AddElement DEF LiveFits
    <2>7. new.ptr = block /\ new.size = size /\ live' = live \cup {new}
      BY <1>fields, <2>1
    <2>. HIDE DEF b, new
    <2>. QED
      BY <1>arenas, <1>fields, <2>2, <2>3, <2>5, <2>6, <2>7, LiveStaysIn
  <1>3. ASSUME NEW size \in Requests, KmallocArena(size)
        PROVE  LiveFits'
    <2>. DEFINE b == Descriptor(size)
                page == bitmap_scan(PageBits, used, 1)
    <2>1. PICK block \in ArenaBlocks(page, b) : live' = live \cup {Allocation(block, size)}
      BY <1>3 DEF KmallocArena
    <2>. DEFINE new == Allocation(block, size)
    <2>2. b \in BlockSizes /\ b # Large /\ size <= b
      BY <1>3, DescriptorFits, BlocksFit DEF KmallocArena
    <2>3. page \in Nat /\ page \notin DOMAIN arena
      <3>1. 1 \in Counts /\ AllocPages(1)
        BY <1>3, HeapAssumption DEF KmallocArena
      <3>. QED  BY <3>1, FreshArena
    <2>4. arena' = Put(arena, page, Header(b, TotalBlocks(b) - 1))
      BY <1>3 DEF KmallocArena
    <2>. HIDE DEF b, page
    <2>5. get_arena_address(block) = page
      BY <2>2, <2>3, BlocksOfPage
    <2>6. /\ arena'[page] = Header(b, TotalBlocks(b) - 1)
          /\ \A a \in DOMAIN arena : arena'[a] = arena[a]
      BY <2>3, <2>4 DEF Put
    <2>7. IsFiniteSet(live')
      BY <2>1, FS_AddElement DEF LiveFits
    <2>8. new.ptr = block /\ new.size = size /\ live' = live \cup {new}
      BY <1>fields, <2>1
    <2>. HIDE DEF new
    <2>. QED
      BY <1>arenas, <1>fields, <2>2, <2>5, <2>6, <2>7, <2>8, LiveStaysIn
  <1>4. ASSUME NEW size \in Requests, KmallocAsserts(size)
        PROVE  LiveFits'
    BY <1>4 DEF KmallocAsserts, LiveFits
  <1>5. ASSUME NEW m \in live, KfreeLarge(m) \/ KfreeArena(m)
        PROVE  LiveFits'
    <2>. DEFINE p == get_arena_address(m.ptr)
    <2>1. live' = live \ {m} /\ arena' = Restrict(arena, DOMAIN arena \ {p})
      BY <1>5 DEF KfreeLarge, KfreeArena
    <2>2. /\ DOMAIN arena' = DOMAIN arena \ {p}
          /\ \A a \in DOMAIN arena \ {p} : arena'[a] = arena[a]
      BY <2>1, HeaderDropped
    <2>3. HeapInv'
      BY <1>5, KfreeLargeKeeps, KfreeArenaKeeps
    <2>4. \A n \in live' : get_arena_address(n.ptr) \in DOMAIN arena'
      BY <2>3 DEF HeapInv, LiveInArenas
    <2>5. IsFiniteSet(live')
      BY <2>1, FS_RemoveElement DEF LiveFits
    <2>. QED
      BY <2>1, <2>2, <2>4, <2>5, LiveStaysIn
  <1>6. ASSUME NEW m \in live, KfreeBlock(m)
        PROVE  LiveFits'
    <2>. DEFINE p == get_arena_address(m.ptr)
    <2>1. /\ live' = live \ {m}
          /\ arena' = [arena EXCEPT ![p].free_blocks = @ + 1]
          /\ arena[p].block_size # Large
      BY <1>6 DEF KfreeBlock
    <2>2. p \in DOMAIN arena
      BY <1>arenas
    <2>3. arena[p] = Header(arena[p].block_size, arena[p].free_blocks)
      BY <2>2 DEF HeapInv, HeapTypeOK
    <2>4. /\ arena'[p] = Header(arena[p].block_size, arena[p].free_blocks + 1)
          /\ \A a \in DOMAIN arena \ {p} : arena'[a] = arena[a]
      BY <2>1, <2>2, <2>3 DEF Header
    <2>5. IsFiniteSet(live')
      BY <2>1, FS_RemoveElement DEF LiveFits
    <2>. HIDE DEF p
    <2>6. \A a \in DOMAIN arena : /\ arena'[a].block_size = arena[a].block_size
                                  /\ arena[a].block_size = Large =>
                                       arena'[a].free_blocks = arena[a].free_blocks
      BY <1>fields, <2>1, <2>4
    <2>. QED
      BY <1>arenas, <2>1, <2>5, <2>6, LiveStaysIn
  <1>7. CASE UNCHANGED heapVars
    BY <1>7 DEF heapVars, LiveFits
  <1>. QED
    BY <1>1, <1>2, <1>3, <1>4, <1>5, <1>6, <1>7 DEF HeapNext

\* Region r starts at ptr in an arena of page a: it is the header, what a
\* caller holds, or a free block.
RegionOf(r, a, ptr, size) ==
    /\ a \in DOMAIN arena /\ ptr \in Nat /\ size \in Nat \ {0}
    /\ r = Region(ptr, size)
    /\ LET b == arena[a].block_size IN
         \/ ptr = a * PAGE_SIZE /\ size = ArenaSize
         \/ /\ b = Large
            /\ Allocation(ptr, size) \in live
            /\ ptr = a * PAGE_SIZE + ArenaSize
            /\ size + ArenaSize <= arena[a].free_blocks * PAGE_SIZE
         \/ /\ b # Large
            /\ ptr \in ArenaBlocks(a, b) /\ size <= b
            /\ \/ Allocation(ptr, size) \in live /\ ptr \notin free_list[b]
               \/ ptr \in free_list[b] /\ size = b

\* Every region is in some arena.
LEMMA RegionPlaced ==
    ASSUME HeapInv, LiveFits, NEW r \in Regions
    PROVE  \E a, ptr, size : RegionOf(r, a, ptr, size)
PROOF
  <1>1. \A a \in DOMAIN arena : a \in Nat
    BY HeapPages DEF HeapInv, HeapTypeOK
  <1>2. CASE r \in Headers
    <2>1. PICK a \in DOMAIN arena : r = Region(a * PAGE_SIZE, ArenaSize)
      BY <1>2 DEF Headers
    <2>2. a * PAGE_SIZE \in Nat /\ ArenaSize \in Nat \ {0}
      BY <1>1 DEF PAGE_SIZE, ArenaSize
    <2>3. RegionOf(r, a, a * PAGE_SIZE, ArenaSize)
      BY <2>1, <2>2 DEF RegionOf
    <2>. QED  BY <2>3
  <1>3. CASE r \in LiveRegions
    <2>1. PICK m \in live : r = Region(m.ptr, m.size)
      BY <1>3 DEF LiveRegions
    <2>. DEFINE a == get_arena_address(m.ptr)
    <2>2. m = Allocation(m.ptr, m.size) /\ m.ptr \in Nat /\ m.size \in Nat \ {0}
      <3>1. 1 .. (TotalPages * PAGE_SIZE) \subseteq Nat \ {0}
        BY PoolAssumption DEF PAGE_SIZE
      <3>. QED  BY <3>1, HeapAssumption DEF HeapInv, HeapTypeOK
    <2>3. RegionOf(r, a, m.ptr, m.size)
      BY <2>1, <2>2 DEF RegionOf, HeapInv, LiveInArenas, LiveFits
    <2>. QED  BY <2>3
  <1>4. CASE r \in FreeBlocks
    <2>1. PICK b \in BlockSizes : \E block \in free_list[b] : r = Region(block, b)
      BY <1>4 DEF FreeBlocks
    <2>2. PICK block \in free_list[b] : r = Region(block, b)
      BY <2>1
    <2>. DEFINE a == get_arena_address(block)
    <2>3. a \in DOMAIN arena /\ arena[a].block_size = b /\ block \in ArenaBlocks(a, b)
      BY DEF HeapInv, FreeListsSound
    <2>4. b \in Nat \ {0} /\ b # Large /\ block \in Nat
      BY BlocksFit DEF HeapInv, HeapTypeOK
    <2>5. RegionOf(r, a, block, b)
      BY <2>2, <2>3, <2>4 DEF RegionOf
    <2>. QED  BY <2>5
  <1>. QED  BY <1>2, <1>3, <1>4 DEF Regions

\* An arena has pages, which the pool handed out.
LEMMA ArenaHeld ==
    ASSUME HeapInv, NEW a \in DOMAIN arena
    PROVE  /\ a \in Nat /\ ArenaPages(a) \in Nat \ {0}
           /\ Request(a, ArenaPages(a)) \in extents
           /\ ExtentPages(Request(a, ArenaPages(a))) = a .. (a + ArenaPages(a) - 1)
PROOF
  <1>1. Request(a, ArenaPages(a)) \in extents
    BY DEF HeapInv, ArenasAreExtents
  <1>2. /\ Request(a, ArenaPages(a)).count = ArenaPages(a)
        /\ Request(a, ArenaPages(a)).base = a
    BY DEF Request
  <1>3. ArenaPages(a) \in Nat \ {0}
    BY <1>1, <1>2, PoolAssumption DEF HeapInv, HeapTypeOK, PoolTypeOK
  <1>4. a \in Nat
    BY HeapPages DEF HeapInv, HeapTypeOK
  <1>. QED  BY <1>1, <1>2, <1>3, <1>4 DEF ExtentPages, Run

\* Two arenas have no page in common.
LEMMA ArenasApart ==
    ASSUME HeapInv, NEW a \in DOMAIN arena, NEW c \in DOMAIN arena, a # c
    PROVE  a + ArenaPages(a) <= c \/ c + ArenaPages(c) <= a
PROOF
  <1>1. a \in Nat /\ ArenaPages(a) \in Nat \ {0} /\ c \in Nat /\ ArenaPages(c) \in Nat \ {0}
    BY ArenaHeld
  <1>2. Request(a, ArenaPages(a)) # Request(c, ArenaPages(c))
    BY DEF Request
  <1>3. (a .. (a + ArenaPages(a) - 1)) \cap (c .. (c + ArenaPages(c) - 1)) = {}
    BY <1>2, ArenaHeld DEF HeapInv, ExtentsDisjoint
  <1>. HIDE DEF ArenaPages
  <1>4. a \notin c .. (c + ArenaPages(c) - 1) /\ c \notin a .. (a + ArenaPages(a) - 1)
    BY <1>1, <1>3
  <1>. QED  BY <1>1, <1>4

\* Two blocks of a page have no byte in common.
LEMMA BlocksApart ==
    ASSUME NEW page \in Nat, NEW b \in BlockSizes,
           NEW x \in ArenaBlocks(page, b), NEW y \in ArenaBlocks(page, b), x # y
    PROVE  x + b <= y \/ y + b <= x
PROOF
  <1>1. PICK i \in 0..(TotalBlocks(b) - 1) : x = get_block_address(page, b, i)
    BY DEF ArenaBlocks
  <1>2. PICK j \in 0..(TotalBlocks(b) - 1) : y = get_block_address(page, b, j)
    BY DEF ArenaBlocks
  <1>3. i \in Nat /\ j \in Nat /\ i # j
    BY <1>1, <1>2
  <1>. DEFINE base == page * PAGE_SIZE + ArenaSize
  <1>4. base \in Nat /\ x = base + i * b /\ y = base + j * b
    BY <1>1, <1>2 DEF get_block_address, PAGE_SIZE, ArenaSize
  <1>. HIDE DEF base
  <1>. QED  BY <1>3, <1>4 DEF BlockSizes

\* A region lies within the pages of its arena.
LEMMA RegionWithin ==
    ASSUME HeapInv, NEW r, NEW a, NEW ptr, NEW size, RegionOf(r, a, ptr, size)
    PROVE  /\ r.first = ptr /\ r.last = ptr + size - 1
           /\ a * PAGE_SIZE <= ptr
           /\ ptr + size <= (a + ArenaPages(a)) * PAGE_SIZE
           /\ a \in Nat /\ ArenaPages(a) \in Nat \ {0}
           /\ ptr \in Nat /\ size \in Nat \ {0}
PROOF
  <1>1. a \in DOMAIN arena /\ ptr \in Nat /\ size \in Nat \ {0} /\ r = Region(ptr, size)
    BY DEF RegionOf
  <1>2. r.first = ptr /\ r.last = ptr + size - 1
    BY <1>1 DEF Region
  <1>3. a \in Nat /\ ArenaPages(a) \in Nat \ {0}
    BY <1>1, ArenaHeld
  <1>4. CASE ptr = a * PAGE_SIZE /\ size = ArenaSize
    <2>. HIDE DEF ArenaPages
    <2>. QED  BY <1>1, <1>2, <1>3, <1>4 DEF PAGE_SIZE, ArenaSize
  <1>5. CASE /\ arena[a].block_size = Large
             /\ ptr = a * PAGE_SIZE + ArenaSize
             /\ size + ArenaSize <= arena[a].free_blocks * PAGE_SIZE
    <2>1. ArenaPages(a) = arena[a].free_blocks
      BY <1>5 DEF ArenaPages
    <2>. HIDE DEF ArenaPages
    <2>. QED  BY <1>1, <1>2, <1>3, <1>5, <2>1 DEF PAGE_SIZE, ArenaSize
  <1>6. CASE /\ arena[a].block_size # Large
             /\ ptr \in ArenaBlocks(a, arena[a].block_size)
             /\ size <= arena[a].block_size
    <2>. DEFINE b == arena[a].block_size
    <2>1. b \in BlockSizes /\ b \in Nat
      BY <1>1, <1>6, BlocksFit DEF HeapInv, HeapTypeOK
    <2>2. PICK i \in 0..(TotalBlocks(b) - 1) : ptr = get_block_address(a, b, i)
      BY <1>6 DEF ArenaBlocks
    <2>3. /\ ptr >= a * PAGE_SIZE + ArenaSize
          /\ ptr + b <= a * PAGE_SIZE + PAGE_SIZE
      BY <1>3, <2>1, <2>2, BlockAddress
    <2>4. size <= b
      BY <1>6
    <2>. HIDE DEF b
    <2>5. ArenaPages(a) = 1
      BY <1>6 DEF ArenaPages
    <2>6. a * PAGE_SIZE <= ptr /\ ptr + size <= (a + 1) * PAGE_SIZE
      BY <1>1, <1>3, <2>1, <2>3, <2>4 DEF PAGE_SIZE, ArenaSize
    <2>. QED  BY <1>1, <1>2, <1>3, <2>5, <2>6
  <1>. QED
    BY <1>4, <1>5, <1>6 DEF RegionOf

\* Two regions of an arena that start at one place are one.
LEMMA RegionsFromOnePlace ==
    ASSUME HeapInv, NEW r, NEW s, NEW a, NEW ptr, NEW n, NEW k,
           RegionOf(r, a, ptr, n), RegionOf(s, a, ptr, k)
    PROVE  r = s
PROOF
  <1>1. a \in DOMAIN arena /\ a \in Nat /\ r = Region(ptr, n) /\ s = Region(ptr, k)
    BY ArenaHeld DEF RegionOf
  <1>2. a * PAGE_SIZE \in Nat /\ a * PAGE_SIZE # a * PAGE_SIZE + ArenaSize
    BY <1>1 DEF PAGE_SIZE, ArenaSize
  <1>3. ASSUME arena[a].block_size # Large, ptr \in ArenaBlocks(a, arena[a].block_size)
        PROVE  ptr # a * PAGE_SIZE
    <2>. DEFINE b == arena[a].block_size
    <2>1. b \in BlockSizes
      BY <1>1, <1>3 DEF HeapInv, HeapTypeOK
    <2>2. PICK i \in 0..(TotalBlocks(b) - 1) : ptr = get_block_address(a, b, i)
      BY <1>3 DEF ArenaBlocks
    <2>3. ptr >= a * PAGE_SIZE + ArenaSize /\ ptr \in Nat
      BY <1>1, <2>1, <2>2, BlockAddress
    <2>. QED  BY <1>1, <2>3 DEF PAGE_SIZE, ArenaSize
  <1>4. ASSUME Allocation(ptr, n) \in live, Allocation(ptr, k) \in live
        PROVE  n = k
    <2>1. Allocation(ptr, n).ptr = Allocation(ptr, k).ptr
      BY DEF Allocation
    <2>2. Allocation(ptr, n) = Allocation(ptr, k)
      BY <1>4, <2>1 DEF HeapInv, LiveApart
    <2>. QED  BY <2>2 DEF Allocation
  <1>. HIDE DEF Allocation
  <1>5. n = k
    BY <1>1, <1>2, <1>3, <1>4 DEF RegionOf
  <1>. QED  BY <1>1, <1>5

\* Regions that differ share no byte.
LEMMA RegionsApart ==
    ASSUME HeapInv, LiveFits, NEW r \in Regions, NEW s \in Regions, r # s
    PROVE  r.last < s.first \/ s.last < r.first
PROOF
  <1>1. PICK a, x, n : RegionOf(r, a, x, n)
    BY RegionPlaced
  <1>2. PICK c, y, k : RegionOf(s, c, y, k)
    BY RegionPlaced
  <1>3. /\ r.first = x /\ r.last = x + n - 1
        /\ a * PAGE_SIZE <= x /\ x + n <= (a + ArenaPages(a)) * PAGE_SIZE
        /\ a \in Nat /\ ArenaPages(a) \in Nat \ {0}
        /\ x \in Nat /\ n \in Nat \ {0}
    BY <1>1, RegionWithin
  <1>4. /\ s.first = y /\ s.last = y + k - 1
        /\ c * PAGE_SIZE <= y /\ y + k <= (c + ArenaPages(c)) * PAGE_SIZE
        /\ c \in Nat /\ ArenaPages(c) \in Nat \ {0}
        /\ y \in Nat /\ k \in Nat \ {0}
    BY <1>2, RegionWithin
  <1>5. a \in DOMAIN arena /\ c \in DOMAIN arena
    BY <1>1, <1>2 DEF RegionOf
  <1>6. CASE a # c
    <2>1. a + ArenaPages(a) <= c \/ c + ArenaPages(c) <= a
      BY <1>5, <1>6, ArenasApart
    <2>. HIDE DEF ArenaPages
    <2>. QED  BY <1>3, <1>4, <2>1 DEF PAGE_SIZE
  <1>7. CASE a = c
    <2>. DEFINE b == arena[a].block_size
    <2>1. x # y
      BY <1>1, <1>2, <1>7, RegionsFromOnePlace
    <2>2. ASSUME b # Large
          PROVE  /\ \A z \in ArenaBlocks(a, b) : a * PAGE_SIZE + ArenaSize <= z
                 /\ b \in Nat
                 /\ \A z, w \in ArenaBlocks(a, b) : z # w => z + b <= w \/ w + b <= z
      <3>1. b \in BlockSizes
        BY <1>5, <2>2 DEF HeapInv, HeapTypeOK
      <3>2. ASSUME NEW z \in ArenaBlocks(a, b)
            PROVE  a * PAGE_SIZE + ArenaSize <= z
        <4>1. PICK i \in 0..(TotalBlocks(b) - 1) : z = get_block_address(a, b, i)
          BY DEF ArenaBlocks
        <4>2. z >= a * PAGE_SIZE + ArenaSize /\ z \in Nat
          BY <1>3, <3>1, <4>1, BlockAddress
        <4>. QED  BY <1>3, <4>2 DEF PAGE_SIZE, ArenaSize
      <3>. QED  BY <1>3, <3>1, <3>2, BlocksApart, BlocksFit
    <2>3. CASE b = Large
      <3>1. (x = a * PAGE_SIZE /\ n = ArenaSize) \/ x = a * PAGE_SIZE + ArenaSize
        BY <1>1, <2>3 DEF RegionOf
      <3>2. (y = a * PAGE_SIZE /\ k = ArenaSize) \/ y = a * PAGE_SIZE + ArenaSize
        BY <1>2, <1>7, <2>3 DEF RegionOf
      <3>. QED  BY <1>3, <1>4, <2>1, <3>1, <3>2 DEF PAGE_SIZE, ArenaSize
    <2>4. CASE b # Large
      <3>1. \/ x = a * PAGE_SIZE /\ n = ArenaSize
            \/ x \in ArenaBlocks(a, b) /\ n <= b
        BY <1>1, <2>4 DEF RegionOf
      <3>2. \/ y = a * PAGE_SIZE /\ k = ArenaSize
            \/ y \in ArenaBlocks(a, b) /\ k <= b
        BY <1>2, <1>7, <2>4 DEF RegionOf
      <3>. HIDE DEF b
      <3>. QED
        BY <1>3, <1>4, <2>1, <2>2, <2>4, <3>1, <3>2 DEF PAGE_SIZE, ArenaSize
    <2>. QED  BY <2>3, <2>4
  <1>. QED  BY <1>6, <1>7

\* The invariant, in bytes.
LEMMA RegionsAreSafe == HeapInv /\ LiveFits => RegionsSafe
PROOF
  <1>. SUFFICES ASSUME HeapInv, LiveFits PROVE RegionsSafe
    OBVIOUS
  <1>0. \A p, n : Region(p, n).first = p
    BY DEF Region
  <1>1. LiveRegions \cap FreeBlocks = {}
    <2>. SUFFICES ASSUME NEW m \in live, NEW b \in BlockSizes, NEW block \in free_list[b],
                         Region(m.ptr, m.size) = Region(block, b)
                  PROVE  FALSE
      BY DEF LiveRegions, FreeBlocks
    <2>1. m.ptr = block
      BY <1>0
    <2>2. /\ arena[get_arena_address(block)].block_size = b /\ b # Large
      BY BlocksFit DEF HeapInv, FreeListsSound
    <2>. QED  BY <2>1, <2>2 DEF HeapInv, LiveInArenas
  <1>2. Cardinality(LiveRegions) = Cardinality(live)
    <2>. DEFINE f == [m \in live |-> Region(m.ptr, m.size)]
    <2>1. \A m, n \in live : f[m] = f[n] => m = n
      BY <1>0 DEF HeapInv, LiveApart
    <2>2. f \in Bijection(live, LiveRegions)
      BY <2>1 DEF Bijection, Injection, Surjection, IsInjective, LiveRegions
    <2>. HIDE DEF f
    <2>3. ExistsBijection(live, LiveRegions)
      BY <2>2 DEF ExistsBijection
    <2>. QED  BY <2>3, FS_Bijection DEF LiveFits
  <1>3. RegionsInHeldPages
    <2>. SUFFICES ASSUME NEW r \in Regions
                  PROVE  (r.first \div PAGE_SIZE) .. (r.last \div PAGE_SIZE) \subseteq Held
      BY DEF RegionsInHeldPages
    <2>1. PICK a, x, n : RegionOf(r, a, x, n)
      BY RegionPlaced
    <2>2. /\ r.first = x /\ r.last = x + n - 1
          /\ a * PAGE_SIZE <= x /\ x + n <= (a + ArenaPages(a)) * PAGE_SIZE
          /\ a \in Nat /\ ArenaPages(a) \in Nat \ {0}
          /\ x \in Nat /\ n \in Nat \ {0}
      BY <2>1, RegionWithin
    <2>3. /\ Request(a, ArenaPages(a)) \in extents
          /\ ExtentPages(Request(a, ArenaPages(a))) = a .. (a + ArenaPages(a) - 1)
      BY <2>1, ArenaHeld DEF RegionOf
    <2>4. a .. (a + ArenaPages(a) - 1) \subseteq Held
      BY <2>3 DEF Held
    <2>. HIDE DEF ArenaPages
    <2>5. /\ a <= r.first \div PAGE_SIZE
          /\ r.last \div PAGE_SIZE <= a + ArenaPages(a) - 1
          /\ r.first \div PAGE_SIZE \in Int /\ r.last \div PAGE_SIZE \in Int
      BY <2>2 DEF PAGE_SIZE
    <2>. QED  BY <2>2, <2>4, <2>5
  <1>. QED
    BY <1>1, <1>2, <1>3, RegionsApart DEF RegionsSafe, RegionsDisjoint

-----------------------------------------------------------------------------
\* The free lists hold blocks of arenas of their own size only, free_blocks
\* counts them, and every block is free or with exactly one caller.
THEOREM HeapSafe == HeapSpec => []BlocksAccounted
PROOF
  <1>1. HeapInv => BlocksAccounted
    BY DEF HeapInv, BlocksAccounted
  <1>. QED
    BY <1>1, HeapInvariant, PTL

\* kmalloc and kfree use the pool as its callers should: every theorem about
\* PoolSpec is one about the pool under the heap.
THEOREM HeapUsesPool == HeapSpec => UsesPoolProperly
PROOF
  <1>1. HeapInit => PoolInit
    BY DEF HeapInit
  <1>2. HeapInv /\ [HeapNext]_heapVars => [PoolNext]_poolVars
    BY HeapStep
  <1>. QED
    BY <1>1, <1>2, HeapInvariant, PTL DEF HeapSpec, PoolSpec, UsesPoolProperly

\* Regions callers hold, headers and free blocks are disjoint in bytes, and all
\* in pages the heap holds, after any sequence of kmalloc and kfree.
THEOREM HeapRegionsSafe == HeapSpec => []RegionsSafe
PROOF
  <1>1. HeapInit => LiveFits
    BY FS_EmptySet DEF HeapInit, LiveFits
  <1>2. HeapInv /\ LiveFits /\ [HeapNext]_heapVars => LiveFits'
    BY LiveFitsStep
  <1>3. HeapSpec => []LiveFits
    BY <1>1, <1>2, HeapInvariant, PTL DEF HeapSpec
  <1>. QED
    BY <1>3, HeapInvariant, RegionsAreSafe, PTL
=============================================================================
