--------------------------- MODULE MemInitProofs ----------------------------
(***************************************************************************)
(* What MemInit computes is consistent for every memory map, screen size   *)
(* and page geometry: the areas of the kernel follow one another, the      *)
(* reservation covers exactly them, and each map is as large as its pool.  *)
(* While PageTables writes the tables, the kernel, its tables and the      *)
(* screen stay mapped, and no pool hands out a table.                      *)
(***************************************************************************)
EXTENDS PageTables, TLAPS

\* What holds of a division rounded up the way CEIL does it.
LEMMA DivisionCovers ==
    ASSUME NEW x \in Nat, NEW m \in Nat \ {0}
    PROVE  /\ x \div m \in 0..x
           /\ x < ((x \div m) + 1) * m
  <1>1. /\ x \div m \in Int
        /\ x = m * (x \div m) + (x % m)
        /\ 0 <= x % m /\ x % m < m
    BY SMT
  <1> DEFINE q == x \div m
             r == x % m
  <1>2. q \in Int /\ r \in Int /\ x = m * q + r /\ 0 <= r /\ r < m
    BY <1>1
  <1> HIDE DEF q, r
  <1>3. x < (q + 1) * m
    BY <1>2, SMT
  <1>4. q \in 0..x
    BY <1>2, SMT
  <1> QED BY <1>3, <1>4 DEF q

\* CEIL rounds up, and stays within 32 bits but for the one result 2^32.
LEMMA CeilCovers ==
    ASSUME NEW n \in 0..Word, NEW m \in Nat \ {0}
    PROVE  /\ Ceil(n, m) \in 1..Word
           /\ n <= Ceil(n, m) * m
  <1> DEFINE x == (n - 1) % Word
  <1>1. Word \in Nat \ {0}
    BY MemInitAssumption
  <1>2. x \in 0..(Word - 1) /\ n <= x + 1
    BY <1>1, SMT
  <1>3. Ceil(n, m) = (x \div m) + 1
    BY DEF Ceil
  <1> HIDE DEF x
  <1>4. x \div m \in 0..x /\ x < ((x \div m) + 1) * m
    BY <1>2, DivisionCovers
  <1> DEFINE q == x \div m
  <1>5. q \in 0..x /\ x < (q + 1) * m /\ Ceil(n, m) = q + 1
    BY <1>3, <1>4
  <1> HIDE DEF q
  <1>6. (q + 1) * m \in Int
    BY <1>5, <1>2
  <1> DEFINE p == (q + 1) * m
  <1>7. p \in Int /\ x < p
    BY <1>5, <1>6
  <1> HIDE DEF p
  <1>8. n <= p
    BY <1>2, <1>7, <1>1
  <1> QED BY <1>1, <1>2, <1>5, <1>8 DEF p
-----------------------------------------------------------------------------
MemoryInfo == [total_size : 0..(Word - 1), available_base : 0..(Word - 1),
               available_size : 0..(Word - 1), available_pages : 0..Word]

PoolType == [base : Nat, total : 0..Word, available : 0..Word,
             map_base : Nat, map_size : Nat, map_pages : Nat]

\* A pool as it is made has a map that fits it.
LEMMA PoolMade ==
    ASSUME NEW base \in Nat, NEW total \in 0..Word, NEW map_base \in Nat
    PROVE  /\ Pool(base, total, map_base) \in PoolType
           /\ Pool(base, total, map_base).map_base = map_base
           /\ MapFits(Pool(base, total, map_base))
  <1> DEFINE size == Ceil(total, ByteSize)
             pages == Ceil(size, PAGE_SIZE)
  <1>1. size \in 1..Word /\ total <= size * ByteSize
    BY CeilCovers, MemInitAssumption
  <1>2. size \in 0..Word
    BY <1>1
  <1>3. pages \in 1..Word /\ size <= pages * PAGE_SIZE
    BY <1>2, CeilCovers, MemInitAssumption
  <1>4. Pool(base, total, map_base) =
          [base |-> base, total |-> total, available |-> total,
           map_base |-> map_base, map_size |-> size, map_pages |-> pages]
    BY DEF Pool
  <1> HIDE DEF size, pages
  <1>5. size \in Nat /\ pages \in Nat
    BY <1>1, <1>3
  <1>6. Pool(base, total, map_base) \in PoolType
    BY <1>4, <1>5 DEF PoolType
  <1>7. MapFits(Pool(base, total, map_base))
    BY <1>1, <1>3, <1>4 DEF MapFits
  <1> QED BY <1>4, <1>6, <1>7

\* Taking pages changes nothing but the number of available ones.
LEMMA PoolTaken ==
    ASSUME NEW pool \in PoolType, NEW n \in Int
    PROVE  /\ Take(pool, n) \in PoolType
           /\ Take(pool, n).map_base = pool.map_base
           /\ Take(pool, n).map_pages = pool.map_pages
           /\ MapFits(pool) => MapFits(Take(pool, n))
  <1> DEFINE a == (pool.available - n) % Word
  <1>1. a \in 0..Word
    <2>1. Word \in Nat \ {0} /\ pool.available \in Int
      BY MemInitAssumption DEF PoolType
    <2>2. pool.available - n \in Int
      BY <2>1
    <2> QED BY <2>1, <2>2
  <1>2. Take(pool, n) = [pool EXCEPT !.available = a]
    BY DEF Take
  <1> HIDE DEF a
  <1>3. Take(pool, n) \in PoolType
    BY <1>1, <1>2 DEF PoolType
  <1> QED BY <1>2, <1>3 DEF PoolType, MapFits

\* The constants of the layout are numbers of pages.
LEMMA LayoutNumbers ==
    /\ kernel_pt_counts \in Nat /\ low1MB_pt_counts \in Nat
    /\ KernelPageTables \in Nat
    /\ Word \in Nat \ {0} /\ PAGE_SIZE \in Nat \ {0}
    /\ KernelBase \in Nat /\ CodePages \in Nat
    /\ KernelPages \in 0..Word
    /\ ResPages \subseteq 0..Word
  <1>1. /\ KernelPages \in 0..Word /\ Entries \in Nat \ {0}
        /\ Word \in Nat \ {0} /\ KernelBase \in Nat /\ CodePages \in Nat
        /\ ResPages \subseteq 0..Word /\ PAGE_SIZE \in Nat \ {0}
    BY MemInitAssumption
  <1>2. kernel_pt_counts \in Nat
    BY <1>1, CeilCovers DEF kernel_pt_counts
  <1> QED BY <1>1, <1>2 DEF low1MB_pt_counts, KernelPageTables
-----------------------------------------------------------------------------
\* The frame buffer's tables follow those of the kernel.
TablesPlaced == pc \in {"pools", "done", "assert"} =>
                  fb_page_table_base = KernelPageTables + kernel_pt_counts

LayoutInv == TypeOK /\ TablesPlaced /\ AreasAdjacent /\ MapsFit

LEMMA LayoutInit == Init => LayoutInv
  <1> SUFFICES ASSUME Init PROVE LayoutInv
    OBVIOUS
  <1>1. ards \in Seq([base : Nat, size : Nat, available : BOOLEAN])
    BY MemInitAssumption DEF Init
  <1>2. i \in 0..Len(ards)
    BY <1>1 DEF Init
  <1>3. mem_info \in MemoryInfo
    BY LayoutNumbers DEF Init, Info, MemoryInfo
  <1>4. phys_pool \in PoolType /\ kernel_pool \in PoolType
    BY LayoutNumbers DEF Init, NoPool, PoolType
  <1>5. TypeOK
    BY <1>2, <1>3, <1>4 DEF TypeOK, Init, MemoryInfo, PoolType
  <1> QED BY <1>5 DEF LayoutInv, Init, TablesPlaced, AreasAdjacent, MapsFit

\* get_mem_info keeps 32-bit numbers, whatever the BIOS reports.
LEMMA ReadRangeKeeps == LayoutInv /\ ReadRange => LayoutInv'
  <1> SUFFICES ASSUME LayoutInv, ReadRange PROVE LayoutInv'
    OBVIOUS
  <1>1. /\ ards \in Seq([base : Nat, size : Nat, available : BOOLEAN])
        /\ i \in 0..Len(ards) /\ i < Len(ards) /\ mem_info \in MemoryInfo
    BY MemInitAssumption DEF LayoutInv, TypeOK, ReadRange, MemoryInfo
  <1> DEFINE r == ards[i + 1]
             total == (mem_info.total_size + r.size) % Word
             base == r.base % Word
             size == r.size % Word
  <1>2. Len(ards) \in Nat /\ i + 1 \in 1..Len(ards)
    BY <1>1
  <1>3. r.base \in Nat /\ r.size \in Nat /\ mem_info.total_size \in Nat
    <2>1. r \in [base : Nat, size : Nat, available : BOOLEAN]
      <3> DEFINE S == [base : Nat, size : Nat, available : BOOLEAN]
                 k == i + 1
      <3>1. ards \in Seq(S) /\ k \in 1..Len(ards) /\ r = ards[k]
        BY <1>1, <1>2
      <3> HIDE DEF S, k, r
      <3>2. ards[k] \in S
        BY <3>1
      <3> QED BY <3>1, <3>2 DEF S
    <2>2. mem_info.total_size \in 0..(Word - 1)
      BY <1>1 DEF MemoryInfo
    <2> QED BY <2>1, <2>2, LayoutNumbers
  <1>4. mem_info' \in {mem_info, Info(total, base, size, 0),
                       [mem_info EXCEPT !.total_size = total]}
    BY DEF ReadRange
  <1>5. total \in 0..(Word - 1) /\ base \in 0..(Word - 1) /\ size \in 0..(Word - 1)
    BY <1>3, LayoutNumbers
  <1> HIDE DEF total, base, size, r
  <1>6. Info(total, base, size, 0) \in MemoryInfo
    BY <1>5, LayoutNumbers DEF Info, MemoryInfo
  <1>7. [mem_info EXCEPT !.total_size = total] \in MemoryInfo
    BY <1>1, <1>5 DEF MemoryInfo
  <1>8. mem_info' \in MemoryInfo
    BY <1>1, <1>4, <1>6, <1>7
  <1>9. i' \in 0..Len(ards)
    BY <1>2 DEF ReadRange
  <1>10. TypeOK'
    BY <1>8, <1>9 DEF LayoutInv, TypeOK, ReadRange, MemoryInfo
  <1> QED BY <1>10 DEF LayoutInv, ReadRange, TablesPlaced, AreasAdjacent, MapsFit

LEMMA CountPagesKeeps == LayoutInv /\ CountPages => LayoutInv'
  <1> SUFFICES ASSUME LayoutInv, CountPages PROVE LayoutInv'
    OBVIOUS
  <1>1. mem_info \in MemoryInfo
    BY DEF LayoutInv, TypeOK, MemoryInfo
  <1> DEFINE pages == Ceil(mem_info.available_size, PAGE_SIZE)
  <1>2. mem_info.available_size \in 0..Word
    BY <1>1, LayoutNumbers DEF MemoryInfo
  <1>3. pages \in 1..Word
    BY <1>2, LayoutNumbers, CeilCovers
  <1>4. mem_info' = [mem_info EXCEPT !.available_pages = pages]
    BY DEF CountPages
  <1> HIDE DEF pages
  <1>5. mem_info' \in MemoryInfo
    BY <1>1, <1>3, <1>4 DEF MemoryInfo
  <1>6. TypeOK'
    BY <1>5 DEF LayoutInv, TypeOK, CountPages, MemoryInfo
  <1> QED BY <1>6 DEF LayoutInv, CountPages, TablesPlaced, AreasAdjacent, MapsFit

LEMMA MappingKeeps == LayoutInv /\ mem_mapping => LayoutInv'
  <1> SUFFICES ASSUME LayoutInv, mem_mapping PROVE LayoutInv'
    OBVIOUS
  <1>1. res_pages \in 0..Word
    BY LayoutNumbers DEF LayoutInv, TypeOK
  <1>2. Ceil(res_pages, Entries) \in 1..Word
    BY <1>1, CeilCovers, MemInitAssumption
  <1>3. fb_pt_counts' \in Nat
    BY <1>2, LayoutNumbers DEF mem_mapping
  <1>4. fb_page_table_base' \in Nat
    BY LayoutNumbers DEF mem_mapping
  <1>5. TypeOK'
    BY <1>3, <1>4 DEF LayoutInv, TypeOK, mem_mapping
  <1> QED BY <1>5 DEF LayoutInv, mem_mapping, TablesPlaced, AreasAdjacent, MapsFit

\* mem_pool_init places the maps after the tables, the kernel's after the
\* physical one, and makes each large enough.
LEMMA PoolInitKeeps == LayoutInv /\ mem_pool_init => LayoutInv'
  <1> SUFFICES ASSUME LayoutInv, mem_pool_init PROVE LayoutInv'
    OBVIOUS
  <1>1. /\ mem_info \in MemoryInfo
        /\ fb_pt_counts \in Nat /\ fb_page_table_base \in Nat
        /\ fb_page_table_base = KernelPageTables + kernel_pt_counts
    BY DEF LayoutInv, TypeOK, MemoryInfo, TablesPlaced, mem_pool_init
  <1> DEFINE base == mem_info.available_base \div PAGE_SIZE
             phys == PoolsMade[1]
             kernel == PoolsMade[2]
             n == UsedPages(phys, kernel)
  <1>2. base \in Nat
    <2>1. mem_info.available_base \in Nat
      BY <1>1, LayoutNumbers DEF MemoryInfo
    <2> QED BY <2>1, LayoutNumbers, DivisionCovers
  <1>3. /\ phys = Pool(base, mem_info.available_pages,
                       fb_page_table_base + fb_pt_counts)
        /\ kernel = Pool(KernelBase, KernelPages, phys.map_base + phys.map_pages)
    BY DEF PoolsMade
  <1> HIDE DEF base, phys, kernel
  <1>4. /\ phys \in PoolType /\ MapFits(phys)
        /\ phys.map_base = fb_page_table_base + fb_pt_counts
    BY <1>1, <1>2, <1>3, PoolMade DEF MemoryInfo
  <1>5. phys.map_base + phys.map_pages \in Nat
    BY <1>4 DEF PoolType
  <1>6. /\ kernel \in PoolType /\ MapFits(kernel)
        /\ kernel.map_base = phys.map_base + phys.map_pages
    BY <1>3, <1>5, PoolMade, LayoutNumbers
  <1>7. n \in Int
    BY <1>1, <1>4, <1>6, LayoutNumbers DEF UsedPages, PoolType
  <1>8. \/ phys_pool' = Take(phys, n) /\ kernel_pool' = Take(kernel, n)
        \/ phys_pool' = phys /\ kernel_pool' = kernel
    BY DEF mem_pool_init, phys, kernel
  <1> HIDE DEF n
  <1>9. /\ phys_pool' \in PoolType /\ kernel_pool' \in PoolType
        /\ MapFits(phys_pool') /\ MapFits(kernel_pool')
        /\ phys_pool'.map_base = fb_page_table_base + fb_pt_counts
        /\ kernel_pool'.map_base = phys_pool'.map_base + phys_pool'.map_pages
    BY <1>4, <1>6, <1>7, <1>8, PoolTaken
  <1>10. pc' \in {"done", "assert"}
    BY DEF mem_pool_init
  <1>11. UNCHANGED <<ards, i, mem_info, fb_pt_counts, fb_page_table_base, res_pages>>
    BY DEF mem_pool_init
  <1>12. TypeOK'
    BY <1>9, <1>10, <1>11 DEF LayoutInv, TypeOK, PoolType
  <1>13. TablesPlaced'
    BY <1>1, <1>11 DEF TablesPlaced
  <1>14. AreasAdjacent'
    <2>1. KernelPageTables = KernelBase + (CodePages + 2)
      BY LayoutNumbers DEF KernelPageTables
    <2> QED BY <1>1, <1>9, <1>11, <2>1 DEF AreasAdjacent, Areas
  <1>15. MapsFit'
    BY <1>9 DEF MapsFit, MapFits
  <1> QED BY <1>12, <1>13, <1>14, <1>15 DEF LayoutInv

LEMMA LayoutInvHolds == Spec => []LayoutInv
  <1>1. LayoutInv /\ [Next]_miVars => LayoutInv'
    <2> SUFFICES ASSUME LayoutInv, [Next]_miVars PROVE LayoutInv'
      OBVIOUS
    <2>1. CASE UNCHANGED miVars
      BY <2>1 DEF miVars, LayoutInv, TypeOK, TablesPlaced, AreasAdjacent, Areas,
                  MapsFit, MapFits
    <2>2. CASE Next
      BY <2>2, ReadRangeKeeps, CountPagesKeeps, MappingKeeps, PoolInitKeeps
      DEF Next
    <2> QED BY <2>1, <2>2
  <1> QED BY LayoutInit, <1>1, PTL DEF Spec
-----------------------------------------------------------------------------
\* The kernel's image, page directory, page tables and maps lie one behind the
\* other: none overlaps another (mem.c:172, 198, 205).
THEOREM AreasNeverOverlap == Spec => []AreasAdjacent
  <1>1. LayoutInv => AreasAdjacent
    BY DEF LayoutInv
  <1> QED BY LayoutInvHolds, <1>1, PTL

\* The pages mem_pool_init takes from the pools are exactly those areas
\* (mem.c:215-227).
THEOREM ReservationCoversAreas == Spec => []AreasReserved
  <1>1. LayoutInv => AreasReserved
    <2> SUFFICES ASSUME LayoutInv, pc \in {"done", "assert"}
                 PROVE  KernelBase + UsedPages(phys_pool, kernel_pool)
                          = Areas[5][1] + Areas[5][2]
      BY DEF AreasReserved
    <2>1. /\ fb_page_table_base = KernelPageTables + kernel_pt_counts
          /\ phys_pool.map_base = fb_page_table_base + fb_pt_counts
          /\ kernel_pool.map_base = phys_pool.map_base + phys_pool.map_pages
      BY DEF LayoutInv, AreasAdjacent, Areas, TablesPlaced
    <2>2. /\ fb_pt_counts \in Nat
          /\ phys_pool.map_pages \in Nat /\ kernel_pool.map_pages \in Nat
      BY DEF LayoutInv, TypeOK
    <2>3. Areas[5][1] = kernel_pool.map_base /\ Areas[5][2] = kernel_pool.map_pages
      BY DEF Areas
    <2> QED BY <2>1, <2>2, <2>3, LayoutNumbers
            DEF UsedPages, KernelPageTables, low1MB_pt_counts
  <1> QED BY LayoutInvHolds, <1>1, PTL

\* The map of each pool has a bit for every page of the pool and lies in the
\* pages set aside for it (mem.c:199-200, 206-207).
THEOREM MapsAlwaysFit == Spec => []MapsFit
  <1>1. LayoutInv => MapsFit
    BY DEF LayoutInv
  <1> QED BY LayoutInvHolds, <1>1, PTL
-----------------------------------------------------------------------------
LEMMA SmallRemainder ==
    ASSUME NEW x \in Nat, NEW m \in Nat \ {0}, x < m
    PROVE  x % m = x
  <1>1. /\ x \div m \in Int /\ x % m \in Int
        /\ x = m * (x \div m) + (x % m)
        /\ 0 <= x % m /\ x % m < m
    BY SMT
  <1> DEFINE q == x \div m
             r == x % m
  <1>2. q \in Int /\ r \in Int /\ x = m * q + r /\ 0 <= r /\ r < m
    BY <1>1
  <1> HIDE DEF q, r
  <1>3. q = 0
    BY <1>2, SMT
  <1> QED BY <1>2, <1>3 DEF r

\* Of the ranges read so far the one kept is a largest.
RangeKept ==
    LowMemory =>
        /\ pc # "info" => i = Len(ards)
        /\ \A k \in 1..i : ards[k].available => ards[k].size <= mem_info.available_size
        /\ \/ mem_info.available_size = 0
           \/ \E k \in 1..i : /\ ards[k].available
                              /\ mem_info.available_base = ards[k].base
                              /\ mem_info.available_size = ards[k].size

\* A range of low memory loses nothing when it is kept in 32 bits.
LEMMA RangeKeptRead == LayoutInv /\ RangeKept /\ ReadRange => RangeKept'
  <1> SUFFICES ASSUME LayoutInv, RangeKept, ReadRange, LowMemory PROVE RangeKept'
    BY DEF RangeKept, LowMemory, ReadRange
  <1>1. /\ ards \in Seq([base : Nat, size : Nat, available : BOOLEAN])
        /\ i \in 0..Len(ards) /\ i < Len(ards) /\ mem_info \in MemoryInfo
        /\ pc' = pc /\ ards' = ards /\ i' = i + 1 /\ pc = "info"
    BY MemInitAssumption DEF LayoutInv, TypeOK, ReadRange, MemoryInfo
  <1>2. Len(ards) \in Nat /\ i \in Nat /\ i + 1 \in 1..Len(ards)
    BY <1>1
  <1> DEFINE r == ards[i + 1]
             size == mem_info.available_size
             total == (mem_info.total_size + r.size) % Word
  <1>3. r.base \in Nat /\ r.size \in Nat /\ size \in Nat
    <2> DEFINE S == [base : Nat, size : Nat, available : BOOLEAN]
               k == i + 1
    <2>1. ards \in Seq(S) /\ k \in 1..Len(ards) /\ r = ards[k]
      BY <1>1, <1>2
    <2> HIDE DEF S, k, r
    <2>2. r \in S
      BY <2>1
    <2> QED BY <2>2, <1>1, LayoutNumbers DEF S, MemoryInfo
  <1>4. r.base % Word = r.base /\ r.size % Word = r.size
    <2>1. r.base + r.size < Word
      BY <1>2 DEF LowMemory
    <2>2. r.base < Word /\ r.size < Word
      BY <2>1, <1>3, LayoutNumbers
    <2> QED BY <2>2, <1>3, LayoutNumbers, SmallRemainder
  <1>5. /\ \A k \in 1..i : ards[k].available => ards[k].size <= size
        /\ \/ size = 0
           \/ \E k \in 1..i : /\ ards[k].available
                              /\ mem_info.available_base = ards[k].base
                              /\ size = ards[k].size
    BY DEF RangeKept
  <1>6. \A k \in 1..(i + 1) : k \in 1..i \/ k = i + 1
    BY <1>2
  <1>6a. i + 1 \in 1..(i + 1) /\ \A k \in 1..i : k \in 1..(i + 1)
    BY <1>2
  <1>6b. \A k \in 1..i : ards[k].size \in Nat
    <2> DEFINE S == [base : Nat, size : Nat, available : BOOLEAN]
    <2> SUFFICES ASSUME NEW k \in 1..i PROVE ards[k].size \in Nat
      OBVIOUS
    <2>1. ards \in Seq(S) /\ k \in 1..Len(ards)
      BY <1>1, <1>2
    <2> HIDE DEF S
    <2>2. ards[k] \in S
      BY <2>1
    <2> QED BY <2>2 DEF S
  <1>7. CASE ~ r.available
    <2>1. mem_info' = mem_info
      BY <1>7 DEF ReadRange
    <2> QED BY <2>1, <1>1, <1>5, <1>6, <1>6a, <1>7 DEF RangeKept
  <1>8. CASE r.available /\ r.size > size
    <2>1. mem_info' = Info(total, r.base, r.size, 0)
      BY <1>8, <1>4 DEF ReadRange
    <2>2. mem_info'.available_base = r.base /\ mem_info'.available_size = r.size
      BY <2>1 DEF Info
    <2> HIDE DEF size, total
    <2>3. \A k \in 1..(i + 1) : ards[k].available => ards[k].size <= r.size
      BY <1>3, <1>5, <1>6, <1>6b, <1>8
    <2> QED BY <2>2, <2>3, <1>1, <1>6a, <1>8 DEF RangeKept
  <1>9. CASE r.available /\ ~ (r.size > size)
    <2>1. mem_info' = [mem_info EXCEPT !.total_size = total]
      BY <1>9 DEF ReadRange
    <2>2. /\ mem_info'.available_base = mem_info.available_base
          /\ mem_info'.available_size = size
      BY <2>1, <1>1 DEF MemoryInfo
    <2> HIDE DEF size, total
    <2>3. \A k \in 1..(i + 1) : ards[k].available => ards[k].size <= size
      BY <1>3, <1>5, <1>6, <1>9
    <2> QED BY <2>2, <2>3, <1>1, <1>5, <1>6a DEF RangeKept
  <1> QED BY <1>7, <1>8, <1>9

LEMMA RangeKeptHolds == Spec => []RangeKept
  <1>1. Init => RangeKept
    BY DEF Init, Info, RangeKept
  <1>2. LayoutInv /\ RangeKept /\ [Next]_miVars => RangeKept'
    <2> SUFFICES ASSUME LayoutInv, RangeKept, [Next]_miVars PROVE RangeKept'
      OBVIOUS
    <2>1. CASE ReadRange
      BY <2>1, RangeKeptRead
    <2>2. CASE CountPages
      <3>1. mem_info \in MemoryInfo
        BY DEF LayoutInv, TypeOK, MemoryInfo
      <3>2. /\ mem_info'.available_base = mem_info.available_base
            /\ mem_info'.available_size = mem_info.available_size
        BY <2>2, <3>1 DEF CountPages, MemoryInfo
      <3> QED BY <2>2, <3>2 DEF CountPages, RangeKept, LowMemory
    <2>3. CASE mem_mapping \/ mem_pool_init \/ UNCHANGED miVars
      <3>1. ards' = ards /\ i' = i /\ mem_info' = mem_info /\ (pc' # "info" => pc # "info")
        BY <2>3 DEF mem_mapping, mem_pool_init, miVars
      <3> QED BY <3>1 DEF RangeKept, LowMemory
    <2> QED BY <2>1, <2>2, <2>3 DEF Next
  <1> QED BY <1>1, <1>2, LayoutInvHolds, PTL DEF Spec

\* On a machine whose memory lies below 4 GB the pool is made of a largest
\* available range, whatever the order the BIOS reports them in
\* (mem.c:35-41).
THEOREM LargestRangeKept == Spec => []LargestRange
  <1>1. LayoutInv /\ RangeKept => LargestRange
    <2> SUFFICES ASSUME LayoutInv, RangeKept, pc # "info", LowMemory,
                        NEW a \in Available
                 PROVE  \E k \in Available :
                          /\ mem_info.available_base = ards[k].base
                          /\ mem_info.available_size = ards[k].size
                          /\ \A j \in Available : ards[j].size <= ards[k].size
      BY DEF LargestRange
    <2>1. /\ i = Len(ards)
          /\ \A k \in 1..i : ards[k].available => ards[k].size <= mem_info.available_size
          /\ \/ mem_info.available_size = 0
             \/ \E k \in 1..i : /\ ards[k].available
                                /\ mem_info.available_base = ards[k].base
                                /\ mem_info.available_size = ards[k].size
      BY DEF RangeKept
    <2>2. \A k \in Available : ards[k].size <= mem_info.available_size
      BY <2>1 DEF Available
    <2>3. ards[a].size > 0 /\ ards[a].size \in Nat /\ mem_info.available_size \in Nat
      <3> DEFINE S == [base : Nat, size : Nat, available : BOOLEAN]
      <3>1. ards \in Seq(S) /\ a \in 1..Len(ards) /\ ards[a].size > 0
        BY MemInitAssumption DEF LayoutInv, TypeOK, Available
      <3>2. ards[a] \in S
        <4> HIDE DEF S
        <4> QED BY <3>1
      <3>3. mem_info.available_size \in 0..(Word - 1)
        BY DEF LayoutInv, TypeOK
      <3> QED BY <3>1, <3>2, <3>3, LayoutNumbers
    <2>4. mem_info.available_size > 0
      BY <2>2, <2>3
    <2>5. PICK k \in 1..i : /\ ards[k].available
                            /\ mem_info.available_base = ards[k].base
                            /\ mem_info.available_size = ards[k].size
      BY <2>1, <2>4
    <2>6. k \in Available
      BY <2>1, <2>4, <2>5 DEF Available
    <2> QED BY <2>2, <2>5, <2>6
  <1> QED BY <1>1, LayoutInvHolds, RangeKeptHolds, PTL
-----------------------------------------------------------------------------
(* PageTables. *)

\* What is done to the tables is no part of MemInit's state: MemInit's
\* theorems hold of the kernel that rewrites its tables.
THEOREM TablesImplementMemInit == PTSpec => Spec
  <1>1. PTInit => Init
    BY DEF PTInit
  <1>2. [PTNext]_ptVars => [Next]_miVars
    <2> SUFFICES ASSUME [PTNext]_ptVars PROVE [Next]_miVars
      OBVIOUS
    <2>1. CASE MapKernelTable \/ MapFbTable
      BY <2>1 DEF MapKernelTable, MapFbTable, WriteTable
    <2>2. CASE ReadRange \/ CountPages \/ mem_pool_init \/ mem_mapping
      BY <2>2 DEF Next
    <2>3. CASE UNCHANGED ptVars
      BY <2>3 DEF ptVars
    <2> QED BY <2>1, <2>2, <2>3 DEF PTNext
  <1> QED BY <1>1, <1>2, PTL DEF PTSpec, Spec

LEMMA Quotient ==
    ASSUME NEW m \in Nat \ {0}, NEW q \in Int, NEW r \in 0..(m - 1)
    PROVE  (q * m + r) \div m = q /\ (q * m + r) % m = r
  <1> DEFINE x == q * m + r
  <1>1. x \in Int
    BY SMT
  <1>2. x \div m \in Int /\ x % m \in 0..(m - 1) /\ x = m * (x \div m) + (x % m)
    BY <1>1, SMT
  <1> DEFINE p == x \div m
             t == x % m
  <1>3. p \in Int /\ t \in 0..(m - 1) /\ q * m + r = m * p + t
    BY <1>2
  <1> HIDE DEF p, t, x
  <1>4. m * (q - p) = t - r
    BY <1>3, SMT
  <1>5. q - p = 0
    <2>1. CASE q - p >= 1
      <3>1. m * (q - p) >= m
        BY <2>1, <1>3, SMT
      <3> QED BY <3>1, <1>4, <1>3
    <2>2. CASE q - p <= -1
      <3>1. m * (q - p) <= -m
        BY <2>2, <1>3, SMT
      <3> QED BY <3>1, <1>4, <1>3
    <2> QED BY <2>1, <2>2, <1>3
  <1>6. p = q /\ t = r
    BY <1>3, <1>4, <1>5
  <1> QED BY <1>6 DEF p, t, x

\* An offset within n tables is in one of them.
LEMMA Splits ==
    ASSUME NEW m \in Nat \ {0}, NEW n \in Nat, NEW o \in 0..(n * m - 1)
    PROVE  \E k \in 0..(n - 1), e \in 0..(m - 1) : o = k * m + e
  <1>1. n * m \in Nat
    BY SMT
  <1>2. o \in Nat /\ o < n * m
    BY <1>1
  <1>3. o \div m \in 0..o /\ o % m \in 0..(m - 1) /\ o = m * (o \div m) + (o % m)
    BY <1>2, DivisionCovers, SMT
  <1> DEFINE k == o \div m
             e == o % m
  <1>4. k \in Nat /\ e \in 0..(m - 1) /\ o = m * k + e
    BY <1>3
  <1> HIDE DEF k, e
  <1>5. k < n
    <2>1. SUFFICES ASSUME k >= n PROVE FALSE
      BY <1>4
    <2>2. m * k >= n * m
      BY <2>1, <1>4, SMT
    <2>3. m * k \in Nat
      BY <1>4, SMT
    <2> QED BY <2>2, <2>3, <1>1, <1>2, <1>4
  <1>6. o = k * m + e
    BY <1>4, SMT
  <1>7. k \in 0..(n - 1)
    BY <1>4, <1>5
  <1> QED BY <1>4, <1>6, <1>7, Zenon

\* b is the first page of a table.
BeginsTable(b, m) == b \in Nat /\ b % m = 0

\* Page v is entry e of table t.
SplitsInto(v, m, t, e) == v \div m = t /\ v % m = e

\* How get_vaddr_info splits an address, behind a base that begins a table.
LEMMA SplitBehind ==
    ASSUME NEW b, NEW m \in Nat \ {0}, BeginsTable(b, m), NEW k \in Nat,
           NEW e \in 0..(m - 1)
    PROVE  SplitsInto(b + (k * m + e), m, b \div m + k, e)
  <1>1. b \div m \in 0..b /\ b = m * (b \div m) + (b % m)
    BY DivisionCovers, SMT DEF BeginsTable
  <1> DEFINE c == b \div m
  <1>2. c \in Nat /\ b = m * c
    BY <1>1 DEF BeginsTable
  <1> HIDE DEF c
  <1>3. b + (k * m + e) = (c + k) * m + e
    BY <1>2, SMT
  <1>4. ((c + k) * m + e) \div m = c + k /\ ((c + k) * m + e) % m = e
    <2> DEFINE q == c + k
    <2>1. q \in Int
      BY <1>2
    <2> HIDE DEF q
    <2>2. (q * m + e) \div m = q /\ (q * m + e) % m = e
      BY <2>1, Quotient
    <2> QED BY <2>2 DEF q
  <1> QED BY <1>3, <1>4 DEF c, SplitsInto

ScreenTables == Ceil(res_pages, Entries)

\* Entry k of the kernel's leads to its table, and that to the image and what
\* follows it.
KernelTableAt(k) ==
    /\ memory[Directory][FirstEntry + k] = KernelTable + k
    /\ KernelTable + k \in DOMAIN memory
    /\ \A e \in 0..(Entries - 1) :
         memory[KernelTable + k][e] = KernelFrame + (k * Entries + e)

\* Entry j of the screen's leads to frame f, and that to the screen.
ScreenTableAt(j, f) ==
    /\ memory[Directory][fb \div Entries + j] = f
    /\ f \in DOMAIN memory
    /\ \A e \in 0..(Entries - 1) :
         j * Entries + e < res_pages => memory[f][e] = fb + (j * Entries + e)

\* The frame of the screen's table j: the kernel's once it has been written.
ScreenFrame(j) == IF kernel_pt_counts + j < written
                  THEN KernelTable + (kernel_pt_counts + j) ELSE LoaderFbTable + j

KernelEntries == FirstEntry .. (FirstEntry + kernel_pt_counts - 1)
ScreenEntries == (fb \div Entries) .. (fb \div Entries + ScreenTables - 1)

TablesInPlace ==
    /\ Directory \in DOMAIN memory
    /\ memory[Directory] = [e \in 0..(Entries - 1) |-> memory[Directory][e]]
    /\ \A k \in 0..(kernel_pt_counts - 1) :
         k < LoaderEntries \/ k < written => KernelTableAt(k)
    /\ \A j \in 0..(ScreenTables - 1) : ScreenTableAt(j, ScreenFrame(j))
    /\ \A e \in 0..(Entries - 1) \ (KernelEntries \cup ScreenEntries) :
         memory[Directory][e] \in {Absent, Directory, LowTable}

\* The loader's own tables reach the pages the tables are written at.
BootReaches ==
    \A n \in 0..(NeededTables - 1) :
      Walk(boot, KernelPageTables + n) = KernelTable + n

Progress ==
    /\ fb \in FrameBuffers
    /\ written \in 0..NeededTables
    /\ pc = "info" => written = 0
    /\ pc \notin {"info", "mapping"} =>
         written = NeededTables /\ fb_pt_counts = ScreenTables

MappingInv == Progress /\ BootReaches /\ (AtHome => TablesInPlace)
-----------------------------------------------------------------------------
LEMMA TableNumbers ==
    /\ Entries \in Nat \ {0} /\ kernel_pt_counts \in Nat /\ CodePages \in Nat
    /\ KernelBase \in Nat /\ KernelBase % Entries = 0 /\ KernelFrame \in Nat
    /\ FirstEntry \in Nat \ {0} /\ FirstEntry + kernel_pt_counts < Entries
    /\ LoaderEntries \in 1..kernel_pt_counts /\ LoaderTables \in Nat
    /\ LoaderEntries <= LoaderTables /\ LoaderFbTable \in Nat
    /\ KernelTable = KernelFrame + CodePages + 2
    /\ Directory = KernelFrame + CodePages /\ LowTable = KernelFrame + CodePages + 1
    /\ KernelPageTables = KernelBase + CodePages + 2
    /\ KernelTable + LoaderTables <= LoaderFbTable
    /\ KernelPages \in 1..(kernel_pt_counts * Entries)
    /\ Absent = -1
  <1>1. /\ Entries \in Nat \ {0} /\ CodePages \in Nat /\ KernelBase \in Nat
        /\ KernelBase % Entries = 0 /\ KernelFrame \in Nat /\ LoaderFbTable \in Nat
        /\ LoaderEntries \in 1..LoaderTables
    BY MemInitAssumption, PageTablesAssumption
  <1>2. LoaderTables \in Nat /\ LoaderEntries <= LoaderTables
    BY TablesAssumption, <1>1
  <1>3. kernel_pt_counts \in Nat /\ KernelPages <= kernel_pt_counts * Entries
    BY LayoutNumbers, CeilCovers, <1>1 DEF kernel_pt_counts
  <1>4. FirstEntry \in Nat \ {0}
    <2>1. KernelBase \div Entries \in 0..KernelBase
          /\ KernelBase < ((KernelBase \div Entries) + 1) * Entries
      BY <1>1, DivisionCovers
    <2>2. KernelBase \div Entries # 0
      <3>1. SUFFICES ASSUME KernelBase \div Entries = 0 PROVE FALSE
        OBVIOUS
      <3>2. KernelBase < Entries
        BY <2>1, <3>1, <1>1
      <3> QED BY <3>2, <1>1, TablesAssumption
    <2> QED BY <2>1, <2>2 DEF FirstEntry
  <1>5. KernelPages >= 1 /\ KernelPages \in Nat /\ kernel_pt_counts * Entries \in Int
    <2>1. KernelPages \in 1..(Word - 1)
      BY MemInitAssumption
    <2>2. kernel_pt_counts * Entries \in Int
      BY <1>1, <1>3, SMT
    <2> QED BY <2>1, <2>2, LayoutNumbers
  <1> QED BY <1>1, <1>2, <1>3, <1>4, <1>5, TablesAssumption
          DEF FirstEntry, KernelTable, Directory, LowTable, KernelPageTables, Absent

\* Where the screen's entries and tables are.
LEMMA ScreenPlaced ==
    ASSUME NEW f \in FrameBuffers, NEW pages \in ResPages
    PROVE  /\ f \in Nat /\ f % Entries = 0 /\ f \div Entries \in Nat \ {0}
           /\ Ceil(pages, Entries) \in Nat \ {0} /\ pages \in Nat
           /\ pages <= Ceil(pages, Entries) * Entries
           /\ f \div Entries + Ceil(pages, Entries) < Entries
           /\ \/ FirstEntry + kernel_pt_counts <= f \div Entries
              \/ f \div Entries + Ceil(pages, Entries) <= FirstEntry
           /\ CodePages + 2 + kernel_pt_counts + Ceil(pages, Entries)
                <= LoaderEntries * Entries
           /\ KernelTable + kernel_pt_counts + Ceil(pages, Entries) <= LoaderFbTable
  <1>1. f \in Nat /\ f % Entries = 0
    BY PageTablesAssumption
  <1>2. f \div Entries \in Nat
    BY <1>1, TableNumbers, DivisionCovers
  <1>3. pages \in 0..Word /\ pages \in Nat
    BY LayoutNumbers
  <1>4. Ceil(pages, Entries) \in Nat \ {0} /\ pages <= Ceil(pages, Entries) * Entries
    BY <1>3, LayoutNumbers, TableNumbers, CeilCovers
  <1> DEFINE d == f \div Entries
             c == Ceil(pages, Entries)
  <1>5. \/ FirstEntry + kernel_pt_counts <= d /\ d + c - 1 < Entries - 1
        \/ 0 < d /\ d + c - 1 < FirstEntry
    BY PageTablesAssumption DEF FirstEntry
  <1>6. /\ CodePages + 2 + kernel_pt_counts + c <= LoaderEntries * Entries
        /\ KernelFrame + (CodePages + 2 + kernel_pt_counts + c) <= LoaderFbTable
    BY TablesAssumption
  <1>7. d \in Nat /\ c \in Nat \ {0}
    BY <1>2, <1>4
  <1> HIDE DEF d, c
  <1>8. d \in Nat \ {0} /\ d + c < Entries
        /\ (FirstEntry + kernel_pt_counts <= d \/ d + c <= FirstEntry)
    BY <1>5, <1>7, TableNumbers
  <1>9. KernelTable + kernel_pt_counts + c <= LoaderFbTable
    BY <1>6, <1>7, TableNumbers
  <1> QED BY <1>1, <1>3, <1>4, <1>6, <1>8, <1>9 DEF d, c

\* Where the tables lead an address of the kernel's, and one of the screen's.
LEMMA KernelReach ==
    ASSUME TablesInPlace, NEW n \in 0..kernel_pt_counts,
           n <= LoaderEntries \/ n <= written, written \in Nat,
           NEW o \in 0..(n * Entries - 1)
    PROVE  Walk(memory, KernelBase + o) = KernelFrame + o
  <1>1. PICK k \in 0..(n - 1), e \in 0..(Entries - 1) :
          o = k * Entries + e
    <2>1. n \in Nat /\ Entries \in Nat \ {0}
      BY TableNumbers
    <2> QED BY <2>1, Splits, Zenon
  <1>3. SplitsInto(KernelBase + (k * Entries + e), Entries,
                   KernelBase \div Entries + k, e)
    <2>1. k \in Nat /\ BeginsTable(KernelBase, Entries) /\ Entries \in Nat \ {0}
      BY TableNumbers DEF BeginsTable
    <2> QED BY <2>1, SplitBehind, Zenon
  <1>2. KernelTableAt(k)
    BY TableNumbers DEF TablesInPlace
  <1> QED BY <1>1, <1>2, <1>3 DEF KernelTableAt, Walk, FirstEntry, SplitsInto

LEMMA ScreenReach ==
    ASSUME TablesInPlace, fb \in FrameBuffers, res_pages \in ResPages,
           NEW o \in 0..(res_pages - 1)
    PROVE  Walk(memory, fb + o) = fb + o
  <1>1. /\ fb \in Nat /\ fb % Entries = 0 /\ ScreenTables \in Nat \ {0}
        /\ res_pages \in Nat /\ res_pages <= ScreenTables * Entries
    BY ScreenPlaced DEF ScreenTables
  <1>2. o \in 0..(ScreenTables * Entries - 1)
    <2>1. ScreenTables * Entries \in Int
      BY <1>1, TableNumbers, SMT
    <2> QED BY <1>1, <2>1
  <1>3. PICK j \in 0..(ScreenTables - 1), e \in 0..(Entries - 1) :
          o = j * Entries + e
    <2>1. ScreenTables \in Nat /\ Entries \in Nat \ {0}
      BY <1>1, TableNumbers
    <2> QED BY <1>2, <2>1, Splits, Zenon
  <1>4. ScreenTableAt(j, ScreenFrame(j))
    BY DEF TablesInPlace
  <1>5. j * Entries + e < res_pages
    BY <1>1, <1>3
  <1>6. SplitsInto(fb + (j * Entries + e), Entries, fb \div Entries + j, e)
    <2>1. j \in Nat /\ BeginsTable(fb, Entries) /\ Entries \in Nat \ {0}
      BY <1>1, TableNumbers DEF BeginsTable
    <2> QED BY <2>1, SplitBehind, Zenon
  <1> QED BY <1>3, <1>4, <1>5, <1>6 DEF ScreenTableAt, Walk, SplitsInto
-----------------------------------------------------------------------------
\* The loader leaves every table in its place.
LEMMA LoaderInPlace ==
    ASSUME NEW rest, memory = LoaderMemory(rest), written = 0,
           fb \in FrameBuffers, res_pages \in ResPages
    PROVE  TablesInPlace
  <1> DEFINE c == ScreenTables
             d == fb \div Entries
             kernelTables == KernelTable .. (KernelTable + LoaderTables - 1)
             Own == {Directory, LowTable} \cup kernelTables \cup LoaderFbTables
  <1>1. /\ d \in Nat \ {0} /\ c \in Nat \ {0} /\ d + c < Entries
        /\ FirstEntry + kernel_pt_counts <= d \/ d + c <= FirstEntry
        /\ KernelTable + kernel_pt_counts + c <= LoaderFbTable
    BY ScreenPlaced DEF ScreenTables
  <1>0. /\ Entries \in Nat \ {0} /\ kernel_pt_counts \in Nat
        /\ FirstEntry \in Nat \ {0} /\ FirstEntry + kernel_pt_counts < Entries
        /\ LoaderEntries \in 1..kernel_pt_counts /\ LoaderTables \in Nat
        /\ LoaderEntries <= LoaderTables /\ LoaderFbTable \in Nat
        /\ Directory \in Nat /\ LowTable = Directory + 1 /\ KernelTable = Directory + 2
        /\ KernelTable + LoaderTables <= LoaderFbTable
    BY TableNumbers
  <1>2. DOMAIN memory = Own
    BY DEF LoaderMemory
  <1>3. LoaderFbTables = LoaderFbTable .. (LoaderFbTable + c - 1)
    BY DEF LoaderFbTables, ScreenTables
  <1> HIDE DEF c, d
  <1>4. memory[Directory] = LoaderDirectory /\ Directory \in DOMAIN memory
    <2>1. Directory \in Own
      OBVIOUS
    <2>3. /\ Directory # LowTable /\ Directory \notin kernelTables
          /\ Directory \notin LoaderFbTables
      BY <1>0, <1>1, <1>3
    <2>2. memory[Directory] = LoaderDirectory
      BY <2>1, <2>3, Zenon DEF LoaderMemory
    <2> QED BY <1>2, <2>1, <2>2
  <1>5. LoaderDirectory =
          [e \in 0..(Entries - 1) |->
             CASE e = SelfEntry -> Directory
               [] e - d \in 0..(c - 1) -> LoaderFbTable + (e - d)
               [] e - FirstEntry \in 0..(LoaderEntries - 1) -> KernelTable + (e - FirstEntry)
               [] e = 0 -> LowTable
               [] OTHER -> Absent]
    BY DEF LoaderDirectory, ScreenTables, c, d
  <1>6. memory[Directory] = [e \in 0..(Entries - 1) |-> memory[Directory][e]]
    BY <1>4 DEF LoaderDirectory
  <1>7. ASSUME NEW k \in 0..(kernel_pt_counts - 1), k < LoaderEntries \/ k < written
        PROVE  KernelTableAt(k)
    <2>1. k \in 0..(LoaderEntries - 1) /\ KernelTable + k \in kernelTables
      BY <1>7, <1>0
    <2>2. LoaderDirectory[FirstEntry + k] = KernelTable + k
      <3> DEFINE e == FirstEntry + k
      <3>1. /\ e \in 0..(Entries - 1) /\ e # SelfEntry
            /\ e - d \notin 0..(c - 1) /\ e - FirstEntry \in 0..(LoaderEntries - 1)
            /\ e # 0 /\ e - FirstEntry = k
        BY <1>0, <1>1, <2>1 DEF SelfEntry
      <3> HIDE DEF e
      <3>2. LoaderDirectory[e] = KernelTable + (e - FirstEntry)
        BY <1>5, <3>1, Zenon
      <3> QED BY <3>1, <3>2 DEF e
    <2>3. memory[KernelTable + k] = Table(KernelFrame + k * Entries, Entries, rest)
      <3>1. /\ KernelTable + k # Directory /\ KernelTable + k # LowTable
            /\ KernelTable + k \notin LoaderFbTables
            /\ (KernelTable + k) - KernelTable = k
        BY <2>1, <1>0, <1>1, <1>3
      <3>2. KernelTable + k \in Own
        BY <2>1
      <3> DEFINE f == KernelTable + k
      <3> HIDE DEF f
      <3>3. memory[f] = Table(KernelFrame + (f - KernelTable) * Entries, Entries, rest)
        BY <2>1, <3>1, <3>2, Zenon DEF LoaderMemory, f
      <3> QED BY <3>1, <3>3 DEF f
    <2>4. \A e \in 0..(Entries - 1) :
            Table(KernelFrame + k * Entries, Entries, rest)[e]
              = KernelFrame + (k * Entries + e)
      <3> DEFINE before == k * Entries
      <3>1. before \in Int /\ KernelFrame \in Nat
        BY <2>1, <1>0, TableNumbers, SMT
      <3> HIDE DEF before
      <3>2. \A e \in 0..(Entries - 1) :
              Table(KernelFrame + before, Entries, rest)[e] = KernelFrame + (before + e)
        <4> SUFFICES ASSUME NEW e \in 0..(Entries - 1)
                     PROVE  Table(KernelFrame + before, Entries, rest)[e]
                              = KernelFrame + (before + e)
          OBVIOUS
        <4>1. e < Entries /\ (KernelFrame + before) + e = KernelFrame + (before + e)
          BY <3>1, <1>0
        <4> QED BY <4>1 DEF Table
      <3> QED BY <3>2 DEF before
    <2>5. KernelTable + k \in DOMAIN memory
      BY <1>2, <2>1
    <2> QED BY <1>4, <2>2, <2>3, <2>4, <2>5 DEF KernelTableAt
  <1>8. ASSUME NEW j \in 0..(c - 1) PROVE ScreenTableAt(j, ScreenFrame(j))
    <2>1. ScreenFrame(j) = LoaderFbTable + j
      BY <1>0, <1>1 DEF ScreenFrame
    <2>2. LoaderDirectory[d + j] = LoaderFbTable + j
      <3> DEFINE e == d + j
      <3>1. /\ e \in 0..(Entries - 1) /\ e # SelfEntry /\ e # 0
            /\ e - d \in 0..(c - 1) /\ e - FirstEntry \notin 0..(LoaderEntries - 1)
            /\ e - d = j
        BY <1>0, <1>1 DEF SelfEntry
      <3> HIDE DEF e
      <3>2. LoaderDirectory[e] = LoaderFbTable + (e - d)
        BY <1>5, <3>1, Zenon
      <3> QED BY <3>1, <3>2 DEF e
    <2>3. LoaderFbTable + j \in LoaderFbTables
      BY <1>0, <1>1, <1>3
    <2>4. memory[LoaderFbTable + j]
            = Table(fb + j * Entries, res_pages - j * Entries, rest)
      <3>1. /\ LoaderFbTable + j # Directory /\ LoaderFbTable + j # LowTable
            /\ LoaderFbTable + j \notin kernelTables
            /\ (LoaderFbTable + j) - LoaderFbTable = j
        BY <1>0, <1>1
      <3>2. LoaderFbTable + j \in Own
        BY <2>3
      <3> DEFINE f == LoaderFbTable + j
      <3> HIDE DEF f
      <3>3. memory[f] = Table(fb + (f - LoaderFbTable) * Entries,
                              res_pages - (f - LoaderFbTable) * Entries, rest)
        BY <2>3, <3>1, <3>2, Zenon DEF LoaderMemory, f
      <3> QED BY <3>1, <3>3 DEF f
    <2>5. ASSUME NEW e \in 0..(Entries - 1), j * Entries + e < res_pages
          PROVE  memory[LoaderFbTable + j][e] = fb + (j * Entries + e)
      <3>1. j * Entries \in Int /\ fb \in Nat /\ res_pages \in Nat
        BY <1>0, <1>1, ScreenPlaced, SMT
      <3>2. e < res_pages - j * Entries
        BY <2>5, <3>1
      <3> QED BY <2>4, <3>1, <3>2, <1>0 DEF Table
    <2>6. LoaderFbTable + j \in DOMAIN memory
      BY <1>2, <2>3
    <2> QED BY <1>4, <2>1, <2>2, <2>5, <2>6 DEF ScreenTableAt, d
  <1>9. ASSUME NEW e \in 0..(Entries - 1) \ (KernelEntries \cup ScreenEntries)
        PROVE  memory[Directory][e] \in {Absent, Directory, LowTable}
    <2>1. e \notin FirstEntry .. (FirstEntry + kernel_pt_counts - 1)
          /\ e \notin d .. (d + c - 1)
      BY DEF KernelEntries, ScreenEntries, d, c
    <2>2. e - d \notin 0..(c - 1) /\ e - FirstEntry \notin 0..(LoaderEntries - 1)
      BY <1>0, <1>1, <2>1
    <2>3. LoaderDirectory[e] \in {Directory, LowTable, Absent}
      BY <1>5, <2>2, Zenon
    <2> QED BY <1>4, <2>3
  <1> QED BY <1>4, <1>6, <1>7, <1>8, <1>9 DEF TablesInPlace, c

\* The loader's tables reach every page a table will be written at.
LEMMA LoaderReaches ==
    ASSUME TablesInPlace, written = 0, fb \in FrameBuffers, res_pages \in ResPages,
           NEW n \in 0..(NeededTables - 1)
    PROVE  Walk(memory, KernelPageTables + n) = KernelTable + n
  <1> DEFINE o == CodePages + 2 + n
  <1>1. /\ NeededTables = kernel_pt_counts + Ceil(res_pages, Entries)
        /\ CodePages + 2 + kernel_pt_counts + Ceil(res_pages, Entries)
             <= LoaderEntries * Entries
        /\ Ceil(res_pages, Entries) \in Nat
    BY ScreenPlaced DEF NeededTables
  <1>2. o \in 0..(LoaderEntries * Entries - 1)
    <2>1. LoaderEntries * Entries \in Int
      BY TableNumbers, SMT
    <2> QED BY <1>1, <2>1, TableNumbers
  <1>3. LoaderEntries \in 0..kernel_pt_counts /\ LoaderEntries <= LoaderEntries
    BY TableNumbers
  <1>4. written \in Nat
    OBVIOUS
  <1> HIDE DEF o
  <1>5. Walk(memory, KernelBase + o) = KernelFrame + o
    BY <1>2, <1>3, <1>4, KernelReach
  <1> QED BY <1>1, <1>5, TableNumbers DEF o
-----------------------------------------------------------------------------
\* What memory is once a table has been entered.
IsEntered(f, table, entry, target) ==
    /\ DOMAIN memory' = DOMAIN memory \cup {f}
    /\ memory'[f] = table
    /\ \A g \in DOMAIN memory \ {f, Directory} : memory'[g] = memory[g]
    /\ memory'[Directory]
         = [e \in 0..(Entries - 1) |->
              IF e = entry THEN target ELSE memory[Directory][e]]

LEMMA EnteredGives ==
    ASSUME TablesInPlace, NEW f, f # Directory, NEW table, NEW entry \in 0..(Entries - 1),
           NEW target, memory' = Entered(f, table, entry, target)
    PROVE  IsEntered(f, table, entry, target)
  <1> DEFINE mem == [g \in DOMAIN memory \cup {f} |-> IF g = f THEN table ELSE memory[g]]
             dir == memory[Directory]
  <1>1. memory' = [mem EXCEPT ![Directory] = [mem[Directory] EXCEPT ![entry] = target]]
    BY DEF Entered
  <1>2. Directory \in DOMAIN memory /\ dir = [e \in 0..(Entries - 1) |-> dir[e]]
    BY DEF TablesInPlace
  <1>3. mem[Directory] = dir /\ DOMAIN mem = DOMAIN memory \cup {f}
    BY <1>2
  <1>4. mem[f] = table /\ \A g \in DOMAIN memory \ {f} : mem[g] = memory[g]
    OBVIOUS
  <1> HIDE DEF mem, dir
  <1>5. memory' = [mem EXCEPT ![Directory] = [dir EXCEPT ![entry] = target]]
    BY <1>1, <1>3
  <1> DEFINE new == [dir EXCEPT ![entry] = target]
  <1>6. new = [e \in 0..(Entries - 1) |-> IF e = entry THEN target ELSE dir[e]]
    BY <1>2
  <1> HIDE DEF new
  <1>7. /\ DOMAIN memory' = DOMAIN mem /\ memory'[Directory] = new
        /\ \A g \in DOMAIN mem \ {Directory} : memory'[g] = mem[g]
    BY <1>5, <1>2, <1>3 DEF new
  <1> QED BY <1>2, <1>3, <1>4, <1>6, <1>7 DEF dir, IsEntered

\* A table is written where the loader mapped its page, whichever of the two
\* translations is used.
LEMMA WriteTableAtHome ==
    ASSUME MappingInv, TablesInPlace, res_pages \in ResPages, written < NeededTables,
           NEW entry, NEW first, WriteTable(entry, first)
    PROVE  /\ memory' = Entered(KernelTable + written, Table(first, Entries, Absent),
                                entry, KernelTable + written)
           /\ written' = written + 1 /\ UNCHANGED <<miVars, fb, boot>>
  <1> DEFINE page == KernelPageTables + written
             o == CodePages + 2 + written
  <1>1. /\ NeededTables \in Nat /\ written \in 0..(NeededTables - 1) /\ fb \in FrameBuffers
        /\ CodePages + 2 + NeededTables <= LoaderEntries * Entries
    <2>1. /\ NeededTables = kernel_pt_counts + Ceil(res_pages, Entries)
          /\ CodePages + 2 + kernel_pt_counts + Ceil(res_pages, Entries)
               <= LoaderEntries * Entries
          /\ Ceil(res_pages, Entries) \in Nat /\ fb \in FrameBuffers
          /\ written \in 0..NeededTables
      BY ScreenPlaced DEF NeededTables, MappingInv, Progress
    <2>2. LoaderEntries * Entries \in Int
      BY TableNumbers, SMT
    <2> QED BY <2>1, <2>2, TableNumbers
  <1>2. Walk(boot, page) = KernelTable + written
    BY <1>1 DEF MappingInv, BootReaches
  <1>3. Walk(memory, page) = KernelTable + written
    <2>1. o \in 0..(LoaderEntries * Entries - 1)
      <3>1. LoaderEntries * Entries \in Int
        BY TableNumbers, SMT
      <3> QED BY <1>1, <3>1, TableNumbers
    <2>2. LoaderEntries \in 0..kernel_pt_counts /\ LoaderEntries <= LoaderEntries
          /\ written \in Nat
      BY <1>1, TableNumbers
    <2> HIDE DEF o
    <2>3. Walk(memory, KernelBase + o) = KernelFrame + o
      BY <2>1, <2>2, KernelReach
    <2> QED BY <1>1, <2>3, TableNumbers DEF o
  <1>4. KERNEL_PADDR(page) = KernelTable + written
    BY <1>1, TableNumbers DEF KERNEL_PADDR
  <1>5. Translations(page) \subseteq {KernelTable + written}
    BY <1>2, <1>3 DEF Translations
  <1> QED BY <1>4, <1>5 DEF WriteTable

\* The kernel's next table leads where the loader's did.
LEMMA KernelTableKeeps ==
    ASSUME MappingInv, TablesInPlace, res_pages \in ResPages, MapKernelTable,
           mem_info.available_base \div PAGE_SIZE = KernelFrame
    PROVE  TablesInPlace'
  <1> DEFINE c == ScreenTables
             d == fb \div Entries
             w == written
             f == KernelTable + w
             table == Table(KernelFrame + w * Entries, Entries, Absent)
  <1>1. /\ d \in Nat \ {0} /\ c \in Nat \ {0} /\ d + c < Entries
        /\ FirstEntry + kernel_pt_counts <= d \/ d + c <= FirstEntry
        /\ KernelTable + kernel_pt_counts + c <= LoaderFbTable
    BY ScreenPlaced DEF ScreenTables, MappingInv, Progress
  <1>2. /\ Entries \in Nat \ {0} /\ kernel_pt_counts \in Nat
        /\ FirstEntry \in Nat \ {0} /\ FirstEntry + kernel_pt_counts < Entries
        /\ LoaderFbTable \in Nat /\ KernelFrame \in Nat
        /\ Directory \in Nat /\ LowTable = Directory + 1 /\ KernelTable = Directory + 2
    BY TableNumbers
  <1>3. w \in 0..(kernel_pt_counts - 1) /\ w < NeededTables
    <2>1. NeededTables = kernel_pt_counts + c /\ w \in 0..NeededTables
      BY DEF NeededTables, ScreenTables, MappingInv, Progress
    <2>2. w < kernel_pt_counts
      BY DEF MapKernelTable
    <2> HIDE DEF c, w
    <2> QED BY <1>1, <1>2, <2>1, <2>2
  <1>4. /\ memory' = Entered(f, table, FirstEntry + w, f)
        /\ written' = w + 1 /\ UNCHANGED <<miVars, fb, boot>>
    BY <1>3, WriteTableAtHome DEF MapKernelTable
  <1>5. UNCHANGED <<fb, res_pages>>
    BY <1>4 DEF miVars
  <1> HIDE DEF c, d, table, f, w
  <1>6. f \in Nat /\ f # Directory /\ f # LowTable /\ FirstEntry + w \in 0..(Entries - 1)
    BY <1>2, <1>3 DEF f
  <1>7. /\ DOMAIN memory' = DOMAIN memory \cup {f}
        /\ memory'[f] = table
        /\ \A g \in DOMAIN memory \ {f, Directory} : memory'[g] = memory[g]
        /\ memory'[Directory]
             = [e \in 0..(Entries - 1) |->
                  IF e = FirstEntry + w THEN f ELSE memory[Directory][e]]
    <2>1. IsEntered(f, table, FirstEntry + w, f)
      BY <1>4, <1>6, EnteredGives, Zenon
    <2> QED BY <2>1 DEF IsEntered
  <1>8. /\ Directory \in DOMAIN memory'
        /\ memory'[Directory] = [e \in 0..(Entries - 1) |-> memory'[Directory][e]]
    BY <1>7 DEF TablesInPlace
  <1>9. ASSUME NEW k \in 0..(kernel_pt_counts - 1), k < LoaderEntries \/ k < w + 1
        PROVE  KernelTableAt(k)'
    <2>1. FirstEntry + k \in 0..(Entries - 1)
      BY <1>2
    <2>2. CASE k = w
      <3>1. memory'[Directory][FirstEntry + k] = KernelTable + k
        BY <1>7, <2>1, <2>2 DEF f
      <3>2. KernelTable + k \in DOMAIN memory'
        BY <1>7, <2>2 DEF f
      <3>3. \A e \in 0..(Entries - 1) :
              memory'[KernelTable + k][e] = KernelFrame + (k * Entries + e)
        <4>1. memory'[KernelTable + k] = table
          BY <1>7, <2>2 DEF f
        <4> DEFINE before == w * Entries
        <4>2. before \in Int
          BY <1>2, <1>3, SMT
        <4>3. table = Table(KernelFrame + before, Entries, Absent)
          BY DEF table
        <4> HIDE DEF before
        <4> SUFFICES ASSUME NEW e \in 0..(Entries - 1)
                     PROVE  table[e] = KernelFrame + (before + e)
          BY <2>2, <4>1 DEF before
        <4>4. e < Entries /\ (KernelFrame + before) + e = KernelFrame + (before + e)
          BY <1>2, <4>2
        <4> QED BY <4>3, <4>4 DEF Table
      <3> QED BY <3>1, <3>2, <3>3 DEF KernelTableAt
    <2>3. CASE k # w
      <3>1. KernelTableAt(k)
        BY <1>2, <1>3, <2>3, <1>9 DEF TablesInPlace, w
      <3>2. KernelTable + k # f /\ KernelTable + k # Directory /\ FirstEntry + k # FirstEntry + w
        BY <1>2, <1>3, <2>3 DEF f
      <3> QED BY <1>7, <2>1, <3>1, <3>2 DEF KernelTableAt
    <2> QED BY <2>2, <2>3
  <1>10. ASSUME NEW j \in 0..(c - 1) PROVE ScreenTableAt(j, LoaderFbTable + j)'
    <2>1. ScreenFrame(j) = LoaderFbTable + j
      BY <1>1, <1>2, <1>3 DEF ScreenFrame, w
    <2>2. ScreenTableAt(j, LoaderFbTable + j)
      BY <2>1 DEF TablesInPlace, c
    <2>3. /\ LoaderFbTable + j # f /\ LoaderFbTable + j # Directory
          /\ d + j # FirstEntry + w /\ d + j \in 0..(Entries - 1)
      BY <1>1, <1>2, <1>3 DEF f
    <2> QED BY <1>5, <1>7, <2>2, <2>3 DEF ScreenTableAt, d
  <1>11. \A j \in 0..(c - 1) : ScreenFrame(j)' = LoaderFbTable + j
    <2>1. \A j \in 0..(c - 1) : ~ (kernel_pt_counts + j < written')
      BY <1>1, <1>2, <1>3, <1>4
    <2> QED BY <2>1 DEF ScreenFrame
  <1>12. ASSUME NEW e \in 0..(Entries - 1) \ (KernelEntries \cup ScreenEntries)
         PROVE  memory'[Directory][e] \in {Absent, Directory, LowTable}
    <2>1. e # FirstEntry + w
      BY <1>2, <1>3 DEF KernelEntries
    <2>2. memory[Directory][e] \in {Absent, Directory, LowTable}
      BY DEF TablesInPlace
    <2> QED BY <1>7, <2>1, <2>2
  <1>13. c' = c /\ ScreenEntries' = ScreenEntries /\ KernelEntries' = KernelEntries
    BY <1>5 DEF c, ScreenTables, ScreenEntries, KernelEntries
  <1>14. /\ \A k \in 0..(kernel_pt_counts - 1) :
              k < LoaderEntries \/ k < written' => KernelTableAt(k)'
         /\ \A j \in 0..(c - 1) : ScreenTableAt(j, LoaderFbTable + j)'
    BY <1>4, <1>9, <1>10
  <1>15. /\ \A j \in 0..(c - 1) : ScreenTableAt(j, ScreenFrame(j))'
         /\ \A e \in 0..(Entries - 1) \ (KernelEntries \cup ScreenEntries)' :
              memory'[Directory][e] \in {Absent, Directory, LowTable}
    BY <1>11, <1>12, <1>13, <1>14 DEF ScreenTableAt
  <1> QED BY <1>8, <1>13, <1>14, <1>15 DEF TablesInPlace, c

\* The screen's next table leads where the loader's did.
LEMMA ScreenTableKeeps ==
    ASSUME MappingInv, TablesInPlace, res_pages \in ResPages, MapFbTable
    PROVE  TablesInPlace'
  <1> DEFINE c == ScreenTables
             d == fb \div Entries
             w == written
             n == w - kernel_pt_counts
             f == KernelTable + w
             table == Table(fb + n * Entries, Entries, Absent)
  <1>1. /\ d \in Nat \ {0} /\ c \in Nat \ {0} /\ d + c < Entries /\ fb \in Nat
        /\ FirstEntry + kernel_pt_counts <= d \/ d + c <= FirstEntry
        /\ KernelTable + kernel_pt_counts + c <= LoaderFbTable
    BY ScreenPlaced DEF ScreenTables, MappingInv, Progress
  <1>2. /\ Entries \in Nat \ {0} /\ kernel_pt_counts \in Nat
        /\ FirstEntry \in Nat \ {0} /\ FirstEntry + kernel_pt_counts < Entries
        /\ LoaderFbTable \in Nat /\ LoaderEntries \in 1..kernel_pt_counts
        /\ Directory \in Nat /\ LowTable = Directory + 1 /\ KernelTable = Directory + 2
    BY TableNumbers
  <1>3. w = kernel_pt_counts + n /\ n \in 0..(c - 1) /\ w < NeededTables
    <2>1. NeededTables = kernel_pt_counts + c /\ w \in 0..NeededTables
      BY DEF NeededTables, ScreenTables, MappingInv, Progress
    <2>2. w \in kernel_pt_counts..(NeededTables - 1)
      BY DEF MapFbTable
    <2> HIDE DEF c, w
    <2> QED BY <1>1, <1>2, <2>1, <2>2
  <1>4. /\ memory' = Entered(f, table, d + n, f)
        /\ written' = w + 1 /\ UNCHANGED <<miVars, fb, boot>>
    BY <1>3, WriteTableAtHome DEF MapFbTable
  <1>5. UNCHANGED <<fb, res_pages>>
    BY <1>4 DEF miVars
  <1> HIDE DEF c, d, table, f, n, w
  <1>6. f \in Nat /\ f # Directory /\ f # LowTable /\ d + n \in 0..(Entries - 1)
    BY <1>1, <1>2, <1>3 DEF f
  <1>7. /\ DOMAIN memory' = DOMAIN memory \cup {f}
        /\ memory'[f] = table
        /\ \A g \in DOMAIN memory \ {f, Directory} : memory'[g] = memory[g]
        /\ memory'[Directory]
             = [e \in 0..(Entries - 1) |->
                  IF e = d + n THEN f ELSE memory[Directory][e]]
    <2>1. IsEntered(f, table, d + n, f)
      BY <1>4, <1>6, EnteredGives, Zenon
    <2> QED BY <2>1 DEF IsEntered
  <1>8. /\ Directory \in DOMAIN memory'
        /\ memory'[Directory] = [e \in 0..(Entries - 1) |-> memory'[Directory][e]]
    BY <1>7 DEF TablesInPlace
  <1>9. ASSUME NEW k \in 0..(kernel_pt_counts - 1) PROVE KernelTableAt(k)'
    <2>1. KernelTableAt(k)
      BY <1>2, <1>3 DEF TablesInPlace, w
    <2>2. /\ KernelTable + k # f /\ KernelTable + k # Directory
          /\ FirstEntry + k # d + n /\ FirstEntry + k \in 0..(Entries - 1)
      BY <1>1, <1>2, <1>3 DEF f
    <2> QED BY <1>7, <2>1, <2>2 DEF KernelTableAt
  <1>10. ASSUME NEW j \in 0..(c - 1)
         PROVE  ScreenTableAt(j, ScreenFrame(j))'
    <2>1. d + j \in 0..(Entries - 1)
      BY <1>1, <1>2
    <2>2. CASE j = n
      <3>1. ScreenFrame(j)' = f
        <4>1. kernel_pt_counts + j < written' /\ KernelTable + (kernel_pt_counts + j) = f
          BY <1>1, <1>2, <1>3, <1>4, <2>2 DEF f
        <4> QED BY <4>1 DEF ScreenFrame
      <3>2. memory'[Directory][d + j] = f /\ f \in DOMAIN memory'
        BY <1>7, <2>1, <2>2
      <3>3. \A e \in 0..(Entries - 1) : memory'[f][e] = fb + (j * Entries + e)
        <4> DEFINE before == n * Entries
        <4>2. before \in Int
          BY <1>1, <1>2, <1>3, SMT
        <4>3. table = Table(fb + before, Entries, Absent)
          BY DEF table
        <4> HIDE DEF before
        <4> SUFFICES ASSUME NEW e \in 0..(Entries - 1)
                     PROVE  table[e] = fb + (before + e)
          BY <1>7, <2>2 DEF before
        <4>4. e < Entries /\ (fb + before) + e = fb + (before + e)
          BY <1>1, <1>2, <4>2
        <4> QED BY <4>3, <4>4 DEF Table
      <3> QED BY <1>5, <3>1, <3>2, <3>3 DEF ScreenTableAt, d
    <2>3. CASE j # n
      <3>1. ScreenFrame(j)' = ScreenFrame(j)
        <4>1. kernel_pt_counts + j < written' <=> kernel_pt_counts + j < written
          BY <1>1, <1>2, <1>3, <1>4, <2>3 DEF w
        <4> QED BY <4>1 DEF ScreenFrame
      <3>2. ScreenTableAt(j, ScreenFrame(j))
        BY DEF TablesInPlace, c
      <3>3. ScreenFrame(j) # f /\ ScreenFrame(j) # Directory /\ d + j # d + n
        <4>1. ScreenFrame(j) \in {KernelTable + (kernel_pt_counts + j), LoaderFbTable + j}
          BY DEF ScreenFrame
        <4>2. /\ KernelTable + (kernel_pt_counts + j) \notin {f, Directory}
              /\ LoaderFbTable + j \notin {f, Directory} /\ d + j # d + n
          BY <1>1, <1>2, <1>3, <2>3 DEF f
        <4> QED BY <4>1, <4>2
      <3> QED BY <1>5, <1>7, <2>1, <3>1, <3>2, <3>3 DEF ScreenTableAt, d
    <2> QED BY <2>2, <2>3
  <1>11. ASSUME NEW e \in 0..(Entries - 1) \ (KernelEntries \cup ScreenEntries)
         PROVE  memory'[Directory][e] \in {Absent, Directory, LowTable}
    <2>1. e # d + n
      <3>1. e \notin d .. (d + c - 1)
        BY DEF ScreenEntries, c, d
      <3> QED BY <3>1, <1>1, <1>3
    <2>2. memory[Directory][e] \in {Absent, Directory, LowTable}
      BY DEF TablesInPlace
    <2> QED BY <1>7, <2>1, <2>2
  <1>12. c' = c /\ ScreenEntries' = ScreenEntries /\ KernelEntries' = KernelEntries
    BY <1>5 DEF c, ScreenTables, ScreenEntries, KernelEntries
  <1>13. \A j \in 0..(c - 1) : ScreenTableAt(j, ScreenFrame(j))'
    BY <1>10 DEF ScreenTableAt
  <1> QED BY <1>8, <1>9, <1>11, <1>12, <1>13 DEF TablesInPlace, c
-----------------------------------------------------------------------------
LEMMA MappingInit == PTInit => MappingInv
  <1> SUFFICES ASSUME PTInit PROVE MappingInv
    OBVIOUS
  <1>1. fb \in FrameBuffers /\ res_pages \in ResPages /\ written = 0 /\ pc = "info"
        /\ boot = memory
    BY DEF PTInit, Init
  <1>2. TablesInPlace
    <2>1. PICK rest \in Leftovers : memory = LoaderMemory(rest)
      BY DEF PTInit
    <2> QED BY <1>1, <2>1, LoaderInPlace
  <1>3. BootReaches
    BY <1>1, <1>2, LoaderReaches DEF BootReaches, Walk
  <1>4. 0 \in 0..NeededTables
    BY <1>1, ScreenPlaced, TableNumbers DEF NeededTables
  <1> QED BY <1>1, <1>2, <1>3, <1>4 DEF MappingInv, Progress

LEMMA WritingKeeps ==
    ASSUME MappingInv, res_pages \in ResPages, MapKernelTable \/ MapFbTable
    PROVE  MappingInv'
  <1>1. pc = "mapping" /\ written < NeededTables
    <2>1. written \in 0..NeededTables /\ fb \in FrameBuffers
      BY DEF MappingInv, Progress
    <2>2. NeededTables = kernel_pt_counts + Ceil(res_pages, Entries)
          /\ Ceil(res_pages, Entries) \in Nat \ {0}
      BY <2>1, ScreenPlaced DEF NeededTables
    <2>3. CASE MapKernelTable
      BY <2>1, <2>2, <2>3, TableNumbers DEF MapKernelTable
    <2>4. CASE MapFbTable
      BY <2>1, <2>2, <2>4, TableNumbers DEF MapFbTable
    <2> QED BY <2>3, <2>4
  <1>2. written' = written + 1 /\ UNCHANGED <<miVars, fb, boot>>
    BY DEF MapKernelTable, MapFbTable, WriteTable
  <1>3. UNCHANGED <<pc, mem_info, res_pages, fb_pt_counts>>
    BY <1>2 DEF miVars
  <1>4. NeededTables' = NeededTables /\ ScreenTables' = ScreenTables
        /\ BootReaches' = BootReaches /\ AtHome' = AtHome
    BY <1>2, <1>3 DEF NeededTables, ScreenTables, BootReaches, Walk, AtHome
  <1>5. Progress'
    <2>1. NeededTables \in Nat /\ written \in 0..NeededTables
      BY ScreenPlaced, TableNumbers DEF NeededTables, MappingInv, Progress
    <2>2. written + 1 \in 0..NeededTables
      BY <2>1, <1>1
    <2> QED BY <1>1, <1>2, <1>3, <1>4, <2>2 DEF MappingInv, Progress
  <1>6. ASSUME AtHome PROVE TablesInPlace'
    <2>1. TablesInPlace /\ mem_info.available_base \div PAGE_SIZE = KernelFrame
      BY <1>1, <1>6 DEF MappingInv, AtHome
    <2> QED BY <2>1, KernelTableKeeps, ScreenTableKeeps
  <1> QED BY <1>4, <1>5, <1>6 DEF MappingInv

\* What does not write a table leaves the tables as they are.
LEMMA OthersKeep ==
    ASSUME MappingInv, UNCHANGED <<fb, memory, boot, written, res_pages>>,
           Progress', AtHome' => AtHome
    PROVE  MappingInv'
  <1>1. BootReaches' = BootReaches
    BY DEF BootReaches, NeededTables, Walk
  <1>2. TablesInPlace' = TablesInPlace
    BY DEF TablesInPlace, KernelTableAt, ScreenTableAt, ScreenFrame, ScreenTables,
           KernelEntries, ScreenEntries
  <1> QED BY <1>1, <1>2 DEF MappingInv

LEMMA MappingStep ==
    ASSUME LayoutInv, MappingInv, [PTNext]_ptVars PROVE MappingInv'
  <1>1. res_pages \in ResPages
    BY DEF LayoutInv, TypeOK
  <1>2. CASE MapKernelTable \/ MapFbTable
    BY <1>1, <1>2, WritingKeeps
  <1>3. CASE (ReadRange \/ CountPages) /\ UNCHANGED <<fb, memory, boot, written>>
    <2>1. /\ pc = "info" /\ pc' \in {"info", "mapping"}
          /\ UNCHANGED <<fb, memory, boot, written, res_pages>>
      BY <1>3 DEF ReadRange, CountPages
    <2>2. Progress' /\ AtHome
      BY <2>1 DEF MappingInv, Progress, NeededTables, AtHome
    <2> QED BY <2>1, <2>2, OthersKeep
  <1>4. CASE mem_pool_init /\ UNCHANGED <<fb, memory, boot, written>>
    <2>1. /\ pc = "pools" /\ pc' \in {"done", "assert"}
          /\ UNCHANGED <<fb, memory, boot, written, res_pages, mem_info, fb_pt_counts>>
      BY <1>4 DEF mem_pool_init
    <2>2. Progress' /\ (AtHome' => AtHome)
      BY <2>1 DEF MappingInv, Progress, NeededTables, AtHome, ScreenTables
    <2> QED BY <2>1, <2>2, OthersKeep
  <1>5. CASE written = NeededTables /\ mem_mapping /\ UNCHANGED <<fb, memory, boot, written>>
    <2>1. /\ pc = "mapping" /\ pc' = "pools" /\ written = NeededTables
          /\ fb_pt_counts' = Ceil(res_pages, Entries)
          /\ UNCHANGED <<fb, memory, boot, written, res_pages, mem_info>>
      BY <1>5 DEF mem_mapping
    <2>2. Progress' /\ (AtHome' => AtHome)
      BY <2>1 DEF MappingInv, Progress, NeededTables, AtHome, ScreenTables
    <2> QED BY <2>1, <2>2, OthersKeep
  <1>6. CASE UNCHANGED ptVars
    <2>1. UNCHANGED <<fb, memory, boot, written, res_pages, pc, mem_info, fb_pt_counts>>
      BY <1>6 DEF ptVars, miVars
    <2>2. Progress' /\ (AtHome' => AtHome)
      BY <2>1 DEF MappingInv, Progress, NeededTables, AtHome, ScreenTables
    <2> QED BY <2>1, <2>2, OthersKeep
  <1> QED BY <1>2, <1>3, <1>4, <1>5, <1>6 DEF PTNext

LEMMA MappingInvHolds == PTSpec => [](LayoutInv /\ MappingInv)
  <1>1. PTSpec => []LayoutInv
    BY TablesImplementMemInit, LayoutInvHolds, PTL
  <1>2. LayoutInv /\ MappingInv /\ [PTNext]_ptVars => MappingInv'
    BY MappingStep
  <1> QED BY <1>1, <1>2, MappingInit, PTL DEF PTSpec
-----------------------------------------------------------------------------
\* The kernel rewrites the tables it runs on and never loses a page of its
\* own: the next table can be reached when it is written, and every page is
\* where it was before (mem.c:158-170).
THEOREM KernelStaysMapped == PTSpec => []KernelMapped
  <1>1. LayoutInv /\ MappingInv => KernelMapped
    <2> SUFFICES ASSUME LayoutInv, MappingInv, AtHome PROVE KernelMapped
      BY DEF KernelMapped
    <2>1. /\ TablesInPlace /\ fb \in FrameBuffers /\ res_pages \in ResPages
          /\ written \in 0..NeededTables
          /\ pc \notin {"info", "mapping"} => written = NeededTables
      BY DEF MappingInv, Progress, LayoutInv, TypeOK
    <2>2. /\ NeededTables = kernel_pt_counts + Ceil(res_pages, Entries)
          /\ Ceil(res_pages, Entries) \in Nat \ {0} /\ kernel_pt_counts \in Nat
      BY <2>1, ScreenPlaced, TableNumbers DEF NeededTables
    <2>3. ASSUME written < NeededTables
          PROVE  Translations(KernelPageTables + written) # {}
      <3>1. Walk(boot, KernelPageTables + written) = KernelTable + written
        BY <2>1, <2>2, <2>3 DEF MappingInv, BootReaches
      <3>2. KernelTable + written # Absent
        BY <2>1, <2>2, TableNumbers
      <3> QED BY <3>1, <3>2 DEF Translations
    <2> DEFINE reach == IF pc \in {"info", "mapping"}
                        THEN Min({LoaderEntries * Entries, KernelPages}) ELSE KernelPages
    <2>4. /\ LoaderEntries * Entries \in Int /\ kernel_pt_counts * Entries \in Int
          /\ KernelPages \in Nat /\ KernelPages <= kernel_pt_counts * Entries
          /\ LoaderEntries \in 0..kernel_pt_counts /\ KernelBase \in Nat
      <3>1. LoaderEntries * Entries \in Int /\ kernel_pt_counts * Entries \in Int
        BY TableNumbers, SMT
      <3> QED BY <3>1, TableNumbers
    <2>5. PICK n \in 0..kernel_pt_counts :
            /\ n <= LoaderEntries \/ n <= written
            /\ reach \in Int /\ reach <= n * Entries
      <3>1. CASE pc \in {"info", "mapping"}
        <4> DEFINE x == LoaderEntries * Entries
        <4>1. x \in Int /\ KernelPages \in Int
          BY <2>4
        <4> HIDE DEF x
        <4>2. Min({x, KernelPages}) \in Int /\ Min({x, KernelPages}) <= x
          <5> DEFINE m == IF x <= KernelPages THEN x ELSE KernelPages
          <5>1. m \in {x, KernelPages} /\ \A y \in {x, KernelPages} : m <= y
            BY <4>1
          <5>2. \A z \in {x, KernelPages} :
                  (\A y \in {x, KernelPages} : z <= y) => z = m
            BY <4>1, <5>1
          <5>3. Min({x, KernelPages}) = m
            BY <5>1, <5>2 DEF Min
          <5> QED BY <4>1, <5>3
        <4>3. reach = Min({x, KernelPages})
          BY <3>1 DEF x
        <4>4. /\ LoaderEntries \in 0..kernel_pt_counts /\ LoaderEntries <= LoaderEntries
              /\ reach \in Int /\ reach <= LoaderEntries * Entries
          BY <4>2, <4>3, <2>4 DEF x
        <4> QED BY <4>4
      <3>2. CASE pc \notin {"info", "mapping"}
        <4>1. kernel_pt_counts <= written /\ kernel_pt_counts \in 0..kernel_pt_counts
          BY <2>1, <2>2, <3>2
        <4> QED BY <4>1, <2>4, <3>2
      <3> QED BY <3>1, <3>2
    <2> HIDE DEF reach
    <2>6. ASSUME NEW v \in KernelBase .. (KernelBase + reach - 1)
          PROVE  Walk(memory, v) = KERNEL_PADDR(v)
      <3> DEFINE o == v - KernelBase
      <3>1. o \in 0..(n * Entries - 1) /\ v = KernelBase + o /\ v \in Int
        <4>1. n * Entries \in Int /\ n \in Int
          BY <2>2, TableNumbers, SMT
        <4> DEFINE x == n * Entries
        <4>2. x \in Int /\ reach <= x /\ reach \in Int
          BY <4>1, <2>5
        <4> HIDE DEF x
        <4>3. o \in 0..(x - 1) /\ v = KernelBase + o /\ v \in Int
          BY <4>2, <2>4
        <4> QED BY <4>3 DEF x
      <3> HIDE DEF o
      <3>2. written \in Nat
        BY <2>1, <2>2
      <3>3. Walk(memory, KernelBase + o) = KernelFrame + o
        BY <2>1, <2>5, <3>1, <3>2, KernelReach
      <3>4. KERNEL_PADDR(v) = KernelFrame + o
        BY <2>4, <3>1, TableNumbers DEF KERNEL_PADDR, o
      <3> QED BY <3>1, <3>3, <3>4
    <2> QED BY <2>3, <2>6 DEF KernelMapped, reach
  <1> QED BY <1>1, MappingInvHolds, PTL

\* Every page of the screen is mapped to itself before, between and after the
\* tables written: messages can be drawn at any time (mem.c:174-185).
THEOREM ScreenStaysMapped == PTSpec => []ScreenMapped
  <1>1. LayoutInv /\ MappingInv => ScreenMapped
    <2> SUFFICES ASSUME LayoutInv, MappingInv, AtHome, NEW k \in fb..(fb + res_pages - 1)
                 PROVE  Walk(memory, k) = k
      BY DEF ScreenMapped
    <2>1. TablesInPlace /\ fb \in FrameBuffers /\ res_pages \in ResPages
      BY DEF MappingInv, Progress, LayoutInv, TypeOK
    <2> DEFINE o == k - fb
    <2>2. o \in 0..(res_pages - 1) /\ k = fb + o
      BY <2>1, ScreenPlaced
    <2> HIDE DEF o
    <2> QED BY <2>1, <2>2, ScreenReach
  <1> QED BY <1>1, MappingInvHolds, PTL

\* Neither pool hands out a page table or the directory: every one of them is
\* among the frames and pages mem_pool_init takes (mem.c:178, 215-227).
THEOREM TablesStayReserved == PTSpec => []TablesReserved
  <1>1. LayoutInv /\ MappingInv => TablesReserved
    <2> SUFFICES ASSUME LayoutInv, MappingInv, pc = "done", AtHome,
                        NEW e \in 0..(Entries - 1), memory[Directory][e] # Absent
                 PROVE  memory[Directory][e] \in
                          KernelFrame ..
                            (KernelFrame + UsedPages(phys_pool, kernel_pool) - 1)
      BY DEF TablesReserved
    <2>1. /\ TablesInPlace /\ fb \in FrameBuffers /\ res_pages \in ResPages
          /\ written = NeededTables /\ fb_pt_counts = ScreenTables
      BY DEF MappingInv, Progress, LayoutInv, TypeOK
    <2> DEFINE c == ScreenTables
    <2>2. c \in Nat /\ written = kernel_pt_counts + c /\ fb \div Entries \in Nat
      BY <2>1, ScreenPlaced DEF NeededTables, ScreenTables
    <2>3. /\ kernel_pt_counts \in Nat /\ CodePages \in Nat /\ KernelFrame \in Nat
          /\ FirstEntry \in Nat
          /\ KernelTable = KernelFrame + CodePages + 2
          /\ Directory = KernelFrame + CodePages /\ LowTable = KernelFrame + CodePages + 1
      BY TableNumbers
    <2> DEFINE maps == phys_pool.map_pages + kernel_pool.map_pages
    <2>4. /\ maps \in Nat
          /\ UsedPages(phys_pool, kernel_pool) = CodePages + 2 + kernel_pt_counts + c + maps
      <3>1. phys_pool.map_pages \in Nat /\ kernel_pool.map_pages \in Nat
        BY DEF LayoutInv, TypeOK
      <3> HIDE DEF c
      <3>2. fb_pt_counts = c
        BY <2>1 DEF c
      <3> QED BY <2>2, <2>3, <3>1, <3>2 DEF UsedPages, low1MB_pt_counts
    <2> HIDE DEF c, maps
    <2>5. CASE e \in KernelEntries
      <3> DEFINE k == e - FirstEntry
      <3>1. k \in 0..(kernel_pt_counts - 1) /\ e = FirstEntry + k /\ k < written
        BY <2>2, <2>3, <2>5 DEF KernelEntries
      <3> HIDE DEF k
      <3>2. memory[Directory][e] = KernelTable + k
        BY <2>1, <3>1 DEF TablesInPlace, KernelTableAt
      <3> QED BY <2>2, <2>3, <2>4, <3>1, <3>2
    <2>6. CASE e \in ScreenEntries
      <3> DEFINE j == e - fb \div Entries
      <3>1. j \in 0..(c - 1) /\ e = fb \div Entries + j /\ kernel_pt_counts + j < written
        BY <2>2, <2>3, <2>6 DEF ScreenEntries, c
      <3> HIDE DEF j
      <3>2. memory[Directory][e] = KernelTable + (kernel_pt_counts + j)
        BY <2>1, <3>1 DEF TablesInPlace, ScreenTableAt, ScreenFrame, c
      <3> QED BY <2>2, <2>3, <2>4, <3>1, <3>2
    <2>7. CASE e \notin KernelEntries \cup ScreenEntries
      <3>1. memory[Directory][e] \in {Directory, LowTable}
        BY <2>1, <2>7 DEF TablesInPlace
      <3> QED BY <2>2, <2>3, <2>4, <3>1
    <2> QED BY <2>5, <2>6, <2>7
  <1> QED BY <1>1, MappingInvHolds, PTL
=============================================================================
