------------------------------ MODULE MemInit -------------------------------
(***************************************************************************)
(* mem_init (kernel/mem/mem.c): the memory map the BIOS gave the loader    *)
(* becomes mem_info, and mem_info the sizes and places of the page tables  *)
(* and of the maps of both pools.  Sizes are in bytes, places are page     *)
(* numbers (addresses >> 12, all of them being multiples of a page).  What *)
(* mem_mapping writes into the tables is module PageTables'.               *)
(***************************************************************************)
EXTENDS Integers, Sequences

CONSTANTS Word,         \* 2^32, the range of uint32_t
          PAGE_SIZE,
          ByteSize,     \* bits in a byte of a map
          Entries,      \* entries in a page table, 1024
          CodePages,    \* MB_SIZE / PAGE_SIZE, what the kernel image may use
          KernelPages,  \* KERNEL_RESERVED_SIZE / PAGE_SIZE
          KernelBase,   \* KERNEL_VADDR >> 12
          MemoryMaps,   \* the sequences of address ranges the BIOS reports
          ResPages      \* pages a frame buffer may have (res_pages)

ASSUME MemInitAssumption ==
    /\ Word \in Nat \ {0} /\ PAGE_SIZE \in Nat \ {0} /\ ByteSize \in Nat \ {0}
    /\ Entries \in Nat \ {0} /\ CodePages \in Nat /\ KernelBase \in Nat
    /\ KernelPages \in 1..(Word - 1)
    /\ ResPages \subseteq 1..Word
    /\ MemoryMaps \subseteq Seq([base : Nat, size : Nat, available : BOOLEAN])

VARIABLES pc,           \* "info", "mapping", "pools", "done", or "assert"
          ards,         \* the memory map
          i,            \* ranges of it read so far
          mem_info,
          fb_pt_counts,
          fb_page_table_base,
          phys_pool,
          kernel_pool,
          res_pages

miVars == <<pc, ards, i, mem_info, fb_pt_counts, fb_page_table_base, phys_pool,
            kernel_pool, res_pages>>

\* CEIL(n, m) on uint32_t: n - 1 wraps when n is 0.
Ceil(n, m) == (((n - 1) % Word) \div m) + 1

Info(total, base, size, pages) ==
    [total_size |-> total, available_base |-> base, available_size |-> size,
     available_pages |-> pages]

NoPool == [base |-> 0, total |-> 0, available |-> 0, map_base |-> 0,
           map_size |-> 0, map_pages |-> 0]

\* A map that is not given a page for the bytes past its last full page.
Faulty_Pool_MapCut(base, total, map_base) ==
    LET size == Ceil(total, ByteSize)
    IN  [base |-> base, total |-> total, available |-> total,
         map_base |-> map_base, map_size |-> size,
         map_pages |-> size \div PAGE_SIZE]

\* A pool of `total' pages whose map begins at page map_base.
Pool(base, total, map_base) ==
    LET size == Ceil(total, ByteSize)
    IN  [base |-> base, total |-> total, available |-> total,
         map_base |-> map_base, map_size |-> size,
         map_pages |-> Ceil(size, PAGE_SIZE)]

kernel_pt_counts   == Ceil(KernelPages, Entries)
low1MB_pt_counts   == 1
\* KERNEL_PAGE_TABLE_VADDR: after the image, the page directory and the table
\* of the low megabyte.
KernelPageTables == KernelBase + CodePages + 2

Init ==
    /\ pc = "info" /\ i = 0
    /\ ards \in MemoryMaps /\ res_pages \in ResPages
    /\ mem_info = Info(0, 0, 0, 0)
    /\ fb_pt_counts = 0 /\ fb_page_table_base = 0
    /\ phys_pool = NoPool /\ kernel_pool = NoPool
-----------------------------------------------------------------------------
\* A choice that keeps the last of the ranges instead of the largest.
Faulty_ReadRange_Last ==
    /\ pc = "info" /\ i < Len(ards)
    /\ i' = i + 1
    /\ mem_info' =
         IF ards[i + 1].available
         THEN Info(0, ards[i + 1].base % Word, ards[i + 1].size % Word, 0)
         ELSE mem_info
    /\ UNCHANGED <<pc, ards, fb_pt_counts, fb_page_table_base, phys_pool,
                   kernel_pool, res_pages>>

\* One turn of the loop of get_mem_info.  Base and size have 64 bits; what is
\* kept of them has 32, and a size of 64 bits is compared with one of 32.
ReadRange ==
    /\ pc = "info" /\ i < Len(ards)
    /\ i' = i + 1
    /\ LET r     == ards[i + 1]
           total == (mem_info.total_size + r.size) % Word
       IN  mem_info' =
             IF ~ r.available THEN mem_info
             ELSE IF r.size > mem_info.available_size
                  THEN Info(total, r.base % Word, r.size % Word, 0)
                  ELSE [mem_info EXCEPT !.total_size = total]
    /\ UNCHANGED <<pc, ards, fb_pt_counts, fb_page_table_base, phys_pool,
                   kernel_pool, res_pages>>

\* The rest of get_mem_info.
CountPages ==
    /\ pc = "info" /\ i = Len(ards)
    /\ pc' = "mapping"
    /\ mem_info' = [mem_info EXCEPT
                      !.available_pages = Ceil(mem_info.available_size, PAGE_SIZE)]
    /\ UNCHANGED <<ards, i, fb_pt_counts, fb_page_table_base, phys_pool,
                   kernel_pool, res_pages>>

\* mem_mapping: how many tables the frame buffer needs, and where they go.
mem_mapping ==
    /\ pc = "mapping"
    /\ pc' = "pools"
    /\ fb_pt_counts' = Ceil(res_pages, Entries)
    /\ fb_page_table_base' = KernelPageTables + kernel_pt_counts
    /\ UNCHANGED <<ards, i, mem_info, phys_pool, kernel_pool, res_pages>>

\* The tables of the frame buffer forgotten in phys_used_pages.
Faulty_UsedPages_NoFb(phys, kernel) ==
    CodePages + 1 + low1MB_pt_counts + kernel_pt_counts
      + phys.map_pages + kernel.map_pages

\* phys_used_pages: the pages both pools begin with.
UsedPages(phys, kernel) ==
    CodePages + 1 + low1MB_pt_counts + kernel_pt_counts + fb_pt_counts
      + phys.map_pages + kernel.map_pages

\* The kernel's map placed as though the physical map had one page.
Faulty_PoolsMade_OnePageMap ==
    LET phys == Pool(mem_info.available_base \div PAGE_SIZE,
                     mem_info.available_pages, fb_page_table_base + fb_pt_counts)
    IN  <<phys, Pool(KernelBase, KernelPages, phys.map_base + 1)>>

\* The pools before pages are taken from them.
PoolsMade ==
    LET phys == Pool(mem_info.available_base \div PAGE_SIZE,
                     mem_info.available_pages, fb_page_table_base + fb_pt_counts)
    IN  <<phys, Pool(KernelBase, KernelPages, phys.map_base + phys.map_pages)>>

\* A pool after its first n pages were taken.
Take(pool, n) == [pool EXCEPT !.available = (@ - n) % Word]

\* mem_pool_init; the assertion of bitmap_set stops the kernel when a map has
\* too few bits for the pages to be taken.
mem_pool_init ==
    /\ pc = "pools"
    /\ LET phys   == PoolsMade[1]
           kernel == PoolsMade[2]
           n      == UsedPages(phys, kernel)
       IN  IF n <= phys.map_size * ByteSize /\ n <= kernel.map_size * ByteSize
           THEN /\ pc' = "done"
                /\ phys_pool' = Take(phys, n)
                /\ kernel_pool' = Take(kernel, n)
           ELSE /\ pc' = "assert"
                /\ phys_pool' = phys
                /\ kernel_pool' = kernel
    /\ UNCHANGED <<ards, i, mem_info, fb_pt_counts, fb_page_table_base, res_pages>>

Next == ReadRange \/ CountPages \/ mem_mapping \/ mem_pool_init

Spec == Init /\ [][Next]_miVars
-----------------------------------------------------------------------------
\* The numbers kept are uint32_t, but for the numbers of pages and bytes CEIL
\* computes, which may be 2^32 when a division by 1 is rounded up.
TypeOK ==
    /\ pc \in {"info", "mapping", "pools", "done", "assert"}
    /\ ards \in MemoryMaps /\ i \in 0..Len(ards) /\ res_pages \in ResPages
    /\ mem_info \in [total_size : 0..(Word - 1), available_base : 0..(Word - 1),
                     available_size : 0..(Word - 1), available_pages : 0..Word]
    /\ fb_pt_counts \in Nat /\ fb_page_table_base \in Nat
    /\ \A pool \in {phys_pool, kernel_pool} :
         pool \in [base : Nat, total : 0..Word, available : 0..Word,
                   map_base : Nat, map_size : Nat, map_pages : Nat]

Available == {k \in 1..Len(ards) : ards[k].available /\ ards[k].size > 0}

\* Every range, and the sum of all sizes, is within what 32 bits can say.
LowMemory == \A k \in 1..Len(ards) : ards[k].base + ards[k].size < Word

\* On a machine whose memory lies below 4 GB, mem_info describes a largest
\* available range (mem.c:35-41).
LargestRange ==
    pc # "info" /\ LowMemory /\ Available # {} =>
        \E k \in Available :
          /\ mem_info.available_base = ards[k].base
          /\ mem_info.available_size = ards[k].size
          /\ \A j \in Available : ards[j].size <= ards[k].size

\* What mem_info calls available memory is available memory (mem.h:39-40).
AvailableIsMemory ==
    pc # "info" /\ Available # {} =>
        \E k \in Available :
          /\ ards[k].base <= mem_info.available_base
          /\ mem_info.available_base + mem_info.available_size
               <= ards[k].base + ards[k].size

(***************************************************************************)
(* The areas the kernel keeps its own data in, as first page and number of *)
(* pages: image, page directory, tables, and the maps of the two pools.    *)
(***************************************************************************)
Areas ==
    <<<<KernelBase, CodePages + 2>>,
      <<KernelPageTables, kernel_pt_counts>>,
      <<fb_page_table_base, fb_pt_counts>>,
      <<phys_pool.map_base, phys_pool.map_pages>>,
      <<kernel_pool.map_base, kernel_pool.map_pages>>>>

\* Each area begins where the one before it ends: none overlaps another.
AreasAdjacent ==
    pc \in {"done", "assert"} =>
        \A k \in 1..4 : Areas[k + 1][1] = Areas[k][1] + Areas[k][2]

\* The pages mem_pool_init takes from the pools are the ones the areas
\* occupy, no fewer - a map would be handed out and overwritten - and no more
\* (mem.c:215-222 against 172, 198 and 205).
AreasReserved ==
    pc \in {"done", "assert"} =>
        KernelBase + UsedPages(phys_pool, kernel_pool) = Areas[5][1] + Areas[5][2]

\* The map of a pool has a bit for each of its pages, and lies in the pages
\* set aside for it.
MapFits(pool) ==
    /\ pool.total <= pool.map_size * ByteSize
    /\ pool.map_size <= pool.map_pages * PAGE_SIZE

MapsFit == pc \in {"done", "assert"} => MapFits(phys_pool) /\ MapFits(kernel_pool)
=============================================================================
