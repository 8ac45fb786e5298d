------------------------------ MODULE PagePool ------------------------------
(***************************************************************************)
(* A page pool of kernel/mem/mem.c: phys_pool with alloc_phys_pages and    *)
(* free_phys_pages, or kernel_pool with alloc_kernel_pages and             *)
(* free_kernel_pages, which are the same code over different constants.    *)
(* Pages are numbered by their address >> 12.                              *)
(***************************************************************************)
EXTENDS Bitmap

CONSTANTS PoolBase,     \* pool_base >> 12
          TotalPages,   \* pool_total_pages
          UsedPages,    \* phys_used_pages: the pages mem_pool_init takes
          Counts        \* sizes of request the callers make

ASSUME PoolAssumption ==
    /\ PoolBase \in Nat
    /\ TotalPages \in Nat \ {0}
    /\ UsedPages \in 0..TotalPages
    /\ Counts \subseteq Nat \ {0}

VARIABLES used,         \* the bits of pool_map that are 1
          available,    \* pool_available_pages
          extents,      \* the runs of pages the callers hold
          failed        \* the request whose assertion stopped the kernel

poolVars == <<used, available, extents, failed>>

\* A map with a byte to spare.
Faulty_PageBits_SpareByte ==
    BitmapBits(PoolBase, TotalPages \div ByteSize + 1)

PageBits == BitmapBits(PoolBase, Ceil(TotalPages, ByteSize))
Pages    == PoolBase .. (PoolBase + TotalPages - 1)
Reserved == PoolBase .. (PoolBase + UsedPages - 1)

NoFailure == [op |-> "none"]
Request(base, count) == [base |-> base, count |-> count]
ExtentPages(e) == Run(e.base, e.count)
Held == UNION {ExtentPages(e) : e \in extents}

PoolTypeOK ==
    /\ used \subseteq PageBits
    /\ available \in 0..TotalPages
    /\ \A e \in extents : /\ e = Request(e.base, e.count)
                          /\ e.base \in PageBits
                          /\ e.count \in Counts
    /\ \/ failed = NoFailure
       \/ \E count \in Counts : failed = [op |-> "alloc", count |-> count]
       \/ \E e \in extents : failed = [op |-> "free", extent |-> e]

\* mem_pool_init: the whole map is cleared, then the pages the kernel image,
\* the page tables and the two maps occupy are taken.
PoolInit ==
    /\ used = Reserved
    /\ available = TotalPages - UsedPages
    /\ extents = {}
    /\ failed = NoFailure
-----------------------------------------------------------------------------
\* An allocation that takes one page less than it hands out.
Faulty_AllocPages_OneShort(count) ==
    LET idx == bitmap_scan(PageBits, used, count)
    IN  /\ failed = NoFailure
        /\ count <= available
        /\ Run(idx, count) \subseteq PageBits
        /\ used' = used \cup Run(idx, count - 1)
        /\ extents' = extents \cup {Request(idx, count)}
        /\ UNCHANGED <<available, failed>>

\* alloc_kernel_pages: pool_available_pages is compared with but never
\* updated.
AllocPages(count) ==
    LET idx == bitmap_scan(PageBits, used, count)
    IN  /\ failed = NoFailure
        /\ count <= available
        /\ Run(idx, count) \subseteq PageBits
        /\ used' = used \cup Run(idx, count)
        /\ extents' = extents \cup {Request(idx, count)}
        /\ UNCHANGED <<available, failed>>

\* An allocation that also gives up when the pool gets down to the request.
Faulty_AllocAsserts_LastPages(count) ==
    /\ failed = NoFailure
    /\ \/ count >= Cardinality(PageBits \ used)
       \/ ~ (Run(bitmap_scan(PageBits, used, count), count) \subseteq PageBits)
    /\ failed' = [op |-> "alloc", count |-> count]
    /\ UNCHANGED <<used, available, extents>>

\* The two assertions an allocation can stop the kernel at: its own on
\* pool_available_pages, and that of bitmap_set on the index when the scan
\* returned -1.
AllocAsserts(count) ==
    /\ failed = NoFailure
    /\ \/ count > available
       \/ ~ (Run(bitmap_scan(PageBits, used, count), count) \subseteq PageBits)
    /\ failed' = [op |-> "alloc", count |-> count]
    /\ UNCHANGED <<used, available, extents>>

\* A release that leaves the last page of the run taken.
Faulty_FreePages_OneShort(e) ==
    /\ failed = NoFailure
    /\ e.base \in Pages
    /\ used' = used \ Run(e.base, e.count - 1)
    /\ extents' = extents \ {e}
    /\ UNCHANGED <<available, failed>>

\* free_kernel_pages of a run the caller holds; the assertions on the address
\* only look at the first page.
FreePages(e) ==
    /\ failed = NoFailure
    /\ e.base \in Pages
    /\ used' = used \ ExtentPages(e)
    /\ extents' = extents \ {e}
    /\ UNCHANGED <<available, failed>>

\* The assertions on the address do not hold.
FreeAsserts(e) ==
    /\ failed = NoFailure
    /\ e.base \notin Pages
    /\ failed' = [op |-> "free", extent |-> e]
    /\ UNCHANGED <<used, available, extents>>

PoolNext ==
    \/ \E count \in Counts : AllocPages(count) \/ AllocAsserts(count)
    \/ \E e \in extents : FreePages(e) \/ FreeAsserts(e)

PoolSpec == PoolInit /\ [][PoolNext]_poolVars
-----------------------------------------------------------------------------
\* Every bit that is 1 is a page mem_pool_init took or one a caller holds, and
\* the other way round: no page is lost, none is free while held.
PoolAccounting == used = Reserved \cup Held

\* No page is handed out twice, nor one the kernel itself occupies.
ExtentsDisjoint ==
    /\ \A e \in extents : ExtentPages(e) \cap Reserved = {}
    /\ \A e, f \in extents : e # f => ExtentPages(e) \cap ExtentPages(f) = {}

\* An allocation stops the kernel only when no caller could be given that
\* many adjacent pages.
StopsOnlyWhenExhausted ==
    failed.op = "alloc" =>
        FreeRuns(PageBits, Reserved \cup Held, failed.count) = {}

\* A run that was handed out can be given back: the assertions of
\* free_phys_pages and free_kernel_pages on its address hold.
ReleaseNeverAsserts == failed.op # "free"

\* The pages callers hold are pages of the pool.
HeldInPool == Held \subseteq Pages

\* The pool does what PageAllocator promises.
Allocator == INSTANCE PageAllocator
    WITH free <- PageBits \ used, Pages <- PageBits
AllocatorSpec == Allocator!Spec
=============================================================================
