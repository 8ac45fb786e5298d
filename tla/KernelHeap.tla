----------------------------- MODULE KernelHeap -----------------------------
(***************************************************************************)
(* kmalloc and kfree (kernel/mem/heap.c) over the pool of kernel virtual   *)
(* pages.  An address is a number and a page is its address >> 12.  A free *)
(* list is the set of its blocks, and get_mem_block takes any of them: the *)
(* links and the order are those of module MemBlockList, and nothing here  *)
(* depends on which free block is taken.                                   *)
(***************************************************************************)
EXTENDS PagePool, Functions

CONSTANT Requests       \* sizes the callers ask kmalloc for

PAGE_SIZE == 4096
ArenaSize == 12         \* sizeof(arena_t)
LargeSize == 1024       \* a request above this gets pages of its own
Large == 0              \* what stands for the descriptor of a large arena

\* The block_size of the descriptors heap_init makes.
BlockSizes == {16, 32, 64, 128, 256, 512, 1024, 2048}

\* The kernel pool fills its map (9216 pages), and a request no larger than
\* its 36 MB is far from 2^32, where size + sizeof(arena_t) would wrap.
ASSUME HeapAssumption ==
    /\ TotalPages % ByteSize = 0
    /\ Requests \subseteq 1 .. (TotalPages * PAGE_SIZE)
    /\ \A size \in Requests : Ceil(size + ArenaSize, PAGE_SIZE) \in Counts
    /\ 1 \in Counts

VARIABLES arena,        \* the header of each run of pages the heap holds
          free_list,    \* the blocks in the free_list of each descriptor
          live          \* what kmalloc returned and kfree has not been given

heapVars == <<used, available, extents, failed, arena, free_list, live>>

\* total_blocks of a descriptor.
TotalBlocks(block_size) == (PAGE_SIZE - ArenaSize) \div block_size

get_block_address(page, block_size, idx) ==
    page * PAGE_SIZE + ArenaSize + idx * block_size

\* get_arena_address: block & 0xfffff000.
get_arena_address(block) == block \div PAGE_SIZE

ArenaBlocks(page, block_size) ==
    {get_block_address(page, block_size, i) : i \in 0..(TotalBlocks(block_size) - 1)}

\* The first descriptor, in order of size, whose blocks are large enough.
Descriptor(size) == Min({b \in BlockSizes : size <= b})

Header(block_size, free_blocks) ==
    [block_size |-> block_size, free_blocks |-> free_blocks]
Allocation(ptr, size) == [ptr |-> ptr, size |-> size]

\* The headers once that of a new arena has been written in its first page.
Put(headers, page, header) ==
    [a \in DOMAIN headers \cup {page} |-> IF a = page THEN header ELSE headers[a]]

HeapTypeOK ==
    /\ PoolTypeOK
    /\ DOMAIN arena \subseteq Pages
    /\ \A a \in DOMAIN arena :
         /\ arena[a] = Header(arena[a].block_size, arena[a].free_blocks)
         /\ arena[a].block_size \in BlockSizes \cup {Large}
         /\ arena[a].free_blocks \in Nat
    /\ free_list \in [BlockSizes -> SUBSET Nat]
    /\ \A m \in live : /\ m = Allocation(m.ptr, m.size)
                       /\ m.ptr \in Nat
                       /\ m.size \in Requests

HeapInit ==
    /\ PoolInit
    /\ arena = [a \in {} |-> Header(Large, 0)]
    /\ free_list = [b \in BlockSizes |-> {}]
    /\ live = {}
-----------------------------------------------------------------------------
\* A large allocation whose pages are counted without the header.
Faulty_KmallocLarge_NoHeader(size) ==
    LET count == Ceil(size, PAGE_SIZE)
        page  == bitmap_scan(PageBits, used, count)
    IN  /\ size > LargeSize
        /\ AllocPages(count)
        /\ arena' = Put(arena, page, Header(Large, count))
        /\ live' = live \cup {Allocation(page * PAGE_SIZE + ArenaSize, size)}
        /\ UNCHANGED free_list

\* kmalloc of more than 1024 bytes; free_blocks of the header keeps the
\* number of pages.
KmallocLarge(size) ==
    LET count == Ceil(size + ArenaSize, PAGE_SIZE)
        page  == bitmap_scan(PageBits, used, count)
    IN  /\ size > LargeSize
        /\ AllocPages(count)
        /\ arena' = Put(arena, page, Header(Large, count))
        /\ live' = live \cup {Allocation(page * PAGE_SIZE + ArenaSize, size)}
        /\ UNCHANGED free_list

\* kmalloc of a small size when the free list of its descriptor has a block.
KmallocBlock(size) ==
    LET b == Descriptor(size)
    IN  /\ failed = NoFailure
        /\ size <= LargeSize
        /\ \E block \in free_list[b] :
             /\ free_list' = [free_list EXCEPT ![b] = @ \ {block}]
             /\ arena' = [arena EXCEPT ![get_arena_address(block)].free_blocks = @ - 1]
             /\ live' = live \cup {Allocation(block, size)}
        /\ UNCHANGED <<used, available, extents, failed>>

\* kmalloc of a small size when the free list of its descriptor is empty: a
\* page is cut into blocks, all put in the list, and one of them is taken.
KmallocArena(size) ==
    LET b    == Descriptor(size)
        page == bitmap_scan(PageBits, used, 1)
    IN  /\ size <= LargeSize
        /\ free_list[b] = {}
        /\ AllocPages(1)
        /\ arena' = Put(arena, page, Header(b, TotalBlocks(b) - 1))
        /\ \E block \in ArenaBlocks(page, b) :
             /\ free_list' = [free_list EXCEPT ![b] = ArenaBlocks(page, b) \ {block}]
             /\ live' = live \cup {Allocation(block, size)}

\* alloc_kernel_pages stops the kernel inside kmalloc.
KmallocAsserts(size) ==
    /\ IF size > LargeSize
       THEN AllocAsserts(Ceil(size + ArenaSize, PAGE_SIZE))
       ELSE free_list[Descriptor(size)] = {} /\ AllocAsserts(1)
    /\ UNCHANGED <<arena, free_list, live>>

\* A large release that returns the first page only.
Faulty_KfreeLarge_OnePage(m) ==
    LET a == get_arena_address(m.ptr)
    IN  /\ arena[a].block_size = Large
        /\ FreePages(Request(a, 1))
        /\ arena' = Restrict(arena, DOMAIN arena \ {a})
        /\ live' = live \ {m}
        /\ UNCHANGED free_list

\* kfree of a large allocation gives the pages of its arena back.
KfreeLarge(m) ==
    LET a == get_arena_address(m.ptr)
    IN  /\ arena[a].block_size = Large
        /\ FreePages(Request(a, arena[a].free_blocks))
        /\ arena' = Restrict(arena, DOMAIN arena \ {a})
        /\ live' = live \ {m}
        /\ UNCHANGED free_list

\* kfree of a block while others of its arena stay in use.
KfreeBlock(m) ==
    LET a == get_arena_address(m.ptr)
        b == arena[a].block_size
    IN  /\ failed = NoFailure
        /\ b # Large
        /\ arena[a].free_blocks + 1 # TotalBlocks(b)
        /\ free_list' = [free_list EXCEPT ![b] = @ \cup {m.ptr}]
        /\ arena' = [arena EXCEPT ![a].free_blocks = @ + 1]
        /\ live' = live \ {m}
        /\ UNCHANGED <<used, available, extents, failed>>

\* A release of the page that leaves its blocks in the free list.
Faulty_KfreeArena_ListKept(m) ==
    LET a == get_arena_address(m.ptr)
        b == arena[a].block_size
    IN  /\ b # Large
        /\ arena[a].free_blocks + 1 = TotalBlocks(b)
        /\ FreePages(Request(a, 1))
        /\ free_list' = [free_list EXCEPT ![b] = @ \cup {m.ptr}]
        /\ arena' = Restrict(arena, DOMAIN arena \ {a})
        /\ live' = live \ {m}

\* kfree of the last block of an arena: every block of the arena is taken off
\* the free list and the page goes back to the pool.
KfreeArena(m) ==
    LET a == get_arena_address(m.ptr)
        b == arena[a].block_size
    IN  /\ b # Large
        /\ arena[a].free_blocks + 1 = TotalBlocks(b)
        /\ FreePages(Request(a, 1))
        /\ free_list' = [free_list EXCEPT ![b] = (@ \cup {m.ptr}) \ ArenaBlocks(a, b)]
        /\ arena' = Restrict(arena, DOMAIN arena \ {a})
        /\ live' = live \ {m}

HeapNext ==
    \/ \E size \in Requests :
         \/ KmallocLarge(size)
         \/ KmallocBlock(size)
         \/ KmallocArena(size)
         \/ KmallocAsserts(size)
    \/ \E m \in live : KfreeLarge(m) \/ KfreeBlock(m) \/ KfreeArena(m)

HeapSpec == HeapInit /\ [][HeapNext]_heapVars
-----------------------------------------------------------------------------
Region(first, size) == [first |-> first, last |-> first + size - 1]

LiveRegions == {Region(m.ptr, m.size) : m \in live}
Headers     == {Region(a * PAGE_SIZE, ArenaSize) : a \in DOMAIN arena}
FreeBlocks  == UNION {{Region(block, b) : block \in free_list[b]} : b \in BlockSizes}
Regions     == LiveRegions \cup Headers \cup FreeBlocks

RegionsDisjoint ==
    /\ \A r, s \in Regions : r # s => r.last < s.first \/ s.last < r.first
    /\ LiveRegions \cap FreeBlocks = {}
    /\ Cardinality(LiveRegions) = Cardinality(live)

RegionsInHeldPages ==
    \A r \in Regions :
        (r.first \div PAGE_SIZE) .. (r.last \div PAGE_SIZE) \subseteq Held

\* No two of the regions the heap keeps track of share a byte: what callers
\* hold, the headers of the arenas, and the free blocks with their links; and
\* every region lies in pages the heap got from the pool and has not given
\* back.  A caller that stays within its size damages neither the heap nor
\* another, whatever kfree returns to the pool meanwhile (heap.c:92-157).
RegionsSafe == RegionsDisjoint /\ RegionsInHeldPages

\* free_blocks of a small arena is the number of its blocks in the free list.
FreeBlocksCounted ==
    \A a \in DOMAIN arena : LET b == arena[a].block_size IN
        b # Large =>
            arena[a].free_blocks = Cardinality(free_list[b] \cap ArenaBlocks(a, b))

\* A free list only holds blocks of arenas of its own descriptor.
FreeListsSound ==
    \A b \in BlockSizes : \A block \in free_list[b] :
        LET a == get_arena_address(block)
        IN  /\ a \in DOMAIN arena
            /\ arena[a].block_size = b
            /\ block \in ArenaBlocks(a, b)

\* Each block of a small arena is either in the free list or with a caller,
\* and some caller has one.
EveryBlockAccounted ==
    \A a \in DOMAIN arena : LET b == arena[a].block_size IN
        b # Large =>
            /\ \A block \in ArenaBlocks(a, b) :
                 block \in free_list[b] <=> ~ \E m \in live : m.ptr = block
            /\ arena[a].free_blocks < TotalBlocks(b)

\* The free lists, the headers and the callers agree on every block: none is
\* lost, none is in the list of a page the pool has got back, no page is kept
\* all of whose blocks have come back, and when kfree finds free_blocks equal
\* to total_blocks the search_block assertions of its loop hold
\* (heap.c:104-132, 146-156).
BlocksAccounted == FreeListsSound /\ FreeBlocksCounted /\ EveryBlockAccounted

\* The heap is a proper caller of the pool: it gives back exactly the runs of
\* pages it was handed, each as a whole and once.
UsesPoolProperly == PoolSpec
=============================================================================
